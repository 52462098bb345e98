---------------------------- MODULE CodecWorker ----------------------------
(***************************************************************************)
(* The worker thread of a codec (shared/codec_worker.h): Start and Stop as *)
(* the JS thread calls them, and WorkerLoop as the thread runs it.  The    *)
(* message handlers are virtual; a codec's module adds them as actions     *)
(* whose program counter is the type of the message being handled.         *)
(***************************************************************************)
EXTENDS ControlMessageQueue

CONSTANT
  ThreadStarts   \* outcomes of std::thread's constructor: FALSE = it threw

ASSUME ThreadStartsAssumption == ThreadStarts \in (SUBSET BOOLEAN) \ {{}}

VARIABLES
  running,      \* running_
  shouldExit,   \* should_exit_
  wpc,          \* where the worker thread is; "off" when there is none
  msg           \* the message being handled, NoMessage between messages

workerVars == <<running, shouldExit, wpc, msg>>

NoMessage == [type |-> "none"]

WorkerInit ==
  /\ running = FALSE
  /\ shouldExit = FALSE
  /\ wpc = "off"
  /\ msg = NoMessage

(* Start: nothing if running_ is already set; otherwise clear should_exit_ *)
(* and create the thread, unless its creation throws.                      *)
Start ==
  IF running
  THEN UNCHANGED workerVars
  ELSE \E started \in ThreadStarts :
         /\ shouldExit' = FALSE
         /\ running' = started
         /\ wpc' = IF started THEN "top" ELSE wpc
         /\ UNCHANGED msg

(* Mutant: Stop that does not raise should_exit_.                          *)
SignalStopQueueOnly ==
  /\ UNCHANGED shouldExit
  /\ qclosed' = (qclosed \/ running)

(* The first half of Stop, before the join: raise should_exit_ and shut    *)
(* the queue down.  Nothing at all when the worker is not running.         *)
SignalStop ==
  /\ shouldExit' = (shouldExit \/ running)
  /\ qclosed' = (qclosed \/ running)

(* Mutant: the thread is detached and not joined.                          *)
JoinDetaches == running' = FALSE /\ UNCHANGED wpc

(* The second half of Stop: join returns once the thread has ended.        *)
Join ==
  /\ running => wpc = "exited"
  /\ running' = FALSE
  /\ wpc' = IF running THEN "off" ELSE wpc

(* WorkerLoop's condition, tested between two messages.                    *)
LoopTest ==
  /\ wpc = "top"
  /\ wpc' = IF shouldExit THEN "exited" ELSE "wait"
  /\ UNCHANGED <<running, shouldExit, msg, queueVars>>

(* WorkerLoop's DequeueFor and std::visit: the handler for the type of the *)
(* message starts.                                                         *)
Dispatch ==
  /\ wpc = "wait"
  /\ TakeFront
  /\ msg' = Head(queue)
  /\ wpc' = Head(queue).type
  /\ UNCHANGED <<running, shouldExit>>

(* WorkerLoop's DequeueFor that came back empty-handed.                    *)
Timeout ==
  /\ wpc = "wait"
  /\ TakeNothing
  /\ wpc' = "top"
  /\ UNCHANGED <<running, shouldExit, msg>>

(* A handler moves on to its next program point, or returns to the loop.   *)
Goto(point) ==
  /\ wpc' = point
  /\ UNCHANGED <<running, shouldExit, msg>>

Return ==
  /\ wpc' = "top"
  /\ msg' = NoMessage
  /\ UNCHANGED <<running, shouldExit>>
=============================================================================
