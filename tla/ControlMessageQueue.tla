------------------------ MODULE ControlMessageQueue ------------------------
(***************************************************************************)
(* The control message queue of a codec (shared/control_message_queue.h):  *)
(* a FIFO shared by the JS thread, which enqueues, clears and shuts it     *)
(* down, and by one worker thread, which dequeues.  Every method holds     *)
(* mutex_ for its whole body, so a method is one atomic operation here.    *)
(*                                                                         *)
(* The operators describe the effect of a method on the queue variables    *)
(* only; the modules that extend this one conjoin them into the actions of *)
(* the two threads.                                                        *)
(***************************************************************************)
EXTENDS Naturals, Sequences

VARIABLES
  queue,     \* queue_:   the messages, oldest first
  qclosed,   \* closed_:  set by Shutdown and never cleared
  blocked    \* blocked_: [[message queue blocked]], written but never read

queueVars == <<queue, qclosed, blocked>>

QueueInit ==
  /\ queue = <<>>
  /\ qclosed = FALSE
  /\ blocked = FALSE

(* Mutant: the message goes to the end the worker takes from.              *)
EnqueueFirst(m) ==
  /\ queue' = IF qclosed THEN queue ELSE <<m>> \o queue
  /\ UNCHANGED qclosed

(* Enqueue returns false, and drops the message, once the queue is closed. *)
Enqueue(m) ==
  /\ queue' = IF qclosed THEN queue ELSE Append(queue, m)
  /\ UNCHANGED qclosed

(* DequeueFor that returns a message: also from a closed queue, as long as *)
(* something is left in it.                                                *)
TakeFront ==
  /\ queue # <<>>
  /\ queue' = Tail(queue)
  /\ UNCHANGED <<qclosed, blocked>>

(* DequeueFor that returns nothing: it timed out, or the queue is closed   *)
(* and empty.                                                              *)
TakeNothing ==
  /\ queue = <<>>
  /\ UNCHANGED queueVars

(* Clear followed by Enqueue, with nothing the worker could do in between  *)
(* that matters: Clear drops every message, so the new one is alone.       *)
ClearThenEnqueue(m) ==
  /\ queue' = IF qclosed THEN <<>> ELSE <<m>>
  /\ UNCHANGED qclosed

Shutdown == qclosed' = TRUE

SetBlocked(b) == blocked' = b
=============================================================================
