------------------------------- MODULE Codec -------------------------------
(***************************************************************************)
(* The frame every codec class is built on, as actions over the state of   *)
(* CodecCore: the methods as far as they are the same for all four, the    *)
(* TSFN handlers, Release around the join, and WorkerLoop.  The message    *)
(* handlers are left open: HandlerStep says what a handler may do to the   *)
(* shared state in one step, whatever FFmpeg answers.                      *)
(*                                                                         *)
(* CodecSpec is thus an abstract codec.  The modules of the four classes   *)
(* conjoin the actions below with what each of them adds, put their own    *)
(* handlers in the place of HandlerStep, and implement CodecSpec.          *)
(*                                                                         *)
(* A method is one step except where it blocks (Release, at the join), and *)
(* a TSFN handler is one step except where it writes state after it called *)
(* back into JavaScript (OnError, OnDequeue).                              *)
(***************************************************************************)
EXTENDS CodecCore

-----------------------------------------------------------------------------
(* Methods.                                                                *)

(* configure() that throws after its bookkeeping has begun.                *)
RefuseConfigure ==
  /\ JsMayCall
  /\ state # "closed"
  /\ configures < MaxConfigures
  /\ configures' = configures + 1
  /\ UNCHANGED <<queueVars, workerVars, tsfnVars, sizeVars, flushVars, jsVars,
                 inputs, resets, resetMark, lastOut>>

(* configure(): start the worker, queue the message, become configured.    *)
AcceptConfigure(cfg) ==
  /\ JsMayCall
  /\ state # "closed"
  /\ configures < MaxConfigures
  /\ configures' = configures + 1
  /\ Start
  /\ Enqueue([type |-> "configure", cfg |-> cfg])
  /\ IF qclosed THEN UNCHANGED state
                ELSE Transition("unconfigured", "configured")
  /\ UNCHANGED <<tsfnVars, sizeVars, flushVars, closing, jsIn,
                 inputs, resets, resetMark, lastOut>>

(* decode() / encode(): count the request and queue it, in this order, so  *)
(* that the worker never sees the message without the count.               *)
AcceptInput(type, key) ==
  /\ JsMayCall
  /\ state = "configured"
  /\ inputs < MaxInputs
  /\ inputs' = inputs + 1
  /\ size' = IF qclosed THEN size ELSE Inc(size)
  /\ Enqueue([type |-> type, id |-> inputs + 1, key |-> key])
  /\ UNCHANGED <<blocked, workerVars, tsfnVars, deqFlag, flushVars,
                 jsVars, configures, resets, resetMark, lastOut>>

(* decode() / encode() that throws before it counted the request.          *)
RefuseInput ==
  /\ JsMayCall
  /\ state = "configured"
  /\ UNCHANGED coreVars

RequestFlush ==
  /\ JsMayCall
  /\ state = "configured"
  /\ OpenFlush
  /\ UNCHANGED <<blocked, workerVars, tsfnVars, sizeVars, jsVars, countVars,
                 lastOut>>

(* reset(): drop every message and count, reject the promises, tell the    *)
(* worker.                                                                 *)
ResetAll ==
  /\ JsMayCall
  /\ state # "closed"
  /\ resets < MaxResets
  /\ resets' = resets + 1
  /\ resetMark' = inputs
  /\ ClearThenEnqueue([type |-> "reset"])
  /\ size' = 0
  /\ RejectFlushes
  /\ Transition("configured", "unconfigured")
  /\ UNCHANGED <<blocked, workerVars, tsfnVars, deqFlag, closing, jsIn,
                 inputs, configures, lastOut>>

(* close() is Release in three steps.  First the state, then Stop's signal,*)
(* then, once the worker was joined, the rest.  Whether the promises are   *)
(* rejected before Release is the codec's own.                             *)
BeginRelease ==
  /\ JsMayCall
  /\ ~Released
  /\ state' = "closed"
  /\ closing' = "stop"
  /\ UNCHANGED <<queueVars, workerVars, tsfnVars, sizeVars, countVars, jsIn,
                 lastOut>>

StopWorker ==
  /\ closing = "stop"
  /\ SignalStop
  /\ closing' = "join"
  /\ UNCHANGED <<queue, blocked, running, wpc, msg, tsfnVars, sizeVars, flushVars,
                 countVars, state, jsIn, lastOut>>

FinishRelease ==
  /\ closing = "join"
  /\ Join
  /\ Shutdown
  /\ AbandonFlushes
  /\ size' = 0
  /\ closing' = "no"
  /\ UNCHANGED <<queue, blocked, shouldExit, msg, tsfnVars, deqFlag,
                 countVars, state, jsIn, lastOut>>

(* A later close() finds everything as it would leave it.                  *)
CloseAgain ==
  /\ JsMayCall
  /\ Released
  /\ UNCHANGED coreVars

-----------------------------------------------------------------------------
(* TSFN handlers: the JS thread, called by the event loop.                 *)

DeliverOutput ==
  /\ EventLoop
  /\ outQ # <<>>
  /\ outQ' = Tail(outQ)
  /\ lastOut' = IF state = "closed" THEN lastOut ELSE Head(outQ)
  /\ UNCHANGED <<queueVars, workerVars, errs, flushQ, deqs, sizeVars, flushVars,
                 jsVars, countVars>>

(* OnError calls the error callback and closes the codec when that         *)
(* returns; in between JavaScript may call any method.                     *)
DeliverError ==
  /\ EventLoop
  /\ errs > 0
  /\ errs' = errs - 1
  /\ jsIn' = IF state = "closed" THEN jsIn ELSE "onerror"
  /\ UNCHANGED <<queueVars, workerVars, outQ, flushQ, deqs, sizeVars, flushVars,
                 countVars, state, closing, lastOut>>

(* Mutant: only a configured codec is closed (a compare-and-swap).         *)
ErrorReturnsSwaps ==
  /\ closing = "no"
  /\ jsIn = "onerror"
  /\ Transition("configured", "closed")
  /\ jsIn' = "no"
  /\ UNCHANGED <<queueVars, workerVars, tsfnVars, sizeVars, flushVars, countVars,
                 closing, lastOut>>

ErrorReturns ==
  /\ closing = "no"
  /\ jsIn = "onerror"
  /\ state' = "closed"
  /\ jsIn' = "no"
  /\ UNCHANGED <<queueVars, workerVars, tsfnVars, sizeVars, flushVars, countVars,
                 closing, lastOut>>

DeliverFlush ==
  /\ EventLoop
  /\ flushQ # <<>>
  /\ flushQ' = Tail(flushQ)
  /\ SettleFlush(Head(flushQ))
  /\ UNCHANGED <<queueVars, workerVars, outQ, errs, deqs, sizeVars, jsVars,
                 countVars, lastOut>>

(* OnDequeue calls the ondequeue callback and lowers the flag when that    *)
(* returns.                                                                *)
DeliverDequeue ==
  /\ EventLoop
  /\ deqs > 0
  /\ deqs' = deqs - 1
  /\ IF state = "closed"
     THEN UNCHANGED jsIn
     ELSE jsIn' = "ondequeue"
  /\ UNCHANGED <<queueVars, workerVars, outQ, errs, flushQ, size, deqFlag,
                 flushVars, countVars, state, closing, lastOut>>

(* Mutant: the flag is not lowered.                                        *)
DequeueReturnsKeepsFlag ==
  /\ closing = "no"
  /\ jsIn = "ondequeue"
  /\ jsIn' = "no"
  /\ UNCHANGED <<queueVars, workerVars, tsfnVars, sizeVars, flushVars, countVars,
                 state, closing, lastOut>>

DequeueReturns ==
  /\ closing = "no"
  /\ jsIn = "ondequeue"
  /\ deqFlag' = FALSE
  /\ jsIn' = "no"
  /\ UNCHANGED <<queueVars, workerVars, tsfnVars, size, flushVars,
                 countVars, state, closing, lastOut>>

-----------------------------------------------------------------------------
(* The worker thread.                                                      *)

WorkerLoop ==
  /\ LoopTest \/ Dispatch \/ Timeout
  /\ UNCHANGED <<tsfnVars, sizeVars, JsOwned>>

(* A step of a handler: it stays at the message or returns to the loop,    *)
(* which for a flush takes a completion; along the way it may output,      *)
(* report, count and signal, and touches nothing else of the shared state. *)
HandlerStays ==
  /\ wpc' \in PointsOf(msg.type)
  /\ UNCHANGED <<msg, flushQ>>

HandlerReturns ==
  /\ wpc' = "top"
  /\ msg' = NoMessage
  /\ IF msg.type = "flush"
     THEN \E ok \in BOOLEAN : FlushComplete(msg.id, ok)
     ELSE UNCHANGED flushQ

HandlerStep ==
  /\ wpc \in HandlerPoints
  /\ HandlerStays \/ HandlerReturns
  /\ UNCHANGED outQ \/ \E n \in Inputs : OutputFrame(n)
  /\ UNCHANGED errs \/ OutputError
  /\ size' \in {size, Dec(size)}
  /\ UNCHANGED <<deqFlag, deqs>> \/ SignalDequeue
  /\ blocked' \in BOOLEAN
  /\ UNCHANGED <<queue, qclosed, running, shouldExit, JsOwned>>

-----------------------------------------------------------------------------

ReleaseStep == StopWorker \/ FinishRelease

CallbackReturn == ErrorReturns \/ DequeueReturns

(* All steps but those of the handlers.                                    *)
FrameNext ==
  \/ RefuseConfigure
  \/ \E cfg \in Config : AcceptConfigure(cfg) /\ blocked' \in BOOLEAN
  \/ \E type \in {"decode", "encode"}, key \in BOOLEAN : AcceptInput(type, key)
  \/ RefuseInput
  \/ RequestFlush
  \/ ResetAll
  \/ BeginRelease /\ (UNCHANGED flushVars \/ RejectFlushes)
  \/ ReleaseStep
  \/ CloseAgain
  \/ DeliverOutput \/ DeliverError \/ DeliverFlush \/ DeliverDequeue
  \/ CallbackReturn
  \/ WorkerLoop

CodecNext == FrameNext \/ HandlerStep

(* The abstract codec: what each of the four classes implements, whatever  *)
(* FFmpeg answers its worker.                                              *)
CodecSpec == CoreInit /\ [][CodecNext]_coreVars

-----------------------------------------------------------------------------
(* Invariants.                                                             *)

(* The types of the shared variables.  A thread exists exactly while       *)
(* running_ is set, and has a message in hand exactly while it handles it. *)
QueueType ==
  /\ queue \in Seq(Messages)
  /\ qclosed \in BOOLEAN
  /\ blocked \in BOOLEAN

WorkerType ==
  /\ running \in BOOLEAN
  /\ shouldExit \in BOOLEAN
  /\ wpc \in LoopPoints \cup HandlerPoints
  /\ running <=> wpc # "off"
  /\ IF wpc \in HandlerPoints THEN msg \in Messages /\ wpc \in PointsOf(msg.type)
                              ELSE msg = NoMessage

TsfnType ==
  /\ outQ \in Seq(Inputs)
  /\ errs \in Nat
  /\ flushQ \in Seq([id : FlushIds, ok : BOOLEAN])
  /\ deqs \in Nat

SizeType ==
  /\ size \in 0 .. SizeModulus - 1
  /\ deqFlag \in BOOLEAN

FlushType ==
  /\ pending \subseteq FlushIds
  /\ nextFlush \in 0 .. MaxFlushes
  /\ settled \in [FlushIds -> {"unset", "resolved", "rejected"}]
  /\ flushMark \in [FlushIds -> 0 .. MaxInputs]

JsType ==
  /\ state \in {"unconfigured", "configured", "closed"}
  /\ closing \in {"no", "stop", "join"}
  /\ jsIn \in {"no", "onerror", "ondequeue"}

CountType ==
  /\ inputs \in 0 .. MaxInputs
  /\ configures \in 0 .. MaxConfigures
  /\ resets \in 0 .. MaxResets
  /\ resetMark \in 0 .. MaxInputs
  /\ lastOut \in 0 .. MaxInputs

CoreTypeOK ==
  /\ QueueType /\ WorkerType /\ TsfnType /\ SizeType /\ FlushType
  /\ JsType /\ CountType

(* Once close() has returned the worker thread is gone, nothing is pending *)
(* and the queue size is zero, and the queue was never shut down for any   *)
(* other reason: methods of an open codec always get their messages into   *)
(* the queue (Release, Stop; the Enqueue calls of the methods).            *)
ReleaseIsFinal ==
  /\ Released => /\ wpc = "off" /\ ~running
                 /\ pending = {} /\ size = 0
  /\ qclosed \/ shouldExit \/ closing # "no" => state = "closed"

(* At most one dequeue event is scheduled, and as long as the codec is     *)
(* open dequeue_event_scheduled_ is set exactly while one is in flight or  *)
(* its callback runs: no event is doubled, and none is suppressed for ever *)
(* (SetDequeueCallback's compare-and-swap against OnDequeue's store).      *)
DequeueEventsInFlight == deqs + (IF jsIn = "ondequeue" THEN 1 ELSE 0)

DequeueCoalesced ==
  /\ DequeueEventsInFlight <= 1
  /\ state # "closed" => (deqFlag <=> DequeueEventsInFlight = 1)

(* Every pending flush promise has its completion under way: its message   *)
(* is queued, the worker is handling it, or the completion is in the TSFN. *)
(* So no path of the worker, and no shutdown, loses a flush.               *)
FlushHandled(f) ==
  \/ \E i \in DOMAIN queue : queue[i] = [type |-> "flush", id |-> f]
  \/ msg = [type |-> "flush", id |-> f]
  \/ \E i \in DOMAIN flushQ : flushQ[i].id = f

FlushTracked == \A f \in pending : FlushHandled(f)

(* The requests that are queued, or in the worker's hand and not counted.  *)
IsWork(m) == m.type \in {"decode", "encode"}
WorkAhead == Cardinality({i \in DOMAIN queue : IsWork(queue[i])})
WorkInHand == IF wpc \in WorkPoints \ {"signal"} THEN 1 ELSE 0

(* The queue size is the number of requests not yet processed, except that *)
(* each reset() may leave it one too low, and so wrapped below zero: it    *)
(* stores 0 under a worker that still has a request to count.              *)
SizeIsExact ==
  \E k, wraps \in 0 .. resets :
    size + k = WorkAhead + WorkInHand + wraps * SizeModulus

(* It is, as long as no error is on its way to JS: every path of OnDecode  *)
(* and OnEncode that does not decrement it reports an error that will close*)
(* the codec, or runs during shutdown.                                     *)
QueueSizeExact ==
  state # "closed" /\ errs = 0 /\ jsIn # "onerror" => SizeIsExact

(* The two audio codecs keep it so whatever fails: signal_dequeue_on_exit  *)
(* is called on all paths of the handler (the comments at                  *)
(* audio_decoder.cpp:778 and audio_encoder.cpp:785).                       *)
QueueSizeAlwaysExact == state # "closed" => SizeIsExact

(* Every flush promise is settled by the time close() returns, in the two  *)
(* audio codecs, which reject them ("Reject all pending flush promises",   *)
(* video_decoder.cpp:96, where the video codecs forget them).              *)
CloseSettlesFlushes ==
  Released => \A f \in FlushIds : f < nextFlush => settled[f] # "unset"

-----------------------------------------------------------------------------
(* Action properties.                                                      *)

(* Nothing is posted to JavaScript after close() returned: no TSFN grows   *)
(* (the comment "No calls after Release()" of shared/safe_tsfn.h:42, which *)
(* holds because of the join and not because of the TSFN's own flag).      *)
NoPostAfterRelease ==
  [][Released => /\ Len(outQ') <= Len(outQ) /\ errs' <= errs
                 /\ Len(flushQ') <= Len(flushQ) /\ deqs' <= deqs]_coreVars

(* A flush promise is settled at most once: a completion that arrives      *)
(* after reset() rejected the promise, or for an older flush, finds it     *)
(* gone (pending_flushes_.find in OnFlushComplete).                        *)
SettledOnce ==
  [][\A f \in FlushIds : settled[f] # "unset" => settled'[f] = settled[f]]_coreVars

(* The map of pending flush promises that the codecs keep by hand is a     *)
(* PromiseTracker: ids are given out in order, only a pending promise is   *)
(* settled, reset() rejects them all and Release forgets them all, and     *)
(* nothing else touches a promise (pending_flushes_, next_flush_id_).      *)
Promises == INSTANCE PromiseTracker WITH
  FirstId <- 0, MaxPromises <- MaxFlushes,
  nextId <- nextFlush, pending <- pending, outcome <- settled

FlushPromises == Promises!TrackerSpec

-----------------------------------------------------------------------------
(* Liveness.                                                               *)

(* close() returns: the worker always comes to the end of what it is doing *)
(* and sees should_exit_, so the join does not block the JS thread.        *)
CloseReturns == closing # "no" ~> closing = "no"

(* Every flush promise is settled unless the codec is closed first, if     *)
(* there is a worker thread.                                               *)
FlushSettles ==
  \A f \in FlushIds : f \in pending /\ running ~> settled[f] # "unset" \/ Released

(* An error report closes the codec, even when the error callback resets   *)
(* and reconfigures it.                                                    *)
ErrorCloses == errs > 0 ~> state = "closed"

(* A scheduled dequeue event fires, or the codec is closed.                *)
DequeueFires == deqFlag ~> ~deqFlag \/ state = "closed"

=============================================================================
