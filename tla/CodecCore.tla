----------------------------- MODULE CodecCore -----------------------------
(***************************************************************************)
(* The state the four codec classes (VideoDecoder, AudioDecoder,           *)
(* VideoEncoder, AudioEncoder) have in common besides queue and worker     *)
(* thread, and the operations on it that are smaller than a step: the      *)
(* atomic state, the four thread-safe functions that carry results from    *)
(* the worker to the JS thread, the queue-size attribute with its          *)
(* coalesced dequeue event, and the pending flush promises.                *)
(*                                                                         *)
(* A thread-safe function (TSFN) is its own FIFO into the JS event loop;   *)
(* nothing orders the deliveries of two different ones.  Errors and        *)
(* dequeue events carry no data that matters, so their FIFOs are counts.   *)
(***************************************************************************)
EXTENDS CodecWorker, Integers, FiniteSets

CONSTANTS
  SizeModulus,   \* one more than the largest queue size (2^32 in the code)
  MaxInputs,     \* bound on the chunks (frames) given to decode (encode)
  MaxFlushes,    \* bound on flush() calls
  MaxConfigures, \* bound on configure() calls
  MaxResets,     \* bound on reset() calls
  SupportedCodecs,    \* codec strings ParseCodecString and FFmpeg know
  UnsupportedCodecs,  \* codec strings they do not
  Descriptions        \* values of the optional members of a config

ASSUME SizeModulusAssumption == SizeModulus \in Nat /\ SizeModulus > MaxInputs
ASSUME BoundsAssumption ==
  /\ MaxInputs \in Nat
  /\ MaxFlushes \in Nat
  /\ MaxConfigures \in Nat
  /\ MaxResets \in Nat
ASSUME CodecStringsAssumption == SupportedCodecs \cap UnsupportedCodecs = {}

VARIABLES
  state,      \* state_: the codec's AtomicCodecState
  outQ,       \* output_tsfn_:  inputs whose output is on its way to JS
  errs,       \* error_tsfn_:   number of errors on their way to JS
  flushQ,     \* flush_tsfn_:   flush completions on their way to JS
  deqs,       \* dequeue_tsfn_: number of dequeue events on their way to JS
  size,       \* decode_queue_size_ / encode_queue_size_
  deqFlag,    \* dequeue_event_scheduled_
  pending,    \* the keys of pending_flushes_
  nextFlush,  \* next_flush_id_
  closing,    \* how far a Release has come on the JS thread
  jsIn        \* the JS callback the JS thread is inside of

VARIABLES     \* bounding counters and history variables: no code reads them
  inputs,     \* inputs accepted so far; input n is the n-th one
  configures, \* configure() calls so far
  resets,     \* reset() calls so far
  settled,    \* what became of each flush promise
  flushMark,  \* for each flush, the inputs accepted before it
  resetMark,  \* the inputs accepted before the last reset()
  lastOut     \* the input whose output JS received last

tsfnVars  == <<outQ, errs, flushQ, deqs>>
sizeVars  == <<size, deqFlag>>
flushVars == <<pending, nextFlush, settled, flushMark>>
countVars == <<inputs, configures, resets, resetMark>>
jsVars    == <<state, closing, jsIn>>

coreVars == <<queueVars, workerVars, tsfnVars, sizeVars, flushVars, countVars,
              jsVars, lastOut>>

Inputs == 1 .. MaxInputs
FlushIds == 0 .. MaxFlushes - 1

(* An absent optional member, and the codec string before any configure(). *)
Absent == "absent"

Codecs == SupportedCodecs \cup UnsupportedCodecs

(* ParseCodecString refuses the empty string (codec_registry.cpp:154).     *)
ASSUME AbsentAssumption == Absent \notin SupportedCodecs

(* A config as JS passes it and as active_config_ holds it; "desc" stands  *)
(* for every optional member (dimensions, description, hints).             *)
Config == [codec : Codecs \cup {Absent}, desc : Descriptions \cup {Absent}]

NoConfig == [codec |-> Absent, desc |-> Absent]

(* The messages in a queue and in a worker's hand.  The config of a        *)
(* configure message is the one the call was made with; no handler reads   *)
(* it.  The last variant is a chunk to decode or a frame to encode.        *)
ConfigureMessages == [type : {"configure"}, cfg : Config]
FlushMessages == [type : {"flush"}, id : FlushIds]
ResetMessages == [type : {"reset"}]
WorkMessages == [type : {"decode", "encode"}, id : Inputs, key : BOOLEAN]

Messages ==
  ConfigureMessages \cup FlushMessages \cup ResetMessages \cup WorkMessages

(* Where a worker is while it handles a message of each kind.              *)
ConfigurePoints == {"configure", "open"}
WorkPoints      == {"decode", "encode", "receive", "count", "signal"}
FlushPoints     == {"flush", "drain"}

HandlerPoints == ConfigurePoints \cup WorkPoints \cup FlushPoints \cup {"reset"}
LoopPoints    == {"off", "top", "wait", "exited"}

PointsOf(type) ==
  CASE type = "configure" -> ConfigurePoints
    [] type \in {"decode", "encode"} -> WorkPoints
    [] type = "flush" -> FlushPoints
    [] type = "reset" -> {"reset"}

CoreInit ==
  /\ QueueInit
  /\ WorkerInit
  /\ state = "unconfigured"
  /\ outQ = <<>> /\ errs = 0 /\ flushQ = <<>> /\ deqs = 0
  /\ size = 0 /\ deqFlag = FALSE
  /\ pending = {} /\ nextFlush = 0
  /\ settled = [f \in FlushIds |-> "unset"]
  /\ flushMark = [f \in FlushIds |-> 0]
  /\ closing = "no" /\ jsIn = "no"
  /\ inputs = 0 /\ configures = 0 /\ resets = 0
  /\ resetMark = 0 /\ lastOut = 0

-----------------------------------------------------------------------------
(* The JS thread.                                                          *)

(* JavaScript can call a method unless the thread is blocked in Release;   *)
(* also from within a callback.  The event loop delivers a TSFN call only  *)
(* when no JavaScript is running.                                          *)
JsMayCall == closing = "no"
EventLoop == closing = "no" /\ jsIn = "no"

(* A finished Release: only SignalStop ever shuts the queue down while the *)
(* worker runs, and FinishRelease does in any case.                        *)
Released == qclosed /\ closing = "no"

(* AtomicCodecState::transition, a compare-and-swap.                       *)
Transition(from, to) == state' = IF state = from THEN to ELSE state

(* The queue size is a uint32_t.                                           *)
Inc(n) == (n + 1) % SizeModulus
Dec(n) == IF n = 0 THEN SizeModulus - 1 ELSE n - 1

(* SafeThreadSafeFunction::Call never fails: every TSFN is initialised in  *)
(* the constructor and unref'd at once, which makes Release a no-op.       *)
Post(tsfn, item) == Append(tsfn, item)

(* Flush: a promise is created, stored under the next id and the message   *)
(* is queued.  When the queue refuses it the stored promise is removed     *)
(* again, and the one returned instead is never settled.                   *)
OpenFlush ==
  /\ nextFlush < MaxFlushes
  /\ nextFlush' = nextFlush + 1
  /\ pending' = IF qclosed THEN pending ELSE pending \cup {nextFlush}
  /\ UNCHANGED settled
  /\ flushMark' = [flushMark EXCEPT ![nextFlush] = inputs]
  /\ Enqueue([type |-> "flush", id |-> nextFlush])

(* Mutant: the completion is believed without a look at pending_flushes_.  *)
SettleFlushUnchecked(completion) ==
  /\ settled' = [settled EXCEPT ![completion.id] =
                   IF completion.ok THEN "resolved" ELSE "rejected"]
  /\ pending' = pending \ {completion.id}
  /\ UNCHANGED <<nextFlush, flushMark>>

(* A flush completion settles its promise if that is still pending.        *)
SettleFlush(completion) ==
  /\ settled' = IF completion.id \in pending
                THEN [settled EXCEPT ![completion.id] =
                        IF completion.ok THEN "resolved" ELSE "rejected"]
                ELSE settled
  /\ pending' = pending \ {completion.id}
  /\ UNCHANGED <<nextFlush, flushMark>>

(* Every pending flush promise is rejected with an AbortError.             *)
RejectFlushes ==
  /\ settled' = [f \in FlushIds |->
                   IF f \in pending THEN "rejected" ELSE settled[f]]
  /\ pending' = {}
  /\ UNCHANGED <<nextFlush, flushMark>>

(* Every pending flush promise is forgotten without being settled.         *)
AbandonFlushes ==
  /\ pending' = {}
  /\ UNCHANGED <<nextFlush, settled, flushMark>>

-----------------------------------------------------------------------------
(* The callbacks the worker thread posts results with.                     *)

(* The output and error callbacks drop what a closed codec produces.       *)
OutputFrame(input) ==
  outQ' = IF state = "closed" THEN outQ ELSE Post(outQ, input)

OutputError ==
  errs' = IF state = "closed" THEN errs ELSE errs + 1

(* The flush callback does not look at the state.                          *)
FlushComplete(id, ok) == flushQ' = Post(flushQ, [id |-> id, ok |-> ok])

(* Mutant: every decrement posts an event of its own.                      *)
SignalDequeueAlways ==
  IF state = "closed"
  THEN UNCHANGED <<deqFlag, deqs>>
  ELSE deqFlag' = TRUE /\ deqs' = deqs + 1

(* The dequeue callback: unless closed, schedule one event if none is      *)
(* scheduled yet (compare-and-swap on dequeue_event_scheduled_).           *)
SignalDequeue ==
  IF state = "closed" \/ deqFlag
  THEN UNCHANGED <<deqFlag, deqs>>
  ELSE deqFlag' = TRUE /\ deqs' = deqs + 1

(* What no run of a worker handler changes: the JS thread owns it.         *)
JsOwned == <<jsVars, flushVars, countVars, lastOut>>
=============================================================================
