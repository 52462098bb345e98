---------------------------- MODULE CodecProofs ----------------------------
(***************************************************************************)
(* Theorems about CodecSpec, the abstract codec, for every value of its    *)
(* constants; a codec whose steps are steps of CodecNext inherits them.    *)
(*                                                                         *)
(* And the message handlers of CodecHandlers do what the abstract codec    *)
(* lets a handler do: each of their steps is a HandlerStep and keeps       *)
(* HandlerType, whichever FFmpeg calls fail, and requests, outputs and     *)
(* flushes keep their order on the way through them.  The proofs about the *)
(* codec classes cite these lemmas and theorems.                           *)
(***************************************************************************)
EXTENDS CodecHandlers, FiniteSetTheorems, TLAPS

-----------------------------------------------------------------------------
(* Data.                                                                   *)

(* A TSFN's queue holds nothing but what is posted to it.                  *)
LEMMA AppendTyped ==
  ASSUME NEW S, NEW s \in Seq(S), NEW e \in S
  PROVE  Append(s, e) \in Seq(S)
  OBVIOUS

(* The queue-size counter stays in its range under both operations.        *)
LEMMA CounterTyped ==
  \A n \in 0 .. SizeModulus - 1 :
    Inc(n) \in 0 .. SizeModulus - 1 /\ Dec(n) \in 0 .. SizeModulus - 1
  BY SizeModulusAssumption, BoundsAssumption DEF Inc, Dec

(* The handler of a message starts, and stays, at points of its own kind.  *)
LEMMA MessagePoints ==
  ASSUME NEW m \in Messages
  PROVE  /\ m.type \in PointsOf(m.type)
         /\ PointsOf(m.type) \subseteq HandlerPoints
<1>1. m.type \in {"configure", "flush", "reset", "decode", "encode"}
  BY DEF Messages, ConfigureMessages, FlushMessages, ResetMessages, WorkMessages
<1> QED
  BY <1>1 DEF PointsOf, HandlerPoints, ConfigurePoints, WorkPoints, FlushPoints

LEMMA PointsApart ==
  /\ LoopPoints \cap HandlerPoints = {}
  /\ {"off", "top", "wait", "exited"} = LoopPoints
  BY DEF LoopPoints, HandlerPoints, ConfigurePoints, WorkPoints, FlushPoints

-----------------------------------------------------------------------------
(* Type correctness: one lemma per action, one step per part of CoreTypeOK *)
(* the action can disturb.                                                 *)

LEMMA RefuseConfigureTyped ==
  ASSUME CoreTypeOK, RefuseConfigure
  PROVE  CoreTypeOK'
<1>1. CountType'
  BY BoundsAssumption DEF CoreTypeOK, CountType, RefuseConfigure
<1> QED
  BY <1>1 DEF CoreTypeOK, QueueType, WorkerType, TsfnType, SizeType, FlushType,
     JsType, RefuseConfigure, queueVars, workerVars, tsfnVars, sizeVars,
     flushVars, jsVars

LEMMA AcceptConfigureTyped ==
  ASSUME CoreTypeOK, NEW cfg \in Config, AcceptConfigure(cfg), blocked' \in BOOLEAN
  PROVE  CoreTypeOK'
<1>a. [type |-> "configure", cfg |-> cfg] \in Messages
  BY DEF Messages, ConfigureMessages
<1>1. QueueType'
  BY <1>a DEF CoreTypeOK, QueueType, AcceptConfigure, Enqueue
<1>2. WorkerType'
  <2>1. CASE UNCHANGED workerVars
    BY <2>1 DEF CoreTypeOK, WorkerType, workerVars
  <2>2. ASSUME NEW started \in ThreadStarts,
               ~running, shouldExit' = FALSE, running' = started,
               wpc' = IF started THEN "top" ELSE wpc, UNCHANGED msg
        PROVE  WorkerType'
    BY <2>2, PointsApart, ThreadStartsAssumption DEF CoreTypeOK, WorkerType
  <2> QED
    BY <2>1, <2>2 DEF AcceptConfigure, Start
<1>3. JsType'
  BY DEF CoreTypeOK, JsType, AcceptConfigure, Transition
<1>4. CountType'
  BY BoundsAssumption DEF CoreTypeOK, CountType, AcceptConfigure
<1> QED
  BY <1>1, <1>2, <1>3, <1>4 DEF CoreTypeOK, TsfnType, SizeType, FlushType,
     AcceptConfigure, tsfnVars, sizeVars, flushVars

LEMMA AcceptInputTyped ==
  ASSUME CoreTypeOK, NEW type \in {"decode", "encode"}, NEW key \in BOOLEAN,
         AcceptInput(type, key)
  PROVE  CoreTypeOK'
<1>a. [type |-> type, id |-> inputs + 1, key |-> key] \in Messages
  BY BoundsAssumption DEF CoreTypeOK, CountType, AcceptInput, Messages,
     WorkMessages, Inputs
<1>1. QueueType'
  BY <1>a DEF CoreTypeOK, QueueType, AcceptInput, Enqueue
<1>2. SizeType'
  BY CounterTyped DEF CoreTypeOK, SizeType, AcceptInput
<1>3. CountType'
  BY BoundsAssumption DEF CoreTypeOK, CountType, AcceptInput
<1> QED
  BY <1>1, <1>2, <1>3 DEF CoreTypeOK, WorkerType, TsfnType, FlushType, JsType,
     AcceptInput, workerVars, tsfnVars, flushVars, jsVars

LEMMA RequestFlushTyped ==
  ASSUME CoreTypeOK, RequestFlush
  PROVE  CoreTypeOK'
<1>m. [type |-> "flush", id |-> nextFlush] \in Messages /\ nextFlush \in FlushIds
  BY BoundsAssumption DEF CoreTypeOK, FlushType, RequestFlush, OpenFlush,
     Messages, FlushMessages, FlushIds
<1>1. QueueType'
  BY <1>m DEF CoreTypeOK, QueueType, RequestFlush, OpenFlush, Enqueue
<1>2. FlushType'
  BY <1>m, BoundsAssumption DEF CoreTypeOK, FlushType, CountType, RequestFlush,
     OpenFlush
<1> QED
  BY <1>1, <1>2 DEF CoreTypeOK, WorkerType, TsfnType, SizeType, JsType,
     CountType, RequestFlush, workerVars, tsfnVars, sizeVars, jsVars, countVars

LEMMA ResetAllTyped ==
  ASSUME CoreTypeOK, ResetAll
  PROVE  CoreTypeOK'
<1>m. [type |-> "reset"] \in Messages
  BY DEF Messages, ResetMessages
<1>1. QueueType'
  BY <1>m DEF CoreTypeOK, QueueType, ResetAll, ClearThenEnqueue
<1>2. SizeType'
  BY SizeModulusAssumption, BoundsAssumption DEF CoreTypeOK, SizeType, ResetAll
<1>3. FlushType'
  BY DEF CoreTypeOK, FlushType, ResetAll, RejectFlushes
<1>4. JsType'
  BY DEF CoreTypeOK, JsType, ResetAll, Transition
<1>5. CountType'
  BY BoundsAssumption DEF CoreTypeOK, CountType, ResetAll
<1> QED
  BY <1>1, <1>2, <1>3, <1>4, <1>5 DEF CoreTypeOK, WorkerType, TsfnType,
     ResetAll, workerVars, tsfnVars

LEMMA BeginReleaseTyped ==
  ASSUME CoreTypeOK, BeginRelease, UNCHANGED flushVars \/ RejectFlushes
  PROVE  CoreTypeOK'
<1>1. JsType'
  BY DEF CoreTypeOK, JsType, BeginRelease
<1>2. FlushType'
  BY DEF CoreTypeOK, FlushType, RejectFlushes, flushVars
<1> QED
  BY <1>1, <1>2 DEF CoreTypeOK, QueueType, WorkerType, TsfnType, SizeType,
     CountType, BeginRelease, queueVars, workerVars, tsfnVars, sizeVars,
     countVars

LEMMA StopWorkerTyped ==
  ASSUME CoreTypeOK, StopWorker
  PROVE  CoreTypeOK'
<1>1. QueueType' /\ WorkerType' /\ JsType'
  BY DEF CoreTypeOK, QueueType, WorkerType, JsType, StopWorker, SignalStop
<1> QED
  BY <1>1 DEF CoreTypeOK, TsfnType, SizeType, FlushType, CountType, StopWorker,
     tsfnVars, sizeVars, flushVars, countVars

LEMMA FinishReleaseTyped ==
  ASSUME CoreTypeOK, FinishRelease
  PROVE  CoreTypeOK'
<1>1. QueueType'
  BY DEF CoreTypeOK, QueueType, FinishRelease, Shutdown
<1>2. WorkerType'
  BY PointsApart DEF CoreTypeOK, WorkerType, FinishRelease, Join
<1>3. SizeType'
  BY SizeModulusAssumption, BoundsAssumption DEF CoreTypeOK, SizeType,
     FinishRelease
<1>4. FlushType' /\ JsType'
  BY DEF CoreTypeOK, FlushType, JsType, FinishRelease, AbandonFlushes
<1> QED
  BY <1>1, <1>2, <1>3, <1>4 DEF CoreTypeOK, TsfnType, CountType, FinishRelease,
     tsfnVars, countVars

LEMMA DeliverOutputTyped ==
  ASSUME CoreTypeOK, DeliverOutput
  PROVE  CoreTypeOK'
<1>0. outQ \in Seq(Inputs) /\ outQ # <<>>
  BY DEF CoreTypeOK, TsfnType, DeliverOutput
<1>1. Head(outQ) \in Inputs /\ Tail(outQ) \in Seq(Inputs)
  BY <1>0
<1>2. TsfnType'
  BY <1>1 DEF CoreTypeOK, TsfnType, DeliverOutput
<1>3. Head(outQ) \in 0 .. MaxInputs
  BY <1>1, BoundsAssumption DEF Inputs
<1>4. CountType'
  BY <1>3 DEF CoreTypeOK, CountType, DeliverOutput, countVars
<1> QED
  BY <1>2, <1>4 DEF CoreTypeOK, QueueType, WorkerType, SizeType, FlushType,
     JsType, DeliverOutput, queueVars, workerVars, sizeVars, flushVars, jsVars

LEMMA DeliverErrorTyped ==
  ASSUME CoreTypeOK, DeliverError
  PROVE  CoreTypeOK'
<1>1. TsfnType' /\ JsType'
  BY DEF CoreTypeOK, TsfnType, JsType, DeliverError
<1> QED
  BY <1>1 DEF CoreTypeOK, QueueType, WorkerType, SizeType, FlushType, CountType,
     DeliverError, queueVars, workerVars, sizeVars, flushVars, countVars

LEMMA DeliverFlushTyped ==
  ASSUME CoreTypeOK, DeliverFlush
  PROVE  CoreTypeOK'
<1>1. TsfnType'
  BY DEF CoreTypeOK, TsfnType, DeliverFlush
<1>2. FlushType'
  BY DEF CoreTypeOK, FlushType, TsfnType, DeliverFlush, SettleFlush
<1> QED
  BY <1>1, <1>2 DEF CoreTypeOK, QueueType, WorkerType, SizeType, JsType,
     CountType, DeliverFlush, queueVars, workerVars, sizeVars, jsVars, countVars

LEMMA DeliverDequeueTyped ==
  ASSUME CoreTypeOK, DeliverDequeue
  PROVE  CoreTypeOK'
<1>1. TsfnType'
  BY DEF CoreTypeOK, TsfnType, DeliverDequeue
<1>2. SizeType'
  BY DEF CoreTypeOK, SizeType, DeliverDequeue
<1>3. JsType'
  BY DEF CoreTypeOK, JsType, DeliverDequeue
<1> QED
  BY <1>1, <1>2, <1>3 DEF CoreTypeOK, QueueType, WorkerType, FlushType, CountType,
     DeliverDequeue, queueVars, workerVars, flushVars, countVars

LEMMA CallbackReturnTyped ==
  ASSUME CoreTypeOK, CallbackReturn
  PROVE  CoreTypeOK'
<1>1. CASE ErrorReturns
  <2>1. JsType'
    BY <1>1 DEF CoreTypeOK, JsType, ErrorReturns
  <2> QED
    BY <1>1, <2>1 DEF CoreTypeOK, QueueType, WorkerType, TsfnType, SizeType,
       FlushType, CountType, ErrorReturns, queueVars, workerVars, tsfnVars,
       sizeVars, flushVars, countVars
<1>2. CASE DequeueReturns
  <2>1. SizeType' /\ JsType'
    BY <1>2 DEF CoreTypeOK, SizeType, JsType, DequeueReturns
  <2> QED
    BY <1>2, <2>1 DEF CoreTypeOK, QueueType, WorkerType, TsfnType, FlushType,
       CountType, DequeueReturns, queueVars, workerVars, tsfnVars, flushVars,
       countVars
<1> QED
  BY <1>1, <1>2 DEF CallbackReturn

LEMMA WorkerLoopTyped ==
  ASSUME CoreTypeOK, WorkerLoop
  PROVE  CoreTypeOK'
<1>1. QueueType'
  BY DEF CoreTypeOK, QueueType, WorkerLoop, LoopTest, Dispatch, Timeout,
     TakeFront, TakeNothing, queueVars
<1>2. WorkerType'
  <2>1. CASE LoopTest \/ Timeout
    BY <2>1, PointsApart DEF CoreTypeOK, WorkerType, LoopTest, Timeout
  <2>2. CASE Dispatch
    <3>1. Head(queue) \in Messages
      BY <2>2 DEF CoreTypeOK, QueueType, Dispatch, TakeFront
    <3>2. PICK m \in Messages : m = Head(queue)
      BY <3>1
    <3>3. wpc' \in PointsOf(m.type) /\ wpc' \in HandlerPoints /\ wpc' # "off"
      BY <2>2, <3>2, MessagePoints, PointsApart DEF Dispatch
    <3> QED
      BY <2>2, <3>2, <3>3 DEF CoreTypeOK, WorkerType, Dispatch
  <2> QED
    BY <2>1, <2>2 DEF WorkerLoop
<1> QED
  BY <1>1, <1>2 DEF CoreTypeOK, TsfnType, SizeType, FlushType, JsType,
     CountType, WorkerLoop, JsOwned, tsfnVars, sizeVars, flushVars, jsVars,
     countVars

LEMMA HandlerStepTyped ==
  ASSUME CoreTypeOK, HandlerStep
  PROVE  CoreTypeOK'
<1>m. msg \in Messages /\ wpc \in PointsOf(msg.type)
  BY DEF CoreTypeOK, WorkerType, HandlerStep
<1>1. QueueType'
  BY DEF CoreTypeOK, QueueType, HandlerStep
<1>2. WorkerType'
  <2>1. running' = TRUE /\ shouldExit' \in BOOLEAN
    BY PointsApart DEF CoreTypeOK, WorkerType, HandlerStep
  <2>2. CASE HandlerStays
    <3>1. wpc' \in HandlerPoints /\ wpc' # "off"
      BY <1>m, <2>2, MessagePoints, PointsApart DEF HandlerStays
    <3> QED
      BY <1>m, <2>1, <2>2, <3>1 DEF WorkerType, HandlerStays
  <2>3. CASE HandlerReturns
    BY <2>1, <2>3, PointsApart DEF WorkerType, HandlerReturns
  <2> QED
    BY <2>2, <2>3 DEF HandlerStep
<1>3. TsfnType'
  <2>1. outQ' \in Seq(Inputs)
    <3>1. outQ \in Seq(Inputs)
      BY DEF CoreTypeOK, TsfnType
    <3>2. outQ' = outQ \/ \E n \in Inputs : outQ' = Append(outQ, n)
      BY DEF HandlerStep, OutputFrame, Post
    <3> QED
      BY <3>1, <3>2, AppendTyped
  <2>2. flushQ' \in Seq([id : FlushIds, ok : BOOLEAN])
    <3>1. flushQ \in Seq([id : FlushIds, ok : BOOLEAN])
      BY DEF CoreTypeOK, TsfnType
    <3>2. CASE UNCHANGED flushQ
      BY <3>1, <3>2
    <3>3. CASE msg.type = "flush" /\ \E ok \in BOOLEAN : FlushComplete(msg.id, ok)
      <4>1. msg.id \in FlushIds
        BY <1>m, <3>3 DEF Messages, ConfigureMessages, FlushMessages,
           ResetMessages, WorkMessages
      <4>2. PICK c \in [id : FlushIds, ok : BOOLEAN] : flushQ' = Append(flushQ, c)
        BY <3>3, <4>1 DEF FlushComplete, Post
      <4> QED
        BY <3>1, <4>2, AppendTyped
    <3> QED
      BY <3>2, <3>3 DEF HandlerStep, HandlerStays, HandlerReturns
  <2>3. errs' \in Nat
    BY DEF CoreTypeOK, TsfnType, HandlerStep, OutputError
  <2>4. deqs' \in Nat
    BY DEF CoreTypeOK, TsfnType, HandlerStep, SignalDequeue
  <2> QED
    BY <2>1, <2>2, <2>3, <2>4 DEF TsfnType
<1>4. SizeType'
  <2>1. size' \in 0 .. SizeModulus - 1
    BY CounterTyped DEF CoreTypeOK, SizeType, HandlerStep
  <2>2. deqFlag' \in BOOLEAN
    BY DEF CoreTypeOK, SizeType, HandlerStep, SignalDequeue
  <2> QED
    BY <2>1, <2>2 DEF SizeType
<1> QED
  BY <1>1, <1>2, <1>3, <1>4 DEF CoreTypeOK, FlushType, JsType, CountType,
     HandlerStep, JsOwned, flushVars, jsVars, countVars

LEMMA UnchangedTyped ==
  ASSUME CoreTypeOK, UNCHANGED coreVars
  PROVE  CoreTypeOK'
  BY DEF CoreTypeOK, QueueType, WorkerType, TsfnType, SizeType, FlushType,
     JsType, CountType, coreVars, queueVars, workerVars, tsfnVars, sizeVars,
     flushVars, countVars, jsVars

LEMMA InitTyped == CoreInit => CoreTypeOK
<1> SUFFICES ASSUME CoreInit PROVE CoreTypeOK
  OBVIOUS
<1>1. queue \in Seq(Messages) /\ outQ \in Seq(Inputs)
  BY DEF CoreInit, QueueInit
<1>2. flushQ \in Seq([id : FlushIds, ok : BOOLEAN])
  BY DEF CoreInit
<1>3. QueueType
  BY <1>1 DEF CoreInit, QueueInit, QueueType
<1>4. WorkerType
  BY PointsApart DEF CoreInit, WorkerInit, WorkerType
<1>5. errs \in Nat /\ deqs \in Nat
  BY DEF CoreInit
<1>6. TsfnType
  BY <1>1, <1>2, <1>5 DEF TsfnType
<1>7. size \in 0 .. SizeModulus - 1
  BY SizeModulusAssumption, BoundsAssumption DEF CoreInit
<1>8. SizeType
  BY <1>7 DEF CoreInit, SizeType
<1>9. FlushType
  BY BoundsAssumption DEF CoreInit, FlushType
<1>10. JsType /\ CountType
  BY BoundsAssumption DEF CoreInit, JsType, CountType
<1> QED
  BY <1>3, <1>4, <1>6, <1>8, <1>9, <1>10 DEF CoreTypeOK

LEMMA StepTyped == CoreTypeOK /\ [CodecNext]_coreVars => CoreTypeOK'
<1> SUFFICES ASSUME CoreTypeOK, [CodecNext]_coreVars PROVE CoreTypeOK'
  OBVIOUS
<1>1. CASE RefuseInput \/ CloseAgain \/ UNCHANGED coreVars
  BY <1>1, UnchangedTyped DEF RefuseInput, CloseAgain
<1> QED
  BY <1>1, RefuseConfigureTyped, AcceptConfigureTyped, AcceptInputTyped,
     RequestFlushTyped, ResetAllTyped, BeginReleaseTyped, StopWorkerTyped,
     FinishReleaseTyped, DeliverOutputTyped, DeliverErrorTyped,
     DeliverFlushTyped, DeliverDequeueTyped, CallbackReturnTyped,
     WorkerLoopTyped, HandlerStepTyped DEF CodecNext, FrameNext, ReleaseStep

(* Every shared variable keeps its type, and the worker at each of its     *)
(* program points holds a message of the kind handled there.               *)
THEOREM TypeCorrect == CodecSpec => []CoreTypeOK
  BY InitTyped, StepTyped, PTL DEF CodecSpec

-----------------------------------------------------------------------------
(* The worker thread, as the invariants below see it.                      *)

WorkerMoves == WorkerLoop \/ HandlerStep

(* A worker step is taken by a thread that exists and does not remove it,  *)
(* touches nothing the JS thread owns, and moves the dequeue event only by *)
(* the dequeue callback.                                                   *)
LEMMA WorkerStep ==
  ASSUME CoreTypeOK, WorkerMoves
  PROVE  /\ wpc # "off" /\ wpc' # "off"
         /\ UNCHANGED <<running, shouldExit, qclosed>>
         /\ UNCHANGED <<state, closing, jsIn, pending, nextFlush, settled>>
         /\ UNCHANGED <<deqs, deqFlag>> \/ SignalDequeue
<1> USE DEF JsOwned, jsVars, flushVars, queueVars, workerVars, tsfnVars, sizeVars
<1>1. CASE WorkerLoop
  <2>1. wpc # "off" /\ UNCHANGED <<running, shouldExit, qclosed>>
    BY <1>1 DEF WorkerLoop, LoopTest, Dispatch, Timeout, TakeFront, TakeNothing
  <2>2. wpc' # "off"
    BY <1>1, <2>1, WorkerLoopTyped DEF CoreTypeOK, WorkerType
  <2> QED
    BY <1>1, <2>1, <2>2 DEF WorkerLoop
<1>2. CASE HandlerStep
  <2>1. wpc # "off" /\ UNCHANGED <<running, shouldExit, qclosed>>
    BY <1>2, PointsApart DEF HandlerStep
  <2>2. wpc' # "off"
    BY <1>2, <2>1, HandlerStepTyped DEF CoreTypeOK, WorkerType
  <2> QED
    BY <1>2, <2>1, <2>2 DEF HandlerStep
<1> QED
  BY <1>1, <1>2 DEF WorkerMoves

(* The steps of the JS thread that leave the life cycle alone.             *)
LifeVars == <<qclosed, shouldExit, running, wpc, state, closing>>

QuietAction ==
  \/ RefuseConfigure \/ RefuseInput \/ RequestFlush \/ CloseAgain
  \/ \E type \in {"decode", "encode"}, key \in BOOLEAN : AcceptInput(type, key)
  \/ DequeueReturns
  \/ DeliverOutput \/ DeliverError \/ DeliverFlush \/ DeliverDequeue

LEMMA QuietStep == QuietAction => UNCHANGED LifeVars
<1> USE DEF LifeVars, queueVars, workerVars, jsVars
<1>1. CASE RefuseConfigure \/ RefuseInput \/ CloseAgain
  BY <1>1 DEF RefuseConfigure, RefuseInput, CloseAgain, coreVars
<1>2. CASE RequestFlush
  BY <1>2 DEF RequestFlush, OpenFlush, Enqueue
<1>3. ASSUME NEW type, NEW key, AcceptInput(type, key) PROVE UNCHANGED LifeVars
  BY <1>3 DEF AcceptInput, Enqueue
<1>4. CASE DequeueReturns
  BY <1>4 DEF DequeueReturns
<1>5. CASE DeliverOutput \/ DeliverError
  BY <1>5 DEF DeliverOutput, DeliverError
<1>6. CASE DeliverFlush \/ DeliverDequeue
  BY <1>6 DEF DeliverFlush, DeliverDequeue
<1> QED
  BY <1>1, <1>2, <1>3, <1>4, <1>5, <1>6 DEF QuietAction

(* Every step is one of these: the case split of the proofs below.         *)
LEMMA StepCases ==
  ASSUME [CodecNext]_coreVars
  PROVE  \/ QuietAction
         \/ \E cfg \in Config : AcceptConfigure(cfg) /\ blocked' \in BOOLEAN
         \/ ResetAll
         \/ BeginRelease /\ (UNCHANGED flushVars \/ RejectFlushes)
         \/ StopWorker \/ FinishRelease \/ ErrorReturns
         \/ WorkerMoves
         \/ UNCHANGED coreVars
  BY DEF CodecNext, FrameNext, ReleaseStep, CallbackReturn, QuietAction,
     WorkerMoves

-----------------------------------------------------------------------------
(* Release is final.                                                       *)

(* Closed is for ever: every other transition is a compare-and-swap from   *)
(* another state, and configure() and reset() refuse a closed codec.       *)
LEMMA ClosedStays ==
  ASSUME CoreTypeOK, [CodecNext]_coreVars, state = "closed"
  PROVE  state' = "closed"
<1>1. CASE QuietAction
  BY <1>1, QuietStep DEF LifeVars
<1>2. ASSUME NEW cfg \in Config, AcceptConfigure(cfg) PROVE state' = "closed"
  BY <1>2 DEF AcceptConfigure
<1>3. CASE ResetAll
  BY <1>3 DEF ResetAll
<1>4. CASE BeginRelease \/ ErrorReturns
  BY <1>4 DEF BeginRelease, ErrorReturns
<1>5. CASE StopWorker \/ FinishRelease
  BY <1>5 DEF StopWorker, FinishRelease
<1>6. CASE WorkerMoves
  BY <1>6, WorkerStep
<1>7. CASE UNCHANGED coreVars
  BY <1>7 DEF coreVars, jsVars
<1> QED
  BY <1>1, <1>2, <1>3, <1>4, <1>5, <1>6, <1>7, StepCases

LEMMA ReleaseInit == CoreInit => ReleaseIsFinal
  BY DEF CoreInit, QueueInit, WorkerInit, ReleaseIsFinal, Released

(* ReleaseIsFinal is inductive because a thread exists exactly while       *)
(* running_ is set (WorkerType): a Release that finds running_ clear has   *)
(* nothing to join.                                                        *)
LEMMA ReleaseIsFinalStep ==
  ASSUME CoreTypeOK, ReleaseIsFinal, [CodecNext]_coreVars
  PROVE  ReleaseIsFinal'
<1> USE DEF ReleaseIsFinal, Released
<1>0. running <=> wpc # "off"
  BY DEF CoreTypeOK, WorkerType
<1>1. CASE QuietAction
  <2>1. UNCHANGED LifeVars
    BY <1>1, QuietStep
  <2>2. ASSUME Released PROVE pending' \subseteq pending /\ size' = size
    <3>1. state = "closed"
      BY <2>2
    <3>2. ~ \E type \in {"decode", "encode"}, key \in BOOLEAN : AcceptInput(type, key)
      BY <3>1 DEF AcceptInput
    <3>3. ~ RequestFlush
      BY <3>1 DEF RequestFlush
    <3>4. CASE DeliverFlush
      BY <3>4 DEF DeliverFlush, SettleFlush, sizeVars
    <3>5. CASE RefuseConfigure \/ RefuseInput \/ CloseAgain \/ DequeueReturns
      BY <3>5 DEF RefuseConfigure, RefuseInput, CloseAgain, DequeueReturns,
                  coreVars, flushVars, sizeVars
    <3>6. CASE DeliverOutput \/ DeliverError \/ DeliverDequeue
      BY <3>6 DEF DeliverOutput, DeliverError, DeliverDequeue, flushVars, sizeVars
    <3> QED
      BY <1>1, <3>2, <3>3, <3>4, <3>5, <3>6 DEF QuietAction
  <2> QED
    BY <2>1, <2>2 DEF LifeVars
<1>2. ASSUME NEW cfg \in Config, AcceptConfigure(cfg) PROVE ReleaseIsFinal'
  BY <1>2 DEF AcceptConfigure, JsMayCall, Start, Enqueue, workerVars
<1>3. CASE ResetAll
  BY <1>3 DEF ResetAll, JsMayCall, ClearThenEnqueue, workerVars
<1>4. CASE BeginRelease
  BY <1>4 DEF BeginRelease, JsMayCall, queueVars, workerVars
<1>5. CASE StopWorker
  BY <1>5 DEF StopWorker, SignalStop
<1>6. CASE FinishRelease
  BY <1>0, <1>6 DEF FinishRelease, Join, Shutdown, AbandonFlushes
<1>7. CASE ErrorReturns
  BY <1>7 DEF ErrorReturns, queueVars, workerVars, flushVars, sizeVars
<1>8. CASE WorkerMoves
  BY <1>8, WorkerStep
<1>9. CASE UNCHANGED coreVars
  BY <1>9 DEF coreVars, queueVars, workerVars, jsVars, flushVars, sizeVars
<1> QED
  BY <1>1, <1>2, <1>3, <1>4, <1>5, <1>6, <1>7, <1>8, <1>9, StepCases

(* Once close() has returned there is no worker thread, no pending flush   *)
(* and no counted request, and there never will be again (Release).        *)
THEOREM ReleaseFinal == CodecSpec => []ReleaseIsFinal
  BY InitTyped, StepTyped, ReleaseInit, ReleaseIsFinalStep, PTL DEF CodecSpec

(* No TSFN queue grows at the hands of the JS thread.                      *)
TsfnsShrink ==
  /\ Len(outQ') <= Len(outQ) /\ errs' <= errs
  /\ Len(flushQ') <= Len(flushQ) /\ deqs' <= deqs

LEMMA JsPostsNothing ==
  ASSUME CoreTypeOK, [CodecNext]_coreVars, ~WorkerMoves
  PROVE  TsfnsShrink
<1>1. /\ outQ \in Seq(Inputs) /\ errs \in Nat /\ deqs \in Nat
      /\ flushQ \in Seq([id : FlushIds, ok : BOOLEAN])
  BY DEF CoreTypeOK, TsfnType
<1>2. UNCHANGED tsfnVars => TsfnsShrink
  BY <1>1 DEF tsfnVars, TsfnsShrink
<1>3. CASE DeliverOutput
  <2>1. Len(Tail(outQ)) <= Len(outQ)
    BY <1>1, <1>3 DEF DeliverOutput
  <2> QED
    BY <1>1, <1>3, <2>1 DEF DeliverOutput, TsfnsShrink
<1>4. CASE DeliverError
  BY <1>1, <1>4 DEF DeliverError, TsfnsShrink
<1>5. CASE DeliverFlush
  <2>1. Len(Tail(flushQ)) <= Len(flushQ)
    BY <1>1, <1>5 DEF DeliverFlush
  <2> QED
    BY <1>1, <1>5, <2>1 DEF DeliverFlush, TsfnsShrink
<1>6. CASE DeliverDequeue
  BY <1>1, <1>6 DEF DeliverDequeue, TsfnsShrink
<1>7. ASSUME NEW cfg \in Config, AcceptConfigure(cfg) PROVE TsfnsShrink
  BY <1>2, <1>7 DEF AcceptConfigure
<1>8. ASSUME NEW type, NEW key, AcceptInput(type, key) PROVE TsfnsShrink
  BY <1>2, <1>8 DEF AcceptInput
<1>9. CASE RequestFlush \/ ResetAll \/ BeginRelease \/ StopWorker \/ FinishRelease
  BY <1>2, <1>9 DEF RequestFlush, ResetAll, BeginRelease, StopWorker, FinishRelease
<1>10. CASE RefuseConfigure \/ ErrorReturns \/ DequeueReturns
  BY <1>2, <1>10 DEF RefuseConfigure, ErrorReturns, DequeueReturns
<1>11. CASE RefuseInput \/ CloseAgain \/ UNCHANGED coreVars
  BY <1>2, <1>11 DEF RefuseInput, CloseAgain, coreVars
<1> QED
  BY <1>3, <1>4, <1>5, <1>6, <1>7, <1>8, <1>9, <1>10, <1>11, StepCases
     DEF QuietAction

(* Nothing is posted to JavaScript once close() has returned, although the *)
(* TSFNs stay open: the join leaves nobody to post (Release).              *)
THEOREM ReleasePostsNothing == CodecSpec => NoPostAfterRelease
<1>1. ASSUME CoreTypeOK, ReleaseIsFinal, [CodecNext]_coreVars, Released
      PROVE  TsfnsShrink
  <2>1. wpc = "off"
    BY <1>1 DEF ReleaseIsFinal
  <2>2. ~WorkerMoves
    BY <1>1, <2>1, WorkerStep
  <2> QED
    BY <1>1, <2>2, JsPostsNothing
<1>2. CoreTypeOK /\ ReleaseIsFinal /\ [CodecNext]_coreVars
        => [Released => /\ Len(outQ') <= Len(outQ) /\ errs' <= errs
                        /\ Len(flushQ') <= Len(flushQ) /\ deqs' <= deqs]_coreVars
  BY <1>1 DEF TsfnsShrink
<1>3. CodecSpec => [](CoreTypeOK /\ ReleaseIsFinal)
  BY TypeCorrect, ReleaseFinal, PTL
<1> QED
  BY <1>2, <1>3, PTL DEF CodecSpec, NoPostAfterRelease

-----------------------------------------------------------------------------
(* The dequeue event.                                                      *)

LEMMA DequeueInit == CoreInit => DequeueCoalesced
  BY DEF CoreInit, DequeueCoalesced, DequeueEventsInFlight

LEMMA DequeueStep ==
  ASSUME CoreTypeOK, DequeueCoalesced, [CodecNext]_coreVars
  PROVE  DequeueCoalesced'
<1> USE DEF DequeueCoalesced, DequeueEventsInFlight
<1>1. deqs \in Nat /\ deqFlag \in BOOLEAN /\ (state' # "closed" => state # "closed")
  BY ClosedStays DEF CoreTypeOK, TsfnType, SizeType
<1>2. UNCHANGED <<deqs, deqFlag, jsIn>> => DequeueCoalesced'
  BY <1>1
<1>3. ASSUME NEW cfg \in Config, AcceptConfigure(cfg) PROVE DequeueCoalesced'
  BY <1>2, <1>3 DEF AcceptConfigure, tsfnVars, sizeVars, jsVars
<1>4. ASSUME NEW type, NEW key, AcceptInput(type, key) PROVE DequeueCoalesced'
  BY <1>2, <1>4 DEF AcceptInput, tsfnVars, jsVars
<1>5. CASE RequestFlush \/ ResetAll \/ BeginRelease \/ StopWorker \/ FinishRelease
  BY <1>2, <1>5 DEF RequestFlush, ResetAll, BeginRelease, StopWorker,
                    FinishRelease, tsfnVars, sizeVars, jsVars
<1>6. CASE RefuseConfigure \/ DeliverOutput \/ DeliverFlush
  BY <1>2, <1>6 DEF RefuseConfigure, DeliverOutput, DeliverFlush, tsfnVars,
                    sizeVars, jsVars
<1>7. CASE DeliverError
  BY <1>1, <1>7 DEF DeliverError, EventLoop, sizeVars
<1>8. CASE ErrorReturns
  BY <1>1, <1>8 DEF ErrorReturns, tsfnVars, sizeVars
<1>9. CASE DeliverDequeue
  BY <1>1, <1>9 DEF DeliverDequeue, EventLoop
<1>10. CASE DequeueReturns
  BY <1>1, <1>10 DEF DequeueReturns, tsfnVars
<1>11. CASE WorkerMoves
  <2>1. jsIn' = jsIn /\ state' = state
    BY <1>11, WorkerStep
  <2>2. CASE UNCHANGED <<deqs, deqFlag>>
    BY <1>2, <2>1, <2>2
  <2>3. CASE SignalDequeue
    <3>1. CASE state = "closed" \/ deqFlag
      BY <1>2, <2>1, <2>3, <3>1 DEF SignalDequeue
    <3>2. CASE ~(state = "closed" \/ deqFlag)
      BY <1>1, <2>1, <2>3, <3>2 DEF SignalDequeue
    <3> QED
      BY <3>1, <3>2
  <2> QED
    BY <1>11, <2>2, <2>3, WorkerStep
<1>12. CASE RefuseInput \/ CloseAgain \/ UNCHANGED coreVars
  BY <1>2, <1>12 DEF RefuseInput, CloseAgain, coreVars, tsfnVars, sizeVars, jsVars
<1> QED
  BY <1>3, <1>4, <1>5, <1>6, <1>7, <1>8, <1>9, <1>10, <1>11, <1>12, StepCases
     DEF QuietAction

(* At most one dequeue event is under way, and while the codec is open the *)
(* flag says so: an event is neither doubled nor blocked for ever (the     *)
(* compare-and-swap of the dequeue callback against OnDequeue's store).    *)
THEOREM DequeueIsCoalesced == CodecSpec => []DequeueCoalesced
  BY InitTyped, StepTyped, DequeueInit, DequeueStep, PTL DEF CodecSpec

-----------------------------------------------------------------------------
(* Flush promises.                                                         *)

(* What SettledOnce rests on: a promise that is pending, or not made yet,  *)
(* is not settled, and none is pending that was not made.                  *)
PendingUnset ==
  \A f \in FlushIds :
    /\ f \in pending \/ f >= nextFlush => settled[f] = "unset"
    /\ f \in pending => f < nextFlush

LEMMA PendingUnsetInit == CoreInit => PendingUnset
  BY DEF CoreInit, PendingUnset

(* Who touches the promises: flush() adds one, its completion, reset() and *)
(* close() settle pending ones, Release forgets them.                      *)
LEMMA FlushCases ==
  ASSUME CoreTypeOK, [CodecNext]_coreVars
  PROVE  \/ RequestFlush \/ RejectFlushes \/ AbandonFlushes
         \/ DeliverFlush
         \/ UNCHANGED <<pending, nextFlush, settled>>
<1> USE DEF flushVars
<1>1. ASSUME NEW cfg \in Config, AcceptConfigure(cfg)
      PROVE  UNCHANGED <<pending, nextFlush, settled>>
  BY <1>1 DEF AcceptConfigure
<1>2. ASSUME NEW type, NEW key, AcceptInput(type, key)
      PROVE  UNCHANGED <<pending, nextFlush, settled>>
  BY <1>2 DEF AcceptInput
<1>4. ResetAll => RejectFlushes
  BY DEF ResetAll
<1>5. FinishRelease => AbandonFlushes
  BY DEF FinishRelease
<1>6. CASE StopWorker \/ ErrorReturns \/ DequeueReturns
  BY <1>6 DEF StopWorker, ErrorReturns, DequeueReturns
<1>7. CASE RefuseConfigure \/ DeliverOutput \/ DeliverError \/ DeliverDequeue
  BY <1>7 DEF RefuseConfigure, DeliverOutput, DeliverError, DeliverDequeue
<1>8. CASE RefuseInput \/ CloseAgain \/ UNCHANGED coreVars
  BY <1>8 DEF RefuseInput, CloseAgain, coreVars
<1>9. CASE WorkerMoves
  BY <1>9, WorkerStep
<1> QED
  BY <1>1, <1>2, <1>4, <1>5, <1>6, <1>7, <1>8, <1>9, StepCases
     DEF QuietAction

LEMMA PromiseStep ==
  ASSUME CoreTypeOK, PendingUnset, [CodecNext]_coreVars
  PROVE  /\ PendingUnset'
         /\ \A f \in FlushIds : settled[f] # "unset" => settled'[f] = settled[f]
<1>1. /\ pending \subseteq FlushIds /\ nextFlush \in Nat
      /\ settled \in [FlushIds -> {"unset", "resolved", "rejected"}]
      /\ FlushIds \subseteq Int
  BY DEF CoreTypeOK, FlushType, FlushIds
<1>2. CASE RequestFlush
  BY <1>1, <1>2 DEF RequestFlush, OpenFlush, PendingUnset
<1>3. CASE RejectFlushes
  BY <1>1, <1>3 DEF RejectFlushes, PendingUnset
<1>4. CASE AbandonFlushes
  BY <1>1, <1>4 DEF AbandonFlushes, PendingUnset
<1>5. CASE DeliverFlush
  <2> DEFINE c == Head(flushQ)
  <2>1. SettleFlush(c)
    BY <1>5 DEF DeliverFlush
  <2>2. CASE c.id \in pending
    <3>1. /\ settled' = [settled EXCEPT ![c.id] =
                           IF c.ok THEN "resolved" ELSE "rejected"]
          /\ pending' = pending \ {c.id} /\ nextFlush' = nextFlush
      BY <2>1, <2>2 DEF SettleFlush
    <3>2. settled[c.id] = "unset"
      BY <1>1, <2>2 DEF PendingUnset
    <3>3. /\ \A f \in FlushIds : f # c.id => settled'[f] = settled[f]
          /\ \A f \in FlushIds : f >= nextFlush => f # c.id
      BY <1>1, <2>2, <3>1 DEF PendingUnset
    <3> QED
      BY <1>1, <3>1, <3>2, <3>3 DEF PendingUnset
  <2>3. CASE c.id \notin pending
    BY <1>1, <2>1, <2>3 DEF SettleFlush, PendingUnset
  <2> QED
    BY <2>2, <2>3
<1>6. CASE UNCHANGED <<pending, nextFlush, settled>>
  BY <1>1, <1>6 DEF PendingUnset
<1> QED
  BY <1>2, <1>3, <1>4, <1>5, <1>6, FlushCases

(* A flush promise is settled at most once, whatever order its completion, *)
(* reset() and close() come in (OnFlushComplete, Reset, Release).          *)
THEOREM FlushSettledOnce == CodecSpec => SettledOnce
<1>1. CoreTypeOK /\ PendingUnset /\ [CodecNext]_coreVars
        => [\A f \in FlushIds :
              settled[f] # "unset" => settled'[f] = settled[f]]_coreVars
  BY PromiseStep
<1>2. CodecSpec => [](CoreTypeOK /\ PendingUnset)
  BY InitTyped, StepTyped, PendingUnsetInit, PromiseStep, PTL DEF CodecSpec
<1> QED
  BY <1>1, <1>2, PTL DEF CodecSpec, SettledOnce

(* Which operation of a PromiseTracker each step is.  A flush() finds the  *)
(* queue open, since the codec is configured (ReleaseIsFinal).             *)
LEMMA PromisesStep ==
  ASSUME CoreTypeOK, ReleaseIsFinal, [CodecNext]_coreVars
  PROVE  [Promises!TrackerNext]_(Promises!promiseVars)
<1> USE DEF Promises!TrackerNext, Promises!promiseVars
<1>1. /\ nextFlush \in Nat /\ MaxFlushes \in Nat
      /\ FlushIds = Promises!Ids
  BY BoundsAssumption DEF CoreTypeOK, FlushType, FlushIds, Promises!Ids
<1>2. CASE RequestFlush
  <2>1. ~qclosed /\ OpenFlush
    BY <1>2 DEF RequestFlush, ReleaseIsFinal
  <2>2. Promises!CreatePromise
    BY <1>1, <2>1 DEF OpenFlush, Promises!CreatePromise, Promises!Ids
  <2> QED
    BY <2>2
<1>3. CASE RejectFlushes
  <2>1. Promises!RejectAll
    BY <1>1, <1>3 DEF RejectFlushes, Promises!RejectAll
  <2> QED
    BY <2>1
<1>4. CASE AbandonFlushes
  <2>1. Promises!Destroy
    BY <1>4 DEF AbandonFlushes, Promises!Destroy
  <2> QED
    BY <2>1
<1>5. CASE DeliverFlush
  <2> DEFINE c == Head(flushQ)
  <2>1. SettleFlush(c)
    BY <1>5 DEF DeliverFlush
  <2>2. CASE c.id \in pending
    <3>1. Promises!Resolve(c.id) \/ Promises!Reject(c.id)
      BY <2>1, <2>2 DEF SettleFlush, Promises!Resolve, Promises!Reject, Promises!Settle
    <3> QED
      BY <2>2, <3>1
  <2>3. CASE c.id \notin pending
    BY <2>1, <2>3 DEF SettleFlush
  <2> QED
    BY <2>2, <2>3
<1>6. CASE UNCHANGED <<pending, nextFlush, settled>>
  BY <1>6
<1> QED
  BY <1>2, <1>3, <1>4, <1>5, <1>6, FlushCases

(* The flush promises of a codec are a PromiseTracker: an id is never      *)
(* given out twice, and only a pending promise is ever settled.            *)
THEOREM FlushesArePromises == CodecSpec => FlushPromises
<1>1. CoreInit => Promises!TrackerInit
  BY BoundsAssumption DEF CoreInit, FlushIds, Promises!TrackerInit, Promises!Ids
<1>2. CodecSpec => []CoreTypeOK
  BY TypeCorrect
<1>3. CodecSpec => []ReleaseIsFinal
  BY ReleaseFinal
<1> QED
  BY <1>1, <1>2, <1>3, PromisesStep, PTL
     DEF CodecSpec, FlushPromises, Promises!TrackerSpec

(* Where an element of a queue is after an Append and after a Tail.        *)
LEMMA AppendKeeps ==
  ASSUME NEW S, NEW s \in Seq(S), NEW e \in S
  PROVE  /\ \A i \in DOMAIN s :
              i \in DOMAIN Append(s, e) /\ Append(s, e)[i] = s[i]
         /\ Len(s) + 1 \in DOMAIN Append(s, e) /\ Append(s, e)[Len(s) + 1] = e
  OBVIOUS

LEMMA TailKeeps ==
  ASSUME NEW S, NEW s \in Seq(S), NEW i \in DOMAIN s, s[i] # Head(s)
  PROVE  i - 1 \in DOMAIN Tail(s) /\ Tail(s)[i - 1] = s[i]
<1>1. i \in 1 .. Len(s) /\ i # 1
  OBVIOUS
<1> QED
  BY <1>1

(* The three places of FlushHandled, one by one.                           *)
InQueue(f) == \E i \in DOMAIN queue : queue[i] = [type |-> "flush", id |-> f]
InHand(f) == msg = [type |-> "flush", id |-> f]
InTsfn(f) == \E i \in DOMAIN flushQ : flushQ[i].id = f

LEMMA HandledPlaces ==
  \A f : /\ FlushHandled(f) <=> InQueue(f) \/ InHand(f) \/ InTsfn(f)
         /\ FlushHandled(f)' <=> InQueue(f)' \/ InHand(f)' \/ InTsfn(f)'
  BY DEF FlushHandled, InQueue, InHand, InTsfn

LEMMA PlacesKept ==
  /\ UNCHANGED queue => \A f : InQueue(f) => InQueue(f)'
  /\ UNCHANGED flushQ => \A f : InTsfn(f) => InTsfn(f)'
  /\ UNCHANGED msg => \A f : InHand(f) => InHand(f)'
  BY DEF InQueue, InTsfn, InHand

(* Messages stay in the queue when one is added, completions in the TSFN.  *)
LEMMA EnqueueKeeps ==
  ASSUME CoreTypeOK, NEW m \in Messages, Enqueue(m), NEW f, InQueue(f)
  PROVE  InQueue(f)'
<1>1. queue \in Seq(Messages)
  BY DEF CoreTypeOK, QueueType
<1> QED
  BY <1>1, AppendKeeps DEF Enqueue, InQueue

LEMMA PostKeeps ==
  ASSUME CoreTypeOK, NEW c \in [id : FlushIds, ok : BOOLEAN],
         flushQ' = Append(flushQ, c)
  PROVE  /\ \A f : InTsfn(f) => InTsfn(f)'
         /\ InTsfn(c.id)'
<1>1. flushQ \in Seq([id : FlushIds, ok : BOOLEAN])
  BY DEF CoreTypeOK, TsfnType
<1>2. Len(flushQ) + 1 \in DOMAIN flushQ' /\ flushQ'[Len(flushQ) + 1] = c
  BY <1>1, AppendKeeps
<1>3. \A i \in DOMAIN flushQ : i \in DOMAIN flushQ' /\ flushQ'[i] = flushQ[i]
  BY <1>1, AppendKeeps
<1> QED
  BY <1>2, <1>3 DEF InTsfn

(* A message goes from the queue to the worker's hand, and its id from     *)
(* there to the TSFN.                                                      *)
LEMMA WorkerKeepsFlush ==
  ASSUME CoreTypeOK, WorkerMoves, NEW f, FlushHandled(f)
  PROVE  FlushHandled(f)'
<1> USE HandledPlaces
<1>1. ASSUME UNCHANGED <<queue, msg, flushQ>> PROVE FlushHandled(f)'
  BY <1>1, PlacesKept
<1>2. CASE WorkerLoop
  <2>1. CASE LoopTest \/ Timeout
    BY <1>1, <1>2, <2>1 DEF WorkerLoop, LoopTest, Timeout, TakeNothing,
                            queueVars, tsfnVars
  <2>2. CASE Dispatch
    <3>1. /\ queue' = Tail(queue) /\ msg' = Head(queue)
          /\ flushQ' = flushQ /\ wpc = "wait"
      BY <1>2, <2>2 DEF WorkerLoop, Dispatch, TakeFront, tsfnVars
    <3>2. ~InHand(f)
      BY <3>1, PointsApart DEF CoreTypeOK, WorkerType, NoMessage, InHand
    <3>3. CASE InQueue(f)
      <4>1. PICK i \in DOMAIN queue : queue[i] = [type |-> "flush", id |-> f]
        BY <3>3 DEF InQueue
      <4>2. CASE queue[i] = Head(queue)
        BY <3>1, <4>1, <4>2 DEF InHand
      <4>3. CASE queue[i] # Head(queue)
        BY <3>1, <4>1, <4>3, TailKeeps DEF InQueue, CoreTypeOK, QueueType
      <4> QED
        BY <4>2, <4>3
    <3> QED
      BY <3>1, <3>2, <3>3, PlacesKept
  <2> QED
    BY <1>2, <2>1, <2>2 DEF WorkerLoop
<1>3. CASE HandlerStep
  <2>1. queue' = queue /\ (HandlerStays \/ HandlerReturns)
    BY <1>3 DEF HandlerStep
  <2>2. CASE HandlerStays
    BY <1>1, <2>1, <2>2 DEF HandlerStays
  <2>3. CASE HandlerReturns /\ msg.type # "flush"
    BY <2>1, <2>3, PlacesKept DEF HandlerReturns, InHand
  <2>4. CASE HandlerReturns /\ msg.type = "flush"
    <3>1. msg \in Messages
      BY <1>3 DEF HandlerStep, CoreTypeOK, WorkerType
    <3>2. msg.id \in FlushIds
      BY <2>4, <3>1 DEF Messages, ConfigureMessages, FlushMessages,
         ResetMessages, WorkMessages
    <3>3. PICK n \in FlushIds : n = msg.id
      BY <3>2
    <3>4. PICK c \in [id : FlushIds, ok : BOOLEAN] :
            c.id = n /\ flushQ' = Append(flushQ, c)
      <4>1. PICK ok \in BOOLEAN : flushQ' = Append(flushQ, [id |-> n, ok |-> ok])
        BY <2>4, <3>3 DEF HandlerReturns, FlushComplete, Post
      <4> QED
        BY <4>1
    <3>5. (InTsfn(f) => InTsfn(f)') /\ InTsfn(n)'
      BY <3>4, PostKeeps
    <3>6. InHand(f) => f = n
      BY <3>3 DEF InHand
    <3> QED
      BY <2>1, <3>5, <3>6, PlacesKept
  <2> QED
    BY <2>1, <2>2, <2>3, <2>4
<1> QED
  BY <1>2, <1>3 DEF WorkerMoves

LEMMA FlushTrackedInit == CoreInit => FlushTracked
  BY DEF CoreInit, FlushTracked

LEMMA FlushTrackedStep ==
  ASSUME CoreTypeOK, FlushTracked, [CodecNext]_coreVars
  PROVE  FlushTracked'
<1> USE HandledPlaces DEF FlushTracked
<1>1. ASSUME UNCHANGED <<queue, msg, flushQ>>, pending' \subseteq pending
      PROVE  FlushTracked'
  BY <1>1, PlacesKept
<1>2. ASSUME NEW m \in Messages, Enqueue(m), UNCHANGED <<msg, flushQ>>,
             NEW f, FlushHandled(f)
      PROVE  FlushHandled(f)'
  BY <1>2, PlacesKept, EnqueueKeeps
<1>3. ASSUME NEW cfg \in Config, AcceptConfigure(cfg) PROVE FlushTracked'
  <2>1. PICK m \in Messages : Enqueue(m)
    BY <1>3 DEF AcceptConfigure, Messages, ConfigureMessages
  <2>2. UNCHANGED <<msg, flushQ, pending>>
    BY <1>3 DEF AcceptConfigure, Start, workerVars, tsfnVars, flushVars
  <2> QED
    BY <1>2, <2>1, <2>2
<1>4. ASSUME NEW type \in {"decode", "encode"}, NEW key \in BOOLEAN,
             AcceptInput(type, key)
      PROVE  FlushTracked'
  <2>1. PICK m \in Messages : Enqueue(m)
    <3>1. [type |-> type, id |-> inputs + 1, key |-> key] \in Messages
      BY <1>4, BoundsAssumption DEF CoreTypeOK, CountType, AcceptInput, Messages,
         WorkMessages, Inputs
    <3> QED
      BY <1>4, <3>1 DEF AcceptInput
  <2>2. UNCHANGED <<msg, flushQ, pending>>
    BY <1>4 DEF AcceptInput, workerVars, tsfnVars, flushVars
  <2> QED
    BY <1>2, <2>1, <2>2
<1>5. CASE RequestFlush
  <2>1. nextFlush \in FlushIds
    BY <1>5, BoundsAssumption DEF RequestFlush, OpenFlush, CoreTypeOK, FlushType,
       FlushIds
  <2>2. PICK n \in FlushIds : n = nextFlush
    BY <2>1
  <2>3. PICK m \in Messages : m = [type |-> "flush", id |-> n]
    BY DEF Messages, FlushMessages
  <2>4. Enqueue(m) /\ (\A f \in pending' : f \in pending \/ (f = n /\ ~qclosed))
    BY <1>5, <2>2, <2>3 DEF RequestFlush, OpenFlush
  <2>5. UNCHANGED <<msg, flushQ>>
    BY <1>5 DEF RequestFlush, workerVars, tsfnVars
  <2>6. ~qclosed => InQueue(n)'
    <3>1. queue \in Seq(Messages)
      BY DEF CoreTypeOK, QueueType
    <3>2. ~qclosed => queue' = Append(queue, m)
      BY <2>4 DEF Enqueue
    <3>3. Len(queue) + 1 \in DOMAIN Append(queue, m)
          /\ Append(queue, m)[Len(queue) + 1] = m
      BY <3>1, AppendKeeps
    <3> QED
      BY <2>3, <3>2, <3>3 DEF InQueue
  <2> QED
    BY <1>2, <2>4, <2>5, <2>6
<1>6. CASE ResetAll \/ FinishRelease
  BY <1>6 DEF ResetAll, FinishRelease, RejectFlushes, AbandonFlushes
<1>7. CASE DeliverFlush
  <2>1. /\ flushQ \in Seq([id : FlushIds, ok : BOOLEAN])
        /\ UNCHANGED <<queue, msg>> /\ flushQ' = Tail(flushQ)
        /\ pending' = pending \ {Head(flushQ).id}
    BY <1>7 DEF DeliverFlush, SettleFlush, queueVars, workerVars, CoreTypeOK,
                TsfnType
  <2>2. ASSUME NEW f \in pending', InTsfn(f) PROVE InTsfn(f)'
    <3>1. PICK i \in DOMAIN flushQ : flushQ[i].id = f
      BY <2>2 DEF InTsfn
    <3>2. flushQ[i] # Head(flushQ)
      BY <2>1, <2>2, <3>1
    <3>3. i - 1 \in DOMAIN Tail(flushQ) /\ Tail(flushQ)[i - 1] = flushQ[i]
      BY <2>1, <3>1, <3>2, TailKeeps
    <3> QED
      BY <2>1, <3>1, <3>3 DEF InTsfn
  <2> QED
    BY <2>1, <2>2, PlacesKept
<1>8. CASE WorkerMoves
  BY <1>8, WorkerStep, WorkerKeepsFlush
<1>9. CASE BeginRelease /\ (UNCHANGED flushVars \/ RejectFlushes)
  BY <1>1, <1>9 DEF BeginRelease, RejectFlushes, queueVars, workerVars, tsfnVars,
                    flushVars
<1>10. CASE RefuseConfigure \/ StopWorker \/ ErrorReturns \/ DequeueReturns
  BY <1>1, <1>10 DEF RefuseConfigure, StopWorker, ErrorReturns, DequeueReturns,
                     queueVars, workerVars, tsfnVars, flushVars
<1>11. CASE DeliverOutput \/ DeliverError \/ DeliverDequeue
  BY <1>1, <1>11 DEF DeliverOutput, DeliverError, DeliverDequeue, queueVars,
                     workerVars, flushVars
<1>12. CASE RefuseInput \/ CloseAgain \/ UNCHANGED coreVars
  BY <1>1, <1>12 DEF RefuseInput, CloseAgain, coreVars, queueVars, workerVars,
                     tsfnVars, flushVars
<1> QED
  BY <1>3, <1>4, <1>5, <1>6, <1>7, <1>8, <1>9, <1>10, <1>11, <1>12, StepCases
     DEF QuietAction

(* No flush is lost: a pending promise has its message queued, in the      *)
(* worker's hand, or completed in the TSFN, so that no path of the worker  *)
(* or of the methods leaves it without somebody to settle it.              *)
THEOREM FlushNeverLost == CodecSpec => []FlushTracked
  BY InitTyped, StepTyped, FlushTrackedInit, FlushTrackedStep, PTL DEF CodecSpec

-----------------------------------------------------------------------------
(***************************************************************************)
(* The message handlers.                                                   *)
(***************************************************************************)

(* What the worker has in hand at its program points.                      *)
LEMMA InHandKinds ==
  ASSUME CoreTypeOK
  PROVE  /\ wpc \in ConfigurePoints => msg.type = "configure"
         /\ wpc \in WorkPoints => msg.type \in {"decode", "encode"} /\ msg.id \in Inputs
         /\ wpc \in FlushPoints => msg.type = "flush"
         /\ wpc = "reset" => msg.type = "reset"
<1> USE DEF HandlerPoints, ConfigurePoints, WorkPoints, FlushPoints
<1>1. wpc \in HandlerPoints => msg \in Messages /\ wpc \in PointsOf(msg.type)
  BY DEF CoreTypeOK, WorkerType
<1>2. msg \in Messages => msg.type \in {"configure", "flush", "reset", "decode", "encode"}
  BY DEF Messages, ConfigureMessages, FlushMessages, ResetMessages, WorkMessages
<1>3. msg \in Messages /\ msg.type \in {"decode", "encode"} => msg.id \in Inputs
  BY DEF Messages, ConfigureMessages, FlushMessages, ResetMessages, WorkMessages
<1> QED
  BY <1>1, <1>2, <1>3 DEF PointsOf

(* How a handler may leave a program point.                                *)
LEMMA PointsReached ==
  /\ \A t \in {"configure"} : "open" \in PointsOf(t)
  /\ \A t \in {"decode", "encode"} :
       "receive" \in PointsOf(t) /\ "count" \in PointsOf(t) /\ "signal" \in PointsOf(t)
  /\ \A t \in {"flush"} : "drain" \in PointsOf(t)
  /\ ConfigurePoints \cup WorkPoints \cup FlushPoints \cup {"reset"} = HandlerPoints
  BY DEF PointsOf, HandlerPoints, ConfigurePoints, WorkPoints, FlushPoints

-----------------------------------------------------------------------------
(* OnConfigure.                                                            *)

LEMMA ConfigureRejectsStep ==
  ASSUME CoreTypeOK, HandlerType, NEW config \in Config,
         ConfigureRejects(config), blocked' \in BOOLEAN
  PROVE  HandlerStep /\ HandlerType'
<1>1. HandlerReturns
  BY InHandKinds DEF ConfigureRejects, Return, HandlerReturns, ConfigurePoints
<1>2. HandlerStep
  BY <1>1, PointsReached DEF ConfigureRejects, Return, HandlerStep, Untouched,
     sizeVars, ConfigurePoints
<1>3. HandlerType'
  BY DEF ConfigureRejects, HandlerType, Untouched, ctxVars
<1> QED
  BY <1>2, <1>3

LEMMA ConfigureAllocatesStep ==
  ASSUME CoreTypeOK, HandlerType, NEW config \in Config,
         ConfigureAllocates(config), blocked' \in BOOLEAN
  PROVE  HandlerStep /\ HandlerType'
<1>1. wpc = "configure" /\ msg.type = "configure" /\ wpc \in HandlerPoints
  BY InHandKinds, PointsReached DEF ConfigureAllocates, ConfigurePoints
<1>2. HandlerStays \/ HandlerReturns
  BY <1>1, PointsReached DEF ConfigureAllocates, Goto, Return, HandlerStays,
     HandlerReturns
<1>3. HandlerStep
  BY <1>1, <1>2 DEF ConfigureAllocates, Goto, Return, HandlerStep, Untouched,
     sizeVars
<1>4. buf' = <<>> /\ buf' \in Seq(Inputs)
  BY DEF ConfigureAllocates
<1>5. active' \in Config /\ ctxCfg' \in Config /\ ctx' \in {"none", "open", "draining"}
  BY DEF ConfigureAllocates, HandlerType, Untouched, Config
<1> QED
  BY <1>3, <1>4, <1>5 DEF HandlerType

LEMMA ConfigureOpensStep ==
  ASSUME CoreTypeOK, HandlerType, NEW config \in Config,
         ConfigureOpens(config), blocked' \in BOOLEAN
  PROVE  HandlerStep /\ HandlerType'
<1>1. wpc = "open" /\ msg.type = "configure" /\ wpc \in HandlerPoints
  BY InHandKinds, PointsReached DEF ConfigureOpens, ConfigurePoints
<1>2. HandlerReturns
  BY <1>1 DEF ConfigureOpens, Return, HandlerReturns
<1>3. HandlerStep
  BY <1>1, <1>2 DEF ConfigureOpens, Return, HandlerStep, Untouched, sizeVars
<1>4. active' \in Config /\ ctxCfg' \in Config
  BY DEF ConfigureOpens, HandlerType, Untouched, Config
<1>5. ctx' \in {"none", "open", "draining"} /\ buf' = buf
      /\ (ctx' = "none" => ctx = "none")
  BY DEF ConfigureOpens, HandlerType
<1> QED
  BY <1>3, <1>4, <1>5 DEF HandlerType

-----------------------------------------------------------------------------
(* OnDecode, OnEncode.                                                     *)

LEMMA SendTyped ==
  ASSUME CoreTypeOK, HandlerType, AtWork, SendInput
  PROVE  buf' \in Seq(Inputs)
<1>1. msg.id \in Inputs
  BY InHandKinds DEF AtWork, WorkPoints
<1>2. buf \in Seq(Inputs)
  BY DEF HandlerType
<1> QED
  BY <1>1, <1>2, AppendTyped DEF SendInput

LEMMA WorkEndsEarlyStep ==
  ASSUME CoreTypeOK, HandlerType,
         WorkSkips \/ WorkSendFails \/ WorkAllocFails \/ WorkReceiveFails,
         Return \/ Goto("count"), blocked' \in BOOLEAN
  PROVE  HandlerStep /\ HandlerType'
<1> USE DEF WorkSkips, WorkSendFails, WorkAllocFails, WorkReceiveFails
<1>1. msg.type \in {"decode", "encode"} /\ wpc \in HandlerPoints
  BY InHandKinds, PointsReached DEF AtWork, WorkPoints
<1>2. HandlerStays \/ HandlerReturns
  BY <1>1, PointsReached DEF Goto, Return, HandlerStays, HandlerReturns, tsfnVars
<1>3. HandlerStep
  <2>1. UNCHANGED errs \/ OutputError
    BY DEF tsfnVars
  <2>2. UNCHANGED <<running, shouldExit>>
    BY DEF Goto, Return
  <2>3. UNCHANGED <<outQ, deqs, sizeVars, Untouched>>
    BY DEF tsfnVars
  <2> QED
    BY <1>1, <1>2, <2>1, <2>2, <2>3 DEF HandlerStep, Untouched, sizeVars
<1>4. buf' \in Seq(Inputs) /\ (ctx = "none" => buf' = buf)
  BY SendTyped DEF HandlerType, ctxVars, SendInput, SendTakes, SendRefuses
<1>5. UNCHANGED <<active, ctxCfg, ctx>>
  BY DEF Untouched, ctxVars
<1> QED
  BY <1>3, <1>4, <1>5 DEF HandlerType

LEMMA WorkSendsStep ==
  ASSUME CoreTypeOK, HandlerType, WorkSends, blocked' \in BOOLEAN
  PROVE  HandlerStep /\ HandlerType'
<1>1. msg.type \in {"decode", "encode"} /\ wpc \in HandlerPoints
  BY InHandKinds, PointsReached DEF WorkSends, AtWork, WorkPoints
<1>2. HandlerStays
  BY <1>1, PointsReached DEF WorkSends, Goto, HandlerStays, tsfnVars
<1>3. HandlerStep
  BY <1>1, <1>2 DEF WorkSends, Goto, HandlerStep, Untouched, tsfnVars, sizeVars
<1>4. buf' \in Seq(Inputs) /\ ctx # "none"
  BY SendTyped DEF WorkSends, SendInput, SendTakes, SendRefuses
<1> QED
  BY <1>3, <1>4 DEF WorkSends, HandlerType, Untouched

(* A received frame is one that was sent.                                  *)
LEMMA ReceiveFrameStep ==
  ASSUME CoreTypeOK, HandlerType, ReceiveFrame, wpc \in {"receive", "drain"},
         blocked' \in BOOLEAN
  PROVE  HandlerStep /\ HandlerType'
<1>1. wpc \in HandlerPoints /\ wpc \in PointsOf(msg.type)
  BY PointsReached DEF CoreTypeOK, WorkerType, WorkPoints, FlushPoints
<1>2. HandlerStays
  BY <1>1 DEF ReceiveFrame, HandlerStays, workerVars
<1>3. buf \in Seq(Inputs) /\ buf # <<>>
  BY DEF HandlerType, ReceiveFrame, ReceiveOutput
<1>4. Head(buf) \in Inputs /\ Tail(buf) \in Seq(Inputs)
  BY <1>3
<1>5. UNCHANGED outQ \/ \E n \in Inputs : OutputFrame(n)
  BY <1>4 DEF ReceiveFrame
<1>6. HandlerStep
  BY <1>1, <1>2, <1>5 DEF ReceiveFrame, HandlerStep, Untouched, workerVars, sizeVars
<1> QED
  BY <1>4, <1>6 DEF ReceiveFrame, HandlerType, Untouched

LEMMA WorkReceivesNoMoreStep ==
  ASSUME CoreTypeOK, HandlerType, WorkReceivesNoMore, blocked' \in BOOLEAN
  PROVE  HandlerStep /\ HandlerType'
<1>1. msg.type \in {"decode", "encode"} /\ wpc \in HandlerPoints
  BY InHandKinds, PointsReached DEF WorkReceivesNoMore, WorkPoints
<1>2. HandlerStays
  BY <1>1, PointsReached DEF WorkReceivesNoMore, Goto, HandlerStays, tsfnVars
<1>3. HandlerStep
  BY <1>1, <1>2 DEF WorkReceivesNoMore, Goto, HandlerStep, Untouched, tsfnVars,
     sizeVars
<1> QED
  BY <1>3 DEF WorkReceivesNoMore, HandlerType, Untouched, ctxVars

LEMMA WorkFinishesStep ==
  ASSUME CoreTypeOK, HandlerType, WorkCounts \/ WorkSignals, blocked' \in BOOLEAN
  PROVE  HandlerStep /\ HandlerType'
<1> USE DEF WorkCounts, WorkSignals
<1>1. msg.type \in {"decode", "encode"} /\ wpc \in HandlerPoints
  BY InHandKinds, PointsReached DEF WorkPoints
<1>2. CASE WorkCounts
  <2>1. HandlerStays
    BY <1>1, <1>2, PointsReached DEF Goto, HandlerStays, tsfnVars
  <2> QED
    BY <1>1, <1>2, <2>1 DEF Goto, HandlerStep, HandlerType, Untouched, tsfnVars,
       ctxVars
<1>3. CASE WorkSignals
  <2>1. HandlerReturns
    BY <1>1, <1>3 DEF Return, HandlerReturns
  <2> QED
    BY <1>1, <1>3, <2>1 DEF Return, HandlerStep, HandlerType, Untouched, ctxVars
<1> QED
  BY <1>2, <1>3

-----------------------------------------------------------------------------
(* OnFlush and OnReset.                                                    *)

LEMMA HandleFlushStep ==
  ASSUME CoreTypeOK, HandlerType, HandleFlush, blocked' \in BOOLEAN
  PROVE  HandlerStep /\ HandlerType'
<1>1. CASE FlushEndsAtOnce \/ FlushEnds
  <2> USE DEF FlushEndsAtOnce, FlushEnds
  <2>1. msg.type = "flush" /\ wpc \in HandlerPoints
    BY <1>1, InHandKinds, PointsReached DEF FlushPoints
  <2>2. \E ok \in BOOLEAN : FlushComplete(msg.id, ok)
    BY <1>1
  <2>3. HandlerReturns
    BY <1>1, <2>1, <2>2 DEF Return, HandlerReturns
  <2>4. HandlerStep
    BY <1>1, <2>1, <2>3 DEF Return, HandlerStep, Untouched, sizeVars
  <2> QED
    BY <1>1, <2>4 DEF HandlerType, Untouched, ctxVars
<1>2. CASE FlushSends
  <2>1. msg.type = "flush" /\ wpc \in HandlerPoints
    BY <1>2, InHandKinds, PointsReached DEF FlushSends, FlushPoints
  <2>2. HandlerStays
    BY <1>2, <2>1, PointsReached DEF FlushSends, Goto, HandlerStays, tsfnVars
  <2>3. HandlerStep
    BY <1>2, <2>1, <2>2 DEF FlushSends, Goto, HandlerStep, Untouched, tsfnVars,
       sizeVars
  <2> QED
    BY <1>2, <2>3 DEF FlushSends, HandlerType, Untouched
<1>3. CASE FlushDrainsOne
  BY <1>3, ReceiveFrameStep DEF FlushDrainsOne
<1> QED
  BY <1>1, <1>2, <1>3 DEF HandleFlush

(* The codec context is the codec's own; see FlushBuffersTyped.            *)
LEMMA HandleResetStep ==
  ASSUME CoreTypeOK, HandleReset, blocked' \in BOOLEAN
  PROVE  HandlerStep
<1>1. msg.type = "reset" /\ wpc \in HandlerPoints
  BY InHandKinds, PointsReached DEF HandleReset
<1>2. HandlerReturns
  BY <1>1 DEF HandleReset, Return, HandlerReturns, tsfnVars
<1> QED
  BY <1>1, <1>2 DEF HandleReset, Return, HandlerStep, Untouched, tsfnVars, sizeVars

LEMMA FlushBuffersTyped ==
  ASSUME HandlerType, FlushBuffers, UNCHANGED <<active, ctxCfg>>
  PROVE  HandlerType'
<1>1. buf' \in Seq(Inputs)
  BY DEF FlushBuffers
<1> QED
  BY <1>1 DEF FlushBuffers, HandlerType

LEMMA HandlerInitTyped == HandlerInit => HandlerType
<1> SUFFICES ASSUME HandlerInit PROVE HandlerType
  OBVIOUS
<1>1. buf \in Seq(Inputs)
  BY DEF HandlerInit
<1> QED
  BY <1>1 DEF HandlerInit, HandlerType, NoConfig, Config
-----------------------------------------------------------------------------
(* The order of requests, outputs and flushes.                             *)
(*                                                                         *)
(* PipelineSpec is what the four codecs have in common here: the steps     *)
(* outside the handlers are those of the abstract codec, and leave the     *)
(* FFmpeg codec alone; the others are those of the handlers.               *)

(* The steps of the handlers, whatever config OnConfigure is given, and    *)
(* whether the early ends of OnDecode or OnEncode count the request or not.*)
EndsEarly == WorkSkips \/ WorkSendFails \/ WorkAllocFails \/ WorkReceiveFails

HandlerNext ==
  \/ \E config \in Config :
       ConfigureRejects(config) \/ ConfigureAllocates(config) \/ ConfigureOpens(config)
  \/ EndsEarly /\ (Return \/ Goto("count"))
  \/ WorkSends \/ WorkReceives \/ WorkReceivesNoMore \/ WorkCounts \/ WorkSignals
  \/ HandleFlush
  \/ HandleReset /\ (FlushBuffers \/ UNCHANGED <<ctx, buf>>)

PipelineNext ==
  \/ FrameNext /\ UNCHANGED ctxVars
  \/ HandlerStep /\ HandlerNext

pipelineVars == <<coreVars, ctxVars>>

PipelineSpec ==
  CoreInit /\ ctx = "none" /\ buf = <<>> /\ [][PipelineNext]_pipelineVars

(* A codec that is not set up holds nothing.                               *)
NoContextEmpty == ctx = "none" => buf = <<>>

(* What all of this does to the order of things: a handler step leaves the *)
(* FIFO alone, empties it, sends the request in hand, or receives its      *)
(* front; and completes a flush successfully only with the FIFO empty or   *)
(* during shutdown.                                                        *)
PipelineStep ==
  /\ ~AtWork'
  /\ \/ UNCHANGED outQ /\ (UNCHANGED buf \/ buf' = <<>>)
     \/ AtWork /\ UNCHANGED outQ /\ buf' = Append(buf, msg.id)
     \/ /\ buf # <<>> /\ buf' = Tail(buf)
        /\ UNCHANGED outQ \/ OutputFrame(Head(buf))
  /\ \/ UNCHANGED flushQ
     \/ \E ok \in BOOLEAN :
          /\ msg.type = "flush"
          /\ FlushComplete(msg.id, ok)
          /\ ok => shouldExit \/ buf' = <<>>

(* A reset message is not given up before the codec is empty.              *)
EmptiesOnReset == msg.type = "reset" /\ msg' # msg => buf' = <<>>

ResetsEmpty == [][EmptiesOnReset]_pipelineVars

-----------------------------------------------------------------------------
(* Each handler operator is a PipelineStep.                                *)

LEMMA LeavesWork ==
  ASSUME wpc' \notin {"decode", "encode"}
  PROVE  ~AtWork'
  BY DEF AtWork

LEMMA ConfigurePipeline ==
  ASSUME NEW config,
         ConfigureRejects(config) \/ ConfigureAllocates(config) \/ ConfigureOpens(config)
  PROVE  PipelineStep
<1> USE DEF ConfigureRejects, ConfigureAllocates, ConfigureOpens
<1>1. ~AtWork'
  BY LeavesWork DEF Return, Goto
<1> QED
  BY <1>1 DEF PipelineStep, ctxVars

LEMMA WorkPipeline ==
  ASSUME \/ /\ WorkSkips \/ WorkSendFails \/ WorkAllocFails \/ WorkReceiveFails
            /\ Return \/ Goto("count")
         \/ WorkSends \/ WorkReceivesNoMore \/ WorkCounts \/ WorkSignals
  PROVE  PipelineStep
<1>1. ~AtWork'
  BY LeavesWork DEF Return, Goto, WorkSends, WorkReceivesNoMore, WorkCounts,
     WorkSignals
<1>2. UNCHANGED <<outQ, flushQ>>
  BY DEF WorkSkips, WorkSendFails, WorkAllocFails, WorkReceiveFails, WorkSends,
     WorkReceivesNoMore, WorkCounts, WorkSignals, tsfnVars
<1>3. UNCHANGED buf \/ (AtWork /\ buf' = Append(buf, msg.id))
  BY DEF WorkSkips, WorkSendFails, WorkAllocFails, WorkReceiveFails, WorkSends,
     WorkReceivesNoMore, WorkCounts, WorkSignals, SendInput, ctxVars
<1> QED
  BY <1>1, <1>2, <1>3 DEF PipelineStep

LEMMA ReceivePipeline ==
  ASSUME ReceiveFrame, wpc \in {"receive", "drain"}
  PROVE  PipelineStep
<1>1. ~AtWork'
  BY LeavesWork DEF ReceiveFrame, workerVars
<1> QED
  BY <1>1 DEF ReceiveFrame, ReceiveOutput, PipelineStep

LEMMA FlushPipeline ==
  ASSUME CoreTypeOK, NoContextEmpty, HandleFlush
  PROVE  PipelineStep
<1>1. CASE FlushEndsAtOnce \/ FlushEnds
  <2> USE DEF FlushEndsAtOnce, FlushEnds
  <2>1. ~AtWork' /\ UNCHANGED <<outQ, buf>>
    BY <1>1, LeavesWork DEF Return, ctxVars
  <2>2. msg.type = "flush"
    BY <1>1, InHandKinds DEF FlushPoints
  <2>3. \E ok \in BOOLEAN :
          FlushComplete(msg.id, ok) /\ (ok => shouldExit \/ buf = <<>>)
    BY <1>1 DEF NoContextEmpty, ReceiveEnd
  <2> QED
    BY <2>1, <2>2, <2>3 DEF PipelineStep
<1>2. CASE FlushSends
  <2>1. ~AtWork'
    BY <1>2, LeavesWork DEF FlushSends, Goto
  <2> QED
    BY <1>2, <2>1 DEF FlushSends, PipelineStep, tsfnVars
<1>3. CASE FlushDrainsOne
  BY <1>3, ReceivePipeline DEF FlushDrainsOne
<1> QED
  BY <1>1, <1>2, <1>3 DEF HandleFlush

LEMMA ResetPipeline ==
  ASSUME HandleReset, FlushBuffers \/ UNCHANGED buf
  PROVE  PipelineStep
<1>1. ~AtWork'
  BY LeavesWork DEF HandleReset, Return
<1> QED
  BY <1>1 DEF HandleReset, FlushBuffers, PipelineStep, tsfnVars

LEMMA HandlerPipeline ==
  ASSUME CoreTypeOK, NoContextEmpty, HandlerNext
  PROVE  PipelineStep
  BY ConfigurePipeline, WorkPipeline, ReceivePipeline, FlushPipeline, ResetPipeline
     DEF HandlerNext, EndsEarly, WorkReceives

LEMMA NoContextEmptyStep ==
  ASSUME NoContextEmpty, HandlerNext
  PROVE  NoContextEmpty'
<1> USE DEF NoContextEmpty
<1>1. ASSUME NEW config,
             ConfigureRejects(config) \/ ConfigureAllocates(config)
               \/ ConfigureOpens(config)
      PROVE  NoContextEmpty'
  BY <1>1 DEF ConfigureRejects, ConfigureAllocates, ConfigureOpens, ctxVars
<1>2. CASE EndsEarly \/ WorkSends
  BY <1>2 DEF EndsEarly, WorkSkips, WorkSendFails, WorkAllocFails, WorkReceiveFails,
     WorkSends, SendInput, SendTakes, SendRefuses, ctxVars
<1>3. CASE WorkReceives \/ WorkReceivesNoMore \/ WorkCounts \/ WorkSignals
  BY <1>3 DEF WorkReceives, ReceiveFrame, ReceiveOutput, WorkReceivesNoMore,
     WorkCounts, WorkSignals, ctxVars
<1>4. CASE HandleFlush
  BY <1>4 DEF HandleFlush, FlushEndsAtOnce, FlushSends, FlushDrainsOne, FlushEnds,
     ReceiveFrame, ReceiveOutput, ctxVars
<1>5. CASE HandleReset /\ (FlushBuffers \/ UNCHANGED <<ctx, buf>>)
  BY <1>5 DEF FlushBuffers
<1> QED
  BY <1>1, <1>2, <1>3, <1>4, <1>5 DEF HandlerNext

-----------------------------------------------------------------------------
(* Sequences, as sets of members in increasing order.                      *)

LEMMA MembersOfAppend ==
  ASSUME NEW S, NEW s \in Seq(S), NEW e
  PROVE  Members(Append(s, e)) = Members(s) \cup {e}
<1> DEFINE t == Append(s, e)
<1>1. /\ Len(s) \in Nat /\ DOMAIN s = 1 .. Len(s) /\ DOMAIN t = 1 .. Len(s) + 1
      /\ t[Len(s) + 1] = e /\ \A i \in 1 .. Len(s) : t[i] = s[i]
  OBVIOUS
<1> HIDE DEF t
<1>2. Members(t) \subseteq Members(s) \cup {e}
  <2> SUFFICES ASSUME NEW i \in DOMAIN t
               PROVE  t[i] \in Members(s) \cup {e}
    BY DEF Members
  <2>1. i = Len(s) + 1 \/ i \in DOMAIN s
    BY <1>1
  <2> QED
    BY <1>1, <2>1 DEF Members
<1>3. Members(s) \cup {e} \subseteq Members(t)
  <2>1. ASSUME NEW i \in DOMAIN s PROVE i \in DOMAIN t /\ s[i] = t[i]
    BY <1>1
  <2>2. Len(s) + 1 \in DOMAIN t
    BY <1>1
  <2> QED
    BY <1>1, <2>1, <2>2 DEF Members
<1> QED
  BY <1>2, <1>3 DEF t

LEMMA MembersOfTail ==
  ASSUME NEW S, NEW s \in Seq(S), s # <<>>
  PROVE  Members(s) = {Head(s)} \cup Members(Tail(s))
<1> DEFINE t == Tail(s)
<1>1. /\ Len(s) \in Nat /\ Len(s) > 0 /\ DOMAIN s = 1 .. Len(s)
      /\ DOMAIN t = 1 .. Len(s) - 1
      /\ Head(s) = s[1] /\ \A i \in 1 .. Len(s) - 1 : t[i] = s[i + 1]
  OBVIOUS
<1> HIDE DEF t
<1>2. Members(s) \subseteq {Head(s)} \cup Members(t)
  <2> SUFFICES ASSUME NEW i \in DOMAIN s, i # 1
               PROVE  s[i] \in Members(t)
    BY <1>1 DEF Members
  <2>1. i - 1 \in DOMAIN t /\ t[i - 1] = s[i]
    BY <1>1
  <2> QED
    BY <2>1 DEF Members
<1>3. {Head(s)} \cup Members(t) \subseteq Members(s)
  <2>1. 1 \in DOMAIN s
    BY <1>1
  <2>2. ASSUME NEW i \in DOMAIN t PROVE i + 1 \in DOMAIN s /\ t[i] = s[i + 1]
    BY <1>1
  <2> QED
    BY <1>1, <2>1, <2>2 DEF Members
<1> QED
  BY <1>2, <1>3 DEF t

LEMMA IncreasingAppend ==
  ASSUME NEW s \in Seq(Inputs), NEW e \in Inputs, Increasing(s), Precede(Members(s), {e})
  PROVE  Increasing(Append(s, e))
<1> DEFINE t == Append(s, e)
<1>1. /\ Len(s) \in Nat /\ DOMAIN s = 1 .. Len(s) /\ DOMAIN t = 1 .. Len(s) + 1
      /\ t[Len(s) + 1] = e /\ \A i \in 1 .. Len(s) : t[i] = s[i]
  OBVIOUS
<1> HIDE DEF t
<1> SUFFICES ASSUME NEW i \in DOMAIN t, NEW j \in DOMAIN t, i < j
             PROVE  t[i] < t[j]
  BY DEF Increasing, t
<1>2. i \in DOMAIN s /\ t[i] = s[i]
  BY <1>1
<1>3. CASE j = Len(s) + 1
  BY <1>1, <1>2, <1>3 DEF Precede, Members
<1>4. CASE j # Len(s) + 1
  BY <1>1, <1>2, <1>4 DEF Increasing
<1> QED
  BY <1>3, <1>4

LEMMA IncreasingTail ==
  ASSUME NEW s \in Seq(Inputs), s # <<>>, Increasing(s)
  PROVE  Increasing(Tail(s)) /\ Precede({Head(s)}, Members(Tail(s)))
<1> DEFINE t == Tail(s)
<1>1. /\ Len(s) \in Nat /\ Len(s) > 0 /\ DOMAIN s = 1 .. Len(s)
      /\ DOMAIN t = 1 .. Len(s) - 1
      /\ Head(s) = s[1] /\ \A i \in 1 .. Len(s) - 1 : t[i] = s[i + 1]
  OBVIOUS
<1> HIDE DEF t
<1>2. ASSUME NEW i \in DOMAIN t, NEW j \in DOMAIN t, i < j
      PROVE  t[i] < t[j]
  <2>1. i + 1 \in DOMAIN s /\ j + 1 \in DOMAIN s /\ i + 1 < j + 1
    BY <1>1, <1>2
  <2> QED
    BY <1>1, <1>2, <2>1 DEF Increasing
<1>3. ASSUME NEW i \in DOMAIN t
      PROVE  Head(s) < t[i]
  <2>1. 1 \in DOMAIN s /\ i + 1 \in DOMAIN s /\ 1 < i + 1
    BY <1>1
  <2> QED
    BY <1>1, <2>1 DEF Increasing
<1> QED
  BY <1>2, <1>3 DEF Increasing, Precede, Members, t

(* Two increasing sequences, one before the other.                         *)
LEMMA IncreasingJoin ==
  ASSUME NEW S, NEW T, NEW s \in Seq(S), NEW t \in Seq(T),
         Increasing(s), Increasing(t),
         Precede(Members(s), Members(t))
  PROVE  Increasing(s \o t)
<1> DEFINE u == s \o t
<1>1. /\ Len(s) \in Nat /\ DOMAIN s = 1 .. Len(s)
      /\ Len(t) \in Nat /\ DOMAIN t = 1 .. Len(t)
      /\ DOMAIN u = 1 .. Len(s) + Len(t)
      /\ \A i \in 1 .. Len(s) : u[i] = s[i]
      /\ \A i \in Len(s) + 1 .. Len(s) + Len(t) : u[i] = t[i - Len(s)]
  OBVIOUS
<1> HIDE DEF u
<1> SUFFICES ASSUME NEW i \in DOMAIN u, NEW j \in DOMAIN u, i < j
             PROVE  u[i] < u[j]
  BY DEF Increasing, u
<1>2. CASE j \in DOMAIN s
  BY <1>1, <1>2 DEF Increasing
<1>3. CASE i \in DOMAIN s /\ j \notin DOMAIN s
  <2>1. j - Len(s) \in DOMAIN t /\ u[j] = t[j - Len(s)] /\ u[i] = s[i]
    BY <1>1, <1>3
  <2> QED
    BY <1>3, <2>1 DEF Precede, Members
<1>4. CASE i \notin DOMAIN s
  <2>0. /\ i \in Len(s) + 1 .. Len(s) + Len(t) /\ j \in Len(s) + 1 .. Len(s) + Len(t)
        /\ i - Len(s) \in 1 .. Len(t) /\ j - Len(s) \in 1 .. Len(t)
    BY <1>1, <1>4
  <2>1. i - Len(s) \in DOMAIN t /\ u[i] = t[i - Len(s)]
    BY <1>1, <2>0
  <2>2. j - Len(s) \in DOMAIN t /\ u[j] = t[j - Len(s)]
    BY <1>1, <2>0
  <2>3. i - Len(s) < j - Len(s)
    BY <1>1
  <2> QED
    BY <2>1, <2>2, <2>3 DEF Increasing
<1> QED
  BY <1>2, <1>3, <1>4

-----------------------------------------------------------------------------
(* Messages, by the requests among them.                                   *)

LEMMA WorkIdsAppend ==
  ASSUME NEW s \in Seq(Messages), NEW m \in Messages
  PROVE  /\ WorkIds(Append(s, m)) =
              WorkIds(s) \cup (IF IsWork(m) THEN {m.id} ELSE {})
         /\ WorkIncreases(s) /\ (IsWork(m) => Precede(WorkIds(s), {m.id}))
              => WorkIncreases(Append(s, m))
<1> DEFINE t == Append(s, m)
<1>1. /\ Len(s) \in Nat /\ DOMAIN s = 1 .. Len(s) /\ DOMAIN t = 1 .. Len(s) + 1
      /\ t[Len(s) + 1] = m /\ \A i \in 1 .. Len(s) : t[i] = s[i]
  OBVIOUS
<1> HIDE DEF t
<1>2. WorkIds(t) \subseteq WorkIds(s) \cup (IF IsWork(m) THEN {m.id} ELSE {})
  <2> SUFFICES ASSUME NEW i \in DOMAIN t, IsWork(t[i])
               PROVE  t[i].id \in WorkIds(s) \cup (IF IsWork(m) THEN {m.id} ELSE {})
    BY DEF WorkIds
  <2>1. i = Len(s) + 1 \/ i \in DOMAIN s
    BY <1>1
  <2> QED
    BY <1>1, <2>1 DEF WorkIds
<1>3. WorkIds(s) \subseteq WorkIds(t)
  <2>1. ASSUME NEW i \in DOMAIN s PROVE i \in DOMAIN t /\ s[i] = t[i]
    BY <1>1
  <2> QED
    BY <2>1 DEF WorkIds
<1>4. IsWork(m) => m.id \in WorkIds(t)
  <2>1. Len(s) + 1 \in DOMAIN t
    BY <1>1
  <2> QED
    BY <1>1, <2>1 DEF WorkIds
<1>5. ASSUME WorkIncreases(s), IsWork(m) => Precede(WorkIds(s), {m.id})
      PROVE  WorkIncreases(t)
  <2> SUFFICES ASSUME NEW i \in DOMAIN t, NEW j \in DOMAIN t, i < j,
                      IsWork(t[i]), IsWork(t[j])
               PROVE  t[i].id < t[j].id
    BY DEF WorkIncreases
  <2>1. i \in DOMAIN s /\ t[i] = s[i]
    BY <1>1
  <2>2. t[i].id \in WorkIds(s)
    BY <2>1 DEF WorkIds
  <2>3. CASE j = Len(s) + 1
    BY <1>1, <1>5, <2>2, <2>3 DEF Precede
  <2>4. CASE j # Len(s) + 1
    <3>1. j \in DOMAIN s /\ t[j] = s[j]
      BY <1>1, <2>4
    <3> QED
      BY <1>5, <2>1, <3>1 DEF WorkIncreases
  <2> QED
    BY <2>3, <2>4
<1> QED
  BY <1>2, <1>3, <1>4, <1>5 DEF t

LEMMA WorkIdsTail ==
  ASSUME NEW s \in Seq(Messages), s # <<>>
  PROVE  /\ WorkIds(s) = (IF IsWork(Head(s)) THEN {Head(s).id} ELSE {})
                           \cup WorkIds(Tail(s))
         /\ WorkIncreases(s) =>
              /\ WorkIncreases(Tail(s))
              /\ IsWork(Head(s)) => Precede({Head(s).id}, WorkIds(Tail(s)))
<1> DEFINE t == Tail(s)
<1>1. /\ Len(s) \in Nat /\ Len(s) > 0 /\ DOMAIN s = 1 .. Len(s)
      /\ DOMAIN t = 1 .. Len(s) - 1
      /\ Head(s) = s[1] /\ \A i \in 1 .. Len(s) - 1 : t[i] = s[i + 1]
  OBVIOUS
<1> HIDE DEF t
<1>2. ASSUME NEW i \in DOMAIN t PROVE i + 1 \in DOMAIN s /\ t[i] = s[i + 1]
  BY <1>1
<1>3. ASSUME NEW i \in DOMAIN s, i # 1 PROVE i - 1 \in DOMAIN t /\ t[i - 1] = s[i]
  BY <1>1, <1>3
<1>4. 1 \in DOMAIN s
  BY <1>1
<1>5. WorkIds(s) \subseteq (IF IsWork(Head(s)) THEN {Head(s).id} ELSE {}) \cup WorkIds(t)
  <2> SUFFICES ASSUME NEW i \in DOMAIN s, IsWork(s[i]), i # 1
               PROVE  s[i].id \in WorkIds(t)
    BY <1>1 DEF WorkIds
  <2> QED
    BY <1>3 DEF WorkIds
<1>6. (IF IsWork(Head(s)) THEN {Head(s).id} ELSE {}) \cup WorkIds(t) \subseteq WorkIds(s)
  BY <1>1, <1>2, <1>4 DEF WorkIds
<1>7. ASSUME WorkIncreases(s)
      PROVE  WorkIncreases(t)
  <2> SUFFICES ASSUME NEW i \in DOMAIN t, NEW j \in DOMAIN t, i < j,
                      IsWork(t[i]), IsWork(t[j])
               PROVE  t[i].id < t[j].id
    BY DEF WorkIncreases
  <2>1. i + 1 < j + 1
    BY <1>1
  <2> QED
    BY <1>2, <1>7, <2>1 DEF WorkIncreases
<1>8. ASSUME WorkIncreases(s), IsWork(Head(s))
      PROVE  Precede({Head(s).id}, WorkIds(t))
  <2> SUFFICES ASSUME NEW j \in DOMAIN t, IsWork(t[j])
               PROVE  Head(s).id < t[j].id
    BY DEF Precede, WorkIds
  <2>1. 1 < j + 1
    BY <1>1
  <2> QED
    BY <1>1, <1>2, <1>4, <1>8, <2>1 DEF WorkIncreases
<1> QED
  BY <1>5, <1>6, <1>7, <1>8 DEF t

-----------------------------------------------------------------------------
(* What the steps outside the handlers do to the pipeline.                 *)

(* The worker stays at its program point, or outside the handlers.         *)
Stays == wpc' = wpc \/ (wpc \notin HandlerPoints /\ wpc' \notin HandlerPoints)

(* Only a configure() makes the codec configured.                          *)
NotConfiguring == state' = "configured" => state = "configured"

(* Nothing that matters to the pipeline: also a configure() that throws,   *)
(* and the steps of Release.                                               *)
Idle ==
  /\ UNCHANGED <<queue, msg, outQ, lastOut, inputs, resetMark, flushQ, flushMark,
                 nextFlush, resets>>
  /\ Stays /\ NotConfiguring
  /\ shouldExit => shouldExit'
  /\ UNCHANGED size \/ state' = "closed"
  /\ UNCHANGED configures \/ (configures' = configures + 1 /\ UNCHANGED state)

(* configure() and flush() append a message that is not a request, decode()*)
(* and encode() append one and count it, reset() leaves only its own.      *)
Appends(m) ==
  /\ m \in Messages
  /\ queue' = Append(queue, m)
  /\ UNCHANGED <<msg, outQ, lastOut, resetMark, flushQ, shouldExit, resets>>
  /\ Stays

Configures(m) ==
  /\ Appends(m) /\ m.type = "configure"
  /\ configures' = configures + 1
  /\ UNCHANGED <<inputs, flushMark, nextFlush, size>>

Requests(m) ==
  /\ Appends(m) /\ IsWork(m) /\ m.id = inputs + 1
  /\ state = "configured"
  /\ inputs' = inputs + 1 /\ size' = Inc(size)
  /\ UNCHANGED <<flushMark, nextFlush, configures, state>>

Flushes(m) ==
  /\ Appends(m) /\ m.type = "flush" /\ m.id = nextFlush /\ nextFlush \in FlushIds
  /\ state = "configured"
  /\ nextFlush' = nextFlush + 1
  /\ flushMark' = [flushMark EXCEPT ![nextFlush] = inputs]
  /\ UNCHANGED <<inputs, size, configures, state>>

Clears ==
  /\ queue' = <<[type |-> "reset"]>>
  /\ resetMark' = inputs
  /\ resets' = resets + 1 /\ size' = 0
  /\ UNCHANGED <<msg, outQ, lastOut, inputs, flushQ, flushMark, nextFlush, shouldExit,
                 configures>>
  /\ Stays /\ state' # "configured"

Delivers ==
  /\ outQ # <<>> /\ outQ' = Tail(outQ)
  /\ lastOut' = IF state = "closed" THEN lastOut ELSE Head(outQ)
  /\ UNCHANGED <<queue, msg, inputs, resetMark, flushQ, flushMark, nextFlush,
                 shouldExit, size, configures, resets, state>>
  /\ Stays

Completes ==
  /\ flushQ # <<>> /\ flushQ' = Tail(flushQ)
  /\ UNCHANGED <<queue, msg, outQ, lastOut, inputs, resetMark, flushMark, nextFlush,
                 shouldExit, size, configures, resets, state>>
  /\ Stays

Takes ==
  /\ queue # <<>> /\ queue' = Tail(queue)
  /\ msg = NoMessage /\ msg' = Head(queue)
  /\ wpc \notin HandlerPoints /\ wpc' = Head(queue).type
  /\ UNCHANGED <<outQ, lastOut, inputs, resetMark, flushQ, flushMark, nextFlush,
                 shouldExit, size, configures, resets, state>>

LEMMA SameWork ==
  ASSUME wpc' = wpc
  PROVE  Stays
  BY DEF Stays

LEMMA NotAtWork ==
  ASSUME wpc \in LoopPoints, wpc' \in LoopPoints
  PROVE  Stays
  BY PointsApart DEF Stays

LEMMA StaysAtWork ==
  ASSUME Stays
  PROVE  /\ AtWork' = AtWork
         /\ WorkInHand' = WorkInHand
<1>1. wpc \notin HandlerPoints => ~AtWork /\ wpc \notin WorkPoints \ {"signal"}
  BY DEF AtWork, HandlerPoints, WorkPoints
<1>2. wpc' \notin HandlerPoints => ~AtWork' /\ wpc' \notin WorkPoints \ {"signal"}
  BY DEF AtWork, HandlerPoints, WorkPoints
<1>3. AtWork \in BOOLEAN /\ AtWork' \in BOOLEAN
  BY DEF AtWork
<1> QED
  BY <1>1, <1>2, <1>3 DEF Stays, AtWork, WorkInHand

LEMMA TakesWork ==
  ASSUME CoreTypeOK, Takes
  PROVE  /\ ~AtWork /\ (AtWork' <=> IsWork(Head(queue)))
         /\ WorkInHand = 0 /\ WorkInHand' = IF IsWork(Head(queue)) THEN 1 ELSE 0
<1>1. Head(queue) \in Messages
  BY DEF Takes, CoreTypeOK, QueueType
<1>2. Head(queue).type \in {"configure", "flush", "reset", "decode", "encode"}
  BY <1>1 DEF Messages, ConfigureMessages, FlushMessages, ResetMessages, WorkMessages
<1> QED
  BY <1>2 DEF Takes, AtWork, IsWork, WorkInHand, HandlerPoints, WorkPoints

LEMMA MethodPipeline ==
  ASSUME CoreTypeOK, ReleaseIsFinal,
         \/ \E cfg \in Config : AcceptConfigure(cfg)
         \/ \E type \in {"decode", "encode"}, key \in BOOLEAN : AcceptInput(type, key)
         \/ RequestFlush \/ ResetAll
  PROVE  (\E m \in Messages : Configures(m) \/ Requests(m) \/ Flushes(m)) \/ Clears
<1> USE DEF Appends
<1>1. ASSUME NEW cfg \in Config, AcceptConfigure(cfg)
      PROVE  \E m \in Messages : Configures(m)
  <2> DEFINE m == [type |-> "configure", cfg |-> cfg]
  <2>1. m \in Messages
    BY DEF Messages, ConfigureMessages
  <2>2. ~qclosed /\ ~shouldExit /\ Enqueue(m)
    BY <1>1 DEF AcceptConfigure, ReleaseIsFinal, CoreTypeOK, WorkerType
  <2>3. Stays /\ UNCHANGED <<msg, shouldExit>>
    <3>1. CASE running
      BY <1>1, <3>1, SameWork DEF AcceptConfigure, Start, workerVars
    <3>2. CASE ~running
      <4>1. /\ wpc = "off" /\ wpc' \in {"off", "top"} /\ UNCHANGED <<msg, shouldExit>>
        BY <1>1, <2>2, <3>2 DEF AcceptConfigure, Start, CoreTypeOK, WorkerType
      <4> QED
        BY <4>1, NotAtWork, PointsApart
    <3> QED
      BY <3>1, <3>2
  <2>4. queue' = Append(queue, m) /\ m.type = "configure"
    BY <2>2 DEF Enqueue
  <2> QED
    BY <1>1, <2>1, <2>3, <2>4 DEF Configures, AcceptConfigure, tsfnVars, flushVars,
       sizeVars
<1>2. ASSUME NEW type \in {"decode", "encode"}, NEW key \in BOOLEAN,
             AcceptInput(type, key)
      PROVE  \E m \in Messages : Requests(m)
  <2> DEFINE m == [type |-> type, id |-> inputs + 1, key |-> key]
  <2>1. m \in Messages
    BY <1>2, BoundsAssumption DEF CoreTypeOK, CountType, AcceptInput, Messages,
       WorkMessages, Inputs
  <2>2. ~qclosed /\ Enqueue(m)
    BY <1>2 DEF AcceptInput, ReleaseIsFinal
  <2>3. Stays
    BY <1>2, SameWork DEF AcceptInput, workerVars
  <2>4. queue' = Append(queue, m) /\ IsWork(m) /\ m.id = inputs + 1
    BY <2>2 DEF Enqueue, IsWork
  <2> QED
    BY <1>2, <2>1, <2>2, <2>3, <2>4 DEF Requests, AcceptInput, tsfnVars, flushVars,
       jsVars, workerVars
<1>3. CASE RequestFlush
  <2> DEFINE m == [type |-> "flush", id |-> nextFlush]
  <2>1. m \in Messages /\ nextFlush \in FlushIds
    BY <1>3, BoundsAssumption DEF CoreTypeOK, FlushType, RequestFlush, OpenFlush,
       Messages, FlushMessages, FlushIds
  <2>2. ~qclosed /\ Enqueue(m)
    BY <1>3 DEF RequestFlush, OpenFlush, ReleaseIsFinal
  <2>3. Stays
    BY <1>3, SameWork DEF RequestFlush, workerVars
  <2>4. queue' = Append(queue, m) /\ m.type = "flush" /\ m.id = nextFlush
    BY <2>2 DEF Enqueue
  <2>5. Flushes(m)
    BY <1>3, <2>1, <2>3, <2>4 DEF Flushes, RequestFlush, OpenFlush, tsfnVars,
       sizeVars, jsVars, countVars, workerVars
  <2> QED
    BY <2>1, <2>5
<1>4. CASE ResetAll
  <2>1. ~qclosed
    BY <1>4 DEF ResetAll, ReleaseIsFinal
  <2>2. Stays
    BY <1>4, SameWork DEF ResetAll, workerVars
  <2> QED
    BY <1>4, <2>1, <2>2 DEF Clears, ResetAll, ClearThenEnqueue, RejectFlushes,
       Transition, NotConfiguring, tsfnVars, workerVars
<1> QED
  BY <1>1, <1>2, <1>3, <1>4

LEMMA LoopPipeline ==
  ASSUME CoreTypeOK, WorkerLoop
  PROVE  Takes \/ Idle
<1> USE DEF JsOwned, tsfnVars, sizeVars, jsVars, countVars, flushVars
<1>1. CASE Dispatch
  <2>1. queue # <<>> /\ queue \in Seq(Messages)
    BY <1>1 DEF Dispatch, TakeFront, CoreTypeOK, QueueType
  <2>2. wpc \notin HandlerPoints /\ msg = NoMessage
    BY <1>1, PointsApart DEF Dispatch, CoreTypeOK, WorkerType
  <2> QED
    BY <1>1, <2>1, <2>2 DEF WorkerLoop, Dispatch, TakeFront, Takes
<1>2. CASE LoopTest \/ Timeout
  <2>1. Stays
    BY <1>2, NotAtWork, PointsApart DEF LoopTest, Timeout
  <2> QED
    BY <1>2, <2>1 DEF WorkerLoop, LoopTest, Timeout, TakeNothing, queueVars, Idle,
       NotConfiguring
<1> QED
  BY <1>1, <1>2 DEF WorkerLoop

LEMMA OtherPipeline ==
  ASSUME CoreTypeOK, ReleaseIsFinal,
         \/ RefuseConfigure \/ RefuseInput \/ CloseAgain
         \/ BeginRelease /\ (UNCHANGED flushVars \/ RejectFlushes)
         \/ StopWorker \/ FinishRelease
         \/ DeliverError \/ DeliverDequeue \/ ErrorReturns \/ DequeueReturns
         \/ UNCHANGED coreVars
  PROVE  Idle
<1> USE DEF queueVars, workerVars, tsfnVars, sizeVars, jsVars, flushVars, countVars,
     coreVars, NotConfiguring
<1>1. CASE RefuseConfigure \/ RefuseInput \/ CloseAgain \/ UNCHANGED coreVars
  BY <1>1, SameWork DEF RefuseConfigure, RefuseInput, CloseAgain, Idle
<1>2. CASE BeginRelease /\ (UNCHANGED flushVars \/ RejectFlushes)
  BY <1>2, SameWork DEF BeginRelease, RejectFlushes, Idle
<1>3. CASE StopWorker
  BY <1>3, SameWork DEF StopWorker, SignalStop, Idle
<1>4. CASE FinishRelease
  <2>1. Stays
    <3>1. CASE running
      BY <1>4, <3>1, NotAtWork, PointsApart DEF FinishRelease, Join
    <3>2. CASE ~running
      BY <1>4, <3>2, SameWork DEF FinishRelease, Join
    <3> QED
      BY <3>1, <3>2
  <2>2. state = "closed"
    BY <1>4 DEF FinishRelease, ReleaseIsFinal
  <2> QED
    BY <1>4, <2>1, <2>2 DEF FinishRelease, AbandonFlushes, Idle
<1>5. CASE DeliverError \/ DeliverDequeue \/ ErrorReturns \/ DequeueReturns
  BY <1>5, SameWork DEF DeliverError, DeliverDequeue, ErrorReturns, DequeueReturns, Idle
<1> QED
  BY <1>1, <1>2, <1>3, <1>4, <1>5

LEMMA DeliveryPipeline ==
  ASSUME CoreTypeOK, DeliverOutput \/ DeliverFlush
  PROVE  Delivers \/ Completes
<1> USE DEF queueVars, workerVars, tsfnVars, sizeVars, jsVars, flushVars, countVars
<1>1. Stays
  BY SameWork DEF DeliverOutput, DeliverFlush
<1> QED
  BY <1>1 DEF DeliverOutput, DeliverFlush, SettleFlush, Delivers, Completes

LEMMA FrameCases ==
  ASSUME CoreTypeOK, ReleaseIsFinal, FrameNext \/ UNCHANGED coreVars
  PROVE  \/ \E m \in Messages : Configures(m) \/ Requests(m) \/ Flushes(m)
         \/ Clears \/ Delivers \/ Completes \/ Takes \/ Idle
  BY MethodPipeline, LoopPipeline, OtherPipeline, DeliveryPipeline
     DEF FrameNext, ReleaseStep, CallbackReturn

-----------------------------------------------------------------------------
(* OutputOrder.                                                            *)

(* The inputs in the places a request goes through, each set before the    *)
(* next, and none beyond the inputs accepted so far.                       *)
InLine(last, out, codec, hand, waiting, n) ==
  /\ Precede(last, out) /\ Precede(last, codec) /\ Precede(last, hand)
  /\ Precede(last, waiting)
  /\ Precede(out, codec) /\ Precede(out, hand) /\ Precede(out, waiting)
  /\ Precede(codec, hand) /\ Precede(codec, waiting)
  /\ Precede(hand, waiting)
  /\ last \subseteq 0 .. n /\ out \subseteq 0 .. n /\ codec \subseteq 0 .. n
  /\ hand \subseteq 0 .. n /\ waiting \subseteq 0 .. n

OrderInv ==
  /\ buf \in Seq(Inputs)
  /\ Increasing(outQ) /\ Increasing(buf) /\ WorkIncreases(queue)
  /\ InLine({lastOut}, Members(outQ), Members(buf), InHandIds, WorkIds(queue), inputs)

LEMMA OrderInvImplies ==
  ASSUME CoreTypeOK, OrderInv
  PROVE  OutputOrder
<1>1. outQ \in Seq(Inputs) /\ buf \in Seq(Inputs) /\ <<lastOut>> \in Seq(Int)
  BY DEF CoreTypeOK, TsfnType, CountType, OrderInv
<1>2. Members(<<lastOut>>) = {lastOut} /\ Increasing(<<lastOut>>)
  BY DEF Members, Increasing
<1>3. Increasing(outQ \o buf)
  BY <1>1, IncreasingJoin DEF OrderInv, InLine
<1>4. Members(outQ \o buf) \subseteq Members(outQ) \cup Members(buf)
  <2>1. ASSUME NEW i \in DOMAIN (outQ \o buf)
        PROVE  (outQ \o buf)[i] \in Members(outQ) \cup Members(buf)
    <3>1. CASE i \in 1 .. Len(outQ)
      BY <1>1, <2>1, <3>1 DEF Members
    <3>2. CASE i \notin 1 .. Len(outQ)
      <4>1. i - Len(outQ) \in DOMAIN buf /\ (outQ \o buf)[i] = buf[i - Len(outQ)]
        BY <1>1, <2>1, <3>2
      <4> QED
        BY <4>1 DEF Members
    <3> QED
      BY <3>1, <3>2
  <2> QED
    BY <2>1 DEF Members
<1>5. Precede(Members(<<lastOut>>), Members(outQ \o buf))
  BY <1>2, <1>4 DEF OrderInv, InLine, Precede
<1>6. Increasing(<<lastOut>> \o (outQ \o buf))
  <2>1. outQ \o buf \in Seq(Inputs)
    BY <1>1
  <2> QED
    BY <1>1, <1>2, <1>3, <1>5, <2>1, IncreasingJoin
<1>7. <<lastOut>> \o outQ \o buf = <<lastOut>> \o (outQ \o buf)
  BY <1>1
<1> QED
  BY <1>6, <1>7 DEF OrderInv, InLine, OutputOrder, Precede

(* A step that only makes the sets smaller, or moves them back in line.    *)
LEMMA OrderKept ==
  ASSUME CoreTypeOK, OrderInv,
         buf' \in Seq(Inputs), Increasing(buf'), Increasing(outQ'),
         WorkIncreases(queue'), UNCHANGED <<inputs, lastOut>>,
         Members(outQ') \subseteq Members(outQ),
         Members(buf') \subseteq Members(buf),
         InHandIds' \subseteq InHandIds,
         WorkIds(queue') \subseteq WorkIds(queue)
  PROVE  OrderInv'
  BY DEF OrderInv, InLine, Precede

LEMMA SameHand ==
  ASSUME UNCHANGED msg, Stays
  PROVE  InHandIds' = InHandIds
  BY StaysAtWork DEF InHandIds

LEMMA OrderFrameStep ==
  ASSUME CoreTypeOK, ReleaseIsFinal, OrderInv, FrameNext \/ UNCHANGED coreVars,
         UNCHANGED buf
  PROVE  OrderInv'
<1>1. /\ buf' \in Seq(Inputs) /\ Increasing(buf') /\ Increasing(outQ)
      /\ WorkIncreases(queue) /\ Members(buf') = Members(buf)
      /\ queue \in Seq(Messages) /\ outQ \in Seq(Inputs) /\ inputs \in Nat
  BY DEF OrderInv, CoreTypeOK, QueueType, TsfnType, CountType
<1>2. ASSUME NEW m \in Messages, Configures(m) \/ Flushes(m)
      PROVE  OrderInv'
  <2>1. ~IsWork(m) /\ Appends(m) /\ UNCHANGED inputs
    BY <1>2 DEF Configures, Flushes, IsWork
  <2>2. WorkIds(queue') = WorkIds(queue) /\ WorkIncreases(queue')
    BY <1>1, <2>1, WorkIdsAppend DEF Appends
  <2> QED
    BY <1>1, <2>1, <2>2, OrderKept, SameHand DEF Appends
<1>3. ASSUME NEW m \in Messages, Requests(m)
      PROVE  OrderInv'
  <2>1. /\ IsWork(m) /\ m.id = inputs + 1 /\ inputs' = inputs + 1
        /\ queue' = Append(queue, m)
        /\ InHandIds' = InHandIds /\ UNCHANGED <<outQ, lastOut>>
    BY <1>3, SameHand DEF Requests, Appends
  <2>2. Precede(WorkIds(queue), {m.id})
    BY <1>1, <2>1 DEF OrderInv, InLine, Precede
  <2>3. WorkIds(queue') = WorkIds(queue) \cup {inputs + 1} /\ WorkIncreases(queue')
    BY <1>1, <2>1, <2>2, WorkIdsAppend
  <2>4. InLine({lastOut}, Members(outQ), Members(buf), InHandIds, WorkIds(queue'),
               inputs + 1)
    BY <1>1, <2>3 DEF OrderInv, InLine, Precede
  <2> QED
    BY <1>1, <2>1, <2>3, <2>4 DEF OrderInv
<1>4. CASE Clears
  <2>1. WorkIds(queue') = {} /\ WorkIncreases(queue')
    BY <1>4 DEF Clears, WorkIds, WorkIncreases, IsWork
  <2> QED
    BY <1>1, <1>4, <2>1, OrderKept, SameHand DEF Clears
<1>5. CASE Delivers
  <2>1. /\ outQ # <<>> /\ outQ' = Tail(outQ) /\ lastOut' \in {lastOut, Head(outQ)}
        /\ InHandIds' = InHandIds /\ UNCHANGED <<queue, inputs>>
    BY <1>5, SameHand DEF Delivers
  <2>2. /\ Members(outQ) = {Head(outQ)} \cup Members(outQ')
        /\ Increasing(outQ') /\ Precede({Head(outQ)}, Members(outQ'))
    BY <1>1, <2>1, MembersOfTail, IncreasingTail
  <2>3. InLine({lastOut'}, Members(outQ'), Members(buf), InHandIds, WorkIds(queue),
               inputs)
    BY <2>1, <2>2 DEF OrderInv, InLine, Precede
  <2> QED
    BY <1>1, <2>1, <2>2, <2>3 DEF OrderInv
<1>6. CASE Completes \/ Idle
  BY <1>1, <1>6, OrderKept, SameHand DEF Completes, Idle
<1>7. CASE Takes
  <2>1. /\ queue # <<>> /\ queue' = Tail(queue) /\ UNCHANGED <<outQ, lastOut, inputs>>
        /\ InHandIds' = IF IsWork(Head(queue)) THEN {Head(queue).id} ELSE {}
    BY <1>7, TakesWork DEF Takes, InHandIds
  <2>2. /\ WorkIds(queue) = InHandIds' \cup WorkIds(queue')
        /\ WorkIncreases(queue') /\ Precede(InHandIds', WorkIds(queue'))
    BY <1>1, <2>1, WorkIdsTail DEF Precede
  <2>3. InLine({lastOut}, Members(outQ), Members(buf), InHandIds', WorkIds(queue'),
               inputs)
    BY <2>2 DEF OrderInv, InLine, Precede
  <2> QED
    BY <1>1, <2>1, <2>2, <2>3 DEF OrderInv
<1> QED
  BY <1>2, <1>3, <1>4, <1>5, <1>6, <1>7, FrameCases

LEMMA OrderHandlerStep ==
  ASSUME CoreTypeOK, OrderInv, HandlerStep, PipelineStep
  PROVE  OrderInv'
<1>1. /\ outQ \in Seq(Inputs) /\ buf \in Seq(Inputs)
      /\ Increasing(outQ) /\ Increasing(buf) /\ WorkIncreases(queue)
      /\ UNCHANGED <<queue, inputs, lastOut>> /\ InHandIds' = {}
  BY DEF OrderInv, CoreTypeOK, TsfnType, HandlerStep, JsOwned,
     countVars, PipelineStep, InHandIds
<1>2. CASE UNCHANGED outQ /\ (UNCHANGED buf \/ buf' = <<>>)
  <2>1. buf' \in Seq(Inputs) /\ Increasing(buf') /\ Members(buf') \subseteq Members(buf)
    <3>1. CASE UNCHANGED buf
      BY <1>1, <3>1
    <3>2. CASE buf' = <<>>
      <4>1. Members(<<>>) = {} /\ Increasing(<<>>) /\ <<>> \in Seq(Inputs)
        BY DEF Members, Increasing
      <4> QED
        BY <3>2, <4>1
    <3> QED
      BY <1>2, <3>1, <3>2
  <2> QED
    BY <1>1, <1>2, <2>1, OrderKept
<1>3. CASE AtWork /\ UNCHANGED outQ /\ buf' = Append(buf, msg.id)
  <2>1. msg.id \in Inputs
    BY <1>3, InHandKinds DEF AtWork, WorkPoints
  <2>2. InHandIds = {msg.id}
    BY <1>3 DEF InHandIds
  <2>3. Increasing(buf')
    BY <1>1, <1>3, <2>1, <2>2, IncreasingAppend DEF OrderInv, InLine
  <2>4. Members(buf') = Members(buf) \cup InHandIds
    BY <1>1, <1>3, <2>2, MembersOfAppend
  <2>5. InLine({lastOut}, Members(outQ), Members(buf'), {}, WorkIds(queue), inputs)
    BY <2>4 DEF OrderInv, InLine, Precede
  <2>6. buf' \in Seq(Inputs)
    BY <1>1, <1>3, <2>1, AppendTyped
  <2> QED
    BY <1>1, <1>3, <2>3, <2>5, <2>6 DEF OrderInv
<1>4. CASE /\ buf # <<>> /\ buf' = Tail(buf)
           /\ UNCHANGED outQ \/ OutputFrame(Head(buf))
  <2>1. /\ Members(buf) = {Head(buf)} \cup Members(buf')
        /\ Increasing(buf') /\ Precede({Head(buf)}, Members(buf'))
    BY <1>1, <1>4, MembersOfTail, IncreasingTail
  <2>2. buf' \in Seq(Inputs) /\ Head(buf) \in Inputs
    BY <1>1, <1>4
  <2>3. CASE UNCHANGED outQ
    BY <1>1, <2>1, <2>2, <2>3, OrderKept
  <2>4. CASE outQ' = Append(outQ, Head(buf))
    <3>1. Members(outQ') = Members(outQ) \cup {Head(buf)}
      BY <1>1, <2>4, MembersOfAppend
    <3>2. Increasing(outQ')
      BY <1>1, <2>1, <2>2, <2>4, IncreasingAppend DEF OrderInv, InLine, Precede
    <3>3. InLine({lastOut}, Members(outQ'), Members(buf'), {}, WorkIds(queue), inputs)
      BY <2>1, <3>1 DEF OrderInv, InLine, Precede
    <3> QED
      BY <1>1, <2>1, <2>2, <3>2, <3>3 DEF OrderInv
  <2> QED
    BY <1>4, <2>3, <2>4 DEF OutputFrame, Post
<1> QED
  BY <1>2, <1>3, <1>4 DEF PipelineStep

-----------------------------------------------------------------------------
(* FlushDrains.                                                            *)

(* A flush message has nothing behind it that it would have to drain: not  *)
(* in the queue, nor in the queue when it is in hand.  Flushes are numbered*)
(* in order, so that the mark of one under way does not change.            *)
FlushFirst(messages) ==
  \A i, j \in DOMAIN messages :
    i < j /\ messages[i].type = "flush" /\ IsWork(messages[j])
      => messages[j].id > flushMark[messages[i].id]

FlushInv ==
  /\ \A f \in FlushIds : flushMark[f] <= inputs
  /\ \A i \in DOMAIN queue : queue[i].type = "flush" => queue[i].id < nextFlush
  /\ msg.type = "flush" => msg.id < nextFlush
  /\ \A i \in DOMAIN flushQ : flushQ[i].id < nextFlush
  /\ FlushFirst(queue)
  /\ msg.type = "flush" => \A n \in WorkIds(queue) : n > flushMark[msg.id]
  /\ FlushDrains

LEMMA FlushFirstAppend ==
  ASSUME NEW s \in Seq(Messages), NEW m \in Messages, FlushFirst(s),
         IsWork(m) => \A i \in DOMAIN s : s[i].type = "flush" => m.id > flushMark[s[i].id]
  PROVE  FlushFirst(Append(s, m))
<1> DEFINE t == Append(s, m)
<1>1. /\ Len(s) \in Nat /\ DOMAIN s = 1 .. Len(s) /\ DOMAIN t = 1 .. Len(s) + 1
      /\ t[Len(s) + 1] = m /\ \A i \in 1 .. Len(s) : t[i] = s[i]
  OBVIOUS
<1> HIDE DEF t
<1> SUFFICES ASSUME NEW i \in DOMAIN t, NEW j \in DOMAIN t, i < j,
                    t[i].type = "flush", IsWork(t[j])
             PROVE  t[j].id > flushMark[t[i].id]
  BY DEF FlushFirst, t
<1>2. i \in DOMAIN s /\ t[i] = s[i]
  BY <1>1
<1>3. CASE j = Len(s) + 1
  BY <1>1, <1>2, <1>3
<1>4. CASE j # Len(s) + 1
  BY <1>1, <1>2, <1>4 DEF FlushFirst
<1> QED
  BY <1>3, <1>4

LEMMA FlushFirstTail ==
  ASSUME NEW s \in Seq(Messages), s # <<>>, FlushFirst(s)
  PROVE  /\ FlushFirst(Tail(s))
         /\ Head(s).type = "flush" =>
              \A n \in WorkIds(Tail(s)) : n > flushMark[Head(s).id]
<1> DEFINE t == Tail(s)
<1>1. /\ Len(s) \in Nat /\ Len(s) > 0 /\ DOMAIN s = 1 .. Len(s)
      /\ DOMAIN t = 1 .. Len(s) - 1
      /\ Head(s) = s[1] /\ \A i \in 1 .. Len(s) - 1 : t[i] = s[i + 1]
  OBVIOUS
<1> HIDE DEF t
<1>2. ASSUME NEW i \in DOMAIN t PROVE i + 1 \in DOMAIN s /\ t[i] = s[i + 1] /\ 1 < i + 1
  BY <1>1
<1>3. FlushFirst(t)
  <2> SUFFICES ASSUME NEW i \in DOMAIN t, NEW j \in DOMAIN t, i < j,
                      t[i].type = "flush", IsWork(t[j])
               PROVE  t[j].id > flushMark[t[i].id]
    BY DEF FlushFirst
  <2>1. i + 1 < j + 1
    BY <1>1
  <2> QED
    BY <1>2, <2>1 DEF FlushFirst
<1>4. ASSUME Head(s).type = "flush", NEW j \in DOMAIN t, IsWork(t[j])
      PROVE  t[j].id > flushMark[Head(s).id]
  <2>1. 1 \in DOMAIN s
    BY <1>1
  <2> QED
    BY <1>1, <1>2, <1>4, <2>1 DEF FlushFirst
<1> QED
  BY <1>3, <1>4 DEF t, WorkIds

LEMMA MemberTyped ==
  ASSUME NEW S, NEW s \in Seq(S), NEW i \in DOMAIN s
  PROVE  s[i] \in S
  OBVIOUS

(* The members of a sequence without its first.                            *)
LEMMA TailMembers ==
  ASSUME NEW S, NEW s \in Seq(S), s # <<>>, NEW i \in DOMAIN Tail(s)
  PROVE  \E j \in DOMAIN s : s[j] = Tail(s)[i]
<1>1. i + 1 \in DOMAIN s /\ s[i + 1] = Tail(s)[i]
  OBVIOUS
<1> QED
  BY <1>1

LEMMA AppendMembers ==
  ASSUME NEW S, NEW s \in Seq(S), NEW e, NEW i \in DOMAIN Append(s, e)
  PROVE  Append(s, e)[i] = e \/ \E j \in DOMAIN s : s[j] = Append(s, e)[i]
<1>1. i = Len(s) + 1 \/ i \in DOMAIN s
  OBVIOUS
<1> QED
  BY <1>1

(* A step that completes no flush and takes no message.                    *)
LEMMA FlushKept ==
  ASSUME CoreTypeOK, FlushInv, UNCHANGED <<flushMark, nextFlush, inputs>>,
         shouldExit => shouldExit',
         InWorks' \subseteq InWorks, WorkIds(queue') \subseteq WorkIds(queue),
         \A i \in DOMAIN queue' : queue'[i].type = "flush" => queue'[i].id < nextFlush,
         FlushFirst(queue'),
         msg' = msg \/ msg'.type # "flush",
         flushQ' = flushQ \/ (flushQ # <<>> /\ flushQ' = Tail(flushQ))
  PROVE  FlushInv'
<1>1. flushQ \in Seq([id : FlushIds, ok : BOOLEAN])
  BY DEF CoreTypeOK, TsfnType
<1>2. ASSUME NEW i \in DOMAIN flushQ'
      PROVE  \E j \in DOMAIN flushQ : flushQ[j] = flushQ'[i]
  BY <1>1, <1>2, TailMembers
<1>3. FlushDrains'
  BY <1>2 DEF FlushInv, FlushDrains
<1>4. FlushFirst(queue)'
  BY DEF FlushFirst
<1>5. \A i \in DOMAIN flushQ' : flushQ'[i].id < nextFlush
  BY <1>2 DEF FlushInv
<1> QED
  BY <1>3, <1>4, <1>5 DEF FlushInv

LEMMA FlushFrameStep ==
  ASSUME CoreTypeOK, ReleaseIsFinal, FlushInv, FrameNext \/ UNCHANGED coreVars,
         UNCHANGED buf
  PROVE  FlushInv'
<1>1. /\ queue \in Seq(Messages) /\ inputs \in Nat
      /\ flushQ \in Seq([id : FlushIds, ok : BOOLEAN])
      /\ flushMark \in [FlushIds -> 0 .. MaxInputs] /\ nextFlush \in Nat
      /\ Members(buf') = Members(buf)
  BY BoundsAssumption DEF CoreTypeOK, QueueType, TsfnType, CountType, FlushType
<1>2. ASSUME NEW m \in Messages, m.type = "flush"
      PROVE  m.id \in FlushIds
  BY <1>2 DEF Messages, ConfigureMessages, FlushMessages, ResetMessages, WorkMessages
<1>3. \A i \in DOMAIN queue : queue[i].type = "flush" => queue[i].id \in FlushIds
  BY <1>1, <1>2
<1>0. ASSUME NEW i \in DOMAIN flushQ
      PROVE  flushQ[i].id \in FlushIds
  <2>1. flushQ[i] \in [id : FlushIds, ok : BOOLEAN]
    BY <1>1, <1>0, MemberTyped
  <2> QED
    BY <2>1
<1>4. ASSUME NEW m \in Messages, Configures(m)
      PROVE  FlushInv'
  <2>1. /\ ~IsWork(m) /\ m.type # "flush" /\ queue' = Append(queue, m)
        /\ InHandIds' = InHandIds
        /\ UNCHANGED <<msg, flushQ, flushMark, nextFlush, inputs, shouldExit>>
    BY <1>4, SameHand DEF Configures, Appends, IsWork
  <2>2. WorkIds(queue') = WorkIds(queue)
    BY <1>1, <2>1, WorkIdsAppend
  <2>3. FlushFirst(queue')
    BY <1>1, <2>1, FlushFirstAppend DEF FlushInv
  <2>4. \A i \in DOMAIN queue' : queue'[i].type = "flush" => queue'[i].id < nextFlush
    BY <1>1, <2>1, AppendMembers DEF FlushInv
  <2> QED
    BY <1>1, <2>1, <2>2, <2>3, <2>4, FlushKept DEF InWorks
<1>5. ASSUME NEW m \in Messages, Requests(m)
      PROVE  FlushInv'
  <2>1. /\ IsWork(m) /\ m.type # "flush" /\ queue' = Append(queue, m)
        /\ m.id = inputs + 1 /\ inputs' = inputs + 1
        /\ InHandIds' = InHandIds
        /\ UNCHANGED <<msg, flushQ, flushMark, nextFlush, shouldExit>>
    BY <1>5, SameHand DEF Requests, Appends, IsWork
  <2>2. WorkIds(queue') = WorkIds(queue) \cup {inputs + 1}
    BY <1>1, <2>1, WorkIdsAppend
  <2>3. \A f \in FlushIds : inputs + 1 > flushMark[f] /\ flushMark[f] <= inputs'
    BY <1>1, <2>1, BoundsAssumption DEF FlushInv
  <2>4. FlushFirst(queue')
    BY <1>1, <1>3, <2>1, <2>3, FlushFirstAppend DEF FlushInv
  <2>5. \A i \in DOMAIN queue' : queue'[i].type = "flush" => queue'[i].id < nextFlush
    BY <1>1, <2>1, AppendMembers DEF FlushInv
  <2>6. InWorks' = InWorks \cup {inputs + 1}
    BY <1>1, <2>1, <2>2 DEF InWorks
  <2>7. FlushDrains'
    <3> SUFFICES ASSUME ~shouldExit', NEW i \in DOMAIN flushQ, flushQ[i].ok,
                        NEW n \in InWorks'
                 PROVE  n > flushMark[flushQ[i].id]
      BY <2>1 DEF FlushDrains
    <3>1. CASE n \in InWorks
      BY <2>1, <3>1 DEF FlushInv, FlushDrains
    <3>2. CASE n = inputs + 1
      <4>1. flushQ[i].id \in FlushIds
        BY <1>0
      <4> QED
        BY <2>3, <3>2, <4>1
    <3> QED
      BY <2>6, <3>1, <3>2
  <2>8. msg.type = "flush" => msg.id \in FlushIds
    <3>1. msg \in Messages \/ msg = NoMessage
      BY DEF CoreTypeOK, WorkerType
    <3> QED
      BY <1>2, <3>1 DEF NoMessage
  <2>9. FlushFirst(queue)'
    BY <2>1, <2>4 DEF FlushFirst
  <2> QED
    BY <2>1, <2>2, <2>3, <2>5, <2>7, <2>8, <2>9 DEF FlushInv
<1>6. ASSUME NEW m \in Messages, Flushes(m)
      PROVE  FlushInv'
  <2>1. /\ ~IsWork(m) /\ m.type = "flush" /\ m.id = nextFlush
        /\ queue' = Append(queue, m)
        /\ nextFlush \in FlushIds /\ nextFlush' = nextFlush + 1
        /\ flushMark' = [flushMark EXCEPT ![nextFlush] = inputs]
        /\ InHandIds' = InHandIds /\ UNCHANGED <<msg, flushQ, inputs, shouldExit>>
    BY <1>6, SameHand DEF Flushes, Appends, IsWork
  <2>2. WorkIds(queue') = WorkIds(queue)
    BY <1>1, <2>1, WorkIdsAppend
  <2>3. \A f \in FlushIds :
          flushMark'[f] <= inputs' /\ (f # nextFlush => flushMark'[f] = flushMark[f])
    <3>1. \A f \in FlushIds : f # nextFlush => flushMark'[f] = flushMark[f]
      BY <1>1, <2>1
    <3>2. flushMark'[nextFlush] = inputs /\ inputs' = inputs /\ inputs <= inputs
      BY <1>1, <2>1
    <3>3. \A f \in FlushIds : flushMark[f] <= inputs
      BY DEF FlushInv
    <3> QED
      BY <3>1, <3>2, <3>3
  <2>4. ASSUME NEW i \in DOMAIN queue'
        PROVE  queue'[i] = m \/ \E j \in DOMAIN queue : queue[j] = queue'[i]
    BY <1>1, <2>1, AppendMembers
  <2>5. \A i \in DOMAIN queue' : queue'[i].type = "flush" => queue'[i].id < nextFlush'
    BY <1>1, <1>3, <2>1, <2>4 DEF FlushInv, FlushIds
  <2>6. FlushFirst(queue')
    BY <1>1, <2>1, FlushFirstAppend DEF FlushInv
  <2>7. FlushFirst(queue)'
    <3> SUFFICES ASSUME NEW i \in DOMAIN queue', NEW j \in DOMAIN queue', i < j,
                        queue'[i].type = "flush", IsWork(queue'[j])
                 PROVE  queue'[j].id > flushMark'[queue'[i].id]
      BY DEF FlushFirst
    <3>1. i \in DOMAIN queue /\ queue'[i] = queue[i]
      <4>1. i \in 1 .. Len(queue)
        BY <1>1, <2>1
      <4> QED
        BY <1>1, <2>1, <4>1
    <3>2. queue[i].id \in FlushIds /\ queue[i].id < nextFlush
      BY <1>3, <3>1 DEF FlushInv
    <3>3. flushMark'[queue'[i].id] = flushMark[queue'[i].id]
      BY <1>1, <2>3, <3>1, <3>2
    <3> QED
      BY <2>6, <3>3 DEF FlushFirst
  <2>8. msg.type = "flush" => msg.id \in FlushIds
    <3>1. msg \in Messages \/ msg = NoMessage
      BY DEF CoreTypeOK, WorkerType
    <3> QED
      BY <1>2, <3>1 DEF NoMessage
  <2>9. msg'.type = "flush" =>
          /\ msg'.id < nextFlush'
          /\ \A n \in WorkIds(queue') : n > flushMark'[msg'.id]
    <3>1. CASE msg.type = "flush"
      <4>1. msg.id \in FlushIds /\ msg.id < nextFlush /\ msg' = msg
        BY <2>1, <2>8, <3>1 DEF FlushInv
      <4>2. flushMark'[msg.id] = flushMark[msg.id] /\ msg.id < nextFlush'
        BY <1>1, <2>1, <2>3, <4>1 DEF FlushIds
      <4> QED
        BY <2>2, <3>1, <4>1, <4>2 DEF FlushInv
    <3> QED
      BY <2>1, <3>1
  <2>10. ASSUME NEW i \in DOMAIN flushQ
         PROVE  flushQ[i].id < nextFlush' /\ flushMark'[flushQ[i].id] = flushMark[flushQ[i].id]
    <3>1. flushQ[i].id \in FlushIds /\ flushQ[i].id < nextFlush
      BY <1>0, <2>10 DEF FlushInv
    <3> QED
      BY <1>1, <2>1, <2>3, <3>1 DEF FlushIds
  <2>11. FlushDrains'
    BY <1>1, <2>1, <2>2, <2>10 DEF FlushInv, FlushDrains, InWorks
  <2> QED
    BY <2>1, <2>3, <2>5, <2>7, <2>9, <2>10, <2>11 DEF FlushInv
<1>7. CASE Clears
  <2>1. WorkIds(queue') = {} /\ FlushFirst(queue')
    BY <1>7 DEF Clears, WorkIds, FlushFirst, IsWork
  <2>2. \A i \in DOMAIN queue' : queue'[i].type = "flush" => queue'[i].id < nextFlush
    BY <1>7 DEF Clears
  <2> QED
    BY <1>1, <1>7, <2>1, <2>2, FlushKept, SameHand DEF Clears, InWorks
<1>8. CASE Delivers \/ Completes \/ Idle
  <2>1. /\ UNCHANGED <<queue, msg, flushMark, nextFlush, inputs>>
        /\ InHandIds' = InHandIds /\ (shouldExit => shouldExit')
        /\ flushQ' = flushQ \/ (flushQ # <<>> /\ flushQ' = Tail(flushQ))
    BY <1>8, SameHand DEF Delivers, Completes, Idle
  <2>2. \A i \in DOMAIN queue' : queue'[i].type = "flush" => queue'[i].id < nextFlush
    BY <2>1 DEF FlushInv
  <2>3. FlushFirst(queue') /\ InWorks' = InWorks /\ WorkIds(queue') = WorkIds(queue)
    BY <1>1, <2>1 DEF FlushInv, InWorks
  <2> QED
    BY <2>1, <2>2, <2>3, FlushKept
<1>9. CASE Takes
  <2>1. /\ queue # <<>> /\ queue' = Tail(queue) /\ msg' = Head(queue)
        /\ UNCHANGED <<flushQ, flushMark, nextFlush, inputs, shouldExit>>
        /\ InHandIds' = IF IsWork(Head(queue)) THEN {Head(queue).id} ELSE {}
    BY <1>9, TakesWork DEF Takes, InHandIds
  <2>2. WorkIds(queue) = InHandIds' \cup WorkIds(queue')
    BY <1>1, <2>1, WorkIdsTail
  <2>3. InWorks' \subseteq InWorks
    BY <1>1, <2>1, <2>2 DEF InWorks
  <2>4. /\ FlushFirst(queue')
        /\ msg'.type = "flush" => \A n \in WorkIds(queue') : n > flushMark[msg'.id]
    BY <1>1, <2>1, FlushFirstTail DEF FlushInv
  <2>5. \A i \in DOMAIN queue' : queue'[i].type = "flush" => queue'[i].id < nextFlush
    BY <1>1, <2>1, TailMembers DEF FlushInv
  <2>6. msg'.type = "flush" => msg'.id < nextFlush
    <3>1. 1 \in DOMAIN queue /\ Head(queue) = queue[1]
      BY <1>1, <2>1
    <3> QED
      BY <2>1, <3>1 DEF FlushInv
  <2>7. FlushDrains'
    BY <2>1, <2>3 DEF FlushInv, FlushDrains
  <2>8. FlushFirst(queue)'
    BY <2>1, <2>4 DEF FlushFirst
  <2> QED
    BY <2>1, <2>4, <2>5, <2>6, <2>7, <2>8 DEF FlushInv
<1> QED
  BY <1>4, <1>5, <1>6, <1>7, <1>8, <1>9, FrameCases

(* A handler only takes requests out of the works.                         *)
LEMMA InWorksShrinks ==
  ASSUME buf \in Seq(Inputs), HandlerStep, PipelineStep
  PROVE  InWorks' \subseteq InWorks
<1>1. UNCHANGED queue /\ InHandIds' = {}
  BY DEF HandlerStep, PipelineStep, InHandIds
<1>2. Members(buf') \subseteq Members(buf) \cup InHandIds
  <2>1. CASE UNCHANGED buf
    BY <2>1
  <2>2. CASE buf' = <<>>
    BY <2>2 DEF Members
  <2>3. CASE AtWork /\ buf' = Append(buf, msg.id)
    BY <2>3, MembersOfAppend DEF InHandIds
  <2>4. CASE buf # <<>> /\ buf' = Tail(buf)
    BY <2>4, MembersOfTail
  <2> QED
    BY <2>1, <2>2, <2>3, <2>4 DEF PipelineStep
<1> QED
  BY <1>1, <1>2 DEF InWorks

LEMMA FlushHandlerStep ==
  ASSUME CoreTypeOK, OrderInv, FlushInv, HandlerStep, PipelineStep
  PROVE  FlushInv'
<1>1. /\ buf \in Seq(Inputs) /\ flushQ \in Seq([id : FlushIds, ok : BOOLEAN])
      /\ UNCHANGED <<queue, inputs, flushMark, nextFlush, shouldExit>>
      /\ InHandIds' = {}
  BY DEF OrderInv, CoreTypeOK, TsfnType, HandlerStep, JsOwned, flushVars,
     countVars, PipelineStep, InHandIds
<1>2. msg' = msg \/ msg'.type # "flush"
  BY DEF HandlerStep, HandlerStays, HandlerReturns, NoMessage
<1>4. InWorks' \subseteq InWorks
  BY <1>1, InWorksShrinks
<1>5. /\ WorkIds(queue') = WorkIds(queue) /\ FlushFirst(queue')
      /\ \A i \in DOMAIN queue' : queue'[i].type = "flush" => queue'[i].id < nextFlush
  BY <1>1 DEF FlushInv
<1>6. CASE UNCHANGED flushQ
  BY <1>1, <1>2, <1>4, <1>5, <1>6, FlushKept
<1>7. ASSUME NEW ok \in BOOLEAN, msg.type = "flush", FlushComplete(msg.id, ok),
             ok => shouldExit \/ buf' = <<>>
      PROVE  FlushInv'
  <2> DEFINE done == [id |-> msg.id, ok |-> ok]
  <2>1. flushQ' = Append(flushQ, done)
    BY <1>7 DEF FlushComplete, Post
  <2>2. ASSUME NEW i \in DOMAIN flushQ'
        PROVE  flushQ'[i] = done \/ \E j \in DOMAIN flushQ : flushQ[j] = flushQ'[i]
    BY <1>1, <2>1, AppendMembers
  <2>3. \A i \in DOMAIN flushQ' : flushQ'[i].id < nextFlush
    BY <1>7, <2>2 DEF FlushInv
  <2>4. ASSUME ok PROVE shouldExit \/ InWorks' = WorkIds(queue)
    <3>1. buf' = <<>> => Members(buf') = {}
      BY DEF Members
    <3> QED
      BY <1>1, <1>7, <2>4, <3>1 DEF InWorks
  <2>5. ok => shouldExit \/ \A n \in InWorks' : n > flushMark[msg.id]
    BY <1>7, <2>4 DEF FlushInv
  <2>6. FlushDrains'
    <3> SUFFICES ASSUME ~shouldExit', NEW i \in DOMAIN flushQ', flushQ'[i].ok,
                        NEW n \in InWorks'
                 PROVE  n > flushMark'[flushQ'[i].id]
      BY DEF FlushDrains
    <3>1. CASE flushQ'[i] = done
      BY <1>1, <2>5, <3>1
    <3>2. CASE \E j \in DOMAIN flushQ : flushQ[j] = flushQ'[i]
      BY <1>1, <1>4, <3>2 DEF FlushInv, FlushDrains
    <3> QED
      BY <2>2, <3>1, <3>2
  <2>7. FlushFirst(queue)'
    BY <1>1, <1>5 DEF FlushFirst
  <2> QED
    BY <1>1, <1>2, <2>3, <2>6, <2>7 DEF FlushInv
<1> QED
  BY <1>6, <1>7 DEF PipelineStep

-----------------------------------------------------------------------------
(* ResetDiscards.                                                          *)

(* What is queued is younger than the last reset(): that call emptied the  *)
(* queue, of an open codec.  So once the codec is empty, nothing older is  *)
(* left.                                                                   *)
ResetInv ==
  /\ resetMark <= inputs
  /\ \A n \in WorkIds(queue) : n > resetMark
  /\ ResetDiscards

(* A step that neither resets nor takes the last reset message.            *)
LEMMA ResetKept ==
  ASSUME ResetInv, UNCHANGED <<resetMark, inputs>>,
         state = "closed" => state' = "closed",
         ResetUnderway => ResetUnderway',
         InWorks' \subseteq InWorks, WorkIds(queue') \subseteq WorkIds(queue)
  PROVE  ResetInv'
  BY DEF ResetInv, ResetDiscards

LEMMA ResetFrameStep ==
  ASSUME CoreTypeOK, ReleaseIsFinal, ResetInv, FrameNext \/ UNCHANGED coreVars,
         UNCHANGED buf
  PROVE  ResetInv'
<1>1. /\ queue \in Seq(Messages) /\ inputs \in Nat /\ resetMark \in Nat
      /\ Members(buf') = Members(buf)
      /\ state = "closed" => state' = "closed"
  BY ClosedStays DEF CoreTypeOK, QueueType, CountType, CodecNext
<1>2. ASSUME NEW m \in Messages, Configures(m) \/ Flushes(m) \/ Requests(m)
      PROVE  ResetInv'
  <2>1. /\ queue' = Append(queue, m) /\ InHandIds' = InHandIds
        /\ UNCHANGED <<msg, resetMark>>
    BY <1>2, SameHand DEF Configures, Flushes, Requests, Appends
  <2>2. ResetUnderway => ResetUnderway'
    <3>1. \A i \in DOMAIN queue : i \in DOMAIN queue' /\ queue'[i] = queue[i]
      BY <1>1, <2>1
    <3> QED
      BY <2>1, <3>1 DEF ResetUnderway
  <2>3. CASE Configures(m) \/ Flushes(m)
    <3>1. ~IsWork(m) /\ UNCHANGED inputs
      BY <2>3 DEF Configures, Flushes, IsWork
    <3>2. WorkIds(queue') = WorkIds(queue)
      BY <1>1, <2>1, <3>1, WorkIdsAppend
    <3> QED
      BY <1>1, <2>1, <2>2, <3>1, <3>2, ResetKept DEF InWorks
  <2>4. CASE Requests(m)
    <3>1. IsWork(m) /\ m.id = inputs + 1 /\ inputs' = inputs + 1
      BY <2>4 DEF Requests
    <3>2. WorkIds(queue') = WorkIds(queue) \cup {inputs + 1}
      BY <1>1, <2>1, <3>1, WorkIdsAppend
    <3>3. inputs + 1 > resetMark /\ resetMark <= inputs'
      BY <1>1, <3>1 DEF ResetInv
    <3>4. InWorks' = InWorks \cup {inputs + 1}
      BY <1>1, <2>1, <3>2 DEF InWorks
    <3> QED
      BY <1>1, <2>1, <2>2, <3>2, <3>3, <3>4 DEF ResetInv, ResetDiscards
  <2> QED
    BY <1>2, <2>3, <2>4
<1>3. CASE Clears
  <2>1. WorkIds(queue') = {} /\ resetMark' = inputs /\ inputs' = inputs
    BY <1>3 DEF Clears, WorkIds, IsWork
  <2>2. ResetUnderway'
    <3>1. 1 \in DOMAIN queue' /\ queue'[1].type = "reset"
      BY <1>3 DEF Clears
    <3> QED
      BY <3>1 DEF ResetUnderway
  <2> QED
    BY <1>1, <2>1, <2>2 DEF ResetInv, ResetDiscards
<1>4. CASE Delivers \/ Completes \/ Idle
  <2>1. UNCHANGED <<queue, msg, inputs, resetMark>> /\ InHandIds' = InHandIds
    BY <1>4, SameHand DEF Delivers, Completes, Idle
  <2>2. InWorks' = InWorks /\ WorkIds(queue') = WorkIds(queue)
    BY <1>1, <2>1 DEF InWorks
  <2>3. ResetUnderway' = ResetUnderway
    BY <2>1 DEF ResetUnderway
  <2> QED
    BY <1>1, <2>1, <2>2, <2>3, ResetKept
<1>5. CASE Takes
  <2>1. /\ queue # <<>> /\ queue' = Tail(queue)
        /\ msg = NoMessage /\ msg' = Head(queue)
        /\ UNCHANGED <<resetMark, inputs>>
        /\ InHandIds' = IF IsWork(Head(queue)) THEN {Head(queue).id} ELSE {}
    BY <1>5, TakesWork DEF Takes, InHandIds
  <2>2. WorkIds(queue) = InHandIds' \cup WorkIds(queue')
    BY <1>1, <2>1, WorkIdsTail
  <2>3. InWorks' \subseteq InWorks
    BY <1>1, <2>1, <2>2 DEF InWorks
  <2>4. ASSUME ResetUnderway PROVE ResetUnderway'
    <3>1. PICK i \in DOMAIN queue : queue[i].type = "reset"
      BY <2>1, <2>4 DEF ResetUnderway, NoMessage
    <3>2. CASE i = 1
      BY <1>1, <2>1, <3>1, <3>2 DEF ResetUnderway
    <3>3. CASE i # 1
      <4>1. i - 1 \in DOMAIN Tail(queue) /\ Tail(queue)[i - 1] = queue[i]
        BY <1>1, <2>1, <3>1, <3>3
      <4> QED
        BY <2>1, <3>1, <4>1 DEF ResetUnderway
    <3> QED
      BY <3>2, <3>3
  <2> QED
    BY <1>1, <2>1, <2>2, <2>3, <2>4, ResetKept
<1> QED
  BY <1>2, <1>3, <1>4, <1>5, FrameCases

LEMMA ResetHandlerStep ==
  ASSUME CoreTypeOK, buf \in Seq(Inputs), ResetInv, HandlerStep, PipelineStep,
         EmptiesOnReset
  PROVE  ResetInv'
<1>1. /\ UNCHANGED <<queue, state, inputs, resetMark>> /\ InHandIds' = {}
      /\ msg' = msg \/ msg' = NoMessage
  BY DEF HandlerStep, HandlerStays, HandlerReturns, JsOwned, jsVars, countVars,
     PipelineStep, InHandIds
<1>2. InWorks' \subseteq InWorks
  BY InWorksShrinks
<1>3. CASE msg.type = "reset" /\ msg' # msg
  <2>1. Members(buf') = {}
    BY <1>3 DEF EmptiesOnReset, Members
  <2>2. InWorks' = WorkIds(queue)
    BY <1>1, <2>1 DEF InWorks
  <2> QED
    BY <1>1, <2>2 DEF ResetInv, ResetDiscards
<1>4. CASE ~(msg.type = "reset" /\ msg' # msg)
  <2>1. ResetUnderway => ResetUnderway'
    BY <1>1, <1>4 DEF ResetUnderway
  <2> QED
    BY <1>1, <1>2, <2>1, ResetKept
<1> QED
  BY <1>3, <1>4

PipelineInv == NoContextEmpty /\ OrderInv /\ FlushInv

LEMMA PipelineInit ==
  ASSUME CoreInit, buf = <<>>
  PROVE  PipelineInv /\ ResetInv
<1>1. /\ queue = <<>> /\ outQ = <<>> /\ flushQ = <<>> /\ lastOut = 0 /\ inputs = 0
      /\ resetMark = 0
      /\ wpc = "off" /\ msg = NoMessage
  BY DEF CoreInit, QueueInit, WorkerInit
<1>2. /\ Members(queue) = {} /\ Members(outQ) = {} /\ Members(buf) = {}
      /\ WorkIds(queue) = {} /\ InHandIds = {}
  BY <1>1 DEF Members, WorkIds, InHandIds, AtWork
<1>3. OrderInv
  <2>1. buf \in Seq(Inputs)
    OBVIOUS
  <2> QED
    BY <1>1, <1>2, <2>1 DEF OrderInv, InLine, Precede, Increasing, WorkIncreases
<1>4. FlushInv
  <2>1. \A f \in FlushIds : flushMark[f] <= inputs
    BY <1>1 DEF CoreInit
  <2> QED
    BY <1>1, <1>2, <2>1 DEF FlushInv, FlushFirst, FlushDrains, NoMessage
<1>5. ResetInv
  BY <1>1, <1>2 DEF ResetInv, ResetDiscards, InWorks
<1> QED
  BY <1>3, <1>4, <1>5 DEF PipelineInv, NoContextEmpty

LEMMA PipelineIsCodec == PipelineSpec => CodecSpec
<1>1. [PipelineNext]_pipelineVars => [CodecNext]_coreVars
  BY DEF PipelineNext, CodecNext, pipelineVars
<1> QED
  BY <1>1, PTL DEF PipelineSpec, CodecSpec

LEMMA PipelineInvStep ==
  ASSUME CoreTypeOK, ReleaseIsFinal, PipelineInv, [PipelineNext]_pipelineVars
  PROVE  PipelineInv'
<1> USE DEF PipelineInv
<1>1. CASE (FrameNext \/ UNCHANGED coreVars) /\ UNCHANGED ctxVars
  BY <1>1, OrderFrameStep, FlushFrameStep DEF NoContextEmpty, ctxVars
<1>2. CASE HandlerStep /\ HandlerNext
  BY <1>2, HandlerPipeline, NoContextEmptyStep, OrderHandlerStep, FlushHandlerStep
<1> QED
  BY <1>1, <1>2 DEF PipelineNext, pipelineVars

LEMMA FrameEmpties ==
  ASSUME CoreTypeOK, ReleaseIsFinal, FrameNext \/ UNCHANGED coreVars
  PROVE  EmptiesOnReset
  BY FrameCases DEF EmptiesOnReset, Configures, Requests, Flushes, Appends, Clears,
     Delivers, Completes, Takes, Idle, NoMessage

LEMMA HandlerEmpties ==
  ASSUME CoreTypeOK, wpc \in ConfigurePoints \cup WorkPoints \cup FlushPoints
  PROVE  EmptiesOnReset
  BY InHandKinds DEF EmptiesOnReset

LEMMA ResetInvStep ==
  ASSUME CoreTypeOK, ReleaseIsFinal, PipelineInv, ResetInv,
         [PipelineNext]_pipelineVars, [EmptiesOnReset]_pipelineVars
  PROVE  ResetInv'
<1> USE DEF PipelineInv
<1>1. CASE (FrameNext \/ UNCHANGED coreVars) /\ UNCHANGED ctxVars
  BY <1>1, ResetFrameStep DEF ctxVars
<1>2. CASE HandlerStep /\ HandlerNext
  <2>1. EmptiesOnReset
    BY DEF EmptiesOnReset, pipelineVars, coreVars, workerVars
  <2> QED
    BY <1>2, <2>1, HandlerPipeline, ResetHandlerStep DEF OrderInv
<1> QED
  BY <1>1, <1>2 DEF PipelineNext, pipelineVars

LEMMA PipelineInvariant == PipelineSpec => []PipelineInv
<1>1. PipelineSpec => CoreInit /\ buf = <<>> /\ [][PipelineNext]_pipelineVars
  BY DEF PipelineSpec
<1>2. CoreInit /\ buf = <<>> => PipelineInv
  BY PipelineInit
<1>3. CoreTypeOK /\ ReleaseIsFinal /\ PipelineInv /\ [PipelineNext]_pipelineVars
        => PipelineInv'
  BY PipelineInvStep
<1> QED
  BY <1>1, <1>2, <1>3, PipelineIsCodec, TypeCorrect, ReleaseFinal, PTL

(* Outputs and flushes keep the order of the calls, in every codec that    *)
(* handles its messages as the four worker classes do.                     *)
THEOREM PipelineOrder == PipelineSpec => []PipelineInOrder
<1>1. CoreTypeOK /\ PipelineInv => PipelineInOrder
  BY OrderInvImplies DEF PipelineInv, PipelineInOrder, FlushInv
<1> QED
  BY <1>1, PipelineInvariant, PipelineIsCodec, TypeCorrect, PTL

(* If a reset message also empties the codec, nothing from before a        *)
(* reset() survives its message.                                           *)
THEOREM PipelineResets == PipelineSpec /\ ResetsEmpty => []ResetDiscards
<1>1. PipelineSpec => CoreInit /\ buf = <<>> /\ [][PipelineNext]_pipelineVars
  BY DEF PipelineSpec
<1>2. CoreInit /\ buf = <<>> => ResetInv
  BY PipelineInit
<1>3. CoreTypeOK /\ ReleaseIsFinal /\ PipelineInv /\ ResetInv
        /\ [PipelineNext]_pipelineVars /\ [EmptiesOnReset]_pipelineVars => ResetInv'
  BY ResetInvStep
<1>4. ResetInv => ResetDiscards
  BY DEF ResetInv
<1> QED
  BY <1>1, <1>2, <1>3, <1>4, PipelineInvariant, PipelineIsCodec, TypeCorrect,
     ReleaseFinal, PTL DEF ResetsEmpty

-----------------------------------------------------------------------------
(* QueueSizeExact.                                                         *)

(* The places of the requests in a sequence of messages; their number is   *)
(* what the queue size counts.                                             *)
WorkPlaces(s) == {i \in DOMAIN s : IsWork(s[i])}

LEMMA WorkPlacesFinite ==
  ASSUME NEW s \in Seq(Messages)
  PROVE  IsFiniteSet(WorkPlaces(s)) /\ Cardinality(WorkPlaces(s)) \in Nat
<1>1. IsFiniteSet(1 .. Len(s))
  BY FS_Interval
<1>2. WorkPlaces(s) \in SUBSET (1 .. Len(s))
  BY DEF WorkPlaces
<1> QED
  BY <1>1, <1>2, FS_Subset, FS_CardinalityType

LEMMA WorkPlacesAppend ==
  ASSUME NEW s \in Seq(Messages), NEW m \in Messages
  PROVE  Cardinality(WorkPlaces(Append(s, m))) =
           Cardinality(WorkPlaces(s)) + (IF IsWork(m) THEN 1 ELSE 0)
<1> DEFINE t == Append(s, m)
<1>1. /\ Len(s) \in Nat /\ DOMAIN s = 1 .. Len(s) /\ DOMAIN t = 1 .. Len(s) + 1
      /\ t[Len(s) + 1] = m /\ \A i \in 1 .. Len(s) : t[i] = s[i]
  OBVIOUS
<1> HIDE DEF t
<1>2. ASSUME NEW i PROVE i \in WorkPlaces(t) <=>
        i \in WorkPlaces(s) \/ (i = Len(s) + 1 /\ IsWork(m))
  BY <1>1 DEF WorkPlaces
<1>3. Len(s) + 1 \notin WorkPlaces(s)
  BY <1>1 DEF WorkPlaces
<1>4. CASE IsWork(m)
  <2>1. WorkPlaces(t) = WorkPlaces(s) \cup {Len(s) + 1}
    BY <1>2, <1>4
  <2> QED
    BY <1>3, <1>4, <2>1, WorkPlacesFinite, FS_AddElement DEF t
<1>5. CASE ~IsWork(m)
  <2>1. WorkPlaces(t) = WorkPlaces(s)
    BY <1>2, <1>5
  <2> QED
    BY <1>5, <2>1, WorkPlacesFinite DEF t
<1> QED
  BY <1>4, <1>5

LEMMA WorkPlacesTail ==
  ASSUME NEW s \in Seq(Messages), s # <<>>
  PROVE  Cardinality(WorkPlaces(s)) =
           Cardinality(WorkPlaces(Tail(s))) + (IF IsWork(Head(s)) THEN 1 ELSE 0)
<1> DEFINE t == Tail(s)
           P == WorkPlaces(s) \ {1}
           f == [i \in WorkPlaces(t) |-> i + 1]
<1>1. /\ Len(s) \in Nat /\ Len(s) > 0 /\ DOMAIN s = 1 .. Len(s)
      /\ t \in Seq(Messages) /\ DOMAIN t = 1 .. Len(s) - 1
      /\ Head(s) = s[1] /\ \A i \in 1 .. Len(s) - 1 : t[i] = s[i + 1]
  OBVIOUS
<1> HIDE DEF t
<1>2. ASSUME NEW i \in WorkPlaces(t) PROVE i + 1 \in P
  BY <1>1 DEF WorkPlaces
<1>3. ASSUME NEW j \in P PROVE j - 1 \in WorkPlaces(t) /\ j = (j - 1) + 1
  <2>1. j \in 2 .. Len(s) /\ IsWork(s[j])
    BY <1>1 DEF WorkPlaces
  <2>2. j - 1 \in 1 .. Len(s) - 1 /\ t[j - 1] = s[(j - 1) + 1] /\ j = (j - 1) + 1
    BY <1>1, <2>1
  <2> QED
    BY <1>1, <2>1, <2>2 DEF WorkPlaces
<1>4. WorkPlaces(t) \subseteq Int
  BY <1>1 DEF WorkPlaces
<1>5. f \in Bijection(WorkPlaces(t), P)
  <2>1. f \in [WorkPlaces(t) -> P]
    BY <1>2
  <2>2. \A i, j \in WorkPlaces(t) : f[i] = f[j] => i = j
    BY <1>4
  <2>3. \A j \in P : \E i \in WorkPlaces(t) : f[i] = j
    BY <1>3
  <2> QED
    BY <2>1, <2>2, <2>3 DEF Bijection, Injection, Surjection, IsInjective
<1>6. Cardinality(P) = Cardinality(WorkPlaces(t))
  BY <1>1, <1>5, WorkPlacesFinite, FS_Bijection DEF ExistsBijection
<1>7. Cardinality(P) = IF IsWork(Head(s)) THEN Cardinality(WorkPlaces(s)) - 1
                                          ELSE Cardinality(WorkPlaces(s))
  <2>1. 1 \in WorkPlaces(s) <=> IsWork(Head(s))
    BY <1>1 DEF WorkPlaces
  <2> QED
    BY <2>1, WorkPlacesFinite, FS_RemoveElement
<1> QED
  BY <1>1, <1>6, <1>7, WorkPlacesFinite DEF t

(* Arithmetic modulo SizeModulus.                                          *)
LEMMA DivMod ==
  ASSUME NEW m \in Nat, NEW q \in Int, NEW r \in 0 .. m - 1
  PROVE  (q * m + r) % m = r
  BY SMT

LEMMA IncIs ==
  ASSUME NEW n \in 0 .. SizeModulus - 1
  PROVE  Inc(n) = IF n = SizeModulus - 1 THEN 0 ELSE n + 1
<1> USE SizeModulusAssumption, BoundsAssumption DEF Inc
<1>1. CASE n = SizeModulus - 1
  <2>1. n + 1 = 1 * SizeModulus + 0 /\ 0 \in 0 .. SizeModulus - 1
    BY <1>1
  <2> QED
    BY <1>1, <2>1, DivMod
<1>2. CASE n # SizeModulus - 1
  <2>1. n + 1 = 0 * SizeModulus + (n + 1) /\ n + 1 \in 0 .. SizeModulus - 1
    BY <1>2
  <2>2. (0 * SizeModulus + (n + 1)) % SizeModulus = n + 1
    BY <2>1, DivMod
  <2> QED
    BY <1>2, <2>1, <2>2
<1> QED
  BY <1>1, <1>2

(* What a frame step does to the number of requests.                       *)
WorkCount == WorkAhead + WorkInHand

LEMMA WorkCountType ==
  ASSUME CoreTypeOK
  PROVE  /\ WorkAhead \in Nat /\ WorkInHand \in {0, 1} /\ WorkCount \in Nat
         /\ WorkAhead = Cardinality(WorkPlaces(queue))
<1>1. queue \in Seq(Messages)
  BY DEF CoreTypeOK, QueueType
<1>2. WorkAhead = Cardinality(WorkPlaces(queue))
  BY DEF WorkAhead, WorkPlaces
<1> QED
  BY <1>1, <1>2, WorkPlacesFinite DEF WorkInHand, WorkCount

LEMMA SizeOpened ==
  ASSUME CoreTypeOK, SizeIsExact
  PROVE  \E k, wraps \in 0 .. resets : size + k = WorkCount + wraps * SizeModulus
<1>1. PICK k \in 0 .. resets, wraps \in 0 .. resets :
        size + k = WorkAhead + WorkInHand + wraps * SizeModulus
  BY DEF SizeIsExact
<1>2. k \in Nat /\ wraps \in Nat /\ size \in Nat /\ SizeModulus \in Nat
  BY SizeModulusAssumption DEF CoreTypeOK, CountType, SizeType
<1> QED
  BY <1>1, <1>2, WorkCountType DEF WorkCount

(* The invariant: requests are not counted twice, and the sum is right.    *)
SizeInv == WorkCount <= inputs /\ SizeIsExact

LEMMA SizeKept ==
  ASSUME CoreTypeOK, CoreTypeOK', SizeInv, UNCHANGED <<size, resets, WorkCount>>,
         inputs <= inputs'
  PROVE  SizeInv'
<1>1. WorkCount' <= inputs'
  BY WorkCountType DEF SizeInv, CoreTypeOK, CountType
<1>2. WorkAhead' + WorkInHand' = WorkAhead + WorkInHand
  BY DEF WorkCount
<1>3. SizeIsExact'
  BY <1>2 DEF SizeInv, SizeIsExact
<1> QED
  BY <1>1, <1>3 DEF SizeInv

LEMMA SizeRequested ==
  ASSUME CoreTypeOK, CoreTypeOK', SizeInv, size' = Inc(size),
         WorkCount' = WorkCount + 1, inputs' = inputs + 1, UNCHANGED resets
  PROVE  SizeInv'
<1> USE SizeModulusAssumption, BoundsAssumption
<1>1. /\ size \in 0 .. SizeModulus - 1 /\ inputs' <= MaxInputs /\ resets \in Nat
      /\ inputs \in Nat /\ WorkCount \in Nat
  BY WorkCountType DEF CoreTypeOK, CountType, SizeType
<1>2. PICK k \in 0 .. resets, wraps \in 0 .. resets :
        size + k = WorkCount + wraps * SizeModulus
  BY SizeOpened DEF SizeInv
<1>3. WorkCount' <= inputs' /\ WorkCount' < SizeModulus
  BY <1>1 DEF SizeInv
<1>4. CASE size = SizeModulus - 1
  <2>1. size' = 0
    BY <1>1, <1>4, IncIs
  <2>2. wraps # 0
    <3> SUFFICES ASSUME wraps = 0 PROVE FALSE
      OBVIOUS
    <3>1. size + k = WorkCount
      BY <1>1, <1>2
    <3> QED
      BY <1>1, <1>3, <1>4, <3>1
  <2>3. wraps - 1 \in 0 .. resets
    BY <1>1, <2>2
  <2>4. wraps * SizeModulus = (wraps - 1) * SizeModulus + SizeModulus
    BY <1>1
  <2>5. size' + k = WorkCount' + (wraps - 1) * SizeModulus
    BY <1>1, <1>2, <1>4, <2>1, <2>4
  <2> QED
    BY <1>3, <2>3, <2>5 DEF SizeInv, SizeIsExact, WorkCount
<1>5. CASE size # SizeModulus - 1
  <2>1. size' + k = WorkCount' + wraps * SizeModulus
    BY <1>1, <1>2, <1>5, IncIs
  <2> QED
    BY <1>3, <2>1 DEF SizeInv, SizeIsExact, WorkCount
<1> QED
  BY <1>4, <1>5

LEMMA SizeCounted ==
  ASSUME CoreTypeOK, CoreTypeOK', SizeInv, size' = Dec(size),
         WorkCount >= 1, WorkCount' = WorkCount - 1, UNCHANGED <<inputs, resets>>
  PROVE  SizeInv'
<1> USE SizeModulusAssumption, BoundsAssumption
<1>1. /\ size \in 0 .. SizeModulus - 1 /\ resets \in Nat /\ inputs \in Nat
      /\ WorkCount \in Nat /\ WorkCount' \in Nat
  BY WorkCountType DEF CoreTypeOK, CountType, SizeType
<1>2. PICK k \in 0 .. resets, wraps \in 0 .. resets :
        size + k = WorkCount + wraps * SizeModulus
  BY SizeOpened DEF SizeInv
<1>3. WorkCount' <= inputs'
  BY <1>1 DEF SizeInv
<1>4. CASE size = 0
  <2>1. size' = SizeModulus - 1
    BY <1>4 DEF Dec
  <2>2. wraps * SizeModulus >= wraps
    <3>1. wraps * SizeModulus = wraps + wraps * (SizeModulus - 1)
      BY <1>1
    <3>2. wraps * (SizeModulus - 1) >= 0
      BY <1>1
    <3> QED
      BY <1>1, <3>1, <3>2
  <2>3. wraps + 1 \in 0 .. resets
    BY <1>1, <1>2, <1>4, <2>2
  <2>4. (wraps + 1) * SizeModulus = wraps * SizeModulus + SizeModulus
    BY <1>1
  <2>5. size' + k = WorkCount' + (wraps + 1) * SizeModulus
    BY <1>1, <1>2, <1>4, <2>1, <2>4
  <2> QED
    BY <1>3, <2>3, <2>5 DEF SizeInv, SizeIsExact, WorkCount
<1>5. CASE size # 0
  <2>1. size' + k = WorkCount' + wraps * SizeModulus
    BY <1>1, <1>2, <1>5 DEF Dec
  <2> QED
    BY <1>3, <2>1 DEF SizeInv, SizeIsExact, WorkCount
<1> QED
  BY <1>4, <1>5

LEMMA SizeReset ==
  ASSUME CoreTypeOK, CoreTypeOK', SizeInv, size' = 0, resets' = resets + 1,
         WorkCount' = WorkInHand, UNCHANGED inputs
  PROVE  SizeInv'
<1>1. WorkCount' <= inputs'
  BY WorkCountType DEF SizeInv, WorkCount, CoreTypeOK, CountType
<1>2. WorkCount' \in 0 .. resets' /\ 0 \in 0 .. resets'
  BY WorkCountType DEF CoreTypeOK, CountType
<1>3. size' + WorkCount' = WorkAhead' + WorkInHand' + 0 * SizeModulus
  BY <1>2, SizeModulusAssumption, WorkCountType DEF WorkCount
<1> QED
  BY <1>1, <1>2, <1>3 DEF SizeInv, SizeIsExact

LEMMA SizeInit ==
  ASSUME CoreInit
  PROVE  SizeInv
<1>1. queue = <<>> /\ wpc = "off" /\ inputs = 0 /\ size = 0 /\ resets = 0
  BY DEF CoreInit, QueueInit, WorkerInit
<1>2. {i \in DOMAIN queue : IsWork(queue[i])} = {}
  BY <1>1
<1>3. WorkAhead = 0 /\ WorkInHand = 0
  BY <1>1, <1>2, FS_EmptySet DEF WorkAhead, WorkInHand, WorkPoints
<1>4. size + 0 = WorkAhead + WorkInHand + 0 * SizeModulus
  BY <1>1, <1>3, SizeModulusAssumption
<1> QED
  BY <1>1, <1>3, <1>4 DEF SizeInv, SizeIsExact, WorkCount

(* Steps outside the handlers, by what they do to the queue.               *)
LEMMA SizeFrameStep ==
  ASSUME CoreTypeOK, CoreTypeOK', ReleaseIsFinal, SizeInv, state' # "closed",
         FrameNext \/ UNCHANGED coreVars
  PROVE  SizeInv'
<1>1. /\ queue \in Seq(Messages) /\ inputs \in Nat
      /\ WorkAhead = Cardinality(WorkPlaces(queue))
      /\ WorkAhead' = Cardinality(WorkPlaces(queue'))
      /\ WorkAhead \in Nat /\ WorkInHand \in {0, 1}
  BY WorkCountType DEF CoreTypeOK, QueueType, CountType, WorkAhead, WorkPlaces
<1>2. ASSUME NEW m \in Messages, Configures(m) \/ Flushes(m)
      PROVE  SizeInv'
  <2>1. ~IsWork(m) /\ Appends(m) /\ UNCHANGED <<inputs, size, resets>>
    BY <1>2 DEF Configures, Flushes, Appends, IsWork
  <2>2. WorkAhead' = WorkAhead
    BY <1>1, <2>1, WorkPlacesAppend DEF Appends
  <2>3. WorkCount' = WorkCount
    BY <2>1, <2>2, StaysAtWork DEF Appends, WorkCount
  <2> QED
    BY <1>1, <2>1, <2>3, SizeKept
<1>3. ASSUME NEW m \in Messages, Requests(m)
      PROVE  SizeInv'
  <2>1. WorkAhead' = WorkAhead + 1
    BY <1>1, <1>3, WorkPlacesAppend DEF Requests, Appends
  <2>2. WorkCount' = WorkCount + 1
    BY <1>1, <1>3, <2>1, StaysAtWork DEF Requests, Appends, WorkCount
  <2> QED
    BY <1>3, <2>2, SizeRequested DEF Requests, Appends
<1>4. CASE Clears
  <2>1. WorkPlaces(queue') = {}
    BY <1>4 DEF Clears, WorkPlaces, IsWork
  <2>2. WorkAhead' = 0
    BY <1>1, <2>1, FS_EmptySet
  <2>3. WorkCount' = WorkInHand
    BY <1>1, <1>4, <2>2, StaysAtWork DEF Clears, WorkCount
  <2> QED
    BY <1>4, <2>3, SizeReset DEF Clears
<1>5. CASE Delivers \/ Completes \/ Idle
  <2>1. UNCHANGED <<queue, size, resets, inputs>> /\ Stays
    BY <1>5 DEF Delivers, Completes, Idle
  <2>2. WorkCount' = WorkCount
    BY <1>1, <2>1, StaysAtWork DEF WorkCount
  <2> QED
    BY <1>1, <2>1, <2>2, SizeKept
<1>6. CASE Takes
  <2>1. UNCHANGED <<size, resets, inputs>> /\ queue # <<>> /\ queue' = Tail(queue)
    BY <1>6 DEF Takes
  <2>2. WorkAhead = WorkAhead' + (IF IsWork(Head(queue)) THEN 1 ELSE 0)
    BY <1>1, <2>1, WorkPlacesTail
  <2>3. WorkAhead' \in Nat
    <3>1. queue' \in Seq(Messages)
      BY DEF CoreTypeOK, QueueType
    <3> QED
      BY <1>1, <3>1, WorkPlacesFinite
  <2>4. WorkCount' = WorkCount
    BY <1>1, <1>6, <2>2, <2>3, TakesWork DEF WorkCount
  <2> QED
    BY <1>1, <2>1, <2>4, SizeKept
<1> QED
  BY <1>2, <1>3, <1>4, <1>5, <1>6, FrameCases

(* A handler keeps the sum if it counts its request before it returns.     *)
CountsFirst == wpc \in WorkPoints \ {"signal"} => wpc' # "top"

LEMMA SizeHandlerStep ==
  ASSUME CoreTypeOK, CoreTypeOK', SizeInv, HandlerStep, HandlerNext, CountsFirst
  PROVE  SizeInv'
<1>1. /\ UNCHANGED <<queue, inputs, resets>> /\ WorkAhead' = WorkAhead
      /\ inputs \in Nat /\ WorkAhead \in Nat
  BY WorkCountType DEF HandlerStep, JsOwned, countVars, WorkAhead, CoreTypeOK, CountType
<1>2. CASE WorkCounts
  <2>1. WorkInHand = 1 /\ WorkInHand' = 0 /\ size' = Dec(size)
    BY <1>2 DEF WorkCounts, Goto, WorkInHand, WorkPoints
  <2>2. WorkCount >= 1 /\ WorkCount' = WorkCount - 1
    BY <1>1, <2>1 DEF WorkCount
  <2> QED
    BY <1>1, <2>1, <2>2, SizeCounted
<1>3. CASE ~WorkCounts
  <2>1. UNCHANGED size
    BY <1>3 DEF HandlerNext, ConfigureRejects, ConfigureAllocates, ConfigureOpens,
       EndsEarly, WorkSkips, WorkSendFails, WorkAllocFails, WorkReceiveFails, WorkSends,
       WorkReceives, WorkReceivesNoMore, WorkSignals, HandleFlush, FlushEndsAtOnce,
       FlushSends, FlushDrainsOne, FlushEnds, HandleReset, ReceiveFrame, sizeVars
  <2>2. WorkInHand' = WorkInHand
    <3>1. CASE \E config \in Config :
                 ConfigureRejects(config) \/ ConfigureAllocates(config)
                   \/ ConfigureOpens(config)
      BY <3>1 DEF ConfigureRejects, ConfigureAllocates, ConfigureOpens, Return, Goto,
         WorkInHand, WorkPoints
    <3>2. CASE EndsEarly /\ (Return \/ Goto("count"))
      <4>1. wpc \in WorkPoints \ {"signal"}
        BY <3>2 DEF EndsEarly, WorkSkips, WorkSendFails, WorkAllocFails,
           WorkReceiveFails, AtWork, WorkPoints
      <4>2. wpc' = "count"
        BY <3>2, <4>1 DEF CountsFirst, Return, Goto
      <4> QED
        BY <4>1, <4>2 DEF WorkInHand, WorkPoints
    <3>3. CASE WorkSends \/ WorkReceives \/ WorkReceivesNoMore \/ WorkSignals
      BY <3>3 DEF WorkSends, AtWork, WorkReceives, ReceiveFrame, WorkReceivesNoMore,
         WorkSignals, Return, Goto, workerVars, WorkInHand, WorkPoints
    <3>4. CASE HandleFlush \/ HandleReset
      BY <3>4 DEF HandleFlush, FlushEndsAtOnce, FlushSends, FlushDrainsOne, FlushEnds,
         ReceiveFrame, HandleReset, Return, Goto, workerVars, WorkInHand, WorkPoints
    <3> QED
      BY <1>3, <3>1, <3>2, <3>3, <3>4 DEF HandlerNext
  <2>3. WorkCount' = WorkCount
    BY <1>1, <2>2 DEF WorkCount
  <2> QED
    BY <1>1, <2>1, <2>3, SizeKept
<1> QED
  BY <1>2, <1>3

(* Once an error is on its way to JavaScript the codec will be closed, and *)
(* until then nothing but another error can come of that.                  *)
Troubled == state = "closed" \/ errs > 0 \/ jsIn = "onerror"

LEMMA TroubledStays ==
  ASSUME CoreTypeOK, Troubled, [CodecNext]_coreVars
  PROVE  Troubled'
<1> USE DEF Troubled, jsVars, tsfnVars, coreVars
<1>1. errs \in Nat
  BY DEF CoreTypeOK, TsfnType
<1>2. CASE state = "closed"
  BY <1>2, ClosedStays
<1>3. CASE state # "closed"
  <2>1. CASE UNCHANGED coreVars
    BY <1>3, <2>1
  <2>2. CASE HandlerStep
    BY <1>1, <1>3, <2>2 DEF HandlerStep, JsOwned, OutputError
  <2>3. CASE \/ RefuseConfigure \/ RefuseInput \/ RequestFlush \/ ResetAll
             \/ BeginRelease \/ StopWorker \/ FinishRelease \/ CloseAgain
             \/ \E cfg \in Config : AcceptConfigure(cfg)
             \/ \E type \in {"decode", "encode"}, key \in BOOLEAN :
                  AcceptInput(type, key)
    BY <1>3, <2>3 DEF RefuseConfigure, RefuseInput, RequestFlush, ResetAll, BeginRelease,
       StopWorker, FinishRelease, CloseAgain, AcceptConfigure, AcceptInput
  <2>4. CASE \/ DeliverOutput \/ DeliverError \/ DeliverFlush \/ DeliverDequeue
             \/ ErrorReturns \/ DequeueReturns \/ WorkerLoop
    BY <1>1, <1>3, <2>4 DEF DeliverOutput, DeliverError, DeliverFlush, DeliverDequeue,
       ErrorReturns, DequeueReturns, WorkerLoop, JsOwned, EventLoop
  <2> QED
    BY <2>1, <2>2, <2>3, <2>4 DEF CodecNext, FrameNext, ReleaseStep, CallbackReturn
<1> QED
  BY <1>2, <1>3

LEMMA ErrorTroubles ==
  ASSUME CoreTypeOK, OutputError
  PROVE  state = "closed" \/ Troubled'
  BY DEF OutputError, CoreTypeOK, TsfnType, Troubled

(* While FFmpeg has no context to work with, every request queued is       *)
(* behind a configure message; so is the next one that JavaScript makes.   *)
ConfigureAhead(n) ==
  msg.type = "configure" \/ \E i \in 1 .. n - 1 :
                              i <= Len(queue) /\ queue[i].type = "configure"

ContextInv ==
  ctx = "none" =>
    /\ wpc \notin WorkPoints
    /\ \A j \in DOMAIN queue : IsWork(queue[j]) => ConfigureAhead(j)
    /\ state = "configured" => ConfigureAhead(Len(queue) + 1)

LEMMA ContextFrameStep ==
  ASSUME CoreTypeOK, ReleaseIsFinal, ContextInv, FrameNext \/ UNCHANGED coreVars,
         UNCHANGED ctx
  PROVE  ContextInv'
<1> SUFFICES ASSUME ctx = "none"
             PROVE  /\ wpc' \notin WorkPoints
                    /\ \A j \in DOMAIN queue' : IsWork(queue'[j]) => ConfigureAhead(j)'
                    /\ state' = "configured" => ConfigureAhead(Len(queue) + 1)'
  BY DEF ContextInv
<1>1. /\ queue \in Seq(Messages) /\ wpc \notin WorkPoints
      /\ Len(queue) \in Nat /\ DOMAIN queue = 1 .. Len(queue)
      /\ \A j \in DOMAIN queue : IsWork(queue[j]) => ConfigureAhead(j)
      /\ state = "configured" => ConfigureAhead(Len(queue) + 1)
  BY DEF ContextInv, CoreTypeOK, QueueType
<1>2. Stays => wpc' \notin WorkPoints
  BY <1>1 DEF Stays, HandlerPoints
<1>3. ASSUME NEW m \in Messages, Configures(m) \/ Requests(m) \/ Flushes(m)
      PROVE  ContextInv'
  <2>1. /\ queue' = Append(queue, m) /\ UNCHANGED msg /\ Stays
        /\ IsWork(m) => state = "configured"
        /\ m.type = "configure" \/ UNCHANGED state
    BY <1>3 DEF Configures, Requests, Flushes, Appends, IsWork
  <2>2. /\ Len(queue') = Len(queue) + 1 /\ DOMAIN queue' = 1 .. Len(queue) + 1
        /\ queue'[Len(queue) + 1] = m /\ \A i \in 1 .. Len(queue) : queue'[i] = queue[i]
    BY <1>1, <2>1
  <2>3. ASSUME NEW n \in 1 .. Len(queue) + 1, ConfigureAhead(n)
        PROVE  ConfigureAhead(n)'
    BY <1>1, <2>1, <2>2, <2>3 DEF ConfigureAhead
  <2>4. ASSUME NEW j \in DOMAIN queue', IsWork(queue'[j])
        PROVE  ConfigureAhead(j)'
    BY <1>1, <2>1, <2>2, <2>3, <2>4
  <2>5. ASSUME state' = "configured"
        PROVE  ConfigureAhead(Len(queue) + 1)'
    <3>1. CASE m.type = "configure"
      <4>1. Len(queue) + 1 \in 1 .. Len(queue') /\ queue'[Len(queue) + 1].type = "configure"
        BY <1>1, <2>2, <3>1
      <4> QED
        BY <1>1, <2>2, <4>1 DEF ConfigureAhead
    <3>2. CASE m.type # "configure"
      BY <1>1, <2>1, <2>2, <2>5, <3>2 DEF ConfigureAhead
    <3> QED
      BY <3>1, <3>2
  <2> QED
    BY <1>2, <2>1, <2>4, <2>5 DEF ContextInv
<1>4. CASE Clears
  <2>1. state' # "configured"
    BY <1>4 DEF Clears
  <2>2. \A j \in DOMAIN queue' : ~IsWork(queue'[j])
    BY <1>4 DEF Clears, IsWork
  <2> QED
    BY <1>2, <1>4, <2>1, <2>2 DEF Clears
<1>5. CASE Delivers \/ Completes \/ Idle
  <2>1. UNCHANGED <<queue, msg>> /\ Stays /\ (state' = "configured" => state = "configured")
    BY <1>5 DEF Delivers, Completes, Idle, NotConfiguring
  <2> QED
    BY <1>1, <1>2, <2>1 DEF ConfigureAhead
<1>6. CASE Takes
  <2>1. /\ queue # <<>> /\ queue' = Tail(queue) /\ msg.type # "configure"
        /\ msg' = Head(queue) /\ wpc' = Head(queue).type /\ UNCHANGED state
    BY <1>6 DEF Takes, NoMessage
  <2>2. /\ Len(queue) > 0 /\ Len(queue') = Len(queue) - 1 /\ DOMAIN queue' = 1 .. Len(queue) - 1
        /\ Head(queue) = queue[1] /\ \A i \in 1 .. Len(queue) - 1 : queue'[i] = queue[i + 1]
    BY <1>1, <2>1
  <2>3. ASSUME NEW n \in 1 .. Len(queue), ConfigureAhead(n + 1)
        PROVE  ConfigureAhead(n)'
    <3>1. PICK i \in 1 .. n : i <= Len(queue) /\ queue[i].type = "configure"
      BY <1>1, <2>1, <2>3 DEF ConfigureAhead
    <3>2. CASE i = 1
      BY <2>1, <2>2, <3>1, <3>2 DEF ConfigureAhead
    <3>3. CASE i # 1
      <4>1. i - 1 \in 1 .. n - 1 /\ i - 1 <= Len(queue') /\ queue'[i - 1] = queue[i]
        BY <1>1, <2>2, <3>1, <3>3
      <4> QED
        BY <3>1, <4>1 DEF ConfigureAhead
    <3> QED
      BY <3>2, <3>3
  <2>4. ~IsWork(Head(queue))
    <3> SUFFICES ASSUME IsWork(Head(queue)) PROVE FALSE
      OBVIOUS
    <3>1. ConfigureAhead(1)
      BY <1>1, <2>2
    <3> QED
      BY <2>1, <3>1 DEF ConfigureAhead
  <2>5. wpc' \notin WorkPoints
    <3>1. Head(queue) \in Messages
      BY <1>1, <2>1
    <3>2. Head(queue).type \in {"configure", "flush", "reset", "decode", "encode"}
      BY <3>1 DEF Messages, ConfigureMessages, FlushMessages, ResetMessages, WorkMessages
    <3> QED
      BY <2>1, <2>4, <3>2 DEF IsWork, WorkPoints
  <2>6. ASSUME NEW j \in DOMAIN queue', IsWork(queue'[j])
        PROVE  ConfigureAhead(j)'
    BY <1>1, <2>2, <2>3, <2>6
  <2>7. state' = "configured" => ConfigureAhead(Len(queue) + 1)'
    BY <1>1, <2>1, <2>2, <2>3
  <2> QED
    BY <2>5, <2>6, <2>7
<1> QED
  BY <1>3, <1>4, <1>5, <1>6, FrameCases DEF ContextInv

LEMMA ContextHandlerStep ==
  ASSUME CoreTypeOK, ContextInv, ~Troubled, HandlerStep, HandlerNext
  PROVE  Troubled' \/ ContextInv'
<1>1. /\ UNCHANGED <<queue, state>> /\ state # "closed"
      /\ OutputError => Troubled'
  BY ErrorTroubles DEF HandlerStep, JsOwned, jsVars, Troubled
<1>2. ASSUME NEW config \in Config,
             ConfigureRejects(config) \/ ConfigureAllocates(config)
               \/ ConfigureOpens(config)
      PROVE  Troubled' \/ ContextInv'
  <2>1. CASE Troubled' \/ ctx' # "none"
    BY <2>1 DEF ContextInv
  <2>2. CASE ~Troubled' /\ ctx' = "none"
    <3>1. CASE ConfigureOpens(config)
      <4>1. ctx = "none" /\ wpc = "open" /\ UNCHANGED ctx
        BY <1>1, <2>2, <3>1 DEF ConfigureOpens
      <4> QED
        BY <1>1, <2>2, <3>1, <4>1 DEF ConfigureOpens
    <3>2. CASE ConfigureAllocates(config)
      <4>1. wpc = "configure" /\ wpc' = "open" /\ msg' = msg
        BY <1>1, <2>2, <3>2 DEF ConfigureAllocates, Goto
      <4>2. msg'.type = "configure"
        BY <4>1, InHandKinds DEF ConfigurePoints
      <4> QED
        BY <4>1, <4>2 DEF ContextInv, ConfigureAhead, WorkPoints
    <3> QED
      BY <1>1, <1>2, <2>2, <3>1, <3>2 DEF ConfigureRejects
  <2> QED
    BY <2>1, <2>2
<1>3. CASE \/ EndsEarly \/ WorkSends \/ WorkReceives \/ WorkReceivesNoMore
           \/ WorkCounts \/ WorkSignals
  <2>1. wpc \in WorkPoints /\ UNCHANGED ctx
    BY <1>3 DEF EndsEarly, WorkSkips, WorkSendFails, WorkAllocFails, WorkReceiveFails,
       WorkSends, AtWork, WorkReceives, ReceiveFrame, WorkReceivesNoMore, WorkCounts,
       WorkSignals, WorkPoints, ctxVars
  <2> QED
    BY <2>1 DEF ContextInv
<1>4. CASE HandleFlush \/ (HandleReset /\ (FlushBuffers \/ UNCHANGED <<ctx, buf>>))
  <2>1. /\ wpc \in FlushPoints \cup {"reset"} /\ (ctx' = "none" => ctx = "none")
        /\ wpc' \notin WorkPoints
    BY <1>4 DEF HandleFlush, FlushEndsAtOnce, FlushSends, FlushDrainsOne, FlushEnds,
       ReceiveFrame, HandleReset, FlushBuffers, Return, Goto, workerVars, ctxVars,
       FlushPoints, WorkPoints
  <2>2. msg.type # "configure"
    BY <2>1, InHandKinds
  <2>3. \A n : ConfigureAhead(n) => ConfigureAhead(n)'
    BY <1>1, <2>2 DEF ConfigureAhead
  <2> QED
    BY <1>1, <2>1, <2>3 DEF ContextInv
<1> QED
  BY <1>2, <1>3, <1>4 DEF HandlerNext

(* So a request is given up uncounted only with an error report.           *)
LEMMA CountsUnlessTroubled ==
  ASSUME CoreTypeOK, ReleaseIsFinal, ContextInv, ~Troubled, HandlerNext
  PROVE  Troubled' \/ CountsFirst
<1> SUFFICES ASSUME wpc \in WorkPoints \ {"signal"}, wpc' = "top"
             PROVE  Troubled'
  BY DEF CountsFirst
<1>1. EndsEarly
  BY DEF HandlerNext, ConfigureRejects, ConfigureAllocates, ConfigureOpens, WorkSends,
     WorkReceives, ReceiveFrame, WorkReceivesNoMore, WorkCounts, WorkSignals, Goto,
     HandleFlush, FlushEndsAtOnce, FlushSends, FlushDrainsOne, FlushEnds, HandleReset,
     workerVars, WorkPoints
<1>2. ~WorkSkips
  BY DEF WorkSkips, ContextInv, ReleaseIsFinal, Troubled
<1>3. OutputError
  BY <1>1, <1>2 DEF EndsEarly, WorkSendFails, WorkAllocFails, WorkReceiveFails
<1> QED
  BY <1>3, ErrorTroubles DEF Troubled

SizeOrTrouble == Troubled \/ (ContextInv /\ SizeInv)

LEMMA SizeOrTroubleStep ==
  ASSUME CoreTypeOK, CoreTypeOK', ReleaseIsFinal, SizeOrTrouble,
         [PipelineNext]_pipelineVars
  PROVE  SizeOrTrouble'
<1> USE DEF SizeOrTrouble
<1>1. CASE Troubled
  <2>1. [CodecNext]_coreVars
    BY DEF PipelineNext, CodecNext, pipelineVars
  <2> QED
    BY <1>1, <2>1, TroubledStays
<1>2. CASE ~Troubled /\ (FrameNext \/ UNCHANGED coreVars) /\ UNCHANGED ctxVars
  BY <1>2, ContextFrameStep, SizeFrameStep DEF Troubled, ctxVars
<1>3. CASE ~Troubled /\ HandlerStep /\ HandlerNext
  BY <1>3, ContextHandlerStep, CountsUnlessTroubled, SizeHandlerStep
<1> QED
  BY <1>1, <1>2, <1>3 DEF PipelineNext, pipelineVars

LEMMA SizeInvariant == PipelineSpec => []SizeOrTrouble
<1>1. CoreInit => SizeOrTrouble
  <2> SUFFICES ASSUME CoreInit PROVE ContextInv
    BY SizeInit DEF SizeOrTrouble
  <2>1. queue = <<>> /\ wpc = "off" /\ state = "unconfigured"
    BY DEF CoreInit, QueueInit, WorkerInit
  <2> QED
    BY <2>1 DEF ContextInv, WorkPoints
<1>2. CoreTypeOK /\ CoreTypeOK' /\ ReleaseIsFinal /\ SizeOrTrouble
        /\ [PipelineNext]_pipelineVars => SizeOrTrouble'
  BY SizeOrTroubleStep
<1> QED
  BY <1>1, <1>2, PipelineIsCodec, TypeCorrect, ReleaseFinal, PTL DEF PipelineSpec

(* In every codec the queue size counts the requests that are not yet      *)
(* processed, as long as no error is on its way to JavaScript.             *)
THEOREM PipelineSizes == PipelineSpec => []QueueSizeExact
<1>1. CoreTypeOK /\ SizeOrTrouble => QueueSizeExact
  BY DEF SizeOrTrouble, SizeInv, Troubled, QueueSizeExact, CoreTypeOK, TsfnType
<1> QED
  BY <1>1, SizeInvariant, PipelineIsCodec, TypeCorrect, PTL

(* In a codec whose handler never gives up a request uncounted it does so  *)
(* until the codec is closed.                                              *)
AlwaysCounts == [][CountsFirst]_pipelineVars

LEMMA FrameCounts ==
  ASSUME CoreTypeOK, ReleaseIsFinal, FrameNext \/ UNCHANGED coreVars
  PROVE  CountsFirst
<1>1. wpc \in WorkPoints \ {"signal"} => wpc \in HandlerPoints /\ wpc # "top"
  BY DEF WorkPoints, HandlerPoints
<1> QED
  BY <1>1, FrameCases DEF CountsFirst, Stays, Configures, Requests, Flushes, Appends,
     Clears, Delivers, Completes, Takes, Idle

THEOREM PipelineAlwaysSizes == PipelineSpec /\ AlwaysCounts => []QueueSizeAlwaysExact
<1> DEFINE Inv == state = "closed" \/ SizeInv
<1>1. CoreInit => Inv
  BY SizeInit
<1>2. ASSUME CoreTypeOK, CoreTypeOK', ReleaseIsFinal, Inv,
             [PipelineNext]_pipelineVars, [CountsFirst]_pipelineVars
      PROVE  Inv'
  <2>4. [CodecNext]_coreVars
    BY <1>2 DEF PipelineNext, CodecNext, pipelineVars
  <2>1. CASE state = "closed"
    BY <1>2, <2>4, <2>1, ClosedStays
  <2>2. CASE (FrameNext \/ UNCHANGED coreVars) /\ UNCHANGED ctxVars
    BY <1>2, <2>1, <2>2, SizeFrameStep
  <2>3. CASE HandlerStep /\ HandlerNext
    <3>1. CountsFirst
      BY <1>2 DEF CountsFirst, WorkPoints, pipelineVars, coreVars, workerVars
    <3> QED
      BY <1>2, <2>1, <2>3, <3>1, SizeHandlerStep
  <2> QED
    BY <1>2, <2>2, <2>3 DEF PipelineNext, pipelineVars
<1>3. Inv => QueueSizeAlwaysExact
  BY DEF SizeInv, QueueSizeAlwaysExact
<1> QED
  BY <1>1, <1>2, <1>3, PipelineIsCodec, TypeCorrect, ReleaseFinal, PTL
     DEF PipelineSpec, AlwaysCounts

-----------------------------------------------------------------------------
(* WorkConserved.                                                          *)

(* What ends its guarantee, and for good: an error on its way, a reset(),  *)
(* a second configure(), or one that threw.                                *)
Disturbed ==
  \/ Troubled
  \/ resets > 0
  \/ configures > 1
  \/ configures = 1 /\ state # "configured"

LEMMA DisturbedStays ==
  ASSUME CoreTypeOK, ReleaseIsFinal, Disturbed, [CodecNext]_coreVars
  PROVE  Disturbed'
<1>1. CASE Troubled
  BY <1>1, TroubledStays DEF Disturbed
<1>2. CASE HandlerStep
  BY <1>2, TroubledStays DEF Disturbed, HandlerStep, JsOwned, jsVars, countVars
<1>3. CASE FrameNext \/ UNCHANGED coreVars
  <2>1. configures \in Nat /\ resets \in Nat
    BY DEF CoreTypeOK, CountType
  <2> QED
    BY <1>1, <1>3, <2>1, FrameCases DEF Disturbed, Configures, Requests, Flushes, Appends,
       Clears, Delivers, Completes, Takes, Idle, NotConfiguring
<1> QED
  BY <1>2, <1>3 DEF CodecNext

(* Before the configure() there is nothing at all; its message comes first *)
(* and finds no context; no reset message follows; and the codec is full   *)
(* only while its outputs are received.                                    *)
BeforeConfigure ==
  configures = 0 =>
    /\ queue = <<>> /\ wpc \notin HandlerPoints
    /\ ctx = "none" /\ state # "configured"

ConfiguresFirst ==
  /\ \A i \in DOMAIN queue : queue[i].type = "configure" =>
       i = 1 /\ ctx = "none" /\ wpc \notin HandlerPoints
  /\ wpc \in ConfigurePoints => ctx = "none"

NeverResets ==
  msg.type # "reset" /\ \A i \in DOMAIN queue : queue[i].type # "reset"

RoomToSend == ctx = "open" /\ wpc # "receive" => ~CodecFull

AllWork == {lastOut} \cup Members(outQ) \cup InWorks

Conserved ==
  /\ BeforeConfigure /\ ConfiguresFirst /\ NeverResets /\ RoomToSend
  /\ AllWork = lastOut .. inputs

LEMMA ConservedInit ==
  ASSUME CoreInit, ctx = "none", buf = <<>>
  PROVE  Conserved
<1>1. /\ queue = <<>> /\ wpc = "off" /\ msg = NoMessage /\ outQ = <<>>
      /\ lastOut = 0 /\ inputs = 0 /\ state = "unconfigured"
  BY DEF CoreInit, QueueInit, WorkerInit
<1>2. AllWork = {0}
  BY <1>1 DEF AllWork, InWorks, InHandIds, WorkIds, Members, AtWork
<1>3. {0} = 0 .. 0
  OBVIOUS
<1>4. wpc \notin HandlerPoints
  BY <1>1 DEF HandlerPoints, ConfigurePoints, WorkPoints, FlushPoints
<1> QED
  BY <1>1, <1>2, <1>3, <1>4 DEF Conserved, BeforeConfigure, ConfiguresFirst, NeverResets,
     RoomToSend, ConfigurePoints, HandlerPoints, NoMessage

(* Outputs are delivered in order, so that lastOut is the oldest request.  *)
LEMMA ConservedDelivers ==
  ASSUME CoreTypeOK, OrderInv, AllWork = lastOut .. inputs, Delivers,
         UNCHANGED buf, state # "closed"
  PROVE  AllWork' = lastOut' .. inputs'
<1> DEFINE S == Members(outQ) \cup InWorks
           T == Members(outQ') \cup InWorks
           h == Head(outQ)
<1>1. /\ outQ \in Seq(Inputs) /\ outQ # <<>> /\ h \in Inputs
      /\ lastOut \in Nat /\ inputs \in Nat
      /\ outQ' = Tail(outQ) /\ lastOut' = h /\ UNCHANGED <<inputs, queue>>
  BY DEF CoreTypeOK, TsfnType, CountType, Delivers
<1>2. InWorks' = InWorks
  BY SameHand DEF Delivers, InWorks
<1>3. Members(outQ) = {h} \cup Members(outQ') /\ Precede({h}, Members(outQ'))
  BY <1>1, MembersOfTail, IncreasingTail DEF OrderInv
<1>4. {lastOut} \cup S = lastOut .. inputs /\ S = {h} \cup T /\ AllWork' = {h} \cup T
  BY <1>1, <1>2, <1>3 DEF AllWork
<1>5. \A n \in S : lastOut < n
  BY DEF OrderInv, InLine, Precede, InWorks
<1>6. \A n \in T : h < n
  BY <1>3 DEF OrderInv, InLine, Precede, InWorks
<1> HIDE DEF S, T, h
<1>7. h = lastOut + 1
  <2>1. h \in lastOut .. inputs /\ lastOut < h
    BY <1>4, <1>5
  <2>2. lastOut + 1 \in lastOut .. inputs /\ lastOut + 1 # lastOut
    BY <1>1, <2>1
  <2>3. lastOut + 1 \in S
    BY <1>4, <2>2
  <2>4. lastOut + 1 = h \/ h < lastOut + 1
    BY <1>4, <1>6, <2>3
  <2> QED
    BY <1>1, <2>1, <2>4
<1>8. S = (lastOut .. inputs) \ {lastOut}
  BY <1>4, <1>5
<1>9. (lastOut .. inputs) \ {lastOut} = lastOut + 1 .. inputs
  BY <1>1
<1> QED
  BY <1>1, <1>4, <1>7, <1>8, <1>9

LEMMA ConservedFrameStep ==
  ASSUME CoreTypeOK, ReleaseIsFinal, OrderInv, Conserved, ~Disturbed,
         FrameNext \/ UNCHANGED coreVars, UNCHANGED ctxVars
  PROVE  Disturbed' \/ Conserved'
<1> SUFFICES ASSUME ~Disturbed' PROVE Conserved'
  OBVIOUS
<1> USE DEF ctxVars
<1>1. /\ queue \in Seq(Messages) /\ outQ \in Seq(Inputs) /\ inputs \in Nat
      /\ lastOut \in Nat /\ configures \in Nat /\ resets \in Nat
      /\ Len(queue) \in Nat /\ DOMAIN queue = 1 .. Len(queue)
      /\ CodecFull' = CodecFull
  BY DEF CoreTypeOK, QueueType, TsfnType, CountType, CodecFull
<1>2. Stays => /\ wpc' \in HandlerPoints <=> wpc \in HandlerPoints
               /\ wpc' \in ConfigurePoints => wpc \in ConfigurePoints
               /\ RoomToSend'
  BY <1>1 DEF Stays, HandlerPoints, ConfigurePoints, Conserved, RoomToSend, WorkPoints
<1>3. ASSUME NEW m \in Messages, Configures(m) \/ Flushes(m) \/ Requests(m)
      PROVE  Conserved'
  <2>1. /\ queue' = Append(queue, m) /\ UNCHANGED <<outQ, lastOut, msg>>
        /\ m.type # "reset" /\ InHandIds' = InHandIds /\ Stays
    BY <1>3, SameHand DEF Configures, Flushes, Requests, Appends, IsWork
  <2>2. /\ Len(queue') = Len(queue) + 1 /\ DOMAIN queue' = 1 .. Len(queue) + 1
        /\ queue'[Len(queue) + 1] = m /\ \A i \in 1 .. Len(queue) : queue'[i] = queue[i]
    BY <1>1, <2>1
  <2>3. WorkIds(queue') = WorkIds(queue) \cup (IF IsWork(m) THEN {m.id} ELSE {})
    BY <1>1, <2>1, WorkIdsAppend
  <2>4. AllWork' = lastOut' .. inputs'
    <3>1. CASE Requests(m)
      <4>1. AllWork' = AllWork \cup {inputs + 1} /\ inputs' = inputs + 1
        BY <2>1, <2>3, <3>1 DEF AllWork, InWorks, Requests
      <4>2. lastOut <= inputs
        <5>1. lastOut \in AllWork
          BY DEF AllWork
        <5>2. lastOut \in lastOut .. inputs
          BY <5>1 DEF Conserved
        <5> QED
          BY <1>1, <5>2
      <4>3. (lastOut .. inputs) \cup {inputs + 1} = lastOut .. inputs + 1
        BY <1>1, <4>2
      <4> QED
        BY <2>1, <4>1, <4>3 DEF Conserved
    <3>2. CASE ~Requests(m)
      <4>1. AllWork' = AllWork /\ UNCHANGED inputs
        BY <1>3, <2>1, <2>3, <3>2 DEF AllWork, InWorks, Configures, Flushes, IsWork
      <4> QED
        BY <2>1, <4>1 DEF Conserved
    <3> QED
      BY <3>1, <3>2
  <2>5. NeverResets'
    BY <1>1, <2>1, <2>2 DEF Conserved, NeverResets
  <2>6. BeforeConfigure' /\ ConfiguresFirst'
    <3>1. CASE Configures(m)
      <4>1. configures = 0 /\ configures' = 1
        BY <1>1, <3>1 DEF Configures, Disturbed
      <4>2. queue = <<>> /\ wpc \notin HandlerPoints /\ ctx = "none"
        BY <4>1 DEF Conserved, BeforeConfigure
      <4>3. DOMAIN queue' = {1}
        BY <2>2, <4>2
      <4> QED
        BY <1>2, <2>1, <4>1, <4>2, <4>3 DEF BeforeConfigure, ConfiguresFirst, HandlerPoints
    <3>2. CASE ~Configures(m)
      <4>1. m.type # "configure" /\ UNCHANGED <<configures, state>>
        BY <1>3, <3>2 DEF Flushes, Requests, IsWork
      <4>2. configures # 0
        <5>1. CASE Requests(m)
          BY <5>1 DEF Requests, Conserved, BeforeConfigure
        <5>2. CASE Flushes(m)
          BY <5>2 DEF Flushes, Conserved, BeforeConfigure
        <5> QED
          BY <1>3, <3>2, <5>1, <5>2
      <4> QED
        BY <1>1, <1>2, <2>1, <2>2, <4>1, <4>2 DEF Conserved, BeforeConfigure, ConfiguresFirst
    <3> QED
      BY <3>1, <3>2
  <2> QED
    BY <1>2, <2>1, <2>4, <2>5, <2>6 DEF Conserved
<1>4. ~Clears
  BY <1>1 DEF Clears, Disturbed
<1>5. CASE Delivers \/ Completes \/ Idle
  <2>1. /\ UNCHANGED <<queue, msg, inputs>> /\ Stays /\ InHandIds' = InHandIds
        /\ configures' = configures
        /\ state' = "configured" => state = "configured"
    BY <1>1, <1>5, SameHand DEF Delivers, Completes, Idle, NotConfiguring, Conserved,
       BeforeConfigure, Disturbed
  <2>2. AllWork' = lastOut' .. inputs'
    <3>1. CASE Delivers
      BY <3>1, ConservedDelivers DEF Conserved, Disturbed, Troubled
    <3>2. CASE Completes \/ Idle
      <4>1. AllWork' = AllWork /\ UNCHANGED lastOut
        BY <2>1, <3>2 DEF Completes, Idle, AllWork, InWorks
      <4> QED
        BY <2>1, <4>1 DEF Conserved
    <3> QED
      BY <1>5, <3>1, <3>2
  <2> QED
    BY <1>2, <2>1, <2>2 DEF Conserved, BeforeConfigure, ConfiguresFirst, NeverResets
<1>6. CASE Takes
  <2>1. /\ queue # <<>> /\ queue' = Tail(queue) /\ msg' = Head(queue)
        /\ wpc \notin HandlerPoints /\ wpc' = Head(queue).type
        /\ UNCHANGED <<outQ, lastOut, inputs, configures, state>>
        /\ InHandIds = {}
        /\ InHandIds' = IF IsWork(Head(queue)) THEN {Head(queue).id} ELSE {}
    BY <1>6, TakesWork DEF Takes, InHandIds
  <2>2. /\ Len(queue) > 0 /\ Len(queue') = Len(queue) - 1 /\ DOMAIN queue' = 1 .. Len(queue) - 1
        /\ Head(queue) = queue[1] /\ \A i \in 1 .. Len(queue) - 1 : queue'[i] = queue[i + 1]
        /\ Head(queue) \in Messages
    BY <1>1, <2>1
  <2>3. AllWork' = AllWork
    BY <1>1, <2>1, WorkIdsTail DEF AllWork, InWorks
  <2>4. Head(queue).type \in {"configure", "flush", "reset", "decode", "encode"}
    BY <2>2 DEF Messages, ConfigureMessages, FlushMessages, ResetMessages, WorkMessages
  <2>5. \A i \in DOMAIN queue' : i + 1 \in DOMAIN queue /\ queue'[i] = queue[i + 1] /\ i + 1 # 1
    BY <1>1, <2>2
  <2>6. 1 \in DOMAIN queue /\ configures # 0
    BY <1>1, <2>1, <2>2 DEF Conserved, BeforeConfigure
  <2>7. NeverResets' /\ ConfiguresFirst'
    BY <2>1, <2>2, <2>4, <2>5, <2>6 DEF Conserved, NeverResets, ConfiguresFirst, ConfigurePoints
  <2>8. RoomToSend'
    BY <1>1, <2>1 DEF Conserved, RoomToSend, HandlerPoints, WorkPoints
  <2> QED
    BY <2>1, <2>3, <2>6, <2>7, <2>8 DEF Conserved, BeforeConfigure
<1> QED
  BY <1>3, <1>4, <1>5, <1>6, FrameCases

(* A handler moves the request in hand to the codec, or the oldest one in  *)
(* the codec to the TSFN, unless an error is on its way.                   *)
MovesWork ==
  \/ ~AtWork /\ UNCHANGED <<outQ, buf>>
  \/ AtWork /\ UNCHANGED outQ /\ buf' = Append(buf, msg.id)
  \/ ~AtWork /\ buf # <<>> /\ buf' = Tail(buf) /\ outQ' = Append(outQ, Head(buf))

LEMMA ReceiveMoves ==
  ASSUME ReceiveFrame, state # "closed", "clone" \notin Faults, ~AtWork
  PROVE  MovesWork
  BY DEF ReceiveFrame, ReceiveOutput, OutputFrame, Post, MovesWork

LEMMA HandlerMoves ==
  ASSUME CoreTypeOK, ReleaseIsFinal, NoContextEmpty, ContextInv, Conserved, ~Disturbed,
         buf \in Seq(Inputs), HandlerStep, HandlerNext, "clone" \notin Faults
  PROVE  Disturbed' \/ (MovesWork /\ ConfiguresFirst' /\ RoomToSend')
<1> USE DEF Disturbed
<1> DEFINE Goal == MovesWork /\ ConfiguresFirst' /\ RoomToSend'
<1>1. /\ UNCHANGED <<queue, state>> /\ state # "closed" /\ ~shouldExit
      /\ OutputError => Disturbed'
  BY ErrorTroubles DEF HandlerStep, JsOwned, jsVars, Troubled, ReleaseIsFinal
<1>2. \A i \in DOMAIN queue' : queue'[i].type # "configure"
  BY <1>1 DEF HandlerStep, Conserved, ConfiguresFirst
<1>3. wpc' \notin ConfigurePoints \/ ctx' = "none" => ConfiguresFirst'
  BY <1>2 DEF ConfiguresFirst
<1>4. ASSUME NEW config,
             ConfigureRejects(config) \/ ConfigureAllocates(config)
               \/ ConfigureOpens(config)
      PROVE  Disturbed' \/ Goal
  <2>1. wpc \in ConfigurePoints /\ ~AtWork
    BY <1>4 DEF ConfigureRejects, ConfigureAllocates, ConfigureOpens, ConfigurePoints, AtWork
  <2>2. ctx = "none" /\ buf = <<>>
    BY <2>1 DEF Conserved, ConfiguresFirst, NoContextEmpty
  <2>3. CASE ConfigureRejects(config)
    BY <1>1, <2>3 DEF ConfigureRejects
  <2>4. CASE ConfigureAllocates(config)
    BY <1>1, <1>3, <2>1, <2>2, <2>4 DEF ConfigureAllocates, MovesWork, RoomToSend
  <2>5. CASE ConfigureOpens(config)
    <3>1. ~(Len(<<>>) > CodecDelay)
      BY CodecDelayAssumption
    <3>2. UNCHANGED <<outQ, buf>> /\ wpc' = "top"
      BY <2>5 DEF ConfigureOpens, Return
    <3> QED
      BY <1>3, <2>1, <2>2, <3>1, <3>2 DEF MovesWork, RoomToSend, CodecFull, ConfigurePoints
  <2> QED
    BY <1>4, <2>3, <2>4, <2>5
<1>5. CASE EndsEarly
  <2>1. ~WorkSkips
    BY <1>1 DEF WorkSkips, ContextInv, AtWork, WorkPoints
  <2> QED
    BY <1>1, <1>5, <2>1 DEF EndsEarly, WorkSendFails, WorkAllocFails, WorkReceiveFails
<1>6. CASE WorkSends
  <2>1. AtWork /\ SendInput /\ UNCHANGED outQ /\ wpc' = "receive"
    BY <1>6 DEF WorkSends, Goto, tsfnVars
  <2>2. ~SendRefuses
    BY <2>1 DEF SendRefuses, Conserved, RoomToSend, AtWork
  <2> QED
    BY <1>3, <2>1, <2>2 DEF SendInput, MovesWork, RoomToSend, ConfigurePoints
<1>7. CASE WorkReceives
  <2>1. wpc = "receive" /\ ReceiveFrame /\ wpc' = wpc /\ ~AtWork
    BY <1>7 DEF WorkReceives, ReceiveFrame, workerVars, AtWork
  <2> QED
    BY <1>1, <1>3, <2>1, ReceiveMoves DEF RoomToSend, ConfigurePoints
<1>8. CASE WorkReceivesNoMore
  BY <1>1, <1>3, <1>8 DEF WorkReceivesNoMore, ReceiveAgain, Goto, tsfnVars, ctxVars,
     AtWork, MovesWork, RoomToSend, ConfigurePoints, CodecFull
<1>9. CASE WorkCounts \/ WorkSignals
  <2>1. /\ wpc \in {"count", "signal"} /\ UNCHANGED <<outQ, ctx, buf>>
        /\ wpc' \in {"signal", "top"}
    BY <1>9 DEF WorkCounts, WorkSignals, Goto, Return, tsfnVars, ctxVars
  <2> QED
    BY <1>3, <2>1 DEF Conserved, MovesWork, AtWork, RoomToSend, ConfigurePoints, CodecFull
<1>10. CASE HandleFlush
  <2>1. wpc \in {"flush", "drain"} /\ wpc' \in {"drain", "top"} /\ ~AtWork
    BY <1>10 DEF HandleFlush, FlushEndsAtOnce, FlushSends, FlushDrainsOne, FlushEnds,
       ReceiveFrame, Return, Goto, workerVars, AtWork
  <2>2. ConfiguresFirst'
    BY <1>3, <2>1 DEF ConfigurePoints
  <2>3. CASE ~FlushDrainsOne
    <3>1. UNCHANGED <<outQ, buf>> /\ (ctx' = ctx \/ ctx' = "draining")
      BY <1>10, <2>3 DEF HandleFlush, FlushEndsAtOnce, FlushSends, FlushEnds, tsfnVars,
         ctxVars
    <3> QED
      BY <2>1, <2>2, <3>1 DEF Conserved, MovesWork, RoomToSend, CodecFull
  <2>4. CASE FlushDrainsOne
    <3>1. ReceiveFrame /\ UNCHANGED ctx
      BY <2>4 DEF FlushDrainsOne, ReceiveFrame
    <3>2. MovesWork
      BY <1>1, <2>1, <3>1, ReceiveMoves
    <3>3. buf' = Tail(buf) /\ buf # <<>>
      BY <3>1 DEF ReceiveFrame, ReceiveOutput
    <3>4. Len(buf') < Len(buf) /\ Len(buf') \in Nat /\ Len(buf) \in Nat
      BY <3>3
    <3>5. CodecFull' => CodecFull
      BY <3>4, CodecDelayAssumption DEF CodecFull
    <3> QED
      BY <2>1, <2>2, <3>1, <3>2, <3>5 DEF Conserved, RoomToSend
  <2> QED
    BY <2>3, <2>4
<1>11. ~HandleReset
  BY InHandKinds DEF HandleReset, Conserved, NeverResets
<1> QED
  BY <1>4, <1>5, <1>6, <1>7, <1>8, <1>9, <1>10, <1>11 DEF HandlerNext

LEMMA ConservedHandlerStep ==
  ASSUME CoreTypeOK, ReleaseIsFinal, PipelineInv, ContextInv, Conserved, ~Disturbed,
         HandlerStep, HandlerNext, "clone" \notin Faults
  PROVE  Disturbed' \/ Conserved'
<1> SUFFICES ASSUME ~Disturbed' PROVE Conserved'
  OBVIOUS
<1>1. MovesWork /\ ConfiguresFirst' /\ RoomToSend'
  BY HandlerMoves DEF PipelineInv, OrderInv
<1>2. /\ outQ \in Seq(Inputs) /\ buf \in Seq(Inputs)
      /\ UNCHANGED <<queue, inputs, lastOut, configures>> /\ wpc \in HandlerPoints
      /\ msg' = msg \/ msg' = NoMessage
  BY DEF CoreTypeOK, TsfnType, PipelineInv, OrderInv, HandlerStep, HandlerStays,
     HandlerReturns, JsOwned, countVars
<1>3. InHandIds' = {}
  BY HandlerPipeline DEF PipelineInv, PipelineStep, InHandIds
<1>4. AllWork' = AllWork
  <2>1. CASE ~AtWork /\ UNCHANGED <<outQ, buf>>
    BY <1>2, <1>3, <2>1 DEF AllWork, InWorks, InHandIds
  <2>2. CASE AtWork /\ UNCHANGED outQ /\ buf' = Append(buf, msg.id)
    <3>1. Members(buf') = Members(buf) \cup InHandIds
      BY <1>2, <2>2, MembersOfAppend DEF InHandIds
    <3> QED
      BY <1>2, <1>3, <2>2, <3>1 DEF AllWork, InWorks
  <2>3. CASE ~AtWork /\ buf # <<>> /\ buf' = Tail(buf) /\ outQ' = Append(outQ, Head(buf))
    <3>1. Members(buf) = {Head(buf)} \cup Members(buf')
      BY <1>2, <2>3, MembersOfTail
    <3>2. Members(outQ') = Members(outQ) \cup {Head(buf)}
      BY <1>2, <2>3, MembersOfAppend
    <3>3. InHandIds = {}
      BY <2>3 DEF InHandIds
    <3> QED
      BY <1>2, <1>3, <3>1, <3>2, <3>3 DEF AllWork, InWorks
  <2> QED
    BY <1>1, <2>1, <2>2, <2>3 DEF MovesWork
<1>5. NeverResets' /\ BeforeConfigure'
  BY <1>2 DEF Conserved, NeverResets, BeforeConfigure, NoMessage
<1> QED
  BY <1>1, <1>2, <1>4, <1>5 DEF Conserved

(* No request is lost on the way: with one configure, no reset and no      *)
(* error on its way, every one is queued, in hand, in the codec, in the    *)
(* TSFN, or was output, provided that a frame can be cloned.               *)
THEOREM PipelineConserves ==
  ASSUME "clone" \notin Faults
  PROVE  PipelineSpec => []WorkConserved
<1> DEFINE Inv == Disturbed \/ Conserved
<1>1. CoreInit /\ ctx = "none" /\ buf = <<>> => Inv
  BY ConservedInit
<1>2. ASSUME CoreTypeOK, ReleaseIsFinal, PipelineInv, SizeOrTrouble, Inv,
             [PipelineNext]_pipelineVars
      PROVE  Inv'
  <2>1. CASE Disturbed
    <3>1. [CodecNext]_coreVars
      BY <1>2 DEF PipelineNext, CodecNext, pipelineVars
    <3> QED
      BY <1>2, <2>1, <3>1, DisturbedStays
  <2>2. CASE ~Disturbed /\ (FrameNext \/ UNCHANGED coreVars) /\ UNCHANGED ctxVars
    BY <1>2, <2>2, ConservedFrameStep DEF PipelineInv
  <2>3. CASE ~Disturbed /\ HandlerStep /\ HandlerNext
    <3>1. ContextInv
      BY <1>2, <2>3 DEF SizeOrTrouble, Disturbed
    <3> QED
      BY <1>2, <2>3, <3>1, ConservedHandlerStep
  <2> QED
    BY <1>2, <2>1, <2>2, <2>3 DEF PipelineNext, pipelineVars
<1>3. CoreTypeOK /\ Inv => WorkConserved
  BY DEF Disturbed, Troubled, Conserved, AllWork, WorkConserved, CoreTypeOK, TsfnType
<1> QED
  BY <1>1, <1>2, <1>3, PipelineInvariant, SizeInvariant, PipelineIsCodec, TypeCorrect,
     ReleaseFinal, PTL DEF PipelineSpec

-----------------------------------------------------------------------------
(* Outputs and what was noted about them on the way.                       *)

(* A request that comes into the works is a new one, and no step outside   *)
(* the handlers takes one through them.                                    *)
LEMMA NewestWork ==
  ASSUME CoreTypeOK, ReleaseIsFinal, FrameNext \/ UNCHANGED coreVars, UNCHANGED buf
  PROVE  /\ inputs <= inputs'
         /\ \A n \in InWorks' : n \in InWorks \/ n = inputs + 1
         /\ inputs + 1 \in InWorks' => inputs + 1 \in InWorks \/ inputs' = inputs + 1
<1>1. /\ queue \in Seq(Messages) /\ inputs \in Nat /\ Members(buf') = Members(buf)
  BY DEF CoreTypeOK, QueueType, CountType
<1>2. ASSUME NEW m \in Messages, Configures(m) \/ Flushes(m) \/ Requests(m)
      PROVE  /\ InHandIds' = InHandIds
             /\ WorkIds(queue') = WorkIds(queue) \cup (IF IsWork(m) THEN {m.id} ELSE {})
             /\ IsWork(m) => m.id = inputs + 1 /\ inputs' = inputs + 1
             /\ inputs <= inputs'
  <2>1. Appends(m) /\ InHandIds' = InHandIds
    BY <1>2, SameHand DEF Configures, Flushes, Requests, Appends
  <2>2. WorkIds(queue') = WorkIds(queue) \cup (IF IsWork(m) THEN {m.id} ELSE {})
    BY <1>1, <2>1, WorkIdsAppend DEF Appends
  <2>3. CASE Requests(m)
    BY <1>1, <2>1, <2>2, <2>3 DEF Requests
  <2>4. CASE Configures(m) \/ Flushes(m)
    BY <1>1, <2>1, <2>2, <2>4 DEF Configures, Flushes, IsWork
  <2> QED
    BY <1>2, <2>3, <2>4
<1>3. CASE Clears
  <2>1. WorkIds(queue') = {} /\ InHandIds' = InHandIds /\ inputs' = inputs
    BY <1>3, SameHand DEF Clears, WorkIds, IsWork
  <2> QED
    BY <1>1, <2>1 DEF InWorks
<1>4. CASE Delivers \/ Completes \/ Idle
  <2>1. UNCHANGED <<queue, inputs>> /\ InHandIds' = InHandIds
    BY <1>4, SameHand DEF Delivers, Completes, Idle
  <2> QED
    BY <1>1, <2>1 DEF InWorks
<1>5. CASE Takes
  <2>1. queue # <<>> /\ queue' = Tail(queue) /\ UNCHANGED inputs
        /\ InHandIds' = IF IsWork(Head(queue)) THEN {Head(queue).id} ELSE {}
    BY <1>5, TakesWork DEF Takes, InHandIds
  <2>2. WorkIds(queue) = InHandIds' \cup WorkIds(queue')
    BY <1>1, <2>1, WorkIdsTail
  <2> QED
    BY <1>1, <2>1, <2>2 DEF InWorks
<1> QED
  BY <1>1, <1>2, <1>3, <1>4, <1>5, FrameCases DEF InWorks

(* Without a flush() there is no flush message to handle.                  *)
LEMMA NoFlushNoMessage ==
  ASSUME CoreTypeOK, FlushInv, nextFlush = 0
  PROVE  ~HandleFlush
<1> SUFFICES ASSUME wpc \in FlushPoints PROVE FALSE
  BY DEF HandleFlush, FlushEndsAtOnce, FlushSends, FlushDrainsOne, FlushEnds, FlushPoints
<1>1. msg.type = "flush" /\ msg \in Messages
  BY InHandKinds DEF HandlerPoints, CoreTypeOK, WorkerType
<1>2. msg.id \in Nat
  BY <1>1, BoundsAssumption DEF Messages, ConfigureMessages, FlushMessages, ResetMessages,
     WorkMessages, FlushIds
<1> QED
  BY <1>1, <1>2 DEF FlushInv

LEMMA FlushesCounted ==
  ASSUME CoreTypeOK, ReleaseIsFinal, [CodecNext]_coreVars, nextFlush' = 0
  PROVE  nextFlush = 0
<1>1. nextFlush \in Nat
  BY DEF CoreTypeOK, FlushType
<1>2. CASE FrameNext \/ UNCHANGED coreVars
  BY <1>1, <1>2, FrameCases DEF Configures, Requests, Flushes, Appends, Clears, Delivers,
     Completes, Takes, Idle
<1>3. CASE HandlerStep
  BY <1>3 DEF HandlerStep, JsOwned, flushVars
<1> QED
  BY <1>2, <1>3 DEF CodecNext

(* Only OnConfigure itself opens a codec.                                  *)
LEMMA OpenStays ==
  ASSUME CoreTypeOK, ReleaseIsFinal, FrameNext \/ UNCHANGED coreVars
  PROVE  wpc' = "open" => wpc = "open"
<1>1. Stays => (wpc' = "open" => wpc = "open")
  BY DEF Stays, HandlerPoints, ConfigurePoints
<1>2. CASE Takes
  <2>1. Head(queue) \in Messages
    BY <1>2 DEF Takes, CoreTypeOK, QueueType
  <2>2. Head(queue).type \in {"configure", "flush", "reset", "decode", "encode"}
    BY <2>1 DEF Messages, ConfigureMessages, FlushMessages, ResetMessages, WorkMessages
  <2> QED
    BY <1>2, <2>2 DEF Takes
<1> QED
  BY <1>1, <1>2, FrameCases DEF Configures, Requests, Flushes, Appends, Clears, Delivers,
     Completes, Idle
=============================================================================
