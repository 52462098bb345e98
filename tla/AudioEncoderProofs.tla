------------------------- MODULE AudioEncoderProofs -------------------------
(***************************************************************************)
(* AudioEncoder implements the abstract codec of Codec, for every value of *)
(* its constants, and so has the properties proved of CodecSpec.           *)
(***************************************************************************)
EXTENDS AudioEncoder, CodecProofs

(* The variables AudioEncoder adds to those of the abstract codec.         *)
OwnType == EncoderType /\ included \subseteq Inputs

LEMMA EncoderVarsKept ==
  ASSUME TypeOK, UNCHANGED <<encoderVars, included>>
  PROVE  OwnType'
  BY DEF TypeOK, OwnType, EncoderType, HandlerType, encoderVars, handlerVars, ctxVars

-----------------------------------------------------------------------------
(* One lemma per group of actions: each is a step of the abstract codec,   *)
(* the worker's handlers HandlerSteps of it.                               *)

LEMMA ConfigureImplements ==
  ASSUME TypeOK, NEW cfg \in Config, Configure(cfg)
  PROVE  FrameNext /\ OwnType'
<1>1. CASE ConfigureThrows(cfg)
  BY <1>1 DEF ConfigureThrows, FrameNext, Configure, TypeOK, OwnType, EncoderType,
     HandlerType, ctxVars
<1>2. CASE ConfigureSupported(cfg) /\ UNCHANGED blocked
  <2>1. blocked' \in BOOLEAN
    BY <1>2 DEF TypeOK, CoreTypeOK, QueueType
  <2>2. FrameNext
    BY <1>2, <2>1 DEF ConfigureSupported, FrameNext
  <2>3. OwnType'
    BY <1>2 DEF ConfigureSupported, Configure, TypeOK, OwnType, EncoderType,
       HandlerType, ctxVars
  <2> QED
    BY <2>2, <2>3
<1> QED
  BY <1>1, <1>2 DEF Configure

LEMMA MethodsImplement ==
  ASSUME TypeOK,
         Encode \/ EncodeClosed \/ Flush \/ Reset \/ Close \/ CloseTwice \/ Release
  PROVE  FrameNext /\ OwnType'
<1> USE DEF Encode, EncodeClosed, Flush, Reset, Close, CloseTwice, Release
<1>1. FrameNext
  BY DEF FrameNext, EncodeFrame, EncodeClosedFrame
<1>2. UNCHANGED <<encoderVars, included>>
  BY DEF EncodeFrame, EncodeClosedFrame
<1> QED
  BY <1>1, <1>2, EncoderVarsKept

LEMMA OnOutputImplements ==
  ASSUME TypeOK, OnOutputChunk
  PROVE  FrameNext /\ OwnType'
<1>1. FrameNext
  BY DEF OnOutputChunk, FrameNext
<1>2. told' \in Config
  BY DEF OnOutputChunk, TypeOK, EncoderType, HandlerType
<1> QED
  BY <1>1, <1>2 DEF OnOutputChunk, TypeOK, OwnType, EncoderType, HandlerType,
     handlerVars, ctxVars

LEMMA TsfnHandlersImplement ==
  ASSUME TypeOK, OnError \/ OnFlushComplete \/ OnDequeue \/ OnCallbackReturn
  PROVE  FrameNext /\ OwnType'
<1> USE DEF OnError, OnFlushComplete, OnDequeue, OnCallbackReturn
<1>1. FrameNext
  BY DEF FrameNext
<1> QED
  BY <1>1, EncoderVarsKept

LEMMA OnConfigureImplements ==
  ASSUME TypeOK, OnConfigure
  PROVE  HandlerStep /\ OwnType'
<1>1. HandlerType /\ active \in Config /\ blocked' \in BOOLEAN
  BY DEF TypeOK, EncoderType, HandlerType, CoreTypeOK, QueueType, OnConfigure
<1>2. HandlerStep /\ HandlerType'
  BY <1>1, ConfigureRejectsStep, ConfigureAllocatesStep, ConfigureOpensStep
     DEF OnConfigure, EncoderConfigures, EncoderOpens, TypeOK
<1>3. firstOut' \in BOOLEAN /\ UNCHANGED <<encCfg, told>>
  BY DEF OnConfigure, EncoderConfigures, EncoderOpens, TypeOK, EncoderType
<1> QED
  BY <1>2, <1>3 DEF OnConfigure, OwnType, TypeOK, EncoderType

(* The history of contexts keeps its type.                                 *)
LEMMA NoteContextTyped ==
  ASSUME TypeOK, AtWork, NoteContext
  PROVE  encCfg' \in [Inputs -> Config]
<1>1. msg.id \in Inputs
  BY InHandKinds DEF TypeOK, AtWork, WorkPoints
<1> QED
  BY <1>1 DEF NoteContext, TypeOK, EncoderType, HandlerType

LEMMA OnEncodeImplements ==
  ASSUME TypeOK, OnEncode
  PROVE  HandlerStep /\ OwnType'
<1> USE DEF OnEncodeEndsEarly, OnEncodeSends, OnEncodeReceives, OnEncodeFinishes
<1>1. blocked' \in BOOLEAN /\ HandlerType
  BY DEF OnEncode, TypeOK, CoreTypeOK, QueueType, EncoderType
<1>2. HandlerStep /\ HandlerType'
  <2>1. CASE OnEncodeEndsEarly
    BY <1>1, <2>1, WorkEndsEarlyStep DEF TypeOK
  <2>2. CASE OnEncodeSends
    BY <1>1, <2>2, WorkSendsStep DEF TypeOK
  <2>3. CASE OnEncodeReceives
    BY <1>1, <2>3, ReceiveFrameStep DEF WorkReceives, TypeOK
  <2>4. CASE OnEncodeFinishes
    BY <1>1, <2>4, WorkReceivesNoMoreStep, WorkFinishesStep DEF TypeOK
  <2> QED
    BY <2>1, <2>2, <2>3, <2>4 DEF OnEncode
<1>3. encCfg' \in [Inputs -> Config]
  <2>1. (NoteContext /\ AtWork) \/ UNCHANGED encCfg
    BY DEF OnEncode, WorkSends, WorkAllocFails
  <2> QED
    BY <2>1, NoteContextTyped DEF TypeOK, EncoderType
<1>4. included' \subseteq Inputs
  <2>1. ReceiveOutput => Head(buf) \in Inputs
    BY <1>1 DEF HandlerType, ReceiveOutput
  <2> QED
    BY <2>1 DEF OnEncode, WorkReceives, ReceiveFrame, TypeOK
<1>5. firstOut' \in BOOLEAN /\ UNCHANGED told
  BY DEF OnEncode, TypeOK, EncoderType
<1> QED
  BY <1>2, <1>3, <1>4, <1>5 DEF TypeOK, OwnType, EncoderType

LEMMA OnFlushImplements ==
  ASSUME TypeOK, OnFlush
  PROVE  HandlerStep /\ OwnType'
<1>1. HandlerStep /\ HandlerType'
  BY HandleFlushStep DEF OnFlush, TypeOK, CoreTypeOK, QueueType, EncoderType
<1> QED
  BY <1>1 DEF OnFlush, OwnType, TypeOK, EncoderType

(* avcodec_flush_buffers, obeyed or ignored.                               *)
LEMMA EncoderResetsTyped ==
  ASSUME EncoderType, EncoderResets
  PROVE  EncoderType'
<1>1. UNCHANGED <<active, ctxCfg>>
  BY DEF EncoderResets, HandleReset, Untouched
<1>2. HandlerType'
  BY <1>1, FlushBuffersTyped DEF EncoderResets, FlushEncoder, EncoderType, HandlerType
<1> QED
  BY <1>2 DEF EncoderResets, EncoderType

LEMMA OnResetImplements ==
  ASSUME TypeOK, OnReset
  PROVE  HandlerStep /\ OwnType'
<1>1. HandlerStep
  BY HandleResetStep DEF OnReset, EncoderResets, TypeOK, CoreTypeOK, QueueType
<1>2. EncoderType'
  BY EncoderResetsTyped DEF OnReset, TypeOK
<1> QED
  BY <1>1, <1>2 DEF OnReset, OwnType, TypeOK

LEMMA NextImplements ==
  ASSUME TypeOK, [Next]_vars
  PROVE  [CodecNext]_coreVars /\ TypeOK'
<1>1. CASE UNCHANGED vars
  <2>1. UNCHANGED <<coreVars, encoderVars, included>>
    BY <1>1 DEF vars
  <2>2. OwnType'
    BY <2>1, EncoderVarsKept DEF TypeOK
  <2> QED
    BY <2>1, <2>2, UnchangedTyped DEF OwnType, TypeOK
<1>2. CASE WorkerLoop /\ UNCHANGED <<encoderVars, included>>
  <2>1. OwnType'
    BY <1>2, EncoderVarsKept DEF TypeOK
  <2>2. CodecNext
    BY <1>2 DEF CodecNext, FrameNext
  <2> QED
    BY <2>1, <2>2, StepTyped DEF OwnType, TypeOK
<1>3. ASSUME CodecNext /\ OwnType' PROVE [CodecNext]_coreVars /\ TypeOK'
  BY <1>3, StepTyped DEF OwnType, TypeOK
<1>4. ASSUME NEW cfg \in Config, Configure(cfg)
      PROVE  [CodecNext]_coreVars /\ TypeOK'
  BY <1>3, <1>4, ConfigureImplements DEF CodecNext
<1>6. CASE Encode \/ EncodeClosed \/ Flush \/ Reset \/ Close \/ CloseTwice \/ Release
  BY <1>3, <1>6, MethodsImplement DEF CodecNext
<1>7. CASE OnOutputChunk \/ OnError \/ OnFlushComplete \/ OnDequeue
             \/ OnCallbackReturn
  BY <1>3, <1>7, OnOutputImplements, TsfnHandlersImplement DEF CodecNext
<1>8. CASE OnConfigure \/ OnEncode \/ OnFlush \/ OnReset
  BY <1>3, <1>8, OnConfigureImplements, OnEncodeImplements, OnFlushImplements,
     OnResetImplements DEF CodecNext
<1>9. \/ UNCHANGED vars
      \/ WorkerLoop /\ UNCHANGED <<encoderVars, included>>
      \/ \E cfg \in Config : Configure(cfg)
      \/ Encode \/ EncodeClosed \/ Flush \/ Reset \/ Close \/ CloseTwice \/ Release
      \/ OnOutputChunk \/ OnError \/ OnFlushComplete \/ OnDequeue
      \/ OnCallbackReturn
      \/ OnConfigure \/ OnEncode \/ OnFlush \/ OnReset
  BY DEF Next, Worker
<1> QED
  BY <1>1, <1>2, <1>4, <1>6, <1>7, <1>8, <1>9

LEMMA InitImplements == Init => CoreInit /\ TypeOK
<1> SUFFICES ASSUME Init PROVE CoreInit /\ TypeOK
  OBVIOUS
<1>1. CoreTypeOK /\ HandlerType
  BY InitTyped, HandlerInitTyped DEF Init, EncoderInit
<1>2. NoConfig \in Config
  BY DEF NoConfig, Config
<1> QED
  BY <1>1, <1>2 DEF Init, EncoderInit, EncoderType, TypeOK

-----------------------------------------------------------------------------

(* Every variable keeps its type, and the worker at each of its program    *)
(* points holds a message of the kind handled there.                       *)
THEOREM AudioEncoderTypeCorrect == Spec => []TypeOK
  BY InitImplements, NextImplements, PTL DEF Spec

(* AudioEncoder implements the abstract codec: every method, TSFN handler  *)
(* and worker step is one of its steps, whichever FFmpeg calls fail.       *)
THEOREM AudioEncoderImplementsCodec == Spec => CodecSpec
<1>1. Spec => []TypeOK
  BY AudioEncoderTypeCorrect
<1> QED
  BY <1>1, InitImplements, NextImplements, PTL DEF Spec, CodecSpec

(* Nothing is left of the encoder once close() has returned (Release), and *)
(* nothing is posted to JavaScript any more.                               *)
THEOREM AudioEncoderReleased == Spec => []ReleaseIsFinal /\ NoPostAfterRelease
  BY AudioEncoderImplementsCodec, ReleaseFinal, ReleasePostsNothing

(* Dequeue events are coalesced and never blocked for ever.                *)
THEOREM AudioEncoderDequeues == Spec => []DequeueCoalesced
  BY AudioEncoderImplementsCodec, DequeueIsCoalesced

(* The flush promises are a PromiseTracker, and every pending one has its  *)
(* completion under way.                                                   *)
THEOREM AudioEncoderFlushes == Spec => []FlushTracked /\ FlushPromises
  BY AudioEncoderImplementsCodec, FlushNeverLost, FlushesArePromises

-----------------------------------------------------------------------------
(* close() settles every flush, which VideoEncoder's does not.             *)

(* A flush that was requested is pending until it is settled, and Release  *)
(* finds nothing pending.                                                  *)
FlushesAnswered ==
  /\ \A f \in FlushIds : f < nextFlush => f \in pending \/ settled[f] # "unset"
  /\ closing # "no" => pending = {}

LEMMA FlushesAnsweredStep ==
  ASSUME TypeOK, ReleaseIsFinal, FlushesAnswered, [Next]_vars
  PROVE  FlushesAnswered'
<1>1. /\ pending \subseteq FlushIds /\ nextFlush \in Nat
      /\ settled \in [FlushIds -> {"unset", "resolved", "rejected"}]
      /\ FlushIds \subseteq Int
  BY DEF TypeOK, CoreTypeOK, FlushType, FlushIds
<1>2. ASSUME UNCHANGED <<pending, nextFlush, settled, closing>>
      PROVE  FlushesAnswered'
  BY <1>2 DEF FlushesAnswered
<1> USE DEF flushVars, jsVars
<1>3. ASSUME NEW cfg \in Config, Configure(cfg) PROVE FlushesAnswered'
  BY <1>2, <1>3 DEF Configure, ConfigureThrows, ConfigureSupported,
     RefuseConfigure, AcceptConfigure
<1>4. CASE Encode \/ EncodeClosed
  BY <1>2, <1>4 DEF Encode, EncodeFrame, EncodeClosed, EncodeClosedFrame,
     AcceptInput, RefuseInput, coreVars
<1>5. CASE Flush
  <2>1. ~qclosed /\ closing = "no" /\ closing' = closing /\ OpenFlush
    BY <1>5 DEF Flush, RequestFlush, JsMayCall, ReleaseIsFinal
  <2> QED
    BY <1>1, <2>1 DEF OpenFlush, FlushesAnswered
<1>6. CASE Reset \/ Close
  <2>1. RejectFlushes
    BY <1>6 DEF Reset, ResetAll, Close
  <2> QED
    BY <1>1, <2>1 DEF RejectFlushes, FlushesAnswered
<1>7. CASE Release
  <2>1. closing # "no" /\ pending = {} /\ pending' = {}
        /\ UNCHANGED <<nextFlush, settled>>
    BY <1>7 DEF Release, ReleaseStep, StopWorker, FinishRelease, AbandonFlushes,
       FlushesAnswered
  <2> QED
    BY <2>1 DEF FlushesAnswered
<1>8. CASE OnFlushComplete
  <2> DEFINE c == Head(flushQ)
  <2>1. SettleFlush(c) /\ closing' = closing
    BY <1>8 DEF OnFlushComplete, DeliverFlush
  <2>2. ASSUME NEW f \in FlushIds PROVE settled[f] # "unset" => settled'[f] # "unset"
    BY <1>1, <2>1, <2>2 DEF SettleFlush
  <2>3. c.id \in pending => settled'[c.id] # "unset"
    BY <1>1, <2>1 DEF SettleFlush
  <2>4. pending' = pending \ {c.id} /\ nextFlush' = nextFlush
    BY <2>1 DEF SettleFlush
  <2> QED
    BY <2>1, <2>2, <2>3, <2>4 DEF FlushesAnswered
<1>9. CASE OnOutputChunk \/ OnError \/ OnDequeue \/ OnCallbackReturn
  BY <1>2, <1>9 DEF OnOutputChunk, OnError, OnDequeue, OnCallbackReturn,
     DeliverOutput, DeliverError, DeliverDequeue, CallbackReturn, ErrorReturns,
     DequeueReturns
<1>10. CASE Worker
  <2>1. WorkerLoop \/ HandlerStep
    BY <1>10, OnConfigureImplements, OnEncodeImplements, OnFlushImplements,
       OnResetImplements DEF Worker
  <2> QED
    BY <1>2, <2>1 DEF WorkerLoop, HandlerStep, JsOwned
<1>11. CASE CloseTwice \/ UNCHANGED vars
  BY <1>2, <1>11 DEF CloseTwice, CloseAgain, vars, coreVars
<1> QED
  BY <1>3, <1>4, <1>5, <1>6, <1>7, <1>8, <1>9, <1>10, <1>11 DEF Next

(* Once close() has returned every flush promise is settled (Close rejects *)
(* the pending ones before Release, audio_encoder.cpp).                    *)
THEOREM AudioEncoderCloseSettles == Spec => []CloseSettlesFlushes
<1>1. Init => FlushesAnswered
  BY DEF Init, EncoderInit, CoreInit, FlushesAnswered
<1>2. Spec => [](TypeOK /\ ReleaseIsFinal)
  BY AudioEncoderTypeCorrect, AudioEncoderReleased, PTL
<1>3. TypeOK /\ ReleaseIsFinal /\ FlushesAnswered => CloseSettlesFlushes
  BY DEF ReleaseIsFinal, FlushesAnswered, CloseSettlesFlushes
<1> QED
  BY <1>1, <1>2, <1>3, FlushesAnsweredStep, PTL DEF Spec
-----------------------------------------------------------------------------
(* The order of outputs and flushes: the encoder is a PipelineSpec.  Its   *)
(* reset messages need not empty the FFmpeg codec (FlushEncoder).          *)

LEMMA HandlersPipeline ==
  ASSUME TypeOK, OnConfigure \/ OnEncode \/ OnFlush \/ OnReset
  PROVE  HandlerNext
<1>1. CASE OnConfigure
  <2>1. active \in Config
    BY DEF TypeOK, EncoderType, HandlerType
  <2> QED
    BY <1>1, <2>1 DEF OnConfigure, EncoderConfigures, EncoderOpens, HandlerNext
<1>2. CASE OnEncode
  BY <1>2 DEF OnEncode, OnEncodeEndsEarly, OnEncodeSends, OnEncodeReceives,
     OnEncodeFinishes, EndsEarly, HandlerNext
<1>3. CASE OnFlush
  BY <1>3 DEF OnFlush, HandlerNext
<1>4. CASE OnReset
  BY <1>4 DEF OnReset, EncoderResets, FlushEncoder, HandlerNext
<1> QED
  BY <1>1, <1>2, <1>3, <1>4

LEMMA JsStepsPipeline ==
  ASSUME TypeOK,
         \/ \E cfg \in Config : Configure(cfg)
         \/ Encode \/ EncodeClosed
         \/ Flush \/ Reset \/ Close \/ CloseTwice \/ Release
         \/ OnOutputChunk \/ OnError \/ OnFlushComplete \/ OnDequeue
         \/ OnCallbackReturn
  PROVE  FrameNext /\ UNCHANGED ctxVars
<1>1. FrameNext
  BY ConfigureImplements, MethodsImplement, OnOutputImplements,
     TsfnHandlersImplement
<1>2. UNCHANGED ctxVars
  BY DEF Configure, ConfigureThrows, ConfigureSupported, Encode, EncodeFrame,
     EncodeClosed, EncodeClosedFrame, Flush, Reset, Close, CloseTwice, Release,
     OnOutputChunk, OnError, OnFlushComplete, OnDequeue, OnCallbackReturn,
     encoderVars, handlerVars
<1> QED
  BY <1>1, <1>2

LEMMA NextPipeline ==
  ASSUME TypeOK, [Next]_vars
  PROVE  [PipelineNext]_pipelineVars
<1>1. CASE UNCHANGED vars
  BY <1>1 DEF vars, pipelineVars, encoderVars, handlerVars
<1>2. CASE WorkerLoop /\ UNCHANGED <<encoderVars, included>>
  BY <1>2 DEF PipelineNext, FrameNext, encoderVars, handlerVars
<1>3. CASE \/ \E cfg \in Config : Configure(cfg)
           \/ Encode \/ EncodeClosed
           \/ Flush \/ Reset \/ Close \/ CloseTwice \/ Release
           \/ OnOutputChunk \/ OnError \/ OnFlushComplete \/ OnDequeue
           \/ OnCallbackReturn
  BY <1>3, JsStepsPipeline DEF PipelineNext
<1>4. CASE OnConfigure \/ OnEncode \/ OnFlush \/ OnReset
  <2>1. HandlerStep
    BY <1>4, OnConfigureImplements, OnEncodeImplements, OnFlushImplements,
       OnResetImplements
  <2> QED
    BY <1>4, <2>1, HandlersPipeline DEF PipelineNext
<1> QED
  BY <1>1, <1>2, <1>3, <1>4 DEF Next, Worker

LEMMA AudioEncoderPipeline == Spec => PipelineSpec
<1>1. Init => CoreInit /\ ctx = "none" /\ buf = <<>> /\ TypeOK
  BY InitImplements DEF Init, EncoderInit, HandlerInit
<1> QED
  BY <1>1, AudioEncoderTypeCorrect, NextPipeline, PTL DEF Spec, PipelineSpec

(* Outputs come in the order of the encode() calls and no flush passes a   *)
(* request, whatever reset(), configure() and close() do in between.       *)
THEOREM AudioEncoderOrder == Spec => []PipelineInOrder
  BY AudioEncoderPipeline, PipelineOrder

(* OnEncode calls signal_dequeue_on_exit on all of its paths.              *)
LEMMA NextCounts ==
  ASSUME TypeOK, ReleaseIsFinal, [Next]_vars
  PROVE  [CountsFirst]_pipelineVars
<1>1. CASE UNCHANGED vars
  BY <1>1, FrameCounts DEF vars, TypeOK
<1>2. CASE WorkerLoop
  BY <1>2, FrameCounts DEF TypeOK, FrameNext
<1>3. CASE \/ \E cfg \in Config : Configure(cfg)
           \/ Encode \/ EncodeClosed
           \/ Flush \/ Reset \/ Close \/ CloseTwice \/ Release
           \/ OnOutputChunk \/ OnError \/ OnFlushComplete \/ OnDequeue
           \/ OnCallbackReturn
  BY <1>3, JsStepsPipeline, FrameCounts DEF TypeOK
<1>4. CASE OnEncode
  BY <1>4 DEF OnEncode, OnEncodeEndsEarly, OnEncodeSends, OnEncodeReceives,
     OnEncodeFinishes, WorkSends, WorkReceives, ReceiveFrame,
     WorkReceivesNoMore, WorkCounts, WorkSignals, workerVars, Goto,
     CountsFirst, WorkPoints
<1>5. CASE OnConfigure \/ OnFlush \/ OnReset
  <2>1. wpc \in ConfigurePoints \cup FlushPoints \cup {"reset"}
    BY <1>5 DEF OnConfigure, EncoderConfigures, EncoderOpens, ConfigureRejects,
       ConfigureAllocates, ConfigureOpens, OnFlush, HandleFlush, FlushEndsAtOnce,
       FlushSends, FlushDrainsOne, FlushEnds, OnReset, EncoderResets, HandleReset,
       ConfigurePoints, FlushPoints
  <2> QED
    BY <2>1 DEF CountsFirst, ConfigurePoints, FlushPoints, WorkPoints
<1> QED
  BY <1>1, <1>2, <1>3, <1>4, <1>5 DEF Next, Worker

(* The queue size is the number of frames not yet processed, whatever      *)
(* fails, until the codec is closed, but for what reset() takes from       *)
(* under a worker at work.                                                 *)
THEOREM AudioEncoderSizes == Spec => []QueueSizeAlwaysExact
<1>1. Spec => AlwaysCounts
  BY AudioEncoderTypeCorrect, AudioEncoderReleased, NextCounts, PTL
     DEF Spec, AlwaysCounts
<1> QED
  BY <1>1, AudioEncoderPipeline, PipelineAlwaysSizes

(* No frame is lost on the way from encode() to JavaScript, and the send   *)
(* never answers EAGAIN, with one configure, no reset and no error, if     *)
(* a packet can be cloned.                                                 *)
THEOREM AudioEncoderConserves ==
  ASSUME "clone" \notin Faults
  PROVE  Spec => []WorkConserved
  BY AudioEncoderPipeline, PipelineConserves
-----------------------------------------------------------------------------
(* What JavaScript knows, with one configure() and no flush().             *)

(* Before the first configure() there is nothing to encode with.           *)
NoConfigureYet ==
  configures = 0 =>
    /\ msg.type # "configure"
    /\ \A i \in DOMAIN queue : queue[i].type # "configure"
    /\ ctx = "none" /\ outQ = <<>> /\ lastOut = 0

(* The first one is then the only config there ever was: OnConfigure, the  *)
(* encoder and whatever came out of it agree with active_config_.          *)
OnlyConfig ==
  configures <= 1 =>
    /\ ctx # "none" => ctxCfg = active
    /\ wpc = "open" => ctxCfg.codec = active.codec /\ ctx = "none"
    /\ \A n \in Members(buf) \cup Members(outQ) : encCfg[n] = active
    /\ lastOut # 0 => encCfg[lastOut] = active

(* The output delivered first takes the decoder config with it: the one at *)
(* the head of the TSFN, or if there is none the next one to be received.  *)
FirstCarries ==
  state # "closed" /\ lastOut = 0 =>
    IF outQ = <<>> THEN firstOut ELSE Head(outQ) \in included

KnowsOnly ==
  configures <= 1 /\ nextFlush = 0 =>
    /\ lastOut # 0 => told = active
    /\ FirstCarries

(* The steps of the JS thread and of WorkerLoop: only configure() changes  *)
(* active_config_, and only the delivery of an output the history told.    *)
OutsideHandlers ==
  /\ FrameNext \/ UNCHANGED coreVars
  /\ UNCHANGED <<ctxVars, firstOut, encCfg, included>>
  /\ UNCHANGED active \/ configures' = configures + 1
  /\ UNCHANGED <<outQ, lastOut, told>> \/ OnOutputChunk

LEMMA NextOutside ==
  ASSUME TypeOK, [Next]_vars
  PROVE  \/ OutsideHandlers
         \/ OnConfigure \/ OnEncode \/ OnFlush \/ OnReset
<1> USE DEF OutsideHandlers, encoderVars, handlerVars, tsfnVars
<1>1. CASE UNCHANGED vars
  BY <1>1 DEF vars, coreVars
<1>2. CASE WorkerLoop /\ UNCHANGED <<encoderVars, included>>
  BY <1>2 DEF FrameNext, WorkerLoop, JsOwned
<1>3. CASE \E cfg \in Config : Configure(cfg)
  BY <1>3, JsStepsPipeline DEF Configure, ConfigureThrows, ConfigureSupported,
     RefuseConfigure, AcceptConfigure
<1>4. CASE Encode \/ EncodeClosed
  BY <1>4, JsStepsPipeline DEF Encode, EncodeFrame, EncodeClosed, EncodeClosedFrame,
     AcceptInput, RefuseInput, coreVars
<1>5. CASE Flush \/ Reset \/ Close \/ CloseTwice \/ Release
  BY <1>5, JsStepsPipeline DEF Flush, RequestFlush, Reset, ResetAll, Close, BeginRelease,
     CloseTwice, CloseAgain, Release, ReleaseStep, StopWorker, FinishRelease, coreVars
<1>6. CASE OnError \/ OnFlushComplete \/ OnDequeue \/ OnCallbackReturn
  BY <1>6, JsStepsPipeline DEF OnError, DeliverError, OnFlushComplete, DeliverFlush,
     OnDequeue, DeliverDequeue, OnCallbackReturn, CallbackReturn, ErrorReturns,
     DequeueReturns
<1>7. CASE OnOutputChunk
  BY <1>7, JsStepsPipeline DEF OnOutputChunk
<1> QED
  BY <1>1, <1>2, <1>3, <1>4, <1>5, <1>6, <1>7 DEF Next, Worker

LEMMA NoConfigureYetStep ==
  ASSUME TypeOK, ReleaseIsFinal, NoContextEmpty, NoConfigureYet, [Next]_vars
  PROVE  NoConfigureYet'
<1> SUFFICES ASSUME configures' = 0
             PROVE  /\ msg'.type # "configure"
                    /\ \A i \in DOMAIN queue' : queue'[i].type # "configure"
                    /\ ctx' = "none" /\ outQ' = <<>> /\ lastOut' = 0
  BY DEF NoConfigureYet
<1>1. configures \in Nat /\ queue \in Seq(Messages)
  BY DEF TypeOK, CoreTypeOK, CountType, QueueType
<1>2. NoMessage.type # "configure"
  BY DEF NoMessage
<1>3. CASE OutsideHandlers
  <2>1. configures = 0
    BY <1>1, <1>3, FrameCases DEF OutsideHandlers, TypeOK, Configures, Requests, Flushes,
       Appends, Clears, Delivers, Completes, Takes, Idle
  <2>2. ctx' = "none" /\ outQ' = <<>> /\ lastOut' = 0
    BY <1>3, <2>1 DEF OutsideHandlers, NoConfigureYet, ctxVars, OnOutputChunk, DeliverOutput
  <2>3. ASSUME NEW m \in Messages, m.type # "configure", queue' = Append(queue, m)
        PROVE  \A i \in DOMAIN queue' : queue'[i].type # "configure"
    BY <1>1, <2>1, <2>3 DEF NoConfigureYet
  <2>4. CASE \E m \in Messages : Configures(m) \/ Requests(m) \/ Flushes(m)
    BY <1>1, <2>1, <2>2, <2>3, <2>4 DEF Configures, Requests, Flushes, Appends, IsWork,
       NoConfigureYet
  <2>5. CASE Takes
    <3>1. /\ queue # <<>> /\ queue' = Tail(queue) /\ msg' = Head(queue)
          /\ 1 \in DOMAIN queue /\ Head(queue) = queue[1]
          /\ \A i \in DOMAIN queue' : i + 1 \in DOMAIN queue /\ queue'[i] = queue[i + 1]
      BY <1>1, <2>5 DEF Takes
    <3> QED
      BY <2>1, <2>2, <3>1 DEF NoConfigureYet
  <2>6. CASE Clears
    BY <2>1, <2>2, <2>6 DEF Clears, NoConfigureYet
  <2>7. CASE Delivers \/ Completes \/ Idle
    BY <2>1, <2>2, <2>7 DEF Delivers, Completes, Idle, NoConfigureYet
  <2> QED
    BY <1>3, <2>4, <2>5, <2>6, <2>7, FrameCases DEF OutsideHandlers, TypeOK
<1>4. CASE OnConfigure \/ OnEncode \/ OnFlush \/ OnReset
  <2>1. HandlerStep /\ HandlerNext /\ PipelineStep
    BY <1>4, OnConfigureImplements, OnEncodeImplements, OnFlushImplements,
       OnResetImplements, HandlersPipeline, HandlerPipeline DEF TypeOK
  <2>2. configures = 0 /\ UNCHANGED <<queue, lastOut>> /\ msg' \in {msg, NoMessage}
    BY <2>1 DEF HandlerStep, JsOwned, countVars, HandlerStays, HandlerReturns, workerVars
  <2>3. ctx = "none" /\ buf = <<>> /\ outQ = <<>> /\ msg.type # "configure"
    BY <2>2 DEF NoConfigureYet, NoContextEmpty
  <2>4. outQ' = <<>>
    BY <2>1, <2>3 DEF PipelineStep
  <2>5. ~OnConfigure
    BY <2>3, InHandKinds DEF TypeOK, OnConfigure, EncoderConfigures, EncoderOpens,
       ConfigureRejects, ConfigureAllocates, ConfigureOpens, ConfigurePoints
  <2>6. ctx' = "none"
    BY <1>4, <2>3, <2>5 DEF OnEncode, OnEncodeEndsEarly, OnEncodeSends, OnEncodeReceives,
       OnEncodeFinishes, WorkSkips, WorkSendFails, WorkAllocFails, WorkReceiveFails,
       WorkSends, WorkReceives, ReceiveFrame, WorkReceivesNoMore, WorkCounts, WorkSignals,
       OnFlush, HandleFlush, FlushEndsAtOnce, FlushSends, FlushDrainsOne, FlushEnds,
       SendTakes, SendRefuses, SendAfterEnd, OnReset, EncoderResets, HandleReset,
       FlushEncoder, FlushBuffers, ctxVars
  <2> QED
    BY <1>2, <2>2, <2>3, <2>4, <2>6 DEF NoConfigureYet
<1> QED
  BY <1>3, <1>4, NextOutside
(* What was noted of the context of a frame stays, once it was sent.       *)
LEMMA HistoryKept ==
  ASSUME TypeOK, OrderInv, OutsideHandlers \/ OnConfigure \/ OnEncode \/ OnFlush \/ OnReset,
         NEW n \in Inputs, n \in {lastOut} \cup Members(outQ) \cup Members(buf)
  PROVE  encCfg'[n] = encCfg[n]
<1>1. CASE UNCHANGED encCfg
  BY <1>1
<1>2. CASE AtWork /\ NoteContext
  <2>1. n < msg.id
    BY <1>2 DEF OrderInv, InLine, Precede, InHandIds
  <2>2. n # msg.id
    BY <2>1 DEF Inputs
  <2> QED
    BY <1>2, <2>2 DEF NoteContext, TypeOK, EncoderType
<1>3. UNCHANGED encCfg \/ (AtWork /\ NoteContext)
  BY DEF OutsideHandlers, OnConfigure, EncoderConfigures, EncoderOpens, OnEncode,
     OnEncodeEndsEarly, OnEncodeSends, OnEncodeReceives, OnEncodeFinishes,
     WorkAllocFails, WorkSends, OnFlush, OnReset, EncoderResets
<1> QED
  BY <1>1, <1>2, <1>3

LEMMA OnlyConfigOutside ==
  ASSUME TypeOK, ReleaseIsFinal, PipelineInv, NoConfigureYet, OnlyConfig, OutsideHandlers
  PROVE  OnlyConfig'
<1> SUFFICES ASSUME configures' <= 1
             PROVE  /\ ctx # "none" => ctxCfg = active'
                    /\ wpc' = "open" => ctxCfg.codec = active'.codec /\ ctx = "none"
                    /\ \A n \in Members(buf) \cup Members(outQ') : encCfg[n] = active'
                    /\ lastOut' # 0 => encCfg[lastOut'] = active'
  BY DEF OnlyConfig, OutsideHandlers, ctxVars
<1>1. configures \in Nat /\ outQ \in Seq(Inputs)
  BY DEF TypeOK, CoreTypeOK, CountType, TsfnType
<1>2. CASE configures' = configures + 1
  <2>1. configures = 0
    BY <1>1, <1>2
  <2>2. buf = <<>> /\ Members(<<>>) = {}
    BY <2>1 DEF NoConfigureYet, PipelineInv, NoContextEmpty, Members
  <2>3. UNCHANGED <<outQ, lastOut>>
    BY <2>1 DEF OutsideHandlers, NoConfigureYet, OnOutputChunk, DeliverOutput
  <2>4. wpc # "open"
    BY <2>1, InHandKinds DEF NoConfigureYet, TypeOK, ConfigurePoints
  <2> QED
    BY <2>1, <2>2, <2>3, <2>4, OpenStays DEF TypeOK, OutsideHandlers, NoConfigureYet
<1>3. CASE UNCHANGED active
  <2>1. configures <= 1
    BY <1>1, FrameCases DEF OutsideHandlers, TypeOK, Configures, Requests, Flushes,
       Appends, Clears, Delivers, Completes, Takes, Idle
  <2>2. \/ UNCHANGED <<outQ, lastOut>>
        \/ outQ # <<>> /\ outQ' = Tail(outQ) /\ lastOut' \in {lastOut, Head(outQ)}
    BY DEF OutsideHandlers, OnOutputChunk, DeliverOutput
  <2>3. /\ Members(outQ') \subseteq Members(outQ)
        /\ lastOut' = lastOut \/ lastOut' \in Members(outQ)
    BY <1>1, <2>2, MembersOfTail
  <2> QED
    BY <1>3, <2>1, <2>3, OpenStays DEF TypeOK, OutsideHandlers, OnlyConfig
<1> QED
  BY <1>2, <1>3 DEF OutsideHandlers

LEMMA OnlyConfigHandled ==
  ASSUME TypeOK, PipelineInv, OnlyConfig,
         OnConfigure \/ OnEncode \/ OnFlush \/ OnReset
  PROVE  OnlyConfig'
<1>1. HandlerStep /\ HandlerNext /\ PipelineStep
  BY OnConfigureImplements, OnEncodeImplements, OnFlushImplements, OnResetImplements,
     HandlersPipeline, HandlerPipeline DEF TypeOK, PipelineInv
<1>2. UNCHANGED <<configures, lastOut, active>>
  <2>1. UNCHANGED active
    BY DEF OnConfigure, EncoderConfigures, EncoderOpens, ConfigureRejects,
       ConfigureAllocates, ConfigureOpens, OnEncode, OnEncodeEndsEarly, OnEncodeSends,
       OnEncodeReceives, OnEncodeFinishes, WorkSkips, WorkSendFails, WorkAllocFails,
       WorkReceiveFails, WorkSends, WorkReceives, ReceiveFrame, WorkReceivesNoMore,
       WorkCounts, WorkSignals, OnFlush, HandleFlush, FlushEndsAtOnce, FlushSends,
       FlushDrainsOne, FlushEnds, OnReset, EncoderResets, HandleReset, Untouched
  <2> QED
    BY <1>1, <2>1 DEF HandlerStep, JsOwned, countVars
<1> SUFFICES ASSUME configures <= 1
             PROVE  /\ ctx' # "none" => ctxCfg' = active
                    /\ wpc' = "open" => ctxCfg'.codec = active.codec /\ ctx' = "none"
                    /\ \A n \in Members(buf') \cup Members(outQ') : encCfg'[n] = active
                    /\ lastOut # 0 => encCfg'[lastOut] = active
  BY <1>2 DEF OnlyConfig
<1>3. /\ buf \in Seq(Inputs) /\ outQ \in Seq(Inputs) /\ lastOut \in Nat
      /\ lastOut # 0 => lastOut \in Inputs
      /\ ctxCfg \in Config /\ active \in Config /\ encCfg \in [Inputs -> Config]
  BY BoundsAssumption DEF TypeOK, CoreTypeOK, CountType, TsfnType, EncoderType, HandlerType,
     Inputs
<1>4. /\ \A n \in Members(buf) \cup Members(outQ) : encCfg'[n] = active
      /\ lastOut # 0 => encCfg'[lastOut] = active
  <2>1. \A n \in Members(buf) \cup Members(outQ) : n \in Inputs
    BY <1>3 DEF Members
  <2> QED
    BY <1>3, <2>1, HistoryKept DEF PipelineInv, OnlyConfig
<1>5. \A n \in Members(buf') \cup Members(outQ') : encCfg'[n] = active
  <2>1. CASE UNCHANGED outQ /\ (UNCHANGED buf \/ buf' = <<>>)
    <3>1. Members(<<>>) = {}
      BY DEF Members
    <3> QED
      BY <1>4, <2>1, <3>1
  <2>2. CASE buf # <<>> /\ buf' = Tail(buf) /\ (UNCHANGED outQ \/ OutputFrame(Head(buf)))
    <3>1. Members(buf) = {Head(buf)} \cup Members(buf')
      BY <1>3, <2>2, MembersOfTail
    <3>2. Members(outQ') \subseteq Members(outQ) \cup {Head(buf)}
      BY <1>3, <2>2, MembersOfAppend DEF OutputFrame, Post
    <3> QED
      BY <1>4, <3>1, <3>2
  <2>3. CASE AtWork /\ UNCHANGED outQ /\ buf' = Append(buf, msg.id)
    <3>1. Members(buf') = Members(buf) \cup {msg.id}
      BY <1>3, <2>3, MembersOfAppend
    <3>2. msg.id \in Inputs
      BY <2>3, InHandKinds DEF TypeOK, AtWork, WorkPoints
    <3>3. CASE NoteContext /\ SendTakes
      BY <1>3, <1>4, <2>3, <3>1, <3>2, <3>3 DEF NoteContext, SendTakes, OnlyConfig
    <3>4. CASE buf' = buf \/ buf' = <<>>
      <4>1. Members(<<>>) = {}
        BY DEF Members
      <4> QED
        BY <1>4, <2>3, <3>4, <4>1
    <3>5. (NoteContext /\ SendTakes) \/ buf' = buf \/ buf' = <<>>
      <4>1. OnEncode
        BY <2>3 DEF AtWork, OnConfigure, EncoderConfigures, EncoderOpens, ConfigureRejects,
           ConfigureAllocates, ConfigureOpens, OnFlush, HandleFlush, FlushEndsAtOnce,
           FlushSends, FlushDrainsOne, FlushEnds, OnReset, EncoderResets, HandleReset
      <4>2. \/ NoteContext /\ SendInput
            \/ UNCHANGED buf
        BY <2>3, <4>1 DEF AtWork, OnEncode, OnEncodeEndsEarly, OnEncodeSends,
           OnEncodeReceives, OnEncodeFinishes, WorkSkips, WorkSendFails, WorkAllocFails,
           WorkReceiveFails, WorkSends, WorkReceives, WorkReceivesNoMore,
           WorkCounts, WorkSignals, ctxVars
      <4> QED
        BY <4>2 DEF SendInput
    <3> QED
      BY <3>3, <3>4, <3>5
  <2> QED
    BY <1>1, <2>1, <2>2, <2>3 DEF PipelineStep
<1>6. /\ ctx' # "none" => ctxCfg' = active
      /\ wpc' = "open" => ctxCfg'.codec = active.codec /\ ctx' = "none"
  <2>1. CASE OnConfigure
    <3>1. CASE ConfigureRejects(active)
      BY <3>1 DEF ConfigureRejects, Return, ctxVars, OnlyConfig
    <3>2. CASE ConfigureAllocates(active)
      BY <3>2 DEF ConfigureAllocates, Return, Goto, OnlyConfig
    <3>3. CASE ConfigureOpens(active)
      <4>1. wpc = "open" /\ wpc' = "top" /\ ctxCfg.codec = active.codec
        BY <3>3 DEF ConfigureOpens, Return, OnlyConfig
      <4>2. ctxCfg' = [codec |-> ctxCfg.codec, desc |-> active.desc]
        BY <1>3, <3>3 DEF Config, ConfigureOpens
      <4>3. active = [codec |-> active.codec, desc |-> active.desc]
        BY <1>3 DEF Config
      <4> QED
        BY <4>1, <4>2, <4>3
    <3> QED
      BY <2>1, <3>1, <3>2, <3>3 DEF OnConfigure, EncoderConfigures, EncoderOpens
  <2>2. CASE OnEncode
    <3>1. UNCHANGED <<ctx, ctxCfg>>
      BY <2>2 DEF OnEncode, OnEncodeEndsEarly, OnEncodeSends, OnEncodeReceives,
         OnEncodeFinishes, WorkSkips, WorkSendFails, WorkAllocFails, WorkReceiveFails,
         WorkSends, WorkReceives, ReceiveFrame, WorkReceivesNoMore, WorkCounts,
         WorkSignals, ctxVars
    <3>2. wpc' # "open"
      BY <2>2 DEF OnEncode, OnEncodeEndsEarly, OnEncodeSends, OnEncodeReceives,
         OnEncodeFinishes, WorkSends, WorkReceives, ReceiveFrame, WorkReceivesNoMore,
         WorkCounts, WorkSignals, Return, Goto, workerVars
    <3> QED
      BY <3>1, <3>2 DEF OnlyConfig
  <2>3. CASE OnFlush
    <3>1. UNCHANGED ctxCfg /\ (ctx' # "none" => ctx # "none")
      BY <2>3 DEF OnFlush, HandleFlush, FlushEndsAtOnce, FlushSends, FlushDrainsOne,
         FlushEnds, SendTakes, SendRefuses, SendAfterEnd, ReceiveFrame, ctxVars
    <3>2. wpc' # "open"
      BY <2>3 DEF OnFlush, HandleFlush, FlushEndsAtOnce, FlushSends, FlushDrainsOne,
         FlushEnds, ReceiveFrame, Return, Goto, workerVars
    <3> QED
      BY <3>1, <3>2 DEF OnlyConfig
  <2>4. CASE OnReset
    BY <2>4 DEF OnReset, EncoderResets, HandleReset, FlushEncoder, FlushBuffers, Return,
       OnlyConfig
  <2> QED
    BY <2>1, <2>2, <2>3, <2>4
<1> QED
  BY <1>4, <1>5, <1>6

LEMMA OnlyConfigInvariant == Spec => [](NoConfigureYet /\ OnlyConfig)
<1>1. ASSUME Init PROVE NoConfigureYet /\ OnlyConfig
  <2>1. /\ wpc = "off" /\ ctx = "none" /\ buf = <<>> /\ outQ = <<>> /\ lastOut = 0
        /\ queue = <<>> /\ msg.type # "configure"
    BY <1>1 DEF Init, EncoderInit, HandlerInit, CoreInit, WorkerInit, QueueInit, NoMessage
  <2>2. Members(buf) = {} /\ Members(outQ) = {}
    BY <2>1 DEF Members
  <2> QED
    BY <2>1, <2>2 DEF NoConfigureYet, OnlyConfig
<1>2. TypeOK /\ ReleaseIsFinal /\ PipelineInv /\ NoConfigureYet /\ OnlyConfig /\ [Next]_vars
        => NoConfigureYet' /\ OnlyConfig'
  BY NextOutside, NoConfigureYetStep, OnlyConfigOutside, OnlyConfigHandled DEF PipelineInv
<1> QED
  BY <1>1, <1>2, AudioEncoderTypeCorrect, AudioEncoderReleased, AudioEncoderPipeline,
     PipelineInvariant, PTL DEF Spec
LEMMA KnowsOnlyOutside ==
  ASSUME TypeOK, ReleaseIsFinal, NoConfigureYet, KnowsOnly, OutsideHandlers
  PROVE  KnowsOnly'
<1> SUFFICES ASSUME configures' <= 1, nextFlush' = 0
             PROVE  (lastOut' # 0 => told' = active') /\ FirstCarries'
  BY DEF KnowsOnly
<1>1. configures \in Nat /\ outQ \in Seq(Inputs)
  BY DEF TypeOK, CoreTypeOK, CountType, TsfnType
<1>2. [CodecNext]_coreVars
  BY DEF OutsideHandlers, CodecNext
<1>3. /\ nextFlush = 0 /\ configures <= 1
      /\ state' # "closed" => state # "closed"
  <2>1. configures' = configures \/ configures' = configures + 1
    BY FrameCases DEF OutsideHandlers, TypeOK, Configures, Requests, Flushes, Appends,
       Clears, Delivers, Completes, Takes, Idle
  <2> QED
    BY <1>1, <1>2, <2>1, FlushesCounted, ClosedStays DEF TypeOK
<1>4. (lastOut # 0 => told = active) /\ FirstCarries
  BY <1>3 DEF KnowsOnly
<1>5. UNCHANGED <<firstOut, included>>
  BY DEF OutsideHandlers
<1>6. CASE UNCHANGED <<outQ, lastOut, told>>
  <2>1. lastOut # 0 => UNCHANGED active
    BY <1>1 DEF OutsideHandlers, NoConfigureYet
  <2> QED
    BY <1>3, <1>4, <1>5, <1>6, <2>1 DEF FirstCarries
<1>7. CASE OnOutputChunk
  <2>1. /\ outQ # <<>> /\ UNCHANGED <<active, state>>
        /\ lastOut' = IF state = "closed" THEN lastOut ELSE Head(outQ)
        /\ told' = IF state # "closed" /\ Head(outQ) \in included THEN active ELSE told
    BY <1>7 DEF OnOutputChunk, DeliverOutput, handlerVars, jsVars
  <2>2. Head(outQ) # 0
    <3>1. Head(outQ) \in Inputs
      BY <1>1, <2>1
    <3> QED
      BY <3>1 DEF Inputs
  <2> QED
    BY <1>4, <2>1, <2>2 DEF FirstCarries
<1> QED
  BY <1>6, <1>7 DEF OutsideHandlers

LEMMA KnowsOnlyHandled ==
  ASSUME TypeOK, PipelineInv, KnowsOnly,
         OnConfigure \/ OnEncode \/ OnFlush \/ OnReset, "clone" \notin Faults
  PROVE  KnowsOnly'
<1>1. HandlerStep
  BY OnConfigureImplements, OnEncodeImplements, OnFlushImplements, OnResetImplements
<1>2. UNCHANGED <<configures, nextFlush, lastOut, state>>
  BY <1>1 DEF HandlerStep, JsOwned, jsVars, countVars, flushVars
<1> SUFFICES ASSUME configures <= 1, nextFlush = 0
             PROVE  (lastOut # 0 => told' = active') /\ FirstCarries'
  BY <1>2 DEF KnowsOnly
<1>3. (lastOut # 0 => told = active) /\ FirstCarries /\ outQ \in Seq(Inputs)
  BY DEF KnowsOnly, TypeOK, CoreTypeOK, TsfnType
<1>4. ~OnFlush
  BY NoFlushNoMessage DEF OnFlush, PipelineInv, TypeOK
<1>5. CASE OnConfigure
  <2>1. UNCHANGED <<active, told, outQ, included>> /\ (firstOut => firstOut')
    BY <1>5 DEF OnConfigure, EncoderConfigures, EncoderOpens, ConfigureRejects,
       ConfigureAllocates, ConfigureOpens, Untouched, TypeOK, EncoderType
  <2> QED
    BY <1>2, <1>3, <2>1 DEF FirstCarries
<1>6. CASE OnReset
  <2>1. UNCHANGED <<active, told, outQ, included>> /\ firstOut'
    BY <1>6 DEF OnReset, EncoderResets, HandleReset, Untouched, tsfnVars
  <2> QED
    BY <1>2, <1>3, <2>1 DEF FirstCarries
<1>7. CASE OnEncodeReceives
  <2>0. lastOut # 0 => UNCHANGED <<active, told>>
    BY <1>7 DEF OnEncodeReceives, WorkReceives, ReceiveFrame, Untouched
  <2> SUFFICES ASSUME state # "closed"
               PROVE  FirstCarries'
    BY <1>2, <1>3, <2>0 DEF FirstCarries
  <2>1. /\ UNCHANGED <<active, told>> /\ outQ' = Append(outQ, Head(buf))
        /\ included' = IF firstOut THEN included \cup {Head(buf)} ELSE included
    BY <1>1, <1>7 DEF OnEncodeReceives, WorkReceives, ReceiveFrame, OutputFrame, Post,
       Untouched, HandlerStep, JsOwned
  <2>2. outQ' # <<>> /\ Head(outQ') = IF outQ = <<>> THEN Head(buf) ELSE Head(outQ)
    BY <1>3, <2>1
  <2> QED
    BY <1>2, <1>3, <2>1, <2>2 DEF FirstCarries
<1>8. CASE OnEncode /\ ~OnEncodeReceives
  <2>1. UNCHANGED <<active, told, outQ, included, firstOut>>
    BY <1>8 DEF OnEncode, OnEncodeEndsEarly, OnEncodeSends, OnEncodeFinishes, WorkSkips,
       WorkSendFails, WorkAllocFails, WorkReceiveFails, WorkSends, WorkReceivesNoMore,
       WorkCounts, WorkSignals, Untouched, tsfnVars
  <2> QED
    BY <1>2, <1>3, <2>1 DEF FirstCarries
<1> QED
  BY <1>4, <1>5, <1>6, <1>7, <1>8

(* With one configure() and no flush(), and if a packet can be cloned,     *)
(* JavaScript knows how to decode what it received last, although          *)
(* OnOutputChunk reads active_config_ no earlier than on delivery.         *)
THEOREM AudioEncoderKnows ==
  ASSUME "clone" \notin Faults
  PROVE  Spec => []KnowsOnlyDecoderConfig
<1>1. Init => KnowsOnly
  BY DEF Init, EncoderInit, CoreInit, KnowsOnly, FirstCarries
<1>2. TypeOK /\ ReleaseIsFinal /\ PipelineInv /\ NoConfigureYet /\ KnowsOnly /\ [Next]_vars
        => KnowsOnly'
  BY NextOutside, KnowsOnlyOutside, KnowsOnlyHandled
<1>3. TypeOK /\ OnlyConfig /\ KnowsOnly => KnowsOnlyDecoderConfig
  BY DEF OnlyConfig, KnowsOnly, KnowsOnlyDecoderConfig, KnowsDecoderConfig
<1> QED
  BY <1>1, <1>2, <1>3, OnlyConfigInvariant, AudioEncoderTypeCorrect, AudioEncoderReleased,
     AudioEncoderPipeline, PipelineInvariant, PTL DEF Spec
=============================================================================
