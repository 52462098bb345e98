------------------------- MODULE VideoEncoderProofs -------------------------
(***************************************************************************)
(* VideoEncoder implements the abstract codec of Codec, for every value of *)
(* its constants, and so has the properties proved of CodecSpec.           *)
(***************************************************************************)
EXTENDS VideoEncoder, CodecProofs

(* The variables VideoEncoder adds to those of the abstract codec.         *)
OwnType ==
  /\ EncoderType
  /\ orientation \in {"none", "upright"}
  /\ saturated \in BOOLEAN
  /\ received \in BOOLEAN
  /\ started \in BOOLEAN
  /\ copies \in Config
  /\ meta \in [Inputs -> Config]

(* All of them but `orientation` and those of the FFmpeg codec.            *)
WorkerOwned == <<firstOut, encCfg, told, saturation, packetVars>>

LEMMA EncoderVarsKept ==
  ASSUME TypeOK, UNCHANGED <<handlerVars, WorkerOwned>>,
         orientation' \in {"none", "upright"}
  PROVE  OwnType'
  BY DEF TypeOK, OwnType, EncoderType, HandlerType, handlerVars, ctxVars,
     WorkerOwned, saturation, packetVars

-----------------------------------------------------------------------------
(* One lemma per group of actions: each is a step of the abstract codec,   *)
(* the worker's handlers HandlerSteps of it.                               *)

LEMMA ConfigureImplements ==
  ASSUME TypeOK, NEW cfg \in Config, Configure(cfg)
  PROVE  FrameNext /\ OwnType'
<1>1. CASE ConfigureThrows(cfg) /\ UNCHANGED orientation
  BY <1>1 DEF ConfigureThrows, FrameNext, Configure, TypeOK, OwnType, EncoderType,
     HandlerType, ctxVars, saturation, packetVars
<1>2. CASE ConfigureSupported(cfg) /\ SetBlocked(~qclosed) /\ orientation' = "none"
  <2>1. blocked' \in BOOLEAN
    BY <1>2 DEF SetBlocked, TypeOK, CoreTypeOK, QueueType
  <2>2. FrameNext
    BY <1>2, <2>1 DEF ConfigureSupported, FrameNext
  <2>3. OwnType'
    BY <1>2 DEF ConfigureSupported, Configure, TypeOK, OwnType, EncoderType,
       HandlerType, ctxVars, saturation, packetVars
  <2> QED
    BY <2>2, <2>3
<1> QED
  BY <1>1, <1>2 DEF Configure

LEMMA EncodeImplements ==
  ASSUME TypeOK, NEW key \in BOOLEAN, Encode(key) \/ EncodeClosed
  PROVE  FrameNext /\ OwnType'
<1>1. FrameNext
  BY DEF Encode, EncodeFrame, EncodeClosed, EncodeClosedFrame, FrameNext
<1>2. UNCHANGED <<handlerVars, WorkerOwned>> /\ orientation' \in {"none", "upright"}
  BY DEF Encode, EncodeFrame, EncodeClosed, EncodeClosedFrame, encoderVars,
     WorkerOwned, TypeOK
<1> QED
  BY <1>1, <1>2, EncoderVarsKept

LEMMA MethodsImplement ==
  ASSUME TypeOK, Flush \/ Reset \/ Close \/ CloseTwice \/ Release
  PROVE  FrameNext /\ OwnType'
<1> USE DEF Flush, Reset, Close, CloseTwice, Release
<1>1. FrameNext
  BY DEF FrameNext, ReleaseStep
<1>2. UNCHANGED <<handlerVars, WorkerOwned>> /\ orientation' \in {"none", "upright"}
  BY DEF encoderVars, WorkerOwned, TypeOK
<1> QED
  BY <1>1, <1>2, EncoderVarsKept

LEMMA OnOutputImplements ==
  ASSUME TypeOK, OnOutputChunk
  PROVE  FrameNext /\ OwnType'
<1>1. FrameNext
  BY DEF OnOutputChunk, FrameNext
<1>2. outQ # <<>> /\ outQ \in Seq(Inputs)
  BY DEF OnOutputChunk, DeliverOutput, TypeOK, CoreTypeOK, TsfnType
<1>3. Head(outQ) \in Inputs
  BY <1>2
<1>4. told' \in Config
  BY <1>3 DEF OnOutputChunk, TypeOK, EncoderType
<1> QED
  BY <1>1, <1>4 DEF OnOutputChunk, TypeOK, OwnType, EncoderType, HandlerType,
     handlerVars, ctxVars, saturation, packetVars

LEMMA TsfnHandlersImplement ==
  ASSUME TypeOK, OnError \/ OnFlushComplete \/ OnDequeue \/ OnCallbackReturn
  PROVE  FrameNext /\ OwnType'
<1> USE DEF OnError, OnFlushComplete, OnDequeue, OnCallbackReturn
<1>1. FrameNext
  BY DEF FrameNext
<1>2. UNCHANGED <<handlerVars, WorkerOwned>> /\ orientation' \in {"none", "upright"}
  BY DEF encoderVars, WorkerOwned, TypeOK
<1> QED
  BY <1>1, <1>2, EncoderVarsKept

LEMMA OnConfigureImplements ==
  ASSUME TypeOK, OnConfigure
  PROVE  HandlerStep /\ OwnType'
<1>1. HandlerType /\ active \in Config /\ blocked' \in BOOLEAN
  BY DEF TypeOK, EncoderType, HandlerType, CoreTypeOK, QueueType, OnConfigure
<1>2. HandlerStep /\ HandlerType'
  BY <1>1, ConfigureRejectsStep, ConfigureAllocatesStep, ConfigureOpensStep
     DEF OnConfigure, EncoderConfigures, EncoderOpens, TypeOK
<1>3. firstOut' \in BOOLEAN /\ UNCHANGED <<encCfg, told>>
  BY DEF OnConfigure, EncoderConfigures, EncoderOpens, TypeOK, EncoderType
<1>4. copies' \in Config /\ started' \in BOOLEAN
  BY DEF OnConfigure, TypeOK, EncoderType, HandlerType, Config
<1> QED
  BY <1>2, <1>3, <1>4 DEF OnConfigure, OwnType, TypeOK, EncoderType, saturation

(* The history of contexts keeps its type.                                 *)
LEMMA NoteContextTyped ==
  ASSUME TypeOK, AtWork, NoteContext
  PROVE  encCfg' \in [Inputs -> Config]
<1>1. msg.id \in Inputs
  BY InHandKinds DEF TypeOK, AtWork, WorkPoints
<1> QED
  BY <1>1 DEF NoteContext, TypeOK, EncoderType, HandlerType

LEMMA OnEncodeImplements ==
  ASSUME TypeOK, OnEncode
  PROVE  HandlerStep /\ OwnType'
<1> USE DEF OnEncodeEndsEarly, OnEncodeSends, OnEncodeReceives,
            OnEncodeReceivesNoMore, OnEncodeFinishes
<1>1. blocked' \in BOOLEAN /\ HandlerType
  BY DEF OnEncode, TypeOK, CoreTypeOK, QueueType, EncoderType
<1>2. HandlerStep /\ HandlerType'
  <2>1. CASE OnEncodeEndsEarly
    BY <1>1, <2>1, WorkEndsEarlyStep DEF TypeOK
  <2>2. CASE OnEncodeSends
    BY <1>1, <2>2, WorkSendsStep DEF TypeOK
  <2>3. CASE OnEncodeReceives
    BY <1>1, <2>3, ReceiveFrameStep DEF WorkReceives, TypeOK
  <2>4. CASE OnEncodeReceivesNoMore
    BY <1>1, <2>4, WorkReceivesNoMoreStep DEF TypeOK
  <2>5. CASE OnEncodeFinishes
    BY <1>1, <2>5, WorkFinishesStep DEF TypeOK
  <2> QED
    BY <2>1, <2>2, <2>3, <2>4, <2>5 DEF OnEncode
<1>3. saturated' \in BOOLEAN /\ received' \in BOOLEAN
  BY DEF OnEncode, TypeOK, saturation, SendRefuses, CodecFull
<1>4. encCfg' \in [Inputs -> Config]
  <2>1. (NoteContext /\ AtWork) \/ UNCHANGED encCfg
    BY DEF OnEncode, WorkSends, WorkAllocFails
  <2> QED
    BY <2>1, NoteContextTyped DEF TypeOK, EncoderType
<1>5. firstOut' \in BOOLEAN /\ started' \in BOOLEAN /\ meta' \in [Inputs -> Config]
      /\ UNCHANGED <<told, copies, orientation>>
  BY DEF OnEncode, TypeOK, EncoderType, packetVars
<1> QED
  BY <1>2, <1>3, <1>4, <1>5 DEF TypeOK, OwnType, EncoderType

LEMMA OnFlushImplements ==
  ASSUME TypeOK, OnFlush
  PROVE  HandlerStep /\ OwnType'
<1>1. HandlerStep /\ HandlerType'
  BY HandleFlushStep DEF OnFlush, TypeOK, CoreTypeOK, QueueType, EncoderType
<1> QED
  BY <1>1 DEF OnFlush, OwnType, TypeOK, EncoderType, saturation

(* avcodec_flush_buffers, obeyed or ignored.                               *)
LEMMA EncoderResetsTyped ==
  ASSUME EncoderType, EncoderResets
  PROVE  EncoderType'
<1>1. UNCHANGED <<active, ctxCfg>>
  BY DEF EncoderResets, HandleReset, Untouched
<1>2. HandlerType'
  BY <1>1, FlushBuffersTyped DEF EncoderResets, FlushEncoder, EncoderType, HandlerType
<1> QED
  BY <1>2 DEF EncoderResets, EncoderType

LEMMA OnResetImplements ==
  ASSUME TypeOK, OnReset
  PROVE  HandlerStep /\ OwnType'
<1>1. HandlerStep
  BY HandleResetStep DEF OnReset, EncoderResets, TypeOK, CoreTypeOK, QueueType
<1>2. EncoderType'
  BY EncoderResetsTyped DEF OnReset, TypeOK
<1> QED
  BY <1>1, <1>2 DEF OnReset, OwnType, TypeOK, saturation, packetVars

LEMMA NextImplements ==
  ASSUME TypeOK, [Next]_vars
  PROVE  [CodecNext]_coreVars /\ TypeOK'
<1>1. CASE UNCHANGED vars
  <2>1. UNCHANGED <<coreVars, handlerVars, WorkerOwned, orientation>>
    BY <1>1 DEF vars, encoderVars, WorkerOwned
  <2>2. OwnType'
    BY <2>1, EncoderVarsKept DEF TypeOK
  <2> QED
    BY <2>1, <2>2, UnchangedTyped DEF OwnType, TypeOK
<1>2. CASE WorkerLoop /\ UNCHANGED <<encoderVars, orientation, saturation, packetVars>>
  <2>1. OwnType'
    BY <1>2, EncoderVarsKept DEF TypeOK, encoderVars, WorkerOwned
  <2>2. CodecNext
    BY <1>2 DEF CodecNext, FrameNext
  <2> QED
    BY <2>1, <2>2, StepTyped DEF OwnType, TypeOK
<1>3. ASSUME CodecNext /\ OwnType' PROVE [CodecNext]_coreVars /\ TypeOK'
  BY <1>3, StepTyped DEF OwnType, TypeOK
<1>4. ASSUME NEW cfg \in Config, Configure(cfg)
      PROVE  [CodecNext]_coreVars /\ TypeOK'
  BY <1>3, <1>4, ConfigureImplements DEF CodecNext
<1>5. ASSUME NEW key \in BOOLEAN, Encode(key) \/ EncodeClosed
      PROVE  [CodecNext]_coreVars /\ TypeOK'
  BY <1>3, <1>5, EncodeImplements DEF CodecNext
<1>6. CASE Flush \/ Reset \/ Close \/ CloseTwice \/ Release
  BY <1>3, <1>6, MethodsImplement DEF CodecNext
<1>7. CASE OnOutputChunk \/ OnError \/ OnFlushComplete \/ OnDequeue
             \/ OnCallbackReturn
  BY <1>3, <1>7, OnOutputImplements, TsfnHandlersImplement DEF CodecNext
<1>8. CASE OnConfigure \/ OnEncode \/ OnFlush \/ OnReset
  BY <1>3, <1>8, OnConfigureImplements, OnEncodeImplements, OnFlushImplements,
     OnResetImplements DEF CodecNext
<1>9. \/ UNCHANGED vars
      \/ WorkerLoop /\ UNCHANGED <<encoderVars, orientation, saturation, packetVars>>
      \/ \E cfg \in Config : Configure(cfg)
      \/ \E key \in BOOLEAN : Encode(key)
      \/ EncodeClosed
      \/ Flush \/ Reset \/ Close \/ CloseTwice \/ Release
      \/ OnOutputChunk \/ OnError \/ OnFlushComplete \/ OnDequeue
      \/ OnCallbackReturn
      \/ OnConfigure \/ OnEncode \/ OnFlush \/ OnReset
  BY DEF Next, Worker
<1> QED
  BY <1>1, <1>2, <1>4, <1>5, <1>6, <1>7, <1>8, <1>9

LEMMA InitImplements == Init => CoreInit /\ TypeOK
<1> SUFFICES ASSUME Init PROVE CoreInit /\ TypeOK
  OBVIOUS
<1>1. CoreTypeOK /\ HandlerType
  BY InitTyped, HandlerInitTyped DEF Init, EncoderInit
<1>2. NoConfig \in Config
  BY DEF NoConfig, Config
<1> QED
  BY <1>1, <1>2 DEF Init, EncoderInit, EncoderType, TypeOK

-----------------------------------------------------------------------------

(* Every variable keeps its type, and the worker at each of its program    *)
(* points holds a message of the kind handled there.                       *)
THEOREM VideoEncoderTypeCorrect == Spec => []TypeOK
  BY InitImplements, NextImplements, PTL DEF Spec

(* VideoEncoder implements the abstract codec: every method, TSFN handler  *)
(* and worker step is one of its steps, whichever FFmpeg calls fail.       *)
THEOREM VideoEncoderImplementsCodec == Spec => CodecSpec
<1>1. Spec => []TypeOK
  BY VideoEncoderTypeCorrect
<1> QED
  BY <1>1, InitImplements, NextImplements, PTL DEF Spec, CodecSpec

(* Nothing is left of the encoder once close() has returned (Release), and *)
(* nothing is posted to JavaScript any more.                               *)
THEOREM VideoEncoderReleased == Spec => []ReleaseIsFinal /\ NoPostAfterRelease
  BY VideoEncoderImplementsCodec, ReleaseFinal, ReleasePostsNothing

(* Dequeue events are coalesced and never blocked for ever.                *)
THEOREM VideoEncoderDequeues == Spec => []DequeueCoalesced
  BY VideoEncoderImplementsCodec, DequeueIsCoalesced

(* The flush promises are a PromiseTracker, and every pending one has its  *)
(* completion under way.                                                   *)
THEOREM VideoEncoderFlushes == Spec => []FlushTracked /\ FlushPromises
  BY VideoEncoderImplementsCodec, FlushNeverLost, FlushesArePromises
-----------------------------------------------------------------------------
(* The order of outputs and flushes: the encoder is a PipelineSpec.  Its   *)
(* reset messages need not empty the FFmpeg codec (FlushEncoder).          *)

LEMMA HandlersPipeline ==
  ASSUME TypeOK, OnConfigure \/ OnEncode \/ OnFlush \/ OnReset
  PROVE  HandlerNext
<1>1. CASE OnConfigure
  <2>1. active \in Config
    BY DEF TypeOK, EncoderType, HandlerType
  <2> QED
    BY <1>1, <2>1 DEF OnConfigure, EncoderConfigures, EncoderOpens, HandlerNext
<1>2. CASE OnEncode
  BY <1>2 DEF OnEncode, OnEncodeEndsEarly, OnEncodeSends, OnEncodeReceives,
     OnEncodeReceivesNoMore, OnEncodeFinishes, EndsEarly, HandlerNext
<1>3. CASE OnFlush
  BY <1>3 DEF OnFlush, HandlerNext
<1>4. CASE OnReset
  BY <1>4 DEF OnReset, EncoderResets, FlushEncoder, HandlerNext
<1> QED
  BY <1>1, <1>2, <1>3, <1>4

LEMMA JsStepsPipeline ==
  ASSUME TypeOK,
         \/ \E cfg \in Config : Configure(cfg)
         \/ \E key \in BOOLEAN : Encode(key) \/ EncodeClosed
         \/ Flush \/ Reset \/ Close \/ CloseTwice \/ Release
         \/ OnOutputChunk \/ OnError \/ OnFlushComplete \/ OnDequeue
         \/ OnCallbackReturn
  PROVE  FrameNext /\ UNCHANGED ctxVars
<1>1. FrameNext
  BY ConfigureImplements, EncodeImplements, MethodsImplement,
     OnOutputImplements, TsfnHandlersImplement
<1>2. UNCHANGED ctxVars
  BY DEF Configure, ConfigureThrows, ConfigureSupported, Encode, EncodeFrame,
     EncodeClosed, EncodeClosedFrame, Flush, Reset, Close, CloseTwice, Release,
     OnOutputChunk, OnError, OnFlushComplete, OnDequeue, OnCallbackReturn,
     encoderVars, handlerVars
<1> QED
  BY <1>1, <1>2

LEMMA NextPipeline ==
  ASSUME TypeOK, [Next]_vars
  PROVE  [PipelineNext]_pipelineVars
<1>1. CASE UNCHANGED vars
  BY <1>1 DEF vars, pipelineVars, encoderVars, handlerVars
<1>2. CASE WorkerLoop /\ UNCHANGED <<encoderVars, orientation, saturation, packetVars>>
  BY <1>2 DEF PipelineNext, FrameNext, encoderVars, handlerVars
<1>3. CASE \/ \E cfg \in Config : Configure(cfg)
           \/ \E key \in BOOLEAN : Encode(key) \/ EncodeClosed
           \/ Flush \/ Reset \/ Close \/ CloseTwice \/ Release
           \/ OnOutputChunk \/ OnError \/ OnFlushComplete \/ OnDequeue
           \/ OnCallbackReturn
  BY <1>3, JsStepsPipeline DEF PipelineNext
<1>4. CASE OnConfigure \/ OnEncode \/ OnFlush \/ OnReset
  <2>1. HandlerStep
    BY <1>4, OnConfigureImplements, OnEncodeImplements, OnFlushImplements,
       OnResetImplements
  <2> QED
    BY <1>4, <2>1, HandlersPipeline DEF PipelineNext
<1> QED
  BY <1>1, <1>2, <1>3, <1>4 DEF Next, Worker

LEMMA VideoEncoderPipeline == Spec => PipelineSpec
<1>1. Init => CoreInit /\ ctx = "none" /\ buf = <<>> /\ TypeOK
  BY InitImplements DEF Init, EncoderInit, HandlerInit
<1> QED
  BY <1>1, VideoEncoderTypeCorrect, NextPipeline, PTL DEF Spec, PipelineSpec

(* Outputs come in the order of the encode() calls and no flush passes a   *)
(* request, whatever reset(), configure() and close() do in between.       *)
THEOREM VideoEncoderOrder == Spec => []PipelineInOrder
  BY VideoEncoderPipeline, PipelineOrder

(* The queue size is the number of frames not yet processed, as long as    *)
(* no error is on its way to JavaScript, but for what reset() takes from   *)
(* under a worker at work.                                                 *)
THEOREM VideoEncoderSizes == Spec => []QueueSizeExact
  BY VideoEncoderPipeline, PipelineSizes

(* No frame is lost on the way from encode() to JavaScript, and the send   *)
(* never answers EAGAIN, with one configure, no reset and no error, if     *)
(* a packet can be cloned.                                                 *)
THEOREM VideoEncoderConserves ==
  ASSUME "clone" \notin Faults
  PROVE  Spec => []WorkConserved
  BY VideoEncoderPipeline, PipelineConserves

-----------------------------------------------------------------------------
(* What JavaScript is told of the outputs.                                 *)

(* An encoder that is set up is one of a supported codec, with the worker's*)
(* own copies of its config; one that is being set up replaces nothing.    *)
SetUp ==
  /\ wpc = "open" => ctx = "none"
  /\ wpc = "open" \/ ctx # "none" => ctxCfg.codec \in SupportedCodecs
  /\ ctx # "none" => ctxCfg = copies

(* What is in the FFmpeg encoder was sent to it; what has not come out of  *)
(* it has no decoder config yet; and what is on its way has its own.       *)
PacketInv ==
  /\ \A n \in Members(buf) : encCfg[n] = ctxCfg
  /\ \A n \in Inputs : n \in InWorks \/ n > inputs => meta[n] = NoConfig
  /\ \A n \in Members(outQ) : meta[n] # NoConfig => meta[n] = encCfg[n]

(* The steps of the JS thread and of WorkerLoop.                           *)
OutsideHandlers ==
  (FrameNext \/ UNCHANGED coreVars)
    /\ UNCHANGED <<ctxVars, firstOut, encCfg, packetVars>>

LEMMA NextOutside ==
  ASSUME TypeOK, [Next]_vars
  PROVE  \/ OutsideHandlers
         \/ OnConfigure \/ OnEncode \/ OnFlush \/ OnReset
<1>1. CASE UNCHANGED vars
  BY <1>1 DEF vars, OutsideHandlers, encoderVars, handlerVars, packetVars
<1>2. CASE WorkerLoop /\ UNCHANGED <<encoderVars, orientation, saturation, packetVars>>
  BY <1>2 DEF OutsideHandlers, FrameNext, encoderVars, handlerVars, packetVars
<1>3. CASE \/ \E cfg \in Config : Configure(cfg)
           \/ \E key \in BOOLEAN : Encode(key) \/ EncodeClosed
           \/ Flush \/ Reset \/ Close \/ CloseTwice \/ Release
           \/ OnOutputChunk \/ OnError \/ OnFlushComplete \/ OnDequeue
           \/ OnCallbackReturn
  <2>1. FrameNext /\ UNCHANGED ctxVars
    BY <1>3, JsStepsPipeline
  <2>2. UNCHANGED <<firstOut, encCfg, packetVars>>
    BY <1>3 DEF Configure, ConfigureThrows, ConfigureSupported, Encode, EncodeFrame,
       EncodeClosed, EncodeClosedFrame, Flush, Reset, Close, CloseTwice, Release,
       OnOutputChunk, OnError, OnFlushComplete, OnDequeue, OnCallbackReturn, encoderVars
  <2> QED
    BY <2>1, <2>2 DEF OutsideHandlers
<1> QED
  BY <1>1, <1>2, <1>3 DEF Next, Worker

LEMMA SetUpOutside ==
  ASSUME TypeOK, ReleaseIsFinal, SetUp, OutsideHandlers
  PROVE  SetUp'
  BY OpenStays DEF TypeOK, SetUp, OutsideHandlers, ctxVars, packetVars

LEMMA SetUpConfigures ==
  ASSUME TypeOK, NoContextEmpty, SetUp, OnConfigure
  PROVE  SetUp' /\ (ctxCfg' # ctxCfg => buf' = <<>>)
<1>1. ctxCfg \in Config /\ active \in Config
  BY DEF TypeOK, EncoderType, HandlerType
<1>2. CASE ConfigureRejects(active)
  BY <1>2 DEF ConfigureRejects, Return, OnConfigure, SetUp, ctxVars
<1>3. CASE ConfigureAllocates(active)
  BY <1>3 DEF ConfigureAllocates, Return, Goto, SetUp
<1>4. CASE ConfigureOpens(active)
  <2>1. /\ wpc = "open" /\ wpc' = "top" /\ ctx = "none" /\ ctxCfg.codec \in SupportedCodecs
        /\ buf' = <<>> /\ (ctx' # "none" => ctx' = "open")
    BY <1>4 DEF ConfigureOpens, Return, SetUp, NoContextEmpty
  <2>2. ctxCfg' = [codec |-> ctxCfg.codec, desc |-> active.desc]
    BY <1>1, <1>4 DEF Config, ConfigureOpens
  <2>3. ctx' = "open" => copies' = ctxCfg'
    BY <2>1, <2>2 DEF OnConfigure
  <2>4. ctxCfg'.codec \in SupportedCodecs
    BY <2>1, <2>2
  <2> QED
    BY <2>1, <2>3, <2>4 DEF SetUp
<1> QED
  BY <1>2, <1>3, <1>4 DEF OnConfigure, EncoderConfigures, EncoderOpens

LEMMA SetUpHandles ==
  ASSUME TypeOK, SetUp, OnEncode \/ OnFlush \/ OnReset
  PROVE  SetUp' /\ UNCHANGED ctxCfg /\ (ctx' # "none" => ctx # "none")
<1>1. CASE OnEncode
  <2>1. UNCHANGED <<ctx, ctxCfg, copies>>
    BY <1>1 DEF OnEncode, OnEncodeEndsEarly, OnEncodeSends, OnEncodeReceives,
       OnEncodeReceivesNoMore, OnEncodeFinishes, WorkSkips, WorkSendFails, WorkAllocFails,
       WorkReceiveFails, WorkSends, WorkReceives, ReceiveFrame, WorkReceivesNoMore,
       WorkCounts, WorkSignals, ctxVars, packetVars
  <2>2. wpc' # "open"
    BY <1>1 DEF OnEncode, OnEncodeEndsEarly, OnEncodeSends, OnEncodeReceives,
       OnEncodeReceivesNoMore, OnEncodeFinishes, WorkSends, WorkReceives, ReceiveFrame,
       WorkReceivesNoMore, WorkCounts, WorkSignals, Return, Goto, workerVars
  <2> QED
    BY <2>1, <2>2 DEF SetUp
<1>2. CASE OnFlush
  <2>1. UNCHANGED <<ctxCfg, copies>> /\ (ctx' # "none" => ctx # "none")
    BY <1>2 DEF OnFlush, HandleFlush, FlushEndsAtOnce, FlushSends, FlushDrainsOne, FlushEnds,
       SendTakes, SendRefuses, SendAfterEnd, ReceiveFrame, ctxVars
  <2>2. wpc' # "open"
    BY <1>2 DEF OnFlush, HandleFlush, FlushEndsAtOnce, FlushSends, FlushDrainsOne, FlushEnds,
       ReceiveFrame, Return, Goto, workerVars
  <2> QED
    BY <2>1, <2>2 DEF SetUp
<1>3. CASE OnReset
  BY <1>3 DEF OnReset, EncoderResets, HandleReset, FlushEncoder, FlushBuffers, Return,
     packetVars, SetUp
<1> QED
  BY <1>1, <1>2, <1>3

(* What was noted of the context of a request stays, once it was sent.     *)
LEMMA HistoryKept ==
  ASSUME TypeOK, OrderInv, OutsideHandlers \/ OnConfigure \/ OnEncode \/ OnFlush \/ OnReset,
         NEW n \in Inputs, n \in {lastOut} \cup Members(outQ) \cup Members(buf)
  PROVE  encCfg'[n] = encCfg[n]
<1>1. CASE UNCHANGED encCfg
  BY <1>1
<1>2. CASE AtWork /\ NoteContext
  <2>1. n < msg.id
    BY <1>2 DEF OrderInv, InLine, Precede, InHandIds
  <2>2. n # msg.id
    BY <2>1 DEF Inputs
  <2> QED
    BY <1>2, <2>2 DEF NoteContext, TypeOK, EncoderType
<1>3. UNCHANGED encCfg \/ (AtWork /\ NoteContext)
  BY DEF OutsideHandlers, OnConfigure, EncoderConfigures, EncoderOpens, OnEncode,
     OnEncodeEndsEarly, OnEncodeSends, OnEncodeReceives, OnEncodeReceivesNoMore,
     OnEncodeFinishes, WorkAllocFails, WorkSends, OnFlush, OnReset, EncoderResets
<1> QED
  BY <1>1, <1>2, <1>3

(* The request sent is noted with the config of the encoder.               *)
LEMMA SendNoted ==
  ASSUME TypeOK, OrderInv, PacketInv, AtWork, SendInput, NoteContext, UNCHANGED ctxCfg
  PROVE  \A n \in Members(buf') : encCfg'[n] = ctxCfg'
<1>1. msg.id \in Inputs /\ buf \in Seq(Inputs) /\ encCfg \in [Inputs -> Config]
  BY InHandKinds DEF TypeOK, AtWork, WorkPoints, OrderInv, EncoderType
<1>2. \A n \in Members(buf) : n \in Inputs /\ encCfg[n] = ctxCfg
  BY <1>1 DEF Members, PacketInv
<1>3. CASE SendTakes /\ buf' = Append(buf, msg.id)
  BY <1>1, <1>2, <1>3, MembersOfAppend DEF NoteContext
<1>4. CASE SendRefuses /\ UNCHANGED buf
  BY <1>2, <1>4 DEF SendTakes, SendRefuses, NoteContext
<1> QED
  BY <1>3, <1>4 DEF SendInput

(* A step that lets nothing new into the works and the TSFN, and notes     *)
(* nothing of what is there.                                               *)
LEMMA PacketKept ==
  ASSUME PacketInv, UNCHANGED meta,
         \A n \in Members(outQ') : n \in Members(outQ) /\ encCfg'[n] = encCfg[n],
         \A n \in Inputs : n \in InWorks' \/ n > inputs' => n \in InWorks \/ n > inputs,
         \A n \in Members(buf') : encCfg'[n] = ctxCfg'
  PROVE  PacketInv'
  BY DEF PacketInv

LEMMA PacketOutside ==
  ASSUME TypeOK, ReleaseIsFinal, OrderInv, PacketInv, OutsideHandlers
  PROVE  PacketInv'
<1>1. /\ UNCHANGED <<meta, encCfg, buf, ctxCfg>> /\ inputs \in Nat
      /\ outQ \in Seq(Inputs)
  BY DEF OutsideHandlers, packetVars, ctxVars, TypeOK, CoreTypeOK, CountType, TsfnType
<1>2. Members(outQ') \subseteq Members(outQ)
  <2>1. outQ' = outQ \/ (outQ # <<>> /\ outQ' = Tail(outQ))
    BY FrameCases DEF TypeOK, OutsideHandlers, Configures, Requests, Flushes, Appends,
       Clears, Delivers, Completes, Takes, Idle
  <2> QED
    BY <1>1, <2>1, MembersOfTail
<1>3. ASSUME NEW n \in Inputs, n \in InWorks' \/ n > inputs'
      PROVE  n \in InWorks \/ n > inputs
  <2>1. /\ inputs <= inputs'
        /\ \A k \in InWorks' : k \in InWorks \/ k = inputs + 1
    BY <1>1, NewestWork DEF TypeOK, OutsideHandlers
  <2>2. inputs' \in Nat /\ n \in Nat
    BY <1>1, FrameCases DEF TypeOK, OutsideHandlers, Configures, Requests, Flushes, Appends,
       Clears, Delivers, Completes, Takes, Idle, Inputs
  <2> QED
    BY <1>1, <1>3, <2>1, <2>2
<1> QED
  BY <1>1, <1>2, <1>3, PacketKept DEF PacketInv

LEMMA PacketHandled ==
  ASSUME TypeOK, PipelineInv, SetUp, PacketInv,
         OnConfigure \/ OnEncode \/ OnFlush \/ OnReset
  PROVE  PacketInv'
<1> USE DEF PipelineInv
<1>1. HandlerStep /\ PipelineStep
  BY OnConfigureImplements, OnEncodeImplements, OnFlushImplements, OnResetImplements,
     HandlersPipeline, HandlerPipeline DEF TypeOK
<1>2. /\ buf \in Seq(Inputs) /\ outQ \in Seq(Inputs) /\ UNCHANGED inputs
      /\ InWorks' \subseteq InWorks
  BY <1>1, InWorksShrinks DEF OrderInv, TypeOK, CoreTypeOK, TsfnType, HandlerStep, JsOwned,
     countVars
<1>3. \A n \in Members(buf) \cup Members(outQ) : n \in Inputs /\ encCfg'[n] = encCfg[n]
  <2>1. \A n \in Members(buf) \cup Members(outQ) : n \in Inputs
    BY <1>2 DEF Members
  <2> QED
    BY <2>1, HistoryKept
<1>4. ASSUME UNCHANGED <<meta, outQ>>, \A n \in Members(buf') : encCfg'[n] = ctxCfg'
      PROVE  PacketInv'
  BY <1>2, <1>3, <1>4, PacketKept
<1>5. ASSUME UNCHANGED ctxCfg, Members(buf') \subseteq Members(buf)
      PROVE  \A n \in Members(buf') : encCfg'[n] = ctxCfg'
  BY <1>3, <1>5 DEF PacketInv
<1>6. CASE OnConfigure
  <2>1. UNCHANGED <<meta, outQ, encCfg>> /\ (UNCHANGED buf \/ buf' = <<>>)
    BY <1>6 DEF OnConfigure, EncoderConfigures, EncoderOpens, ConfigureRejects,
       ConfigureAllocates, ConfigureOpens, ctxVars
  <2>2. ctxCfg' # ctxCfg => buf' = <<>>
    BY <1>6, SetUpConfigures
  <2>3. buf' = <<>> => Members(buf') = {}
    BY DEF Members
  <2> QED
    BY <1>4, <1>5, <2>1, <2>2, <2>3
<1>7. CASE OnReset
  <2>1. UNCHANGED <<meta, outQ, ctxCfg>> /\ (UNCHANGED buf \/ buf' = <<>>)
    BY <1>7 DEF OnReset, EncoderResets, HandleReset, FlushEncoder, FlushBuffers, packetVars,
       tsfnVars
  <2>2. buf' = <<>> => Members(buf') = {}
    BY DEF Members
  <2> QED
    BY <1>4, <1>5, <2>1, <2>2
<1>8. ASSUME ReceiveFrame, wpc \in {"receive", "drain"}, UNCHANGED encCfg,
             \/ UNCHANGED meta
             \/ meta' = [meta EXCEPT ![Head(buf)] = copies]
      PROVE  PacketInv'
  <2> DEFINE h == Head(buf)
  <2>1. /\ buf # <<>> /\ buf' = Tail(buf) /\ UNCHANGED <<ctx, ctxCfg, queue>>
        /\ UNCHANGED outQ \/ outQ' = Append(outQ, h)
    BY <1>8 DEF ReceiveFrame, ReceiveOutput, OutputFrame, Post, Untouched
  <2>2. /\ Members(buf) = {h} \cup Members(buf') /\ Precede({h}, Members(buf'))
        /\ h \in Inputs
    BY <1>2, <2>1, MembersOfTail, IncreasingTail DEF OrderInv
  <2>3. Members(outQ') \subseteq Members(outQ) \cup {h}
    BY <1>2, <2>1, MembersOfAppend
  <2>4. ctxCfg = copies /\ encCfg[h] = ctxCfg
    BY <2>1, <2>2 DEF SetUp, NoContextEmpty, PacketInv
  <2>5. InHandIds' = {} /\ h <= inputs /\ inputs \in Nat
    BY <1>1, <2>2 DEF PipelineStep, InHandIds, OrderInv, InLine, TypeOK, CoreTypeOK, CountType
  <2>6. \A n \in InWorks' : n # h
    <3>1. \A n \in Members(buf') \cup WorkIds(queue) : h < n
      BY <2>2 DEF OrderInv, InLine, Precede
    <3>2. h \in Int
      BY <2>2 DEF Inputs
    <3> QED
      BY <2>1, <2>5, <3>1, <3>2 DEF InWorks
  <2>7. meta \in [Inputs -> Config]
    BY DEF TypeOK
  <2> HIDE DEF h
  <2>8. \A n \in Inputs : n \in InWorks' \/ n > inputs' => meta'[n] = NoConfig
    <3> SUFFICES ASSUME NEW n \in Inputs, n \in InWorks' \/ n > inputs'
                 PROVE  meta'[n] = NoConfig
      OBVIOUS
    <3>1. n # h
      BY <1>2, <2>2, <2>5, <2>6 DEF Inputs
    <3>2. meta[n] = NoConfig
      BY <1>2 DEF PacketInv
    <3> QED
      BY <1>8, <2>7, <3>1, <3>2 DEF h
  <2>9. \A n \in Members(outQ') : meta'[n] # NoConfig => meta'[n] = encCfg'[n]
    <3> SUFFICES ASSUME NEW n \in Members(outQ'), meta'[n] # NoConfig
                 PROVE  meta'[n] = encCfg[n]
      BY <1>8
    <3>1. CASE n = h
      <4>1. meta[h] = NoConfig
        BY <2>2 DEF PacketInv, InWorks
      <4> QED
        BY <1>8, <2>2, <2>4, <2>7, <3>1, <4>1 DEF h
    <3>2. CASE n # h
      <4>1. n \in Members(outQ) /\ n \in Inputs
        BY <1>3, <2>3, <3>2
      <4>2. meta'[n] = meta[n]
        BY <1>8, <2>7, <3>2, <4>1 DEF h
      <4> QED
        BY <4>1, <4>2 DEF PacketInv
    <3> QED
      BY <3>1, <3>2
  <2> QED
    BY <1>5, <2>1, <2>2, <2>8, <2>9 DEF PacketInv
<1>9. CASE OnFlush
  <2>1. UNCHANGED <<meta, encCfg>>
    BY <1>9 DEF OnFlush
  <2>2. CASE FlushDrainsOne
    BY <1>8, <2>1, <2>2 DEF FlushDrainsOne
  <2>3. CASE ~FlushDrainsOne
    <3>1. UNCHANGED <<outQ, buf, ctxCfg>>
      BY <1>9, <2>3 DEF OnFlush, HandleFlush, FlushEndsAtOnce, FlushSends, FlushEnds, ctxVars,
         tsfnVars
    <3> QED
      BY <1>4, <1>5, <2>1, <3>1
  <2> QED
    BY <2>2, <2>3
<1>10. CASE OnEncode
  <2>1. CASE OnEncodeReceives
    <3>1. UNCHANGED encCfg /\ wpc = "receive" /\ ReceiveFrame
      BY <2>1 DEF OnEncodeReceives, WorkReceives
    <3>2. UNCHANGED meta \/ meta' = [meta EXCEPT ![Head(buf)] = copies]
      BY <2>1 DEF OnEncodeReceives
    <3> QED
      BY <1>8, <3>1, <3>2
  <2>2. CASE (WorkAllocFails \/ WorkSends) /\ NoteContext /\ UNCHANGED meta
    <3>1. AtWork /\ SendInput /\ UNCHANGED <<ctxCfg, outQ>>
      BY <2>2 DEF WorkAllocFails, WorkSends, tsfnVars
    <3>2. \A n \in Members(buf') : encCfg'[n] = ctxCfg'
      BY <2>2, <3>1, SendNoted
    <3> QED
      BY <1>4, <2>2, <3>1, <3>2
  <2>3. CASE /\ \/ WorkSkips \/ WorkSendFails \/ WorkReceiveFails \/ WorkReceivesNoMore
                \/ WorkCounts \/ WorkSignals
             /\ UNCHANGED <<encCfg, meta>>
    <3>1. UNCHANGED <<outQ, buf, ctxCfg>>
      BY <2>3 DEF WorkSkips, WorkSendFails, WorkReceiveFails, WorkReceivesNoMore, WorkCounts,
         WorkSignals, ctxVars, tsfnVars
    <3> QED
      BY <1>4, <1>5, <2>3, <3>1
  <2>4. \/ OnEncodeReceives
        \/ (WorkAllocFails \/ WorkSends) /\ NoteContext /\ UNCHANGED meta
        \/ /\ \/ WorkSkips \/ WorkSendFails \/ WorkReceiveFails \/ WorkReceivesNoMore
              \/ WorkCounts \/ WorkSignals
           /\ UNCHANGED <<encCfg, meta>>
    BY <1>10 DEF OnEncode, OnEncodeEndsEarly, OnEncodeSends, OnEncodeReceivesNoMore,
       OnEncodeFinishes, packetVars
  <2> QED
    BY <2>1, <2>2, <2>3, <2>4
<1> QED
  BY <1>6, <1>7, <1>9, <1>10

(* A decoder config on its way to JavaScript is the one of the encoder     *)
(* that made the packet, although configure() may have been called, and    *)
(* handled, since: OutputChunk only uses the worker's own copies.          *)
LEMMA PacketInvariant == Spec => [](SetUp /\ PacketInv)
<1>1. ASSUME Init PROVE SetUp /\ PacketInv
  <2>1. /\ wpc = "off" /\ ctx = "none" /\ buf = <<>> /\ outQ = <<>>
        /\ meta = [n \in Inputs |-> NoConfig]
    BY <1>1 DEF Init, EncoderInit, HandlerInit, CoreInit, WorkerInit
  <2>2. Members(buf) = {} /\ Members(outQ) = {}
    BY <2>1 DEF Members
  <2> QED
    BY <2>1, <2>2 DEF SetUp, PacketInv
<1>2. TypeOK /\ ReleaseIsFinal /\ PipelineInv /\ SetUp /\ PacketInv /\ [Next]_vars
        => SetUp' /\ PacketInv'
  BY NextOutside, SetUpOutside, SetUpConfigures, SetUpHandles, PacketOutside, PacketHandled
     DEF PipelineInv
<1> QED
  BY <1>1, <1>2, VideoEncoderTypeCorrect, VideoEncoderReleased, VideoEncoderPipeline,
     PipelineInvariant, PTL DEF Spec

THEOREM VideoEncoderMetadata == Spec => []MetadataDescribesPacket
<1>1. PacketInv => MetadataDescribesPacket
  BY DEF PacketInv, MetadataDescribesPacket, Members
<1> QED
  BY <1>1, PacketInvariant, PTL

-----------------------------------------------------------------------------
(* What JavaScript knows.                                                  *)

(* The output emitted last, and the one before each in the TSFN.           *)
LastEmitted == IF outQ = <<>> THEN lastOut ELSE outQ[Len(outQ)]
EmittedBefore(i) == IF i = 1 THEN lastOut ELSE outQ[i - 1]

(* An output without a decoder config has that of the one before it, and   *)
(* so will the next one unless the flag is raised.                         *)
Chain ==
  /\ \A i \in DOMAIN outQ : meta[outQ[i]] = NoConfig =>
       EmittedBefore(i) # 0 /\ encCfg[EmittedBefore(i)] = encCfg[outQ[i]]
  /\ ctx # "none" /\ started => LastEmitted # 0 /\ encCfg[LastEmitted] = ctxCfg
  /\ ctx # "none" /\ ~firstOut => started

ChainInv == nextFlush = 0 => KnowsDecoderConfig /\ (state # "closed" => Chain)

LEMMA EmittedTyped ==
  ASSUME TypeOK
  PROVE  /\ lastOut # 0 => lastOut \in Inputs
         /\ outQ \in Seq(Inputs)
         /\ LastEmitted # 0 => /\ LastEmitted \in Inputs
                               /\ LastEmitted \in {lastOut} \cup Members(outQ)
         /\ \A i \in DOMAIN outQ :
              /\ outQ[i] \in Inputs /\ outQ[i] \in Members(outQ)
              /\ EmittedBefore(i) # 0 =>
                   EmittedBefore(i) \in Inputs /\ EmittedBefore(i) \in {lastOut} \cup Members(outQ)
<1>1. /\ lastOut # 0 => lastOut \in Inputs
      /\ outQ \in Seq(Inputs) /\ Len(outQ) \in Nat /\ DOMAIN outQ = 1 .. Len(outQ)
  BY BoundsAssumption DEF TypeOK, CoreTypeOK, TsfnType, CountType, Inputs
<1>2. \A i \in DOMAIN outQ : outQ[i] \in Inputs /\ outQ[i] \in Members(outQ)
  BY <1>1 DEF Members
<1>3. outQ # <<>> => Len(outQ) \in DOMAIN outQ
  BY <1>1
<1>4. \A i \in DOMAIN outQ : i # 1 => i - 1 \in DOMAIN outQ
  BY <1>1
<1> QED
  BY <1>1, <1>2, <1>3, <1>4 DEF LastEmitted, EmittedBefore

LEMMA ChainKept ==
  ASSUME TypeOK, Chain, UNCHANGED <<outQ, lastOut, meta>>,
         \A n \in Inputs : n \in {lastOut} \cup Members(outQ) => encCfg'[n] = encCfg[n],
         ctx' # "none" /\ started' => ctx # "none" /\ started /\ UNCHANGED ctxCfg,
         ctx' # "none" /\ ~firstOut' => started'
  PROVE  Chain'
<1>1. LastEmitted' = LastEmitted /\ \A i \in DOMAIN outQ : EmittedBefore(i)' = EmittedBefore(i)
  BY DEF LastEmitted, EmittedBefore
<1>2. ASSUME NEW i \in DOMAIN outQ', meta'[outQ'[i]] = NoConfig
      PROVE  EmittedBefore(i)' # 0 /\ encCfg'[EmittedBefore(i)'] = encCfg'[outQ'[i]]
  BY <1>1, <1>2, EmittedTyped DEF Chain
<1>3. ctx' # "none" /\ started' => LastEmitted' # 0 /\ encCfg'[LastEmitted'] = ctxCfg'
  BY <1>1, EmittedTyped DEF Chain
<1> QED
  BY <1>2, <1>3 DEF Chain

(* Only OnOutputChunk tells JavaScript anything of the outputs.            *)
LEMMA OutsideIsQuiet ==
  ASSUME TypeOK, [Next]_vars, ~(OnConfigure \/ OnEncode \/ OnFlush \/ OnReset)
  PROVE  UNCHANGED <<outQ, lastOut, told>> \/ OnOutputChunk
<1> USE DEF tsfnVars, encoderVars
<1>1. CASE UNCHANGED vars
  BY <1>1 DEF vars, coreVars
<1>2. CASE WorkerLoop /\ UNCHANGED <<encoderVars, orientation, saturation, packetVars>>
  BY <1>2 DEF WorkerLoop, JsOwned
<1>3. CASE (\E cfg \in Config : Configure(cfg)) \/ (\E key \in BOOLEAN : Encode(key))
           \/ EncodeClosed
  BY <1>3 DEF Configure, ConfigureThrows, ConfigureSupported, RefuseConfigure,
     AcceptConfigure, Encode, EncodeFrame, AcceptInput, EncodeClosed, EncodeClosedFrame,
     RefuseInput, coreVars
<1>4. CASE Flush \/ Reset \/ Close \/ CloseTwice \/ Release
  BY <1>4 DEF Flush, RequestFlush, Reset, ResetAll, Close, BeginRelease, CloseTwice,
     CloseAgain, Release, StopWorker, FinishRelease, coreVars
<1>5. CASE OnError \/ OnFlushComplete \/ OnDequeue \/ OnCallbackReturn
  BY <1>5 DEF OnError, DeliverError, OnFlushComplete, DeliverFlush, OnDequeue,
     DeliverDequeue, OnCallbackReturn, CallbackReturn, ErrorReturns, DequeueReturns
<1> QED
  BY <1>1, <1>2, <1>3, <1>4, <1>5 DEF Next, Worker

LEMMA ChainDelivered ==
  ASSUME TypeOK, PacketInv, KnowsDecoderConfig, Chain, OnOutputChunk, state # "closed"
  PROVE  KnowsDecoderConfig' /\ Chain'
<1> DEFINE h == Head(outQ)
<1>1. /\ outQ # <<>> /\ outQ \in Seq(Inputs) /\ Len(outQ) \in Nat /\ Len(outQ) > 0
      /\ outQ' = Tail(outQ) /\ lastOut' = h /\ h = outQ[1]
      /\ told' = IF meta[h] = NoConfig THEN told ELSE meta[h]
      /\ UNCHANGED <<meta, encCfg, firstOut, ctx, ctxCfg, started>>
  BY EmittedTyped DEF OnOutputChunk, DeliverOutput, packetVars, handlerVars, ctxVars
<1>2. /\ DOMAIN outQ = 1 .. Len(outQ) /\ DOMAIN outQ' = 1 .. Len(outQ) - 1
      /\ Len(outQ') = Len(outQ) - 1
      /\ \A i \in 1 .. Len(outQ) - 1 : outQ'[i] = outQ[i + 1]
  BY <1>1
<1>3. 1 \in DOMAIN outQ /\ h \in Members(outQ)
  BY <1>1, <1>2 DEF Members
<1> HIDE DEF h
<1>4. told' = encCfg[h]
  BY <1>1, <1>3 DEF Chain, EmittedBefore, KnowsDecoderConfig, PacketInv
<1>5. LastEmitted' = LastEmitted
  <2>1. CASE Len(outQ) = 1
    BY <1>1, <1>2, <2>1 DEF LastEmitted
  <2>2. CASE Len(outQ) # 1
    <3>0. outQ' # <<>>
      <4>1. Len(outQ') # 0
        BY <1>1, <1>2, <2>2
      <4> QED
        BY <4>1
    <3>1. Len(outQ) - 1 \in 1 .. Len(outQ) - 1 /\ Len(outQ) - 1 + 1 = Len(outQ) /\ outQ' # <<>>
      <4>1. \A m \in Nat : m > 0 /\ m # 1 => m - 1 \in 1 .. m - 1 /\ m - 1 + 1 = m
        OBVIOUS
      <4> QED
        BY <1>1, <2>2, <3>0, <4>1
    <3>2. outQ'[Len(outQ')] = outQ[Len(outQ)]
      BY <1>1, <1>2, <3>1
    <3> QED
      BY <1>1, <3>1, <3>2 DEF LastEmitted
  <2> QED
    BY <2>1, <2>2
<1>6. ASSUME NEW i \in DOMAIN outQ'
      PROVE  i + 1 \in DOMAIN outQ /\ outQ'[i] = outQ[i + 1]
             /\ EmittedBefore(i)' = EmittedBefore(i + 1)
  <2>1. i + 1 \in DOMAIN outQ /\ outQ'[i] = outQ[i + 1] /\ i + 1 # 1 /\ (i + 1) - 1 = i
    BY <1>1, <1>2
  <2>2. EmittedBefore(i + 1) = outQ[i]
    BY <2>1 DEF EmittedBefore
  <2>3. CASE i = 1
    BY <1>1, <2>1, <2>2, <2>3 DEF EmittedBefore
  <2>4. CASE i # 1
    <3>1. i - 1 \in 1 .. Len(outQ) - 1 /\ (i - 1) + 1 = i
      BY <1>2, <2>4
    <3>2. outQ'[i - 1] = outQ[i]
      BY <1>2, <3>1
    <3> QED
      BY <2>1, <2>2, <2>4, <3>2 DEF EmittedBefore
  <2> QED
    BY <2>3, <2>4
<1>7. ASSUME NEW i \in DOMAIN outQ', meta'[outQ'[i]] = NoConfig
      PROVE  EmittedBefore(i)' # 0 /\ encCfg'[EmittedBefore(i)'] = encCfg'[outQ'[i]]
  BY <1>1, <1>6, <1>7 DEF Chain
<1>8. Chain'
  BY <1>1, <1>5, <1>7 DEF Chain
<1> QED
  BY <1>1, <1>4, <1>8 DEF KnowsDecoderConfig

LEMMA ChainOutside ==
  ASSUME TypeOK, ReleaseIsFinal, PacketInv, ChainInv, [Next]_vars,
         ~(OnConfigure \/ OnEncode \/ OnFlush \/ OnReset)
  PROVE  ChainInv'
<1> SUFFICES ASSUME nextFlush' = 0
             PROVE  KnowsDecoderConfig' /\ (state' # "closed" => Chain')
  BY DEF ChainInv
<1>1. OutsideHandlers
  BY NextOutside
<1>2. [CodecNext]_coreVars
  BY NextImplements
<1>3. KnowsDecoderConfig /\ (state # "closed" => Chain)
  BY <1>2, FlushesCounted DEF ChainInv, TypeOK
<1>4. state' # "closed" => state # "closed"
  BY <1>2, ClosedStays DEF TypeOK
<1>5. UNCHANGED <<ctx, ctxCfg, firstOut, encCfg, meta, started>>
  BY <1>1 DEF OutsideHandlers, ctxVars, packetVars
<1>6. CASE UNCHANGED <<outQ, lastOut, told>>
  BY <1>3, <1>4, <1>5, <1>6, ChainKept DEF KnowsDecoderConfig, Chain
<1>7. CASE OnOutputChunk /\ state # "closed"
  BY <1>3, <1>7, ChainDelivered
<1>8. CASE OnOutputChunk /\ state = "closed"
  BY <1>3, <1>4, <1>5, <1>8 DEF OnOutputChunk, DeliverOutput, KnowsDecoderConfig
<1> QED
  BY <1>6, <1>7, <1>8, OutsideIsQuiet

LEMMA ChainReceives ==
  ASSUME TypeOK, PipelineInv, SetUp, PacketInv, Chain, OnEncodeReceives,
         state # "closed", "clone" \notin Faults
  PROVE  Chain'
<1> DEFINE h == Head(buf)
<1> PICK len : len = Len(outQ)
  OBVIOUS
<1>1. /\ buf # <<>> /\ outQ' = Append(outQ, h) /\ UNCHANGED <<ctx, ctxCfg, encCfg>>
      /\ UNCHANGED lastOut /\ started' = TRUE
      /\ \/ meta' = [meta EXCEPT ![h] = copies]
         \/ UNCHANGED meta /\ (started \/ ~firstOut)
  <2>1. HandlerStep
    BY OnEncodeImplements DEF OnEncode
  <2> QED
    BY <2>1 DEF OnEncodeReceives, WorkReceives, ReceiveFrame, ReceiveOutput, OutputFrame,
       Post, HandlerStep, JsOwned
<1>2. /\ buf \in Seq(Inputs) /\ outQ \in Seq(Inputs) /\ h \in Members(buf) /\ h \in Inputs
      /\ len = Len(outQ) /\ len \in Nat
  BY <1>1, EmittedTyped, MembersOfTail DEF PipelineInv, OrderInv
<1>3. /\ ctx # "none" /\ encCfg[h] = ctxCfg /\ copies = ctxCfg
      /\ ctxCfg.codec \in SupportedCodecs /\ h # 0
  BY <1>1, <1>2 DEF PipelineInv, NoContextEmpty, PacketInv, SetUp, Inputs
<1>4. copies # NoConfig
  BY <1>3, AbsentAssumption DEF NoConfig
<1>5. \A i \in DOMAIN outQ : outQ[i] # h /\ outQ[i] \in Inputs
  <2>1. \A n \in Members(outQ) : n < h
    BY <1>2 DEF PipelineInv, OrderInv, InLine, Precede
  <2> QED
    BY <1>2, <2>1, EmittedTyped DEF Inputs
<1>6. meta \in [Inputs -> Config]
  BY DEF TypeOK
<1> HIDE DEF h
<1>7. /\ DOMAIN outQ = 1 .. len /\ DOMAIN outQ' = 1 .. len + 1 /\ Len(outQ') = len + 1
      /\ outQ'[len + 1] = h /\ \A i \in 1 .. len : outQ'[i] = outQ[i]
      /\ outQ' # <<>>
  BY <1>1, <1>2
<1>8. LastEmitted' = h
  BY <1>7 DEF LastEmitted
<1>9. EmittedBefore(len + 1)' = LastEmitted
  <2>1. CASE len = 0
    <3>1. outQ = <<>> /\ len + 1 = 1 /\ lastOut' = lastOut
      <4>1. \A q \in Seq(Inputs) : Len(q) = 0 => q = <<>>
        OBVIOUS
      <4>2. len + 1 = 1
        BY <2>1
      <4>3. outQ = <<>>
        BY <1>2, <2>1, <4>1
      <4>4. lastOut' = lastOut
        BY <1>1
      <4> QED
        BY <4>2, <4>3, <4>4
    <3>2. EmittedBefore(1)' = lastOut'
      BY DEF EmittedBefore
    <3> QED
      BY <3>1, <3>2 DEF LastEmitted
  <2>2. CASE len # 0
    <3>1. len + 1 # 1 /\ (len + 1) - 1 = len /\ len \in 1 .. len /\ outQ # <<>>
      BY <1>2, <2>2
    <3> QED
      BY <1>2, <1>7, <3>1 DEF EmittedBefore, LastEmitted
  <2> QED
    BY <2>1, <2>2
<1>10. ASSUME NEW i \in DOMAIN outQ', meta'[outQ'[i]] = NoConfig
       PROVE  EmittedBefore(i)' # 0 /\ encCfg'[EmittedBefore(i)'] = encCfg'[outQ'[i]]
  <2>1. CASE i = len + 1
    <3>1. ~(meta' = [meta EXCEPT ![h] = copies])
      BY <1>2, <1>4, <1>6, <1>7, <1>10, <2>1
    <3>2. started
      BY <1>1, <1>3, <3>1 DEF Chain, h
    <3> QED
      BY <1>1, <1>3, <1>7, <1>9, <2>1, <3>2 DEF Chain
  <2>2. CASE i # len + 1
    <3>1. i \in DOMAIN outQ /\ outQ'[i] = outQ[i] /\ (i # 1 => i - 1 \in 1 .. len)
      BY <1>2, <1>7, <2>2
    <3>2. EmittedBefore(i)' = EmittedBefore(i)
      BY <1>1, <1>7, <3>1 DEF EmittedBefore
    <3>3. meta'[outQ[i]] = meta[outQ[i]]
      BY <1>1, <1>5, <1>6, <3>1 DEF h
    <3> QED
      BY <1>1, <1>10, <3>1, <3>2, <3>3 DEF Chain
  <2> QED
    BY <2>1, <2>2
<1> QED
  BY <1>1, <1>3, <1>8, <1>10 DEF Chain

LEMMA ChainHandled ==
  ASSUME TypeOK, PipelineInv, SetUp, PacketInv, ChainInv,
         OnConfigure \/ OnEncode \/ OnFlush \/ OnReset, "clone" \notin Faults
  PROVE  ChainInv'
<1> SUFFICES ASSUME nextFlush = 0
             PROVE  KnowsDecoderConfig' /\ (state' # "closed" => Chain')
  <2>1. UNCHANGED nextFlush
    BY OnConfigureImplements, OnEncodeImplements, OnFlushImplements, OnResetImplements
       DEF HandlerStep, JsOwned, flushVars
  <2> QED
    BY <2>1 DEF ChainInv
<1>1. UNCHANGED <<state, lastOut>>
  BY OnConfigureImplements, OnEncodeImplements, OnFlushImplements, OnResetImplements
     DEF HandlerStep, JsOwned, jsVars
<1>2. UNCHANGED told
  BY DEF OnConfigure, EncoderConfigures, EncoderOpens, OnEncode, OnEncodeEndsEarly,
     OnEncodeSends, OnEncodeReceives, OnEncodeReceivesNoMore, OnEncodeFinishes, OnFlush,
     OnReset, EncoderResets
<1>3. KnowsDecoderConfig /\ (state # "closed" => Chain)
  BY DEF ChainInv
<1>4. \A n \in Inputs : n \in {lastOut} \cup Members(outQ) => encCfg'[n] = encCfg[n]
  BY HistoryKept DEF PipelineInv
<1>5. KnowsDecoderConfig'
  BY <1>1, <1>2, <1>3, <1>4, EmittedTyped DEF KnowsDecoderConfig
<1>6. ~OnFlush
  BY NoFlushNoMessage DEF OnFlush, PipelineInv, TypeOK
<1>7. ASSUME Chain, OnConfigure PROVE Chain'
  <2>1. UNCHANGED <<outQ, meta>>
    BY <1>7 DEF OnConfigure, EncoderConfigures, EncoderOpens, ConfigureRejects,
       ConfigureAllocates, ConfigureOpens
  <2>2. ctx' # "none" /\ started' => ctx # "none" /\ started /\ UNCHANGED ctxCfg
    BY <1>7 DEF OnConfigure, EncoderConfigures, EncoderOpens, ConfigureRejects,
       ConfigureAllocates, ConfigureOpens, ctxVars
  <2>3. ctx' # "none" /\ ~firstOut' => started'
    <3>1. CASE ConfigureRejects(active) /\ UNCHANGED firstOut
      BY <1>7, <3>1 DEF OnConfigure, ConfigureRejects, ctxVars, Chain
    <3>2. CASE ConfigureAllocates(active)
      BY <3>2 DEF ConfigureAllocates
    <3>3. CASE EncoderOpens
      <4>1. ctx = "none"
        BY <3>3 DEF EncoderOpens, ConfigureOpens, SetUp
      <4> QED
        BY <3>3, <4>1 DEF EncoderOpens, ConfigureOpens
    <3> QED
      BY <1>7, <3>1, <3>2, <3>3 DEF OnConfigure, EncoderConfigures
  <2> QED
    BY <1>1, <1>4, <1>7, <2>1, <2>2, <2>3, ChainKept
<1>8. ASSUME Chain, OnEncode, ~OnEncodeReceives PROVE Chain'
  <2>1. UNCHANGED <<outQ, meta, started, firstOut, ctx, ctxCfg>>
    BY <1>8 DEF OnEncode, OnEncodeEndsEarly, OnEncodeSends, OnEncodeReceivesNoMore,
       OnEncodeFinishes, WorkSkips, WorkSendFails, WorkAllocFails, WorkReceiveFails,
       WorkSends, WorkReceivesNoMore, WorkCounts, WorkSignals, ctxVars, packetVars, tsfnVars
  <2> QED
    BY <1>1, <1>4, <1>8, <2>1, ChainKept DEF Chain
<1>9. ASSUME Chain, OnReset PROVE Chain'
  <2>1. UNCHANGED <<outQ, meta, started, ctxCfg>> /\ firstOut' = TRUE
        /\ (ctx' # "none" => ctx # "none")
    BY <1>9 DEF OnReset, EncoderResets, HandleReset, FlushEncoder, FlushBuffers, packetVars,
       tsfnVars
  <2> QED
    BY <1>1, <1>4, <1>9, <2>1, ChainKept
<1> QED
  BY <1>1, <1>3, <1>5, <1>6, <1>7, <1>8, <1>9, ChainReceives

(* As long as nobody calls flush(), and a packet can be cloned, JavaScript *)
(* knows how to decode what it received last.                              *)
THEOREM VideoEncoderKnows ==
  ASSUME "clone" \notin Faults
  PROVE  Spec => []KnowsDecoderConfigWithoutFlush
<1>1. ASSUME Init PROVE ChainInv
  <2>1. outQ = <<>> /\ lastOut = 0 /\ ctx = "none"
    BY <1>1 DEF Init, EncoderInit, HandlerInit, CoreInit
  <2> QED
    BY <2>1 DEF ChainInv, KnowsDecoderConfig, Chain
<1>2. TypeOK /\ ReleaseIsFinal /\ PipelineInv /\ SetUp /\ PacketInv /\ ChainInv
        /\ [Next]_vars => ChainInv'
  BY ChainOutside, ChainHandled
<1>3. ChainInv => KnowsDecoderConfigWithoutFlush
  BY DEF ChainInv, KnowsDecoderConfigWithoutFlush
<1> QED
  BY <1>1, <1>2, <1>3, PacketInvariant, VideoEncoderTypeCorrect, VideoEncoderReleased,
     VideoEncoderPipeline, PipelineInvariant, PTL DEF Spec
=============================================================================
