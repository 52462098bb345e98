------------------------- MODULE AudioDecoderProofs -------------------------
(***************************************************************************)
(* AudioDecoder implements the abstract codec of Codec, for every value of *)
(* its constants, and so has the properties proved of CodecSpec.           *)
(***************************************************************************)
EXTENDS AudioDecoder, CodecProofs

(* The variables AudioDecoder adds to those of the abstract codec.         *)
OwnType ==
  /\ HandlerType
  /\ keyReq \in BOOLEAN

LEMMA HandlerVarsKept ==
  ASSUME HandlerType, UNCHANGED handlerVars
  PROVE  HandlerType'
  BY DEF HandlerType, handlerVars, ctxVars

-----------------------------------------------------------------------------
(* One lemma per group of actions: each is a step of the abstract codec,   *)
(* the worker's handlers HandlerSteps of it.                               *)

LEMMA ConfigureImplements ==
  ASSUME TypeOK, NEW cfg \in Config, Configure(cfg)
  PROVE  FrameNext /\ OwnType'
<1>1. Assign(cfg) \in Config
  BY DEF TypeOK, HandlerType, Assign, Config
<1>2. FrameNext
  <2>1. CASE ConfigureUnsupported(cfg)
    BY <2>1 DEF ConfigureUnsupported, FrameNext
  <2>2. CASE ConfigureSupported(cfg) /\ UNCHANGED blocked
    <3>1. blocked' \in BOOLEAN
      BY <2>2 DEF TypeOK, CoreTypeOK, QueueType
    <3> QED
      BY <1>1, <2>2, <3>1 DEF ConfigureSupported, FrameNext
  <2> QED
    BY <2>1, <2>2 DEF Configure
<1>3. HandlerType'
  BY <1>1 DEF Configure, ConfigureUnsupported, ConfigureSupported, TypeOK,
     HandlerType, ctxVars
<1>4. keyReq' \in BOOLEAN
  BY DEF Configure, ConfigureUnsupported, ConfigureSupported, TypeOK
<1> QED
  BY <1>2, <1>3, <1>4 DEF Configure, OwnType, TypeOK

LEMMA DecodeImplements ==
  ASSUME TypeOK, NEW key \in BOOLEAN, Decode(key)
  PROVE  FrameNext /\ OwnType'
<1>1. FrameNext
  BY DEF Decode, DecodeChunk, DecodeMalformed, FrameNext
<1>2. keyReq' \in BOOLEAN /\ UNCHANGED handlerVars
  BY DEF Decode, DecodeChunk, DecodeMalformed
<1> QED
  BY <1>1, <1>2, HandlerVarsKept DEF Decode, OwnType, TypeOK

LEMMA MethodsImplement ==
  ASSUME TypeOK, Flush \/ Reset \/ Close \/ CloseTwice \/ Release
  PROVE  FrameNext /\ OwnType'
<1>1. FrameNext
  BY DEF Flush, FlushDecoder, Reset, ResetDecoder, Close, CloseTwice, Release,
     FrameNext
<1>2. keyReq' \in BOOLEAN /\ UNCHANGED handlerVars
  BY DEF Flush, FlushDecoder, Reset, ResetDecoder, Close, CloseTwice, Release,
     decoderVars, TypeOK
<1> QED
  BY <1>1, <1>2, HandlerVarsKept DEF OwnType, TypeOK

LEMMA TsfnHandlersImplement ==
  ASSUME TypeOK,
         OnOutputFrame \/ OnError \/ OnFlushComplete \/ OnDequeue \/ OnCallbackReturn
  PROVE  FrameNext /\ OwnType'
<1> USE DEF OnOutputFrame, OnError, OnFlushComplete, OnDequeue, OnCallbackReturn
<1>1. FrameNext
  BY DEF FrameNext
<1>2. UNCHANGED <<handlerVars, keyReq>>
  BY DEF decoderVars
<1> QED
  BY <1>1, <1>2, HandlerVarsKept DEF OwnType, TypeOK

LEMMA OnConfigureImplements ==
  ASSUME TypeOK, OnConfigure
  PROVE  HandlerStep /\ OwnType'
<1>1. active \in Config /\ blocked' \in BOOLEAN
  BY DEF TypeOK, HandlerType, CoreTypeOK, QueueType, OnConfigure
<1>2. HandlerStep /\ HandlerType'
  BY <1>1, ConfigureRejectsStep, ConfigureAllocatesStep, ConfigureOpensStep
     DEF OnConfigure, TypeOK
<1> QED
  BY <1>2 DEF OnConfigure, OwnType, TypeOK

LEMMA OnDecodeImplements ==
  ASSUME TypeOK, OnDecode
  PROVE  HandlerStep /\ OwnType'
<1>1. blocked' \in BOOLEAN /\ keyReq' \in BOOLEAN
  BY DEF OnDecode, OnDecodeEndsEarly, TypeOK, CoreTypeOK, QueueType
<1>2. HandlerStep /\ HandlerType'
  <2>1. CASE OnDecodeEndsEarly
    BY <1>1, <2>1, WorkEndsEarlyStep DEF OnDecodeEndsEarly, TypeOK
  <2>2. CASE WorkSends
    BY <1>1, <2>2, WorkSendsStep DEF TypeOK
  <2>3. CASE WorkReceives
    BY <1>1, <2>3, ReceiveFrameStep DEF WorkReceives, TypeOK
  <2>4. CASE WorkReceivesNoMore
    BY <1>1, <2>4, WorkReceivesNoMoreStep DEF TypeOK
  <2>5. CASE WorkCounts \/ WorkSignals
    BY <1>1, <2>5, WorkFinishesStep DEF TypeOK
  <2> QED
    BY <2>1, <2>2, <2>3, <2>4, <2>5 DEF OnDecode
<1> QED
  BY <1>1, <1>2 DEF OwnType

LEMMA OnFlushImplements ==
  ASSUME TypeOK, OnFlush
  PROVE  HandlerStep /\ OwnType'
<1>1. HandlerStep /\ HandlerType'
  BY HandleFlushStep DEF OnFlush, TypeOK, CoreTypeOK, QueueType
<1> QED
  BY <1>1 DEF OnFlush, OwnType, TypeOK

LEMMA OnResetImplements ==
  ASSUME TypeOK, OnReset
  PROVE  HandlerStep /\ OwnType'
<1>1. HandlerStep
  BY HandleResetStep DEF OnReset, TypeOK, CoreTypeOK, QueueType
<1>2. HandlerType'
  BY FlushBuffersTyped DEF OnReset, HandleReset, Untouched, TypeOK
<1> QED
  BY <1>1, <1>2 DEF OnReset, OwnType, TypeOK

LEMMA NextImplements ==
  ASSUME TypeOK, [Next]_vars
  PROVE  [CodecNext]_coreVars /\ TypeOK'
<1>1. CASE UNCHANGED vars
  <2>1. UNCHANGED <<coreVars, handlerVars, keyReq>>
    BY <1>1 DEF vars, decoderVars
  <2>2. OwnType'
    BY <2>1, HandlerVarsKept DEF OwnType, TypeOK
  <2> QED
    BY <2>1, <2>2, UnchangedTyped DEF OwnType, TypeOK
<1>2. CASE WorkerLoop /\ UNCHANGED decoderVars
  <2>1. OwnType'
    BY <1>2, HandlerVarsKept DEF OwnType, TypeOK, decoderVars
  <2>2. CodecNext
    BY <1>2 DEF CodecNext, FrameNext
  <2> QED
    BY <2>1, <2>2, StepTyped DEF OwnType, TypeOK
<1>3. ASSUME CodecNext /\ OwnType' PROVE [CodecNext]_coreVars /\ TypeOK'
  BY <1>3, StepTyped DEF OwnType, TypeOK
<1>4. ASSUME NEW cfg \in Config, Configure(cfg)
      PROVE  [CodecNext]_coreVars /\ TypeOK'
  BY <1>3, <1>4, ConfigureImplements DEF CodecNext
<1>5. ASSUME NEW key \in BOOLEAN, Decode(key)
      PROVE  [CodecNext]_coreVars /\ TypeOK'
  BY <1>3, <1>5, DecodeImplements DEF CodecNext
<1>6. CASE Flush \/ Reset \/ Close \/ CloseTwice \/ Release
  BY <1>3, <1>6, MethodsImplement DEF CodecNext
<1>7. CASE OnOutputFrame \/ OnError \/ OnFlushComplete \/ OnDequeue
             \/ OnCallbackReturn
  BY <1>3, <1>7, TsfnHandlersImplement DEF CodecNext
<1>8. CASE OnConfigure \/ OnDecode \/ OnFlush \/ OnReset
  BY <1>3, <1>8, OnConfigureImplements, OnDecodeImplements, OnFlushImplements,
     OnResetImplements DEF CodecNext
<1>9. \/ UNCHANGED vars
      \/ WorkerLoop /\ UNCHANGED decoderVars
      \/ \E cfg \in Config : Configure(cfg)
      \/ \E key \in BOOLEAN : Decode(key)
      \/ Flush \/ Reset \/ Close \/ CloseTwice \/ Release
      \/ OnOutputFrame \/ OnError \/ OnFlushComplete \/ OnDequeue
      \/ OnCallbackReturn
      \/ OnConfigure \/ OnDecode \/ OnFlush \/ OnReset
  BY DEF Next, Worker
<1> QED
  BY <1>1, <1>2, <1>4, <1>5, <1>6, <1>7, <1>8, <1>9

LEMMA InitImplements == Init => CoreInit /\ TypeOK
  BY InitTyped, HandlerInitTyped DEF Init, DecoderInit, TypeOK

-----------------------------------------------------------------------------

(* Every variable keeps its type, and the worker at each of its program    *)
(* points holds a message of the kind handled there.                       *)
THEOREM AudioDecoderTypeCorrect == Spec => []TypeOK
  BY InitImplements, NextImplements, PTL DEF Spec

(* AudioDecoder implements the abstract codec: every method, TSFN handler  *)
(* and worker step is one of its steps, whichever FFmpeg calls fail.       *)
THEOREM AudioDecoderImplementsCodec == Spec => CodecSpec
<1>1. Spec => []TypeOK
  BY AudioDecoderTypeCorrect
<1> QED
  BY <1>1, InitImplements, NextImplements, PTL DEF Spec, CodecSpec

(* Nothing is left of the decoder once close() has returned (Release).     *)
THEOREM AudioDecoderReleaseFinal == Spec => []ReleaseIsFinal
  BY AudioDecoderImplementsCodec, ReleaseFinal

(* Nothing is posted to JavaScript once close() has returned.              *)
THEOREM AudioDecoderPostsNothing == Spec => NoPostAfterRelease
  BY AudioDecoderImplementsCodec, ReleasePostsNothing

(* Dequeue events are coalesced and never blocked for ever.                *)
THEOREM AudioDecoderDequeues == Spec => []DequeueCoalesced
  BY AudioDecoderImplementsCodec, DequeueIsCoalesced

(* Every pending flush promise has its completion under way, and is        *)
(* settled once.                                                           *)
THEOREM AudioDecoderFlushes == Spec => []FlushTracked /\ SettledOnce
  BY AudioDecoderImplementsCodec, FlushNeverLost, FlushSettledOnce

-----------------------------------------------------------------------------
(* close() settles every flush, which VideoDecoder's does not.             *)

(* A flush that was requested is pending until it is settled, and Release  *)
(* finds nothing pending.                                                  *)
FlushesAnswered ==
  /\ \A f \in FlushIds : f < nextFlush => f \in pending \/ settled[f] # "unset"
  /\ closing # "no" => pending = {}

LEMMA FlushesAnsweredStep ==
  ASSUME TypeOK, ReleaseIsFinal, FlushesAnswered, [Next]_vars
  PROVE  FlushesAnswered'
<1>1. /\ pending \subseteq FlushIds /\ nextFlush \in Nat
      /\ settled \in [FlushIds -> {"unset", "resolved", "rejected"}]
      /\ FlushIds \subseteq Int
  BY DEF TypeOK, CoreTypeOK, FlushType, FlushIds
<1>2. ASSUME UNCHANGED <<pending, nextFlush, settled, closing>>
      PROVE  FlushesAnswered'
  BY <1>2 DEF FlushesAnswered
<1> USE DEF flushVars, jsVars
<1>3. ASSUME NEW cfg \in Config, Configure(cfg) PROVE FlushesAnswered'
  BY <1>2, <1>3 DEF Configure, ConfigureUnsupported, ConfigureSupported,
     RefuseConfigure, AcceptConfigure
<1>4. ASSUME NEW key \in BOOLEAN, Decode(key) PROVE FlushesAnswered'
  BY <1>2, <1>4 DEF Decode, DecodeChunk, DecodeMalformed, AcceptInput,
     RefuseInput, coreVars
<1>5. CASE Flush
  <2>1. ~qclosed /\ closing = "no" /\ closing' = closing /\ OpenFlush
    BY <1>5 DEF Flush, FlushDecoder, RequestFlush, JsMayCall, ReleaseIsFinal
  <2> QED
    BY <1>1, <2>1 DEF OpenFlush, FlushesAnswered
<1>6. CASE Reset \/ Close
  <2>1. RejectFlushes
    BY <1>6 DEF Reset, ResetDecoder, ResetAll, Close
  <2> QED
    BY <1>1, <2>1 DEF RejectFlushes, FlushesAnswered
<1>7. CASE Release
  <2>1. closing # "no" /\ pending = {} /\ pending' = {}
        /\ UNCHANGED <<nextFlush, settled>>
    BY <1>7 DEF Release, ReleaseStep, StopWorker, FinishRelease, AbandonFlushes,
       FlushesAnswered
  <2> QED
    BY <2>1 DEF FlushesAnswered
<1>8. CASE OnFlushComplete
  <2> DEFINE c == Head(flushQ)
  <2>1. SettleFlush(c) /\ closing' = closing
    BY <1>8 DEF OnFlushComplete, DeliverFlush
  <2>2. ASSUME NEW f \in FlushIds PROVE settled[f] # "unset" => settled'[f] # "unset"
    BY <1>1, <2>1, <2>2 DEF SettleFlush
  <2>3. c.id \in pending => settled'[c.id] # "unset"
    BY <1>1, <2>1 DEF SettleFlush
  <2>4. pending' = pending \ {c.id} /\ nextFlush' = nextFlush
    BY <2>1 DEF SettleFlush
  <2> QED
    BY <2>1, <2>2, <2>3, <2>4 DEF FlushesAnswered
<1>9. CASE OnOutputFrame \/ OnError \/ OnDequeue \/ OnCallbackReturn
  BY <1>2, <1>9 DEF OnOutputFrame, OnError, OnDequeue, OnCallbackReturn,
     DeliverOutput, DeliverError, DeliverDequeue, CallbackReturn, ErrorReturns,
     DequeueReturns
<1>10. CASE Worker
  <2>1. WorkerLoop \/ HandlerStep
    BY <1>10, OnConfigureImplements, OnDecodeImplements, OnFlushImplements,
       OnResetImplements DEF Worker
  <2> QED
    BY <1>2, <2>1 DEF WorkerLoop, HandlerStep, JsOwned
<1>11. CASE CloseTwice \/ UNCHANGED vars
  BY <1>2, <1>11 DEF CloseTwice, CloseAgain, vars, coreVars
<1> QED
  BY <1>3, <1>4, <1>5, <1>6, <1>7, <1>8, <1>9, <1>10, <1>11 DEF Next

(* Once close() has returned every flush promise is settled (Close rejects *)
(* the pending ones before Release, audio_decoder.cpp).                    *)
THEOREM AudioDecoderCloseSettles == Spec => []CloseSettlesFlushes
<1>1. Init => FlushesAnswered
  BY DEF Init, DecoderInit, CoreInit, FlushesAnswered
<1>2. Spec => [](TypeOK /\ ReleaseIsFinal)
  BY AudioDecoderTypeCorrect, AudioDecoderReleaseFinal, PTL
<1>3. TypeOK /\ ReleaseIsFinal /\ FlushesAnswered => CloseSettlesFlushes
  BY DEF ReleaseIsFinal, FlushesAnswered, CloseSettlesFlushes
<1> QED
  BY <1>1, <1>2, <1>3, FlushesAnsweredStep, PTL DEF Spec
-----------------------------------------------------------------------------
(* The order of outputs and flushes: the decoder is a PipelineSpec, and    *)
(* its reset messages empty the FFmpeg codec.                              *)

LEMMA HandlersPipeline ==
  ASSUME TypeOK, OnConfigure \/ OnDecode \/ OnFlush \/ OnReset
  PROVE  HandlerNext
<1>1. CASE OnConfigure
  <2>1. active \in Config
    BY DEF TypeOK, HandlerType
  <2> QED
    BY <1>1, <2>1 DEF OnConfigure, HandlerNext
<1>2. CASE OnDecode
  BY <1>2 DEF OnDecode, OnDecodeEndsEarly, EndsEarly, HandlerNext
<1>3. CASE OnFlush
  BY <1>3 DEF OnFlush, HandlerNext
<1>4. CASE OnReset
  BY <1>4 DEF OnReset, HandlerNext
<1> QED
  BY <1>1, <1>2, <1>3, <1>4

LEMMA JsStepsPipeline ==
  ASSUME TypeOK,
         \/ \E cfg \in Config : Configure(cfg)
         \/ \E key \in BOOLEAN : Decode(key)
         \/ Flush \/ Reset \/ Close \/ CloseTwice \/ Release
         \/ OnOutputFrame \/ OnError \/ OnFlushComplete \/ OnDequeue
         \/ OnCallbackReturn
  PROVE  FrameNext /\ UNCHANGED ctxVars
<1>1. FrameNext
  BY ConfigureImplements, DecodeImplements, MethodsImplement,
     TsfnHandlersImplement
<1>2. UNCHANGED ctxVars
  BY DEF Configure, ConfigureUnsupported, ConfigureSupported, Decode, DecodeChunk,
     DecodeMalformed, Flush, FlushDecoder, Reset, ResetDecoder, Close, CloseTwice,
     Release, OnOutputFrame, OnError, OnFlushComplete, OnDequeue, OnCallbackReturn,
     decoderVars, handlerVars
<1> QED
  BY <1>1, <1>2

LEMMA NextPipeline ==
  ASSUME TypeOK, [Next]_vars
  PROVE  [PipelineNext]_pipelineVars
<1>1. CASE UNCHANGED vars
  BY <1>1 DEF vars, pipelineVars, decoderVars, handlerVars
<1>2. CASE WorkerLoop /\ UNCHANGED decoderVars
  BY <1>2 DEF PipelineNext, FrameNext, decoderVars, handlerVars
<1>3. CASE \/ \E cfg \in Config : Configure(cfg)
           \/ \E key \in BOOLEAN : Decode(key)
           \/ Flush \/ Reset \/ Close \/ CloseTwice \/ Release
           \/ OnOutputFrame \/ OnError \/ OnFlushComplete \/ OnDequeue
           \/ OnCallbackReturn
  BY <1>3, JsStepsPipeline DEF PipelineNext
<1>4. CASE OnConfigure \/ OnDecode \/ OnFlush \/ OnReset
  <2>1. HandlerStep
    BY <1>4, OnConfigureImplements, OnDecodeImplements, OnFlushImplements,
       OnResetImplements
  <2> QED
    BY <1>4, <2>1, HandlersPipeline DEF PipelineNext
<1> QED
  BY <1>1, <1>2, <1>3, <1>4 DEF Next, Worker

(* OnReset calls avcodec_flush_buffers, and nothing else gives up a reset  *)
(* message.                                                                *)
LEMMA NextEmpties ==
  ASSUME TypeOK, ReleaseIsFinal, [Next]_vars
  PROVE  [EmptiesOnReset]_pipelineVars
<1>1. CASE UNCHANGED vars
  BY <1>1 DEF vars, coreVars, workerVars, EmptiesOnReset
<1>2. CASE WorkerLoop
  BY <1>2, FrameEmpties DEF TypeOK, FrameNext
<1>3. CASE \/ \E cfg \in Config : Configure(cfg)
           \/ \E key \in BOOLEAN : Decode(key)
           \/ Flush \/ Reset \/ Close \/ CloseTwice \/ Release
           \/ OnOutputFrame \/ OnError \/ OnFlushComplete \/ OnDequeue
           \/ OnCallbackReturn
  BY <1>3, JsStepsPipeline, FrameEmpties DEF TypeOK
<1>4. CASE OnReset
  BY <1>4 DEF OnReset, FlushBuffers, EmptiesOnReset
<1>5. CASE OnConfigure
  <2>1. wpc \in ConfigurePoints
    BY <1>5 DEF OnConfigure, ConfigureRejects, ConfigureAllocates, ConfigureOpens,
       ConfigurePoints
  <2> QED
    BY <2>1, HandlerEmpties DEF TypeOK
<1>6. CASE OnDecode
  <2>1. wpc \in WorkPoints
    BY <1>6 DEF OnDecode, OnDecodeEndsEarly, WorkReceives,
       WorkSkips, WorkSendFails, WorkAllocFails, WorkReceiveFails, AtWork,
       WorkSends, WorkReceivesNoMore, WorkCounts, WorkSignals, WorkPoints
  <2> QED
    BY <2>1, HandlerEmpties DEF TypeOK
<1>7. CASE OnFlush
  <2>1. wpc \in FlushPoints
    BY <1>7 DEF OnFlush, HandleFlush, FlushEndsAtOnce, FlushSends, FlushDrainsOne,
       FlushEnds, FlushPoints
  <2> QED
    BY <2>1, HandlerEmpties DEF TypeOK
<1> QED
  BY <1>1, <1>2, <1>3, <1>4, <1>5, <1>6, <1>7 DEF Next, Worker

LEMMA AudioDecoderPipeline == Spec => PipelineSpec /\ ResetsEmpty
<1>1. Init => CoreInit /\ ctx = "none" /\ buf = <<>> /\ TypeOK
  BY InitImplements DEF Init, DecoderInit, HandlerInit
<1>2. Spec => PipelineSpec
  BY <1>1, AudioDecoderTypeCorrect, NextPipeline, PTL DEF Spec, PipelineSpec
<1>3. Spec => ResetsEmpty
  BY AudioDecoderTypeCorrect, AudioDecoderReleaseFinal, NextEmpties, PTL
     DEF Spec, ResetsEmpty
<1> QED
  BY <1>2, <1>3

(* Outputs come in the order of the decode() calls and no flush passes a   *)
(* request, whatever reset(), configure() and close() do in between; and   *)
(* nothing from before a reset() outlives its message in the worker.       *)
THEOREM AudioDecoderOrder ==
  Spec => []PipelineInOrder /\ []ResetDiscards
  BY AudioDecoderPipeline, PipelineOrder, PipelineResets

(* OnDecode calls signal_dequeue_on_exit on all of its paths.              *)
LEMMA NextCounts ==
  ASSUME TypeOK, ReleaseIsFinal, [Next]_vars
  PROVE  [CountsFirst]_pipelineVars
<1>1. CASE UNCHANGED vars
  BY <1>1, FrameCounts DEF vars, TypeOK
<1>2. CASE WorkerLoop
  BY <1>2, FrameCounts DEF TypeOK, FrameNext
<1>3. CASE \/ \E cfg \in Config : Configure(cfg)
           \/ \E key \in BOOLEAN : Decode(key)
           \/ Flush \/ Reset \/ Close \/ CloseTwice \/ Release
           \/ OnOutputFrame \/ OnError \/ OnFlushComplete \/ OnDequeue
           \/ OnCallbackReturn
  BY <1>3, JsStepsPipeline, FrameCounts DEF TypeOK
<1>4. CASE OnDecode
  BY <1>4 DEF OnDecode, OnDecodeEndsEarly, WorkSends, WorkReceives,
     ReceiveFrame, WorkReceivesNoMore, WorkCounts, WorkSignals, workerVars,
     Goto, CountsFirst, WorkPoints
<1>5. CASE OnConfigure \/ OnFlush \/ OnReset
  <2>1. wpc \in ConfigurePoints \cup FlushPoints \cup {"reset"}
    BY <1>5 DEF OnConfigure, ConfigureRejects,
       ConfigureAllocates, ConfigureOpens, OnFlush, HandleFlush, FlushEndsAtOnce,
       FlushSends, FlushDrainsOne, FlushEnds, OnReset, HandleReset,
       ConfigurePoints, FlushPoints
  <2> QED
    BY <2>1 DEF CountsFirst, ConfigurePoints, FlushPoints, WorkPoints
<1> QED
  BY <1>1, <1>2, <1>3, <1>4, <1>5 DEF Next, Worker

(* The queue size is the number of chunks not yet processed, whatever      *)
(* fails, until the codec is closed, but for what reset() takes from       *)
(* under a worker at work.                                                 *)
THEOREM AudioDecoderSizes == Spec => []QueueSizeAlwaysExact
<1>1. Spec => AlwaysCounts
  BY AudioDecoderTypeCorrect, AudioDecoderReleaseFinal, NextCounts, PTL
     DEF Spec, AlwaysCounts
<1> QED
  BY <1>1, AudioDecoderPipeline, PipelineAlwaysSizes

(* No chunk is lost on the way from decode() to JavaScript, and the send   *)
(* never answers EAGAIN, with one configure, no reset and no error, if     *)
(* a frame can be cloned.                                                  *)
THEOREM AudioDecoderConserves ==
  ASSUME "clone" \notin Faults
  PROVE  Spec => []WorkConserved
  BY AudioDecoderPipeline, PipelineConserves
=============================================================================
