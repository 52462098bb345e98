---------------------------- MODULE AudioDecoder ----------------------------
(***************************************************************************)
(* AudioDecoder and AudioDecoderWorker (audio_decoder.h, audio_decoder.cpp)*)
(* over the frame of Codec and the handlers of CodecHandlers.  It differs  *)
(* from VideoDecoder in two ways: close() rejects the pending flushes, and *)
(* every path of OnDecode counts the chunk as done.  It never blocks the   *)
(* queue and does not track saturation.                                    *)
(***************************************************************************)
EXTENDS Decoder

vars == <<coreVars, decoderVars>>

Init == DecoderInit

-----------------------------------------------------------------------------
(* Methods: the JS thread.                                                 *)

Configure(cfg) ==
  \/ ConfigureUnsupported(cfg)
  \/ ConfigureSupported(cfg) /\ UNCHANGED blocked

Decode(key) == DecodeChunk(key) \/ DecodeMalformed(key)

Flush == FlushDecoder

Reset == ResetDecoder

(* Mutant: the promises are left to Release, as in VideoDecoder.           *)
CloseAbandons == BeginRelease /\ UNCHANGED <<flushVars, decoderVars>>

Close == BeginRelease /\ RejectFlushes /\ UNCHANGED decoderVars

CloseTwice == CloseAgain /\ UNCHANGED decoderVars

Release == ReleaseStep /\ UNCHANGED decoderVars

-----------------------------------------------------------------------------
(* TSFN handlers: the JS thread, called by the event loop.                 *)

OnOutputFrame == DeliverOutput /\ UNCHANGED decoderVars
OnError == DeliverError /\ UNCHANGED decoderVars
OnFlushComplete == DeliverFlush /\ UNCHANGED decoderVars
OnDequeue == DeliverDequeue /\ UNCHANGED decoderVars
OnCallbackReturn == CallbackReturn /\ UNCHANGED decoderVars

-----------------------------------------------------------------------------
(* The worker thread.                                                      *)

(* active_config_ is read in place, and at each of the two steps.          *)
OnConfigure ==
  /\ ConfigureRejects(active) \/ ConfigureAllocates(active) \/ ConfigureOpens(active)
  /\ UNCHANGED <<blocked, keyReq>>

(* Mutant: the early ends of OnDecode return at once, as in VideoDecoder.  *)
OnDecodeEndsEarlyUncounted ==
  /\ WorkSkips \/ WorkSendFails \/ WorkAllocFails \/ WorkReceiveFails
  /\ Return
  /\ UNCHANGED <<blocked, keyReq>>

(* The early ends of OnDecode call signal_dequeue_on_exit, as its normal   *)
(* end does.                                                               *)
OnDecodeEndsEarly ==
  /\ WorkSkips \/ WorkSendFails \/ WorkAllocFails \/ WorkReceiveFails
  /\ Goto("count")
  /\ UNCHANGED <<blocked, keyReq>>

OnDecode ==
  \/ OnDecodeEndsEarly
  \/ /\ \/ WorkSends \/ WorkReceives \/ WorkReceivesNoMore
        \/ WorkCounts \/ WorkSignals
     /\ UNCHANGED <<blocked, keyReq>>

OnFlush == HandleFlush /\ UNCHANGED <<blocked, keyReq>>

OnReset == HandleReset /\ FlushBuffers /\ UNCHANGED <<blocked, keyReq>>

Worker ==
  \/ WorkerLoop /\ UNCHANGED decoderVars
  \/ OnConfigure \/ OnDecode \/ OnFlush \/ OnReset

-----------------------------------------------------------------------------

Next ==
  \/ \E cfg \in Config : Configure(cfg)
  \/ \E key \in BOOLEAN : Decode(key)
  \/ Flush \/ Reset \/ Close \/ CloseTwice \/ Release
  \/ OnOutputFrame \/ OnError \/ OnFlushComplete \/ OnDequeue \/ OnCallbackReturn
  \/ Worker

Spec == Init /\ [][Next]_vars

(* The same fairness as VideoDecoder, for the same reasons.                *)
Fairness ==
  /\ WF_vars(Worker)
  /\ WF_vars(Release)
  /\ WF_vars(OnCallbackReturn)
  /\ WF_vars(OnOutputFrame)
  /\ WF_vars(OnError)
  /\ WF_vars(OnFlushComplete)
  /\ WF_vars(OnDequeue)

FairSpec == Spec /\ Fairness

-----------------------------------------------------------------------------

(* The types of all variables.                                             *)
TypeOK == CoreTypeOK /\ HandlerType /\ keyReq \in BOOLEAN
=============================================================================
