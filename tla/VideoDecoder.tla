---------------------------- MODULE VideoDecoder ----------------------------
(***************************************************************************)
(* VideoDecoder and VideoDecoderWorker (video_decoder.h, video_decoder.cpp)*)
(* over the frame of Codec and the handlers of CodecHandlers.  The JS      *)
(* thread runs the methods, the TSFN handlers and Release; the worker runs *)
(* WorkerLoop and the message handlers.                                    *)
(***************************************************************************)
EXTENDS Decoder

VARIABLES
  saturated,  \* codec_saturated_, written but never read
  received    \* received_frame, a local of OnDecode

saturation == <<saturated, received>>

vars == <<coreVars, decoderVars, saturation>>

Init == DecoderInit /\ saturated = FALSE /\ received = FALSE

-----------------------------------------------------------------------------
(* Methods: the JS thread.                                                 *)

Configure(cfg) ==
  /\ \/ ConfigureUnsupported(cfg)
     \/ ConfigureSupported(cfg) /\ SetBlocked(~qclosed)
  /\ UNCHANGED saturation

Decode(key) ==
  /\ DecodeChunk(key) \/ DecodeMalformed(key)
  /\ UNCHANGED saturation

Flush == FlushDecoder /\ UNCHANGED saturation

Reset == ResetDecoder /\ UNCHANGED saturation

(* close(), or the destructor: no promise is rejected before Release.      *)
Close ==
  /\ BeginRelease /\ UNCHANGED flushVars
  /\ UNCHANGED <<decoderVars, saturation>>

CloseTwice == CloseAgain /\ UNCHANGED <<decoderVars, saturation>>

Release == ReleaseStep /\ UNCHANGED <<decoderVars, saturation>>

-----------------------------------------------------------------------------
(* TSFN handlers: the JS thread, called by the event loop.                 *)

OnOutputFrame == DeliverOutput /\ UNCHANGED <<decoderVars, saturation>>
OnError == DeliverError /\ UNCHANGED <<decoderVars, saturation>>
OnFlushComplete == DeliverFlush /\ UNCHANGED <<decoderVars, saturation>>
OnDequeue == DeliverDequeue /\ UNCHANGED <<decoderVars, saturation>>
OnCallbackReturn == CallbackReturn /\ UNCHANGED <<decoderVars, saturation>>

-----------------------------------------------------------------------------
(* The worker thread.                                                      *)

(* active_config_ is read in place, and at each of the two steps.  A scope *)
(* guard lowers blocked_ when the handler returns.                         *)
OnConfigure ==
  /\ ConfigureRejects(active) \/ ConfigureAllocates(active) \/ ConfigureOpens(active)
  /\ blocked' = (blocked /\ wpc' # "top")
  /\ UNCHANGED <<keyReq, saturation>>

(* The early ends of OnDecode return at once: the queue size stays as it   *)
(* is.                                                                     *)
OnDecodeEndsEarly ==
  /\ \/ WorkSkips /\ UNCHANGED saturation
     \/ WorkSendFails /\ UNCHANGED saturation
     \/ WorkAllocFails /\ saturated' = (saturated \/ SendRefuses) /\ UNCHANGED received
     \/ WorkReceiveFails /\ received' = FALSE /\ UNCHANGED saturated
  /\ Return
  /\ UNCHANGED <<blocked, keyReq>>

OnDecodeSends ==
  /\ WorkSends
  /\ saturated' = (saturated \/ SendRefuses)
  /\ received' = FALSE
  /\ UNCHANGED <<blocked, keyReq>>

OnDecodeReceives ==
  /\ WorkReceives
  /\ received' = TRUE
  /\ UNCHANGED <<blocked, keyReq, saturated>>

(* Mutant: a chunk that produced no frame is not counted as done.          *)
OnDecodeReceivesNoneUncounted ==
  /\ wpc = "receive"
  /\ shouldExit \/ ReceiveAgain
  /\ IF received THEN Goto("count") ELSE Return
  /\ received' = FALSE
  /\ UNCHANGED <<Untouched, tsfnVars, sizeVars, ctxVars, blocked, keyReq, saturated>>

OnDecodeReceivesNoMore ==
  /\ WorkReceivesNoMore
  /\ saturated' = (saturated /\ ~received)
  /\ received' = FALSE
  /\ UNCHANGED <<blocked, keyReq>>

OnDecodeFinishes ==
  /\ WorkCounts \/ WorkSignals
  /\ UNCHANGED <<blocked, keyReq, saturation>>

OnDecode ==
  \/ OnDecodeEndsEarly
  \/ OnDecodeSends \/ OnDecodeReceives \/ OnDecodeReceivesNoMore
  \/ OnDecodeFinishes

OnFlush == HandleFlush /\ UNCHANGED <<blocked, keyReq, saturation>>

OnReset == HandleReset /\ FlushBuffers /\ UNCHANGED <<blocked, keyReq, saturation>>

Worker ==
  \/ WorkerLoop /\ UNCHANGED <<decoderVars, saturation>>
  \/ OnConfigure \/ OnDecode \/ OnFlush \/ OnReset

-----------------------------------------------------------------------------

Next ==
  \/ \E cfg \in Config : Configure(cfg)
  \/ \E key \in BOOLEAN : Decode(key)
  \/ Flush \/ Reset \/ Close \/ CloseTwice \/ Release
  \/ OnOutputFrame \/ OnError \/ OnFlushComplete \/ OnDequeue \/ OnCallbackReturn
  \/ Worker

Spec == Init /\ [][Next]_vars

(* The operating system runs the worker thread; the JS thread gets on with *)
(* a Release it is in; callbacks return; and the event loop serves every   *)
(* TSFN that has something queued.  JavaScript need not call anything.     *)
Fairness ==
  /\ WF_vars(Worker)
  /\ WF_vars(Release)
  /\ WF_vars(OnCallbackReturn)
  /\ WF_vars(OnOutputFrame)
  /\ WF_vars(OnError)
  /\ WF_vars(OnFlushComplete)
  /\ WF_vars(OnDequeue)

FairSpec == Spec /\ Fairness

-----------------------------------------------------------------------------

(* The types of all variables.                                             *)
TypeOK ==
  /\ CoreTypeOK
  /\ HandlerType
  /\ keyReq \in BOOLEAN
  /\ saturated \in BOOLEAN
  /\ received \in BOOLEAN
=============================================================================
