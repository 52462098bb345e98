---------------------------- MODULE AudioEncoder ----------------------------
(***************************************************************************)
(* AudioEncoder and AudioEncoderWorker (audio_encoder.h, audio_encoder.cpp)*)
(* over the frame of Codec, the handlers of CodecHandlers and Encoder.  It *)
(* differs from VideoEncoder where AudioDecoder differs from VideoDecoder: *)
(* close() rejects the pending flushes, every path of OnEncode counts the  *)
(* frame as done, and nothing is blocked.  And the OutputData only says    *)
(* whether a decoder config goes with it: OnOutputChunk takes it from      *)
(* active_config_, on the JS thread.                                       *)
(***************************************************************************)
EXTENDS Encoder

VARIABLE
  included   \* inputs whose OutputData has include_decoder_config set

vars == <<coreVars, encoderVars, included>>

Init == EncoderInit /\ included = {}

-----------------------------------------------------------------------------
(* Methods: the JS thread.                                                 *)

Configure(cfg) ==
  /\ ConfigureThrows(cfg) \/ (ConfigureSupported(cfg) /\ UNCHANGED blocked)
  /\ UNCHANGED included

(* Audio has no keyFrame option.                                           *)
Encode == EncodeFrame(FALSE) /\ UNCHANGED included

EncodeClosed == EncodeClosedFrame /\ UNCHANGED included

Flush == RequestFlush /\ UNCHANGED <<encoderVars, included>>

Reset == ResetAll /\ UNCHANGED <<encoderVars, included>>

Close == BeginRelease /\ RejectFlushes /\ UNCHANGED <<encoderVars, included>>

CloseTwice == CloseAgain /\ UNCHANGED <<encoderVars, included>>

Release == ReleaseStep /\ UNCHANGED <<encoderVars, included>>

-----------------------------------------------------------------------------
(* TSFN handlers: the JS thread, called by the event loop.                 *)

(* The decoder config is made of active_config_ as it is now.              *)
OnOutputChunk ==
  /\ DeliverOutput
  /\ told' = IF state # "closed" /\ Head(outQ) \in included THEN active ELSE told
  /\ UNCHANGED <<handlerVars, firstOut, encCfg, included>>

OnError == DeliverError /\ UNCHANGED <<encoderVars, included>>
OnFlushComplete == DeliverFlush /\ UNCHANGED <<encoderVars, included>>
OnDequeue == DeliverDequeue /\ UNCHANGED <<encoderVars, included>>
OnCallbackReturn == CallbackReturn /\ UNCHANGED <<encoderVars, included>>

-----------------------------------------------------------------------------
(* The worker thread.                                                      *)

OnConfigure == EncoderConfigures /\ UNCHANGED <<blocked, included>>

(* Mutant: the early ends of OnEncode return at once, as in VideoEncoder.  *)
OnEncodeEndsEarlyUncounted ==
  /\ \/ WorkSkips \/ WorkSendFails \/ WorkReceiveFails
     \/ WorkAllocFails
  /\ UNCHANGED encCfg
  /\ Return
  /\ UNCHANGED <<blocked, firstOut, told, included>>

(* The early ends of OnEncode call signal_dequeue_on_exit, as its normal   *)
(* end does.                                                               *)
OnEncodeEndsEarly ==
  /\ \/ (WorkSkips \/ WorkSendFails \/ WorkReceiveFails) /\ UNCHANGED encCfg
     \/ WorkAllocFails /\ NoteContext
  /\ Goto("count")
  /\ UNCHANGED <<blocked, firstOut, told, included>>

OnEncodeSends ==
  /\ WorkSends
  /\ NoteContext
  /\ UNCHANGED <<blocked, firstOut, told, included>>

(* Mutant: the flag is lowered before it is read.                          *)
OnEncodeReceivesLate ==
  /\ WorkReceives
  /\ firstOut' = FALSE
  /\ included' = IF firstOut' THEN included \cup {Head(buf)} ELSE included
  /\ UNCHANGED <<blocked, encCfg, told>>

(* Every packet counts as a key frame, so the first one takes the config   *)
(* with it, and the flag is lowered even if its clone is not allocated.    *)
OnEncodeReceives ==
  /\ WorkReceives
  /\ included' = IF firstOut THEN included \cup {Head(buf)} ELSE included
  /\ firstOut' = FALSE
  /\ UNCHANGED <<blocked, encCfg, told>>

OnEncodeFinishes ==
  /\ WorkReceivesNoMore \/ WorkCounts \/ WorkSignals
  /\ UNCHANGED <<blocked, firstOut, encCfg, told, included>>

OnEncode ==
  OnEncodeEndsEarly \/ OnEncodeSends \/ OnEncodeReceives \/ OnEncodeFinishes

(* The packets a flush drains never carry a decoder config.                *)
OnFlush ==
  HandleFlush /\ UNCHANGED <<blocked, firstOut, encCfg, told, included>>

OnReset == EncoderResets /\ UNCHANGED <<blocked, included>>

Worker ==
  \/ WorkerLoop /\ UNCHANGED <<encoderVars, included>>
  \/ OnConfigure \/ OnEncode \/ OnFlush \/ OnReset

-----------------------------------------------------------------------------

Next ==
  \/ \E cfg \in Config : Configure(cfg)
  \/ Encode \/ EncodeClosed
  \/ Flush \/ Reset \/ Close \/ CloseTwice \/ Release
  \/ OnOutputChunk \/ OnError \/ OnFlushComplete \/ OnDequeue \/ OnCallbackReturn
  \/ Worker

Spec == Init /\ [][Next]_vars

(* The operating system runs the worker thread, the JS thread gets on with *)
(* a Release it is in, callbacks return, and the event loop serves every   *)
(* TSFN that has something queued.  JavaScript need not call anything.     *)
Fairness ==
  /\ WF_vars(Worker)
  /\ WF_vars(Release)
  /\ WF_vars(OnCallbackReturn)
  /\ WF_vars(OnOutputChunk)
  /\ WF_vars(OnError)
  /\ WF_vars(OnFlushComplete)
  /\ WF_vars(OnDequeue)

FairSpec == Spec /\ Fairness

-----------------------------------------------------------------------------

(* The types of all variables.                                             *)
TypeOK == CoreTypeOK /\ EncoderType /\ included \subseteq Inputs

(* JavaScript knows how to decode what it received last, as long as        *)
(* flush() is not called and configure() only once: OnOutputChunk reads    *)
(* active_config_ on delivery, so a second configure() is enough to pair a *)
(* packet with the config of an encoder that has not even been opened.     *)
KnowsOnlyDecoderConfig == configures = 1 /\ nextFlush = 0 => KnowsDecoderConfig
=============================================================================
