---------------------------- MODULE VideoEncoder ----------------------------
(***************************************************************************)
(* VideoEncoder and VideoEncoderWorker (video_encoder.h, video_encoder.cpp)*)
(* over the frame of Codec, the handlers of CodecHandlers and Encoder.     *)
(***************************************************************************)
EXTENDS Encoder

VARIABLES
  orientation, \* active_orientation_: "none" or the only one frames ever have
  saturated,   \* codec_saturated_, written but never read
  received,    \* received_packet, a local of OnEncode
  started,     \* whether the open FFmpeg encoder has put out a packet
  copies,      \* codec_, width_ and height_ of the worker
  meta         \* the decoder config in the OutputData of each input

packetVars == <<started, copies, meta>>
saturation == <<saturated, received>>

vars == <<coreVars, encoderVars, orientation, saturation, packetVars>>

Init ==
  /\ EncoderInit
  /\ orientation = "none"
  /\ saturated = FALSE
  /\ received = FALSE
  /\ started = FALSE
  /\ copies = NoConfig
  /\ meta = [n \in Inputs |-> NoConfig]

-----------------------------------------------------------------------------
(* Methods: the JS thread.                                                 *)

Configure(cfg) ==
  /\ \/ ConfigureThrows(cfg) /\ UNCHANGED orientation
     \/ /\ ConfigureSupported(cfg)
        /\ SetBlocked(~qclosed)
        /\ orientation' = "none"
  /\ UNCHANGED <<saturation, packetVars>>

(* The orientation of every frame is taken to be 0 degrees, not flipped:   *)
(* the first encode() sets it, and no later one can differ from it.        *)
Encode(key) ==
  /\ EncodeFrame(key) /\ orientation' = "upright"
  /\ UNCHANGED <<saturation, packetVars>>

EncodeClosed ==
  EncodeClosedFrame /\ UNCHANGED <<orientation, saturation, packetVars>>

Flush ==
  /\ RequestFlush
  /\ UNCHANGED <<encoderVars, orientation, saturation, packetVars>>

Reset ==
  /\ ResetAll
  /\ orientation' = "none"
  /\ UNCHANGED <<encoderVars, saturation, packetVars>>

(* close(), or the destructor: no promise is rejected before Release.      *)
Close ==
  /\ BeginRelease /\ UNCHANGED flushVars
  /\ UNCHANGED <<encoderVars, orientation, saturation, packetVars>>

CloseTwice ==
  CloseAgain /\ UNCHANGED <<encoderVars, orientation, saturation, packetVars>>

Release ==
  /\ \/ StopWorker /\ UNCHANGED orientation
     \/ FinishRelease /\ orientation' = "none"
  /\ UNCHANGED <<encoderVars, saturation, packetVars>>

-----------------------------------------------------------------------------
(* TSFN handlers: the JS thread, called by the event loop.                 *)

(* The decoder config is the one in the OutputData.                        *)
OnOutputChunk ==
  /\ DeliverOutput
  /\ told' = IF state = "closed" \/ meta[Head(outQ)] = NoConfig
             THEN told ELSE meta[Head(outQ)]
  /\ UNCHANGED <<handlerVars, firstOut, encCfg, orientation, saturation, packetVars>>

OnError ==
  DeliverError /\ UNCHANGED <<encoderVars, orientation, saturation, packetVars>>
OnFlushComplete ==
  DeliverFlush /\ UNCHANGED <<encoderVars, orientation, saturation, packetVars>>
OnDequeue ==
  DeliverDequeue /\ UNCHANGED <<encoderVars, orientation, saturation, packetVars>>
OnCallbackReturn ==
  CallbackReturn /\ UNCHANGED <<encoderVars, orientation, saturation, packetVars>>

-----------------------------------------------------------------------------
(* The worker thread.                                                      *)

(* Copying active_config_ takes two reads, of the codec and of the rest;   *)
(* what the handler does in between is its own.  The dimensions are kept   *)
(* before the encoder is open, the codec string after.                     *)
OnConfigure ==
  /\ EncoderConfigures
  /\ blocked' = (blocked /\ wpc' # "top")
  /\ copies' = IF wpc = "open"
               THEN [codec |-> IF ctx' = "open" THEN ctxCfg.codec ELSE copies.codec,
                     desc  |-> active.desc]
               ELSE copies
  /\ started' = (started /\ wpc # "open")
  /\ UNCHANGED <<orientation, saturation, meta>>

(* The early ends of OnEncode return at once: the queue size stays.        *)
OnEncodeEndsEarly ==
  /\ \/ WorkSkips /\ UNCHANGED <<saturation, encCfg>>
     \/ WorkSendFails /\ UNCHANGED <<saturation, encCfg>>
     \/ WorkAllocFails /\ NoteContext /\ saturated' = (saturated \/ SendRefuses)
          /\ UNCHANGED received
     \/ WorkReceiveFails /\ received' = FALSE /\ UNCHANGED <<saturated, encCfg>>
  /\ Return
  /\ UNCHANGED <<blocked, firstOut, told, orientation, packetVars>>

OnEncodeSends ==
  /\ WorkSends
  /\ NoteContext
  /\ saturated' = (saturated \/ SendRefuses)
  /\ received' = FALSE
  /\ UNCHANGED <<blocked, firstOut, told, orientation, packetVars>>

(* Mutant: OutputChunk takes the config of the encoder object.             *)
OnEncodeReceivesActive ==
  /\ WorkReceives
  /\ \E key \in BOOLEAN :
       /\ started \/ key
       /\ meta' = IF firstOut /\ key THEN [meta EXCEPT ![Head(buf)] = active] ELSE meta
       /\ firstOut' = (firstOut /\ ~key)
  /\ started' = TRUE
  /\ received' = TRUE
  /\ UNCHANGED <<blocked, encCfg, told, orientation, saturated, copies>>

(* A packet: the first one of an encoder is a key frame, of a later one    *)
(* the encoder decides.  The first key frame carries the decoder config,   *)
(* from the worker's own copies, and the flag is lowered even if the clone *)
(* that would carry it cannot be allocated.                                *)
OnEncodeReceives ==
  /\ WorkReceives
  /\ \E key \in BOOLEAN :
       /\ started \/ key
       /\ meta' = IF firstOut /\ key THEN [meta EXCEPT ![Head(buf)] = copies] ELSE meta
       /\ firstOut' = (firstOut /\ ~key)
  /\ started' = TRUE
  /\ received' = TRUE
  /\ UNCHANGED <<blocked, encCfg, told, orientation, saturated, copies>>

OnEncodeReceivesNoMore ==
  /\ WorkReceivesNoMore
  /\ saturated' = (saturated /\ ~received)
  /\ received' = FALSE
  /\ UNCHANGED <<blocked, firstOut, encCfg, told, orientation, packetVars>>

OnEncodeFinishes ==
  /\ WorkCounts \/ WorkSignals
  /\ UNCHANGED <<blocked, firstOut, encCfg, told, orientation, saturation, packetVars>>

OnEncode ==
  \/ OnEncodeEndsEarly
  \/ OnEncodeSends \/ OnEncodeReceives \/ OnEncodeReceivesNoMore
  \/ OnEncodeFinishes

(* The packets a flush drains never carry a decoder config.                *)
OnFlush ==
  /\ HandleFlush
  /\ started' = (started \/ buf' # buf)
  /\ UNCHANGED <<blocked, firstOut, encCfg, told, orientation, saturation, copies, meta>>

OnReset ==
  /\ EncoderResets
  /\ UNCHANGED <<blocked, orientation, saturation, packetVars>>

Worker ==
  \/ WorkerLoop /\ UNCHANGED <<encoderVars, orientation, saturation, packetVars>>
  \/ OnConfigure \/ OnEncode \/ OnFlush \/ OnReset

-----------------------------------------------------------------------------

Next ==
  \/ \E cfg \in Config : Configure(cfg)
  \/ \E key \in BOOLEAN : Encode(key)
  \/ EncodeClosed
  \/ Flush \/ Reset \/ Close \/ CloseTwice \/ Release
  \/ OnOutputChunk \/ OnError \/ OnFlushComplete \/ OnDequeue \/ OnCallbackReturn
  \/ Worker

Spec == Init /\ [][Next]_vars

-----------------------------------------------------------------------------

(* The types of all variables.                                             *)
TypeOK ==
  /\ CoreTypeOK
  /\ EncoderType
  /\ orientation \in {"none", "upright"}
  /\ saturated \in BOOLEAN
  /\ received \in BOOLEAN
  /\ started \in BOOLEAN
  /\ copies \in Config
  /\ meta \in [Inputs -> Config]

(* A decoder config on its way to JavaScript is the one of the encoder     *)
(* that made the packet, although configure() may have been called, and    *)
(* handled, since: OutputChunk only uses the worker's own copies.          *)
MetadataDescribesPacket ==
  \A i \in DOMAIN outQ :
    meta[outQ[i]] # NoConfig => meta[outQ[i]] = encCfg[outQ[i]]
=============================================================================
