------------------------------ MODULE Encoder ------------------------------
(***************************************************************************)
(* What VideoEncoder and AudioEncoder add to the common frame in the same  *)
(* way: the required members of the config, and the decoder config that    *)
(* goes to JavaScript with the first output after a configure or a reset.  *)
(*                                                                         *)
(* In a config of an encoder, "desc" stands for the members configure()    *)
(* requires (width and height, sampleRate and numberOfChannels); Absent    *)
(* means that one of them is not positive.  Optional members are left out. *)
(***************************************************************************)
EXTENDS CodecHandlers

VARIABLES
  firstOut,  \* first_output_after_configure_ of the worker
  encCfg,    \* history: what the context that took input n was set up with
  told       \* history: the decoder config JavaScript received last

encoderVars == <<handlerVars, firstOut, encCfg, told>>

EncoderInit ==
  /\ CoreInit /\ HandlerInit
  /\ firstOut = TRUE
  /\ encCfg = [n \in Inputs |-> NoConfig]
  /\ told = NoConfig

-----------------------------------------------------------------------------
(* Methods.                                                                *)

(* configure() that throws because a required member is not positive, or   *)
(* because the codec is not supported: active_config_ was overwritten.     *)
ConfigureThrows(cfg) ==
  /\ cfg.codec \in Codecs
  /\ cfg.desc = Absent \/ cfg.codec \in UnsupportedCodecs
  /\ RefuseConfigure
  /\ active' = cfg
  /\ UNCHANGED <<ctxVars, firstOut, encCfg, told>>

ConfigureSupported(cfg) ==
  /\ cfg.codec \in SupportedCodecs
  /\ cfg.desc # Absent
  /\ AcceptConfigure(cfg)
  /\ active' = cfg
  /\ UNCHANGED <<ctxVars, firstOut, encCfg, told>>

(* The frame is cloned, so that the caller may close its own at once.      *)
EncodeFrame(key) == AcceptInput("encode", key) /\ UNCHANGED encoderVars

(* encode() of a closed frame throws before it changes anything.           *)
EncodeClosedFrame == RefuseInput /\ UNCHANGED encoderVars

-----------------------------------------------------------------------------
(* The worker's handlers.                                                  *)

(* Mutant: a new configuration does not ask for a new decoder config.      *)
EncoderOpensKeepsFirst ==
  /\ ConfigureOpens(active)
  /\ UNCHANGED <<firstOut, encCfg, told>>

(* OnConfigure's last part: the flag is raised once the encoder is open.   *)
EncoderOpens ==
  /\ ConfigureOpens(active)
  /\ firstOut' = (firstOut \/ ctx' = "open")
  /\ UNCHANGED <<encCfg, told>>

EncoderConfigures ==
  \/ /\ ConfigureRejects(active) \/ ConfigureAllocates(active)
     /\ UNCHANGED <<firstOut, encCfg, told>>
  \/ EncoderOpens

(* The history of the context that takes a frame, next to the send.        *)
NoteContext ==
  encCfg' = IF SendTakes THEN [encCfg EXCEPT ![msg.id] = ctxCfg] ELSE encCfg

(* avcodec_flush_buffers on an encoder: one without                        *)
(* AV_CODEC_CAP_ENCODER_FLUSH ignores the call.                            *)
FlushEncoder == FlushBuffers \/ UNCHANGED <<ctx, buf>>

EncoderResets ==
  /\ HandleReset
  /\ FlushEncoder
  /\ firstOut' = TRUE
  /\ UNCHANGED <<encCfg, told>>

-----------------------------------------------------------------------------
(* Properties.                                                             *)

EncoderType ==
  /\ HandlerType
  /\ firstOut \in BOOLEAN
  /\ encCfg \in [Inputs -> Config]
  /\ told \in Config

(* JavaScript knows how to decode what it received last: the decoder       *)
(* config it was told last is the one the encoder used ([[active output    *)
(* config]] "describes how to decode the most recently emitted" chunk,     *)
(* 6.1-internal-slots.md:28).                                              *)
KnowsDecoderConfig == lastOut # 0 => told = encCfg[lastOut]

(* So it is as long as nobody calls flush(), whose outputs never carry a   *)
(* config: the flag the worker raises in OnConfigure and OnReset meets the *)
(* first output of the new encoder, whatever is still on its way.          *)
KnowsDecoderConfigWithoutFlush == nextFlush = 0 => KnowsDecoderConfig
=============================================================================
