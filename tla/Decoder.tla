------------------------------ MODULE Decoder ------------------------------
(***************************************************************************)
(* What VideoDecoder and AudioDecoder add to the common frame in the same  *)
(* way: the key-chunk requirement, active_config_ in configure(), and the  *)
(* handling of flush and reset messages.                                   *)
(***************************************************************************)
EXTENDS CodecHandlers

CONSTANT
  MalformedChunks     \* whether JS also passes chunks that carry no data

ASSUME MalformedChunksAssumption == MalformedChunks \in BOOLEAN

VARIABLE
  keyReq     \* key_chunk_required_ of the decoder (the worker's is unused)

decoderVars == <<handlerVars, keyReq>>

DecoderInit == CoreInit /\ HandlerInit /\ keyReq = TRUE

(* configure() with a codec string that is not supported: it throws, after *)
(* active_config_ was overwritten.                                         *)
ConfigureUnsupported(cfg) ==
  /\ cfg.codec \in UnsupportedCodecs
  /\ RefuseConfigure
  /\ active' = Assign(cfg)
  /\ UNCHANGED <<ctxVars, keyReq>>

ConfigureSupported(cfg) ==
  /\ cfg.codec \in SupportedCodecs
  /\ AcceptConfigure(Assign(cfg))
  /\ active' = Assign(cfg)
  /\ keyReq' = (keyReq \/ ~qclosed)
  /\ UNCHANGED ctxVars

(* A chunk passes the key check when a key chunk is not required or it is  *)
(* one; passing it clears the requirement.                                 *)
PassesKeyCheck(key) == ~keyReq \/ key

DecodeChunk(key) ==
  /\ PassesKeyCheck(key)
  /\ AcceptInput("decode", key)
  /\ keyReq' = FALSE
  /\ UNCHANGED handlerVars

(* decode() of a chunk without data: it throws a TypeError, after the key  *)
(* check.                                                                  *)
DecodeMalformed(key) ==
  /\ MalformedChunks
  /\ PassesKeyCheck(key)
  /\ RefuseInput
  /\ keyReq' = FALSE
  /\ UNCHANGED handlerVars

(* Mutant: flush() does not require a key chunk next.                      *)
FlushDecoderKeepsKey == RequestFlush /\ UNCHANGED decoderVars

FlushDecoder == RequestFlush /\ keyReq' = TRUE /\ UNCHANGED handlerVars

ResetDecoder == ResetAll /\ keyReq' = TRUE /\ UNCHANGED handlerVars

-----------------------------------------------------------------------------

(* The first chunk the worker gets after a configure, flush or reset       *)
(* message is a key chunk (key_chunk_required_, which lives on the JS      *)
(* thread, against the messages the worker takes later).                   *)
Upcoming == <<msg>> \o queue

KeyChunkFirst ==
  \A i, j \in DOMAIN Upcoming :
    /\ i < j
    /\ Upcoming[i].type \in {"configure", "flush", "reset"}
    /\ Upcoming[j].type = "decode"
    /\ \A k \in i + 1 .. j - 1 : Upcoming[k].type # "decode"
    => Upcoming[j].key
=============================================================================
