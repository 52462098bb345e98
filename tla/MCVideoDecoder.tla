--------------------------- MODULE MCVideoDecoder ---------------------------
(* VideoDecoder with the sets of MCCodec, for TLC.                         *)
EXTENDS VideoDecoder, MCCodec
=============================================================================
