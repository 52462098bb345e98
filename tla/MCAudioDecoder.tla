--------------------------- MODULE MCAudioDecoder ---------------------------
(* AudioDecoder with the sets of MCCodec, for TLC.                         *)
EXTENDS AudioDecoder, MCCodec
=============================================================================
