--------------------------- MODULE MCAudioEncoder ---------------------------
(* AudioEncoder with the sets of MCCodec, for TLC.                         *)
EXTENDS AudioEncoder, MCCodec
=============================================================================
