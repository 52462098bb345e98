--------------------------- MODULE MCVideoEncoder ---------------------------
(* VideoEncoder with the sets of MCCodec, for TLC.  No description is      *)
(* special, so that they may be permuted.                                  *)
EXTENDS VideoEncoder, MCCodec, TLC

MCAnyDescription == Permutations(Descriptions)
=============================================================================
