--------------------------- MODULE MCResourcePool ---------------------------
(* ResourcePool with three frames of two sizes, for TLC.                   *)
EXTENDS ResourcePool

MCSizes == {0, 1, 2}
=============================================================================
