--------------------------- MODULE MCImageDecoder ---------------------------
(* ImageDecoder with two interleaved tracks of two and one frames, in two  *)
(* chunks of which the first holds one frame or none, for TLC.             *)
EXTENDS ImageDecoder

MCFile == <<1, 2, 1>>
MCFrameCount == <<2, 1>>
MCReadable == [n \in 0 .. 2 |-> <<0, 1, 3>>[n + 1]]
MCNothingFirst == [n \in 0 .. 2 |-> IF n = 2 THEN 3 ELSE 0]
MCFaults == {"open", "switch", "seek", "decode"}
=============================================================================
