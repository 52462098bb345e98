------------------------------ MODULE MCCodec ------------------------------
(* Sets for checking the codec modules with TLC.                           *)
MCAlwaysStarts == {TRUE}
MCMayNotStart == {TRUE, FALSE}
MCNoFaults == {}
MCAllFaults == {"open", "alloc", "clone", "send", "receive"}
MCReportedFaults == {"open", "alloc", "send", "receive"}
MCOneCodec == {"vp8"}
MCUnknownCodec == {"unknown"}
MCNone == {}
MCOneDescription == {"d1"}
=============================================================================
