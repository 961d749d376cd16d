----------------------------- MODULE MCSdmaChan -----------------------------
(* SdmaChan with two processes and two channels.                           *)
EXTENDS SdmaChan
CONSTANTS p1, p2, c1, c2
MCProc == {p1, p2}
MCChannel == {c1, c2}
=============================================================================
