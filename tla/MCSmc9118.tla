----------------------------- MODULE MCSmc9118 -----------------------------
(* Smc9118 with packets whose buffers take all alignments, and frames of   *)
(* one and two words.                                                      *)
EXTENDS Smc9118

SomePackets ==
  << <<[len |-> 1, off |-> 3], [len |-> 6, off |-> 1]>>,
     <<[len |-> 2, off |-> 0], [len |-> 1, off |-> 2]>>,
     <<[len |-> 2, off |-> 2]>> >>

SomeFrames == <<2, 1>>
=============================================================================
