SPECIFICATION Spec
CONSTANTS
  Requests = {r1, r2}
  Kinds = {"readN", "write", "unitReady"}
  Cards <- MCCards
  Hosts <- MCHosts
  MaxStage = 3
  MaxPulses = 2
  None = None
INVARIANTS RequestHeld NoneForgotten
PROPERTIES DoneMeansDone
SYMMETRY Symmetry
