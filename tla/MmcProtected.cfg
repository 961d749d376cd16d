SPECIFICATION Spec
CONSTANTS
  Requests = {r1}
  Kinds = {"write", "unitReady"}
  Cards <- MCProtectedCards
  Hosts <- MCHosts
  MaxStage = 5
  MaxPulses = 2
  None = None
INVARIANT ProtectedKnown
