SPECIFICATION TxSpec
CONSTANTS
  NumTx = 4
  DEFRAG_LIMIT = 2
  MaxIov = 3
  Senders = {s1, s2}
  Driver = d
  Packets = {p1, p2, p3}
  Copies = {c1}
  None = None
SYMMETRY Symmetry
INVARIANTS
  ReleasedAfterUse
