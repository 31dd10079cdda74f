SPECIFICATION Spec
CONSTANTS
  c1 = c1
  c2 = c2
  c3 = c3
  p1 = p1
  p2 = p2
  Calls = {c1, c2, c3}
  Processes = {p1, p2}
  ProcessOf <- MCProcessOf
  NoCall = NoCall
  LeaseFor = 3
  Life = 2
  Overtake = FALSE
  MaxTime = 6
  MaxTokens = 3
SYMMETRY MCSymmetry
INVARIANTS
  TypeOK
  OneSpender
  StoredIsSpendable
  LeaseGuardsVersion
PROPERTIES
  StoreMovesOn
