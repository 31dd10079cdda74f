SPECIFICATION Spec
CONSTANTS
  Entries = {1, 2}
  Copies = {c1, c2}
  CopyOf <- MCCopyOf
  Lodges = {"A", "B"}
  NoLodge = "none"
  NoRow = 0
  Nights = {0}
  Guests = {"g", "h"}
  Requests = {r1, r2}
  Home <- MCHome
  Owner <- MCOwner
  Stay <- MCStay
  Party <- MCParty
  Alternates <- MCAlternates
  Free = {}
  Beds <- MCBeds
  CrossOrder = "MERGED"
  CreateAs = {"CONFIRMED"}
  LastDay = 0
  Faults = {"tx", "ack"}
SYMMETRY MCSymmetry
INVARIANTS
  OneReplacement
  BothAliveIsFlagged
