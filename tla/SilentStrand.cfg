SPECIFICATION Spec
CONSTANTS
  Entries = {1, 2, 3}
  Copies = {}
  CopyOf <- MCCopyOf
  Lodges = {"A"}
  NoLodge = "none"
  NoRow = 0
  Nights = {0, 1}
  Guests = {"g"}
  Requests = {r1}
  Home <- MCHome
  Owner <- MCOwner
  Stay <- MCStay
  Party <- MCParty
  Alternates <- MCAlternates
  Free = {2}
  Beds <- MCBeds
  CrossOrder = "OWN_FIRST"
  CreateAs = {"CONFIRMED"}
  LastDay = 0
  Faults = {"crash"}
SYMMETRY MCSymmetry
INVARIANTS
  StrandIsReported
