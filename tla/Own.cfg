SPECIFICATION Spec
CONSTANTS
  Entries = {1, 2, 3}
  Copies = {}
  CopyOf <- MCCopyOf
  Lodges = {"A"}
  NoLodge = "none"
  NoRow = 0
  Nights = {0, 1}
  Guests = {"g"}
  Requests = {r1, r2}
  Home <- MCHome
  Owner <- MCOwner
  Stay <- MCStay
  Party <- MCParty
  Alternates <- MCAlternates
  Free = {2}
  Beds <- MCBeds
  CrossOrder = "OWN_FIRST"
  CreateAs = {"PENDING", "PAYMENT_PENDING", "CONFIRMED", "AWAITING_REVIEW"}
  LastDay = 2
  Faults = {"tx", "crash", "read", "audit"}
SYMMETRY MCSymmetry
INVARIANTS
  TypeOK
  WithinCeiling
  WaitingEntryIsClean
PROPERTIES
  LedgerSpec
  RepairSparesLiveConfirm
