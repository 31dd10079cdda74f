SPECIFICATION LiveSpec
CONSTANTS
  Entries = {1, 2, 3}
  Copies = {c1}
  CopyOf <- MCCopyOf
  Lodges = {"A", "B"}
  NoLodge = "none"
  NoRow = 0
  Nights = {0}
  Guests = {"g", "h"}
  Requests = {r1}
  Home <- MCHome
  Owner <- MCOwner
  Stay <- MCStay
  Party <- MCParty
  Alternates <- MCAlternates
  Free = {3}
  Beds <- MCBeds
  CrossOrder = "MERGED"
  CreateAs = {"CONFIRMED"}
  LastDay = 0
  Faults = {"tx", "ack", "read"}
INVARIANTS
  StrandIsReported
PROPERTIES
  LedgerSpec
  SettledStaysSettled
  RepairsOnlyItsOffer
  LapsedOfferIsWithdrawn
  FreeClaimIsAnswered
