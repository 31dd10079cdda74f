---------------------------- MODULE MCSavedCard ------------------------------
\* One pending booking, two callers, two saved cards, two attempt rows and two intents.
EXTENDS SavedCardCharge, TLC

MCSymmetry == Permutations(Callers)
=============================================================================
