----------------------------- MODULE MCCrossRace -----------------------------
\* A party of two waits for lodge A, which has one bed, and would accept B; a
\* booking at B that is given up makes the offer, and two requests confirm it.
EXTENDS Waitlist, TLC

MCHome == <<"B", "A">>
MCOwner == [e \in Entries |-> e]
MCStay == [e \in Entries |-> {0}]
MCParty == [e \in Entries |-> [n \in Nights |-> IF e = 1 THEN {"g"} ELSE {"g", "h"}]]
MCAlternates == <<{}, {"B"}>>
MCCopyOf == [c \in Copies |-> 2]
MCBeds == [l \in Lodges |-> IF l = "A" THEN 1 ELSE 4]
MCSymmetry == Permutations(Requests) \cup Permutations(Copies)
=============================================================================
