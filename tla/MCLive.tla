------------------------------- MODULE MCLive --------------------------------
\* Two lodges, one night: a party of two waits for lodge A, which has one bed,
\* and would accept B; entry 1 fills B and may give it up, and entry 3 wants one
\* of the two beds at B as well.
EXTENDS Waitlist, TLC

MCHome == <<"B", "A", "B">>
MCOwner == [e \in Entries |-> e]
MCStay == [e \in Entries |-> {0}]
MCParty == [e \in Entries |-> [n \in Nights |-> IF e = 3 THEN {"g"} ELSE {"g", "h"}]]
MCAlternates == <<{}, {"B"}, {}>>
MCCopyOf == [c \in Copies |-> 2]
MCBeds == [l \in Lodges |-> IF l = "A" THEN 1 ELSE 2]
=============================================================================
