-------------------------------- MODULE MCOwn --------------------------------
\* One lodge with one bed and two nights: a stay of both nights, a free stay of
\* the first night, and another stay of both.
EXTENDS Waitlist, TLC

MCHome == [e \in Entries |-> "A"]
MCOwner == [e \in Entries |-> e]
MCStay == [e \in Entries |-> IF e = 2 THEN {0} ELSE {0, 1}]
MCParty == [e \in Entries |-> [n \in Nights |-> IF n \in MCStay[e] THEN {"g"} ELSE {}]]
MCAlternates == [e \in Entries |-> {}]
MCCopyOf == [c \in {} |-> 1]
MCBeds == [l \in Lodges |-> 1]
MCSymmetry == Permutations(Requests)
=============================================================================
