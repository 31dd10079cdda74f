----------------------------- MODULE MCTokenLease -----------------------------
\* Two calls of one process and one of another.
EXTENDS XeroTokenLease, TLC

CONSTANTS c1, c2, c3, p1, p2
MCProcessOf == (c1 :> p1) @@ (c2 :> p1) @@ (c3 :> p2)
MCSymmetry == Permutations({c1, c2})
=============================================================================
