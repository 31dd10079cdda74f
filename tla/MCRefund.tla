------------------------------ MODULE MCRefund -------------------------------
\* One refund owed, at most three refunds made for it, two runners.
EXTENDS CardRefundInvariant, TLC

MCSymmetry == Permutations(Workers)
=============================================================================
