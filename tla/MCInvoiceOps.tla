---------------------------- MODULE MCInvoiceOps -----------------------------
\* One booking, two rows, two passes alive at a time.
EXTENDS XeroInvoiceOps, TLC

MCSymmetry == Permutations(Runs)
=============================================================================
