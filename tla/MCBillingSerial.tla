-------------------------- MODULE MCBillingSerial --------------------------
EXTENDS BillingSerial, TLC
Symmetry == Permutations(BillIds) \cup Permutations(Keys)
=============================================================================
