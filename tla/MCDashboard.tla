----------------------------- MODULE MCDashboard -----------------------------
EXTENDS Dashboard, TLC

Symmetric == Permutations(Requests)
=============================================================================
