------------------------ MODULE MCSessionRenewal ------------------------
EXTENDS SessionRenewal, TLC

\* Processes are told apart by nothing but their identity.
Alike == Permutations(Processes)
=============================================================================
