---------------------------- MODULE MCHttpSessions ----------------------------
EXTENDS HttpSessions, TLC

Symmetry == Permutations(Requests) \cup Permutations(Addresses)
=============================================================================
