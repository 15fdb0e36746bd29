------------------------ MODULE MCTokenSessions ------------------------
(* Small instances of TokenSessions for TLC.                            *)
EXTENDS TokenSessions, TLC

Symmetry == Permutations(Chain) \cup Permutations(Handler)
========================================================================
