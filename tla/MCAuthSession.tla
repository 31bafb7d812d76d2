--------------------------- MODULE MCAuthSession ---------------------------
(* Instances of AuthSession for TLC.                                        *)
EXTENDS AuthSession, TLC

\* Tabs and sessions are interchangeable.
Symmetry == Permutations(Tabs) \cup Permutations(Sids)
=============================================================================
