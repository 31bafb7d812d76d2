----------------------------- MODULE MCAppSync -----------------------------
(* Instances of AppSync for TLC.                                            *)
EXTENDS AppSync, TLC

\* Browsers, projects, media and syncs are interchangeable.
Symmetry == Permutations(Devices) \cup Permutations(Projects) \cup Permutations(Files)
              \cup Permutations(Runs)
=============================================================================
