---------------------------- MODULE MCTaskPolling ----------------------------
(* Instances of TaskPolling for TLC.                                        *)
EXTENDS TaskPolling, TLC

\* Workers are interchangeable.
Symmetry == Permutations(Workers)
=============================================================================
