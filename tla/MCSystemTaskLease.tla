------------------------- MODULE MCSystemTaskLease -------------------------
(* Instances of SystemTaskLease for TLC.                                    *)
EXTENDS SystemTaskLease, TLC

\* Tasks and runners are interchangeable.
Symmetry == Permutations(Tasks) \cup Permutations(Runners)
=============================================================================
