------------------------- MODULE MCBillingSession -------------------------
(* Instances of BillingSession for TLC.                                    *)
EXTENDS BillingSession, TLC

\* Requests are interchangeable.
Symmetry == Permutations(Requests)
=============================================================================
