----------------------------- MODULE MCMPMCTest -----------------------------
(***************************************************************************)
(* MPMCTest with two producers, two consumers and one value per producer.  *)
(***************************************************************************)
EXTENDS MPMCTest

CONSTANTS p1, p2, a, b

OneValueEach == [p \in {p1, p2} |-> IF p = p1 THEN <<a>> ELSE <<b>>]
=============================================================================
