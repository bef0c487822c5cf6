----------------------------- MODULE MCMPMCRing -----------------------------
(***************************************************************************)
(* MPMCRing on small instances.                                            *)
(***************************************************************************)
EXTENDS MPMCRing, TLC

\* Threads run the same code and items are only moved about.
Symmetry == Permutations(Threads) \cup Permutations(Items)
=============================================================================
