---------------------------- MODULE MCPrewarmPool ----------------------------
(***************************************************************************)
(* Finite instances of PrewarmPool for TLC.                                *)
(***************************************************************************)
EXTENDS PrewarmPool, TLC

\* Callers are interchangeable.
Symmetry == Permutations(Borrower)
=============================================================================
