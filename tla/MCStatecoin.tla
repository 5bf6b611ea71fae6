----------------------------- MODULE MCStatecoin -----------------------------
(* Instances of Statecoin for TLC. *)
EXTENDS Statecoin, TLC

CONSTANTS A, B, C

MCUsers == {A, B, C}

\* The receivers are interchangeable; the depositor is not.
Symmetry == Permutations({B, C})
=============================================================================
