---------------------------- MODULE MCKeyTransfer ----------------------------
(* KeyTransfer with a depositor and two further addresses.  The shares are  *)
(* chosen so that no two sums of them coincide.                             *)
EXTENDS KeyTransfer, TLC
CONSTANTS A, B, C, r1, r2, r3, r4

ThreeUsers == {A, B, C}
Shares == A :> 3 @@ B :> 50 @@ C :> 700
RandomX1s == {9000, 20000}
FourRequests == {r1, r2, r3, r4}
Symmetry == Permutations(FourRequests)
=============================================================================
