------------------------------ MODULE MCDeposit ------------------------------
(* Deposit with two tokens and four requests. *)
EXTENDS Deposit, TLC
CONSTANTS t1, t2, r1, r2, r3, r4

TwoTokens == {t1, t2}
FourRequests == {r1, r2, r3, r4}
Symmetry == Permutations(TwoTokens) \cup Permutations(FourRequests)
=============================================================================
