--------------------------- MODULE MCBatchTransfer ---------------------------
(* BatchTransfer with a batch of two coins, one of them latched. *)
EXTENDS BatchTransfer
CONSTANTS c1, c2

TwoCoins == {c1, c2}
OneLatched == {c1}
NoneLatched == {}
=============================================================================
