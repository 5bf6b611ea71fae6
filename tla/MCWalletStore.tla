---------------------------- MODULE MCWalletStore ----------------------------
(* An instance of WalletStore for TLC. *)
EXTENDS WalletStore

CONSTANTS k1, k2

MCCommands == {k1, k2}
=============================================================================
