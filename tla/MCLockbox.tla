------------------------------ MODULE MCLockbox ------------------------------
(* Four calls of the key service, with and without the mutex. *)
EXTENDS Lockbox

CONSTANTS k1, k2, k3, k4

FourCalls == {k1, k2, k3, k4}
=============================================================================
