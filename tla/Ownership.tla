------------------------------ MODULE Ownership ------------------------------
(***************************************************************************)
(* What a transfer promises about one coin, as seen through the server's   *)
(* two tables: the coin belongs to one address, only the owner offers it,  *)
(* and it passes only to the address of the owner's latest offer.          *)
(***************************************************************************)
CONSTANTS Users, Depositor, NoUser

VARIABLES owner, offer

NoOffer == [by |-> NoUser, to |-> NoUser]

Init == owner = Depositor /\ offer = NoOffer

Offer(u, v) ==
  /\ owner = u
  /\ offer' = [by |-> u, to |-> v]
  /\ UNCHANGED owner

Take ==
  /\ offer # NoOffer
  /\ owner' = offer.to
  /\ offer' = NoOffer

Next == Take \/ \E u, v \in Users : Offer(u, v)

Spec == Init /\ [][Next]_<<owner, offer>>
=============================================================================
