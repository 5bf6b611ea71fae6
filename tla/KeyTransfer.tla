----------------------------- MODULE KeyTransfer -----------------------------
(***************************************************************************)
(* The server's transfer handlers for one coin, one action per SQL         *)
(* statement (or transaction) and per call of the enclave, so that the     *)
(* handlers of several requests interleave between any two of them and a   *)
(* handler may stop there.  Key shares are numbers, as in                  *)
(*   x1 random, t1 = o1 + x1, t2 = t1 - o2, s2 = s1 + t2 - x1,             *)
(* and a public key is known by its secret.                                *)
(***************************************************************************)
EXTENDS Integers

CONSTANTS Users,       \* transfer addresses
          Depositor, NoUser,
          Share,       \* the share o of each address
          X1s,         \* the values the random x1 of an offer may take
          Key,         \* the secret of the coin's key P
          Requests,    \* calls of /transfer/sender and /transfer/receiver
          MayStop      \* may a handler stop between two of its steps?

ASSUME UserAssumption == Depositor \in Users /\ NoUser \notin Users
ASSUME ShareAssumption == Share \in [Users -> Int] /\ X1s \subseteq Int /\ Key \in Int
ASSUME ModeAssumption == MayStop \in BOOLEAN

VARIABLES
  share,    \* the enclave's share
  data,     \* the statechain_data row: auth_xonly_public_key, server_public_key
  row,      \* the statechain_transfer row, and the key its request was signed by
  req,      \* the requests and their handlers' local variables
  held,     \* the addresses whose wallets hold the coin
  mishap    \* history, read by no action: the races and stops met so far

vars == <<share, data, row, req, held, mishap>>

NoMsg == [from |-> NoUser, t1 |-> 0]
NoRow == [by |-> NoUser, to |-> NoUser, x1 |-> 0, key_updated |-> FALSE, msg |-> NoMsg]
Unsent == [pc |-> "unsent", by |-> NoUser, to |-> NoUser, x1 |-> 0, t2 |-> 0, pub |-> 0]

\* Where a handler is inside the server, and past which steps.
Running == {"offering", "read", "fresh", "updated"}
PastRead == {"read", "fresh", "updated"}
PastCheck == {"fresh", "updated"}
Pcs == Running \cup {"unsent", "offered", "posted", "replied", "ok", "error"}

Init ==
  /\ share = Key - Share[Depositor]
  /\ data = [auth |-> Depositor, pub |-> Key - Share[Depositor]]
  /\ row = NoRow
  /\ req = [k \in Requests |-> Unsent]
  /\ held = {Depositor} /\ mishap = {}

Goto(k, p) == req' = [req EXCEPT ![k].pc = p]

-----------------------------------------------------------------------------
(* /transfer/sender and /transfer/update_msg *)

\* validate_signature: the request is signed with the owner's key.
Offer(k, u, v) ==
  /\ req[k] = Unsent
  /\ u \in held
  /\ data.auth = u
  /\ req' = [req EXCEPT ![k] = [Unsent EXCEPT !.pc = "offering", !.by = u, !.to = v]]
  /\ UNCHANGED <<share, data, row, held, mishap>>

\* What an offer may run into when it is entered: the coin has gone to another
\* owner since the signature was checked ("late"); a request of the receiver
\* for an earlier offer is on its way ("reoffered"); a handler has read the row
\* that is replaced ("replaced").
OfferMishaps(r) ==
  {m \in {"late", "reoffered", "replaced"} :
     CASE m = "late" -> data.auth # r.by
       [] m = "reoffered" -> \E j \in Requests : req[j].pc = "posted" /\ req[j].by = r.to
       [] m = "replaced" -> \E j \in Requests : req[j].pc \in PastRead}

\* insert_new_transfer: the coin's row is replaced, also one for the same
\* address (outside a batch the query that looks for such a row compares
\* batch_id with NULL and finds none); the reply carries x1.
InsertTransfer(k, x) ==
  LET r == req[k] IN
  /\ r.pc = "offering"
  /\ row' = [by |-> r.by, to |-> r.to, x1 |-> x, key_updated |-> FALSE, msg |-> NoMsg]
  /\ req' = [req EXCEPT ![k] = [r EXCEPT !.pc = "offered", !.x1 = x]]
  /\ mishap' = mishap \cup OfferMishaps(r)
  /\ UNCHANGED <<share, data, held>>

\* transfer_update_msg: stored if the owner still asks for it and the row is
\* still the one for this receiver.
UpdateMsg(k) ==
  LET r == req[k] IN
  /\ r.pc = "offered"
  /\ data.auth = r.by
  /\ row' = IF row.to = r.to
            THEN [row EXCEPT !.msg = [from |-> r.by, t1 |-> Share[r.by] + r.x1]] ELSE row
  /\ Goto(k, "ok")
  /\ UNCHANGED <<share, data, held, mishap>>

-----------------------------------------------------------------------------
(* /transfer/receiver *)

\* The wallet checks P = S1 + O1 and t1.G = O1 + X1 on what the server shows,
\* and sends t2.  A wallet that has had no answer may send again.
Post(k, v) ==
  LET m == row.msg IN
  /\ req[k] = Unsent
  /\ v \notin held /\ row.to = v /\ m # NoMsg
  /\ data.pub + Share[m.from] = Key
  /\ m.t1 = Share[m.from] + row.x1
  /\ req' = [req EXCEPT ![k] = [Unsent EXCEPT !.pc = "posted", !.by = v,
                                              !.t2 = m.t1 - Share[v]]]
  /\ UNCHANGED <<share, data, row, held, mishap>>

\* Mutant: the signature on t2 is not checked against the row's address.
ReadRow_AnySender(k) ==
  /\ req[k].pc = "posted"
  /\ req' = [req EXCEPT ![k] = [@ EXCEPT !.pc = "read", !.x1 = row.x1]]
  /\ UNCHANGED <<share, data, row, held, mishap>>

\* get_auth_pubkey_and_x1, and the signature on t2 against the row's address.
ReadRow(k) ==
  /\ req[k].pc = "posted"
  /\ req' = IF row.to = req[k].by
            THEN [req EXCEPT ![k] = [@ EXCEPT !.pc = "read", !.x1 = row.x1]]
            ELSE [req EXCEPT ![k].pc = "error"]
  /\ UNCHANGED <<share, data, row, held, mishap>>

\* Another handler of the coin is past the same check and has not finished.
Overlap(k) ==
  {m \in {"overlap"} : \E j \in Requests \ {k} : req[j].pc \in PastCheck}

\* Mutant: a repeated request is not recognised.
CheckUpdated_Never(k) ==
  /\ req[k].pc = "read"
  /\ Goto(k, "fresh")
  /\ mishap' = mishap \cup Overlap(k)
  /\ UNCHANGED <<share, data, row, held>>

\* is_key_already_updated: a repeated request is answered from the table.
CheckUpdated(k) ==
  /\ req[k].pc = "read"
  /\ req' = IF row.key_updated
            THEN [req EXCEPT ![k] = [@ EXCEPT !.pc = "replied", !.pub = data.pub]]
            ELSE [req EXCEPT ![k].pc = "fresh"]
  /\ mishap' = IF row.key_updated THEN mishap ELSE mishap \cup Overlap(k)
  /\ UNCHANGED <<share, data, row, held>>

\* POST keyupdate: s2 = s1 + t2 - x1.
KeyUpdate(k) ==
  /\ req[k].pc = "fresh"
  /\ share' = share + req[k].t2 - req[k].x1
  /\ req' = [req EXCEPT ![k] = [@ EXCEPT !.pc = "updated", !.pub = share']]
  /\ UNCHANGED <<data, row, held, mishap>>

\* Mutant: the owner is taken from the row after it has been cleared.
UpdateStatechain_Cleared(k) ==
  /\ req[k].pc = "updated"
  /\ row' = NoRow
  /\ data' = [auth |-> row'.to, pub |-> req[k].pub]
  /\ Goto(k, "replied")
  /\ UNCHANGED <<share, held, mishap>>

\* update_statechain: both tables, in one transaction.
UpdateStatechain(k) ==
  /\ req[k].pc = "updated"
  /\ data' = [auth |-> req[k].by, pub |-> req[k].pub]
  /\ row' = [row EXCEPT !.key_updated = TRUE]
  /\ Goto(k, "replied")
  /\ UNCHANGED <<share, held, mishap>>

\* get_new_key_info: the wallet takes the coin if the new shares match P.
Receive(k) ==
  LET ok == req[k].pub + Share[req[k].by] = Key IN
  /\ req[k].pc = "replied"
  /\ held' = IF ok THEN held \cup {req[k].by} ELSE held
  /\ Goto(k, IF ok THEN "ok" ELSE "error")
  /\ UNCHANGED <<share, data, row, mishap>>

-----------------------------------------------------------------------------
\* update_msg of an address that no longer owns the coin is refused.
Refused(k) ==
  /\ req[k].pc = "offered" /\ data.auth # req[k].by
  /\ Goto(k, "error")
  /\ UNCHANGED <<share, data, row, held, mishap>>

\* A lost request or reply, a refused call of the enclave, or a server that
\* goes down; the key is "torn" if the enclave has already moved its share.
Stop(k) ==
  /\ MayStop
  /\ req[k].pc \in Running \cup {"offered", "posted", "replied"}
  /\ Goto(k, "error")
  /\ mishap' = mishap \cup {m \in {"torn"} : req[k].pc = "updated"}
  /\ UNCHANGED <<share, data, row, held>>

Next ==
  \E k \in Requests :
    \/ \E u, v \in Users : Offer(k, u, v)
    \/ \E x \in X1s : InsertTransfer(k, x)
    \/ UpdateMsg(k) \/ Refused(k)
    \/ \E v \in Users : Post(k, v)
    \/ ReadRow(k) \/ CheckUpdated(k) \/ KeyUpdate(k) \/ UpdateStatechain(k)
    \/ Receive(k) \/ Stop(k)

Spec == Init /\ [][Next]_vars

-----------------------------------------------------------------------------
(* Properties *)

Mishaps == {"late", "reoffered", "replaced", "overlap", "torn"}
Msg == [from : Users, t1 : Int] \cup {NoMsg}

\* The type of every variable.
TypeOK ==
  /\ share \in Int
  /\ data \in [auth : Users, pub : Int]
  /\ row \in [by : Users, to : Users, x1 : Int, key_updated : BOOLEAN, msg : Msg] \cup {NoRow}
  /\ req \in [Requests -> [pc : Pcs, by : Users \cup {NoUser}, to : Users \cup {NoUser},
                           x1 : Int, t2 : Int, pub : Int]]
  /\ held \subseteq Users 
  /\ mishap \subseteq Mishaps

\* The enclave's share, the public key the server shows for it and the
\* recorded owner fit together whenever no key update is under way, whatever
\* requests were repeated, overtaken or stopped, unless one of four things has
\* happened: two handlers were past the key_updated check at once, the row was
\* replaced under a handler, the coin was offered again to an address whose
\* request was on its way, or a handler stopped between the enclave's update
\* and update_statechain.  (transfer_receiver, insert_new_transfer)
KeyIntact ==
  mishap \subseteq {"late"} /\ (\A k \in Requests : req[k].pc # "updated") =>
    data.pub = share /\ share + Share[data.auth] = Key

\* "s2 + o2 = s1 + o1": once no handler runs, the enclave's share and the
\* owner's add up to the coin's key.  (docs/protocol.md, transfer_receiver)
SharesAddUp ==
  (\A k \in Requests : req[k].pc \notin Running) => share + Share[data.auth] = Key

\* The offer that stands: the row, until it is used.
Standing == IF row.key_updated THEN [by |-> NoUser, to |-> NoUser]
            ELSE [by |-> row.by, to |-> row.to]

Promised == INSTANCE Ownership WITH owner <- data.auth, offer <- Standing

\* The coin passes only from its owner to the address of the owner's latest
\* offer, and no offer by a former owner is entered: each step is a step of
\* Ownership unless an offer has been entered after the coin had gone, or over
\* a row that a handler had read.  (transfer_sender, transfer_receiver)
OwnerObeyed ==
  Promised!Init /\ [][mishap' \cap {"late", "replaced"} = {} => Promised!Next]_<<data.auth, Standing>>

\* Once the owner has sent the coin to another address it passes to that one
\* only, with no exception.  (docs/test_cases.md, TM01)
OwnerDecides == Promised!Spec
=============================================================================
