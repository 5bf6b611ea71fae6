---------------------------- MODULE BatchTransfer ----------------------------
(***************************************************************************)
(* Atomic transfer of several coins under one batch_id, with an optional   *)
(* lightning latch: the server's handlers /transfer/sender,                *)
(* /transfer/unlock and /transfer/receiver for every coin, one action per  *)
(* SQL statement they depend on, and the clock that expires a batch, which *)
(* runs whatever the handlers do.                                          *)
(*                                                                         *)
(* Every coin is offered to its peer with the batch_id, and its sender may *)
(* send it back to an address of its own with a null batch_id.  What a key *)
(* update does to the shares is KeyTransfer's subject: here the coin       *)
(* changes its place.                                                      *)
(***************************************************************************)
EXTENDS Naturals

CONSTANTS Coins,         \* the statechain_ids of the batch
          Latched,       \* those sold for a lightning payment
          Timeout,       \* batch_timeout
          MaxTime        \* bound on the clock

ASSUME CoinAssumption == Latched \subseteq Coins
ASSUME TimeAssumption == Timeout \in Nat /\ MaxTime \in Nat

VARIABLES
  now,       \* Utc::now
  row,       \* statechain_transfer, per coin
  latch,     \* lightning_latch, per coin: "none", "locked", "open" or "released"
  place,     \* whose key is auth_xonly_public_key, per coin
  hand,      \* the handlers running for each coin
  unlocked,  \* history: the kinds of unlock that have been written, per coin
  finished,  \* history: the kinds of unlock that have run to their end, per coin
  seen       \* history: the coins of the batch when the coin's locks were checked

history == <<unlocked, finished, seen>>
vars == <<now, row, latch, place, hand, unlocked, finished, seen>>

\* unlock_s is a call signed with the owner's key, unlock_r any other one: the
\* server does not compare its key with the receiver's.
Roles == {"send", "unlock_s", "unlock_r", "take"}
NoRow == [to |-> "none", batch |-> FALSE, time |-> 0, locked |-> FALSE, locked2 |-> FALSE]
Idle == [pc |-> "idle", to |-> "none", time |-> 0]

Init ==
  /\ now = 0
  /\ row = [c \in Coins |-> NoRow]
  /\ latch = [c \in Coins |-> "none"]
  /\ place = [c \in Coins |-> "sender"]
  /\ hand = [c \in Coins |-> [r \in Roles |-> Idle]]
  /\ unlocked = [c \in Coins |-> {}] /\ finished = [c \in Coins |-> {}]
  /\ seen = [c \in Coins |-> {}]

Goto(c, r, pc) == hand' = [hand EXCEPT ![c][r].pc = pc]
Done(c, r) == hand' = [hand EXCEPT ![c][r] = Idle]

Tick ==
  /\ now < MaxTime
  /\ now' = now + 1
  /\ UNCHANGED <<row, latch, place, hand, history>>

is_batch_expired(time) == now > time + Timeout

\* The rows with the batch_id have neither lock set.
is_all_coins_unlocked == \A c \in Coins : row[c].batch => ~row[c].locked /\ ~row[c].locked2

-----------------------------------------------------------------------------
(* /transfer/paymenthash and /transfer/sender *)

post_paymenthash(c) ==
  /\ c \in Latched /\ latch[c] = "none" /\ place[c] = "sender"
  /\ latch' = [latch EXCEPT ![c] = "locked"]
  /\ UNCHANGED <<now, row, place, hand, history>>

\* get_batch_time_by_batch_id: a locked row of the batch, if there is one.
BatchTimes == {row[c].time : c \in {d \in Coins : row[d].batch /\ row[d].locked}}

\* Mutant: a coin of a batch may be sent elsewhere before the batch expires.
validate_batch_transfer_NoLock(c, batch) ==
  IF row[c].batch THEN ~(is_batch_expired(row[c].time) /\ batch)
  ELSE batch => \A t \in BatchTimes : ~is_batch_expired(t)

\* Mutant: a batch that has expired keeps its coins.
validate_batch_transfer_Final(c, batch) ==
  IF row[c].batch
  THEN ~is_batch_expired(row[c].time) /\ is_all_coins_unlocked
  ELSE batch => \A t \in BatchTimes : ~is_batch_expired(t)

\* May coin c be sent, with the batch_id or with none?  A coin of a batch may
\* be when all its coins are unlocked or, for a different batch_id, when it
\* has expired; another coin may join a batch that has not expired.
validate_batch_transfer(c, batch) ==
  IF row[c].batch
  THEN IF is_batch_expired(row[c].time) THEN ~batch ELSE is_all_coins_unlocked
  ELSE batch => \A t \in BatchTimes : ~is_batch_expired(t)

\* The owner's request passes its checks; latched coins have their payment
\* hash first.  A message for the same receiver and batch_id is not repeated.
\* The batch's time is read, or is the present (bound: it expires by MaxTime).
Offer(c, to, batch) ==
  /\ hand[c]["send"] = Idle /\ place[c] = "sender"
  /\ batch => now + Timeout < MaxTime /\ (c \in Latched => latch[c] # "none")
  /\ validate_batch_transfer(c, batch)
  /\ ~(batch /\ row[c].batch /\ row[c].to = to)
  /\ \E t \in IF batch /\ BatchTimes # {} THEN BatchTimes ELSE {now} :
       hand' = [hand EXCEPT ![c]["send"] = [pc |-> IF batch THEN "join" ELSE "back",
                                            to |-> to, time |-> t]]
  /\ UNCHANGED <<now, row, latch, place, history>>

\* insert_new_transfer commits.
InsertTransfer(c) ==
  LET h == hand[c]["send"] IN
  /\ h.pc \in {"join", "back"}
  /\ row' = [row EXCEPT ![c] =
       IF h.pc = "join"
       THEN [to |-> h.to, batch |-> TRUE, time |-> h.time, locked |-> TRUE,
             locked2 |-> latch[c] # "none"]
       ELSE [NoRow EXCEPT !.to = h.to]]
  /\ Done(c, "send")
  /\ UNCHANGED <<now, latch, place, history>>

-----------------------------------------------------------------------------
(* /transfer/unlock *)

\* transfer_unlock, and the first statement of update_unlock_transfer: the
\* owner's lock is locked2.  Neither the time nor the other coins are examined,
\* and no key but the owner's.  On a coin outside a batch, and with the owner's
\* key on one without a latch, the call changes nothing; on a coin without a
\* latch "the update below will have no effect".
Unlock(c, r) ==
  /\ hand[c][r] = Idle /\ row[c].batch
  /\ r = "unlock_s" => c \in Latched
  /\ row' = [row EXCEPT ![c] = IF r = "unlock_s" THEN [@ EXCEPT !.locked2 = FALSE]
                                                 ELSE [@ EXCEPT !.locked = FALSE]]
  /\ unlocked' = [unlocked EXCEPT ![c] = @ \cup {r}]
  /\ IF c \in Latched THEN Goto(c, r, "select") ELSE UNCHANGED hand
  /\ UNCHANGED <<now, latch, place, finished, seen>>

BothOpen(x) == x.batch /\ ~x.locked /\ ~x.locked2
Finish(c, r) ==
  /\ Done(c, r)
  /\ finished' = [finished EXCEPT ![c] = IF row[c].batch THEN @ \cup {r} ELSE @]

\* Mutant: only the receiver's call looks at the latch.
UnlockSelect_Receiver(c, r) ==
  /\ hand[c][r].pc = "select"
  /\ \/ BothOpen(row[c]) /\ r = "unlock_r" /\ Goto(c, r, "latch") /\ UNCHANGED finished
     \/ ~(BothOpen(row[c]) /\ r = "unlock_r") /\ Finish(c, r)
  /\ UNCHANGED <<now, row, latch, place, unlocked, seen>>

\* Mutant: the latch is opened with the first lock.
UnlockSelect_Either(c, r) ==
  /\ hand[c][r].pc = "select"
  /\ \/ row[c].batch /\ Goto(c, r, "latch") /\ UNCHANGED finished
     \/ ~row[c].batch /\ Finish(c, r)
  /\ UNCHANGED <<now, row, latch, place, unlocked, seen>>

\* Its second: are both locks open, in a batch?
UnlockSelect(c, r) ==
  /\ hand[c][r].pc = "select"
  /\ \/ BothOpen(row[c]) /\ Goto(c, r, "latch") /\ UNCHANGED finished
     \/ ~BothOpen(row[c]) /\ Finish(c, r)
  /\ UNCHANGED <<now, row, latch, place, unlocked, seen>>

\* Its third: the latch, if there is one.
UnlockLatch(c, r) ==
  /\ hand[c][r].pc = "latch"
  /\ latch' = IF latch[c] = "locked" THEN [latch EXCEPT ![c] = "open"] ELSE latch
  /\ Finish(c, r)
  /\ UNCHANGED <<now, row, place, unlocked, seen>>

\* transfer_preimage: released once the latch is open.
transfer_preimage(c) ==
  /\ latch[c] = "open"
  /\ latch' = [latch EXCEPT ![c] = "released"]
  /\ UNCHANGED <<now, row, place, hand, history>>

-----------------------------------------------------------------------------
(* /transfer/receiver *)

\* The wallet at the row's address, which has validated the sender's message
\* against the keys the server shows, asks for the coin; validate_batch reads
\* the coin's batch and its time.  After the batch has expired it is refused ...
ReadBatch(c) ==
  /\ hand[c]["take"] = Idle /\ row[c].to # "none" /\ place[c] = "sender"
  /\ row[c].batch => ~is_batch_expired(row[c].time)
  /\ hand' = [hand EXCEPT ![c]["take"] =
       [Idle EXCEPT !.pc = IF row[c].batch THEN "locks" ELSE "key", !.to = row[c].to]]
  /\ UNCHANGED <<now, row, latch, place, history>>

Checked(c) == seen' = [seen EXCEPT ![c] = {d \in Coins : row[d].batch}]

\* Mutant: only the coin's own lock is examined.
CheckLocks_Own(c) ==
  /\ hand[c]["take"].pc = "locks"
  /\ \/ ~row[c].locked /\ Goto(c, "take", "key") /\ Checked(c)
     \/ row[c].locked /\ Done(c, "take") /\ UNCHANGED seen
  /\ UNCHANGED <<now, row, latch, place, unlocked, finished>>

\* ... and then the locks of all its coins.  A wallet told "Statecoin batch is
\* locked" asks again later.
CheckLocks(c) ==
  /\ hand[c]["take"].pc = "locks"
  /\ \/ is_all_coins_unlocked /\ Goto(c, "take", "key") /\ Checked(c)
     \/ ~is_all_coins_unlocked /\ Done(c, "take") /\ UNCHANGED seen
  /\ UNCHANGED <<now, row, latch, place, unlocked, finished>>

\* Mutant: the new owner is taken from the request after it is done with.
Take_Cleared(c) ==
  LET to == hand[c]["take"].to IN
  /\ hand[c]["take"].pc = "key"
  /\ Done(c, "take")
  /\ place' = IF row[c].to = to THEN [place EXCEPT ![c] = hand'[c]["take"].to] ELSE place
  /\ UNCHANGED <<now, row, latch, history>>

\* The signature must be by the row's address; then keyupdate and
\* update_statechain.  What may come between these is in KeyTransfer.
Take(c) ==
  LET to == hand[c]["take"].to IN
  /\ hand[c]["take"].pc = "key"
  /\ place' = IF row[c].to = to THEN [place EXCEPT ![c] = to] ELSE place
  /\ Done(c, "take")
  /\ UNCHANGED <<now, row, latch, history>>

-----------------------------------------------------------------------------
\* An unlock stops between two of its statements.  A handler of the other two
\* calls that stops before its one write is as one that was never called.
Stop(c, r) ==
  /\ hand[c][r] # Idle
  /\ Done(c, r)
  /\ UNCHANGED <<now, row, latch, place, history>>

\* A sender offers its coin to its peer, and takes it back from the batch.
\* It does not rejoin: every attempt has a batch_id of its own.
Send(c) == \/ row[c].to # "back" /\ Offer(c, "peer", TRUE)
           \/ row[c].batch /\ Offer(c, "back", FALSE)
           \/ InsertTransfer(c)
UnlockBy(c, r) == Unlock(c, r) \/ UnlockSelect(c, r) \/ UnlockLatch(c, r)
Receive(c) == ReadBatch(c) \/ CheckLocks(c) \/ Take(c)

Next ==
  \/ Tick
  \/ \E c \in Coins :
       \/ post_paymenthash(c) \/ transfer_preimage(c)
       \/ Send(c) \/ Receive(c)
       \/ \E r \in {"unlock_s", "unlock_r"} : UnlockBy(c, r) \/ Stop(c, r)

Spec == Init /\ [][Next]_vars

\* Time passes; senders go on trying to send their coins, and the wallets at
\* the rows' addresses to receive them.  Nobody has to unlock.
Fairness ==
  /\ WF_vars(Tick)
  /\ \A c \in Coins : WF_vars(Send(c)) /\ WF_vars(Receive(c))
LiveSpec == Spec /\ Fairness

-----------------------------------------------------------------------------
(* Properties *)

Rows == [to : {"none", "peer", "back"}, batch : BOOLEAN, time : Nat,
         locked : BOOLEAN, locked2 : BOOLEAN]
Pcs == {"idle", "join", "back", "select", "latch", "locks", "key"}

\* The type of every variable.
TypeOK ==
  /\ now \in Nat /\ row \in [Coins -> Rows]
  /\ latch \in [Coins -> {"none", "locked", "open", "released"}]
  /\ place \in [Coins -> {"sender", "peer", "back"}]
  /\ hand \in [Coins -> [Roles -> [pc : Pcs, to : {"none", "peer", "back"}, time : Nat]]]
  /\ unlocked \in [Coins -> SUBSET Roles] /\ finished \in [Coins -> SUBSET Roles]
  /\ seen \in [Coins -> SUBSET Coins]

\* A coin that has passed to its peer had its locks checked together with those
\* of every coin that was in the batch by then, and every one of these had been
\* unlocked, a latched one by its owner too, however the calls for the coins
\* interleave.  (validate_batch)
TakenTogether ==
  \A c \in Coins : place[c] = "peer" =>
    /\ c \in seen[c]
    /\ \A d \in seen[c] : /\ "unlock_r" \in unlocked[d]
                          /\ d \in Latched => "unlock_s" \in unlocked[d]

\* The two unlocks of a latched coin each write one lock, look at both and
\* only then open the latch: once both have run to their end the latch is open,
\* whichever came first and wherever other attempts stopped.
\* (update_unlock_transfer)
LatchOpens ==
  \A c \in Latched :
    {"unlock_s", "unlock_r"} \subseteq finished[c] => latch[c] \in {"open", "released"}

\* The preimage is released only after two unlocks of the coin, one with its
\* owner's signature, which confirms the payment, and one with another or
\* none.  (update_unlock_transfer, transfer_preimage)
PreimageEarned ==
  \A c \in Coins : latch[c] = "released" => {"unlock_s", "unlock_r"} \subseteq unlocked[c]

\* A coin leaves its batch only when the batch has expired or both its own
\* locks are open, however much later than the check the new row is entered.
\* (validate_batch_transfer, insert_new_transfer)
LockHeld ==
  [][\A c \in Coins :
       row[c].batch /\ ~row'[c].batch
         => is_batch_expired(row[c].time) \/ ~(row[c].locked \/ row[c].locked2)]_vars

\* A coin that has been offered ends with its peer or back with its sender:
\* no batch holds a coin for ever.  (validate_batch_transfer)
Settles == \A c \in Coins : row[c].to # "none" ~> place[c] # "sender"

\* "they all complete or none of them do": no coin goes back to its sender
\* when another one, whose locks were checked together with its own, has
\* passed to its peer.  (docs/atomic_transfer.md)
AllOrNone == \A c \in Coins : place[c] = "peer" => \A d \in seen[c] : place[d] # "back"
=============================================================================
