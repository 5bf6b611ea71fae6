------------------------- MODULE BatchTransferProofs -------------------------
(***************************************************************************)
(* Proofs about BatchTransfer, for any set of coins, any latched subset,   *)
(* any timeout and any interleaving of the handlers with each other and    *)
(* with the clock.                                                         *)
(***************************************************************************)
EXTENDS BatchTransfer, TLAPS

\* Each leaf is given to Zenon and then to SMT, for so many seconds.
USE ZenonT(10), SMTT(20)

-----------------------------------------------------------------------------
(* The inductive invariant *)

Sides == {"unlock_s", "unlock_r"}
Lock(x, r) == IF r = "unlock_s" THEN x.locked2 ELSE x.locked
Late(t, n) == n > t + Timeout

\* A coin joins the batch once, and no handler but the sender's runs before.
RowOK(x, h, un, fi) ==
  /\ x.batch <=> x.to = "peer"
  /\ x.to = "none" =>
       /\ un = {} /\ fi = {} /\ h["take"].pc = "idle"
       /\ \A r \in Sides : h[r].pc = "idle"

\* A sender that takes its coin back found the batch expired or the coin
\* unlocked, and neither is ever undone.
SendOK(c, x, h, l, n) ==
  /\ h["send"].pc \in {"idle", "join", "back"}
  /\ h["send"].pc = "join" =>
       x.to = "none" /\ h["send"].to = "peer" /\ (c \in Latched => l # "none")
  /\ h["send"].pc = "back" =>
       /\ x.batch /\ h["send"].to = "back"
       /\ Late(x.time, n) \/ (~x.locked /\ ~x.locked2)

\* An open lock was opened by a call of its kind.
LockOK(c, x, un, l) ==
  x.batch =>
    /\ ~x.locked => "unlock_r" \in un
    /\ c \in Latched => l # "none" /\ (~x.locked2 => "unlock_s" \in un)

\* A call that has written leaves its lock open while the coin is in the
\* batch; the latch follows the two locks.
LatchOK(c, x, h, l, un, fi) ==
  /\ \A r \in Sides :
       /\ h[r].pc \in {"idle", "select", "latch"}
       /\ x.batch /\ (r \in fi \/ h[r].pc # "idle") => ~Lock(x, r)
       /\ h[r].pc = "latch" => Sides \subseteq un
       /\ h[r].pc # "idle" => c \in Latched
  /\ c \notin Latched => l = "none"
  /\ l \in {"open", "released"} => Sides \subseteq un
  /\ c \in Latched /\ Sides \subseteq fi => l \in {"open", "released"}

Coin(c, x, h, l, un, fi, n) ==
  /\ RowOK(x, h, un, fi) /\ SendOK(c, x, h, l, n)
  /\ LockOK(c, x, un, l) /\ LatchOK(c, x, h, l, un, fi)

\* A receiver past the checks has seen its own coin in the batch, and every
\* coin it saw there unlocked.
Agreed(S, un) ==
  \A d \in S : "unlock_r" \in un[d] /\ (d \in Latched => "unlock_s" \in un[d])
TakeOK(c, x, h, p, S, un) ==
  /\ h["take"].pc # "idle" => p = "sender"
  /\ h["take"].pc = "key" /\ h["take"].to = "peer" /\ x.to = "peer" => c \in S /\ Agreed(S, un)
  /\ p = "peer" => c \in S /\ Agreed(S, un)

IInv ==
  /\ TypeOK
  /\ \A c \in Coins : Coin(c, row[c], hand[c], latch[c], unlocked[c], finished[c], now)
  /\ \A c \in Coins : TakeOK(c, row[c], hand[c], place[c], seen[c], unlocked)

-----------------------------------------------------------------------------
(* Frames: a step of one coin *)

HandRec == [pc : Pcs, to : {"none", "peer", "back"}, time : Nat]
HandType == [Roles -> HandRec]
LatchType == {"none", "locked", "open", "released"}
Places == {"sender", "peer", "back"}

LEMMA IdleType == Idle \in HandRec /\ Idle.pc = "idle" /\ Idle.to = "none"
PROOF BY DEF Idle, HandRec, Pcs

\* The parts of the state that belong to coin c.
LEMMA Parts ==
  ASSUME TypeOK, NEW c \in Coins
  PROVE  /\ now \in Nat /\ row[c] \in Rows /\ latch[c] \in LatchType /\ place[c] \in Places
         /\ hand[c] \in HandType /\ unlocked[c] \in SUBSET Roles
         /\ finished[c] \in SUBSET Roles /\ seen[c] \in SUBSET Coins
         /\ row = [row EXCEPT ![c] = row[c]] /\ latch = [latch EXCEPT ![c] = latch[c]]
         /\ place = [place EXCEPT ![c] = place[c]] /\ hand = [hand EXCEPT ![c] = hand[c]]
         /\ unlocked = [unlocked EXCEPT ![c] = unlocked[c]]
         /\ finished = [finished EXCEPT ![c] = finished[c]]
         /\ seen = [seen EXCEPT ![c] = seen[c]]
PROOF BY DEF TypeOK, LatchType, Places, HandType, HandRec

\* A step of coin c: its new row x, handlers h, latch l, place p, unlocks
\* written and finished un and fi, and coins seen S.
LEMMA CoinStep ==
  ASSUME IInv, NEW c \in Coins, NEW x \in Rows, NEW h \in HandType, NEW l \in LatchType,
         NEW p \in Places, NEW un \in SUBSET Roles, NEW fi \in SUBSET Roles,
         NEW S \in SUBSET Coins,
         row' = [row EXCEPT ![c] = x], hand' = [hand EXCEPT ![c] = h],
         latch' = [latch EXCEPT ![c] = l], place' = [place EXCEPT ![c] = p],
         unlocked' = [unlocked EXCEPT ![c] = un], finished' = [finished EXCEPT ![c] = fi],
         seen' = [seen EXCEPT ![c] = S], now' = now,
         unlocked[c] \subseteq un, Coin(c, x, h, l, un, fi, now),
         TakeOK(c, x, h, p, S, unlocked)
  PROVE  IInv'
PROOF
  <1>0. /\ now \in Nat /\ row \in [Coins -> Rows] /\ latch \in [Coins -> LatchType]
        /\ place \in [Coins -> Places] /\ hand \in [Coins -> HandType]
        /\ unlocked \in [Coins -> SUBSET Roles] /\ finished \in [Coins -> SUBSET Roles]
        /\ seen \in [Coins -> SUBSET Coins]
    BY DEF IInv, TypeOK, HandType, HandRec, LatchType, Places
  <1>1. /\ \A d \in Coins : row'[d] = IF d = c THEN x ELSE row[d]
        /\ \A d \in Coins : hand'[d] = IF d = c THEN h ELSE hand[d]
        /\ \A d \in Coins : latch'[d] = IF d = c THEN l ELSE latch[d]
        /\ \A d \in Coins : place'[d] = IF d = c THEN p ELSE place[d]
        /\ \A d \in Coins : unlocked'[d] = IF d = c THEN un ELSE unlocked[d]
        /\ \A d \in Coins : finished'[d] = IF d = c THEN fi ELSE finished[d]
        /\ \A d \in Coins : seen'[d] = IF d = c THEN S ELSE seen[d]
    BY <1>0
  <1>2. TypeOK'
    <2>1. /\ now' \in Nat /\ row' \in [Coins -> Rows] /\ latch' \in [Coins -> LatchType]
          /\ place' \in [Coins -> Places] /\ hand' \in [Coins -> HandType]
          /\ unlocked' \in [Coins -> SUBSET Roles] /\ finished' \in [Coins -> SUBSET Roles]
          /\ seen' \in [Coins -> SUBSET Coins]
      BY <1>0
    <2> QED BY <2>1 DEF TypeOK, HandType, HandRec, LatchType, Places
  <1>3. \A d \in Coins : Coin(d, row'[d], hand'[d], latch'[d], unlocked'[d], finished'[d], now')
    BY <1>1 DEF IInv
  <1>4. \A d \in Coins : unlocked[d] \subseteq unlocked'[d] BY <1>1
  <1>5. ASSUME NEW T \in SUBSET Coins, Agreed(T, unlocked) PROVE Agreed(T, unlocked')
    BY <1>4, <1>5 DEF Agreed
  <1>6. ASSUME NEW d \in Coins PROVE TakeOK(d, row'[d], hand'[d], place'[d], seen'[d], unlocked')
    <2>1. TakeOK(d, row'[d], hand'[d], place'[d], seen'[d], unlocked) BY <1>1 DEF IInv
    <2>2. seen'[d] \in SUBSET Coins BY <1>0, <1>1
    <2> QED BY <1>5, <2>1, <2>2 DEF TakeOK
  <1> QED BY <1>2, <1>3, <1>6 DEF IInv

\* The same, when nothing but the handlers of c move.
LEMMA HandStep ==
  ASSUME IInv, NEW c \in Coins, NEW h \in HandType, hand' = [hand EXCEPT ![c] = h],
         UNCHANGED <<now, row, latch, place, history>>,
         Coin(c, row[c], h, latch[c], unlocked[c], finished[c], now),
         TakeOK(c, row[c], h, place[c], seen[c], unlocked)
  PROVE  IInv'
PROOF
  <1>1. /\ now' = now /\ row' = row /\ latch' = latch /\ place' = place
        /\ unlocked' = unlocked /\ finished' = finished /\ seen' = seen
    BY DEF history
  <1>2. TypeOK BY DEF IInv
  <1>3. /\ row[c] \in Rows /\ latch[c] \in LatchType /\ place[c] \in Places
        /\ unlocked[c] \in SUBSET Roles /\ finished[c] \in SUBSET Roles
        /\ seen[c] \in SUBSET Coins /\ unlocked[c] \subseteq unlocked[c]
        /\ row' = [row EXCEPT ![c] = row[c]] /\ latch' = [latch EXCEPT ![c] = latch[c]]
        /\ place' = [place EXCEPT ![c] = place[c]]
        /\ unlocked' = [unlocked EXCEPT ![c] = unlocked[c]]
        /\ finished' = [finished EXCEPT ![c] = finished[c]]
        /\ seen' = [seen EXCEPT ![c] = seen[c]] /\ now' = now
    BY <1>1, <1>2, Parts
  <1>4. /\ IInv /\ c \in Coins /\ h \in HandType /\ hand' = [hand EXCEPT ![c] = h]
        /\ Coin(c, row[c], h, latch[c], unlocked[c], finished[c], now)
        /\ TakeOK(c, row[c], h, place[c], seen[c], unlocked)
    OBVIOUS
  <1> QED BY ONLY <1>3, <1>4, CoinStep, ZenonT(20)

\* A handler of c is given the record q.
LEMMA HandSet ==
  ASSUME IInv, NEW c \in Coins, NEW r \in Roles, NEW q \in HandRec
  PROVE  LET h == [hand[c] EXCEPT ![r] = q] IN
         h \in HandType /\ h[r] = q /\ \A t \in Roles \ {r} : h[t] = hand[c][t]
PROOF BY DEF IInv, TypeOK, HandType, HandRec

LEMMA GotoSet ==
  ASSUME IInv, NEW c \in Coins, NEW r \in Roles, NEW pc \in Pcs, Goto(c, r, pc)
  PROVE  \E h \in HandType :
           /\ hand' = [hand EXCEPT ![c] = h]
           /\ h[r].pc = pc /\ h[r].to = hand[c][r].to
           /\ \A t \in Roles \ {r} : h[t] = hand[c][t]
PROOF
  <1> DEFINE q == [hand[c][r] EXCEPT !.pc = pc]
             h == [hand[c] EXCEPT ![r] = q]
  <1>1. hand \in [Coins -> [Roles -> HandRec]] BY DEF IInv, TypeOK, HandRec
  <1>2. hand[c][r] \in HandRec BY <1>1
  <1>3. q \in HandRec /\ q.pc = pc /\ q.to = hand[c][r].to BY <1>2 DEF HandRec
  <1>4. hand' = [hand EXCEPT ![c] = h] BY <1>1 DEF Goto
  <1> HIDE DEF q
  <1>5. h \in HandType /\ h[r] = q /\ \A t \in Roles \ {r} : h[t] = hand[c][t]
    BY <1>3, HandSet
  <1> HIDE DEF h
  <1> QED BY <1>3, <1>4, <1>5

LEMMA DoneSet ==
  ASSUME IInv, NEW c \in Coins, NEW r \in Roles, Done(c, r)
  PROVE  \E h \in HandType :
           /\ hand' = [hand EXCEPT ![c] = h]
           /\ h[r] = Idle /\ \A t \in Roles \ {r} : h[t] = hand[c][t]
PROOF
  <1> DEFINE h == [hand[c] EXCEPT ![r] = Idle]
  <1>1. hand' = [hand EXCEPT ![c] = h] BY DEF Done, IInv, TypeOK
  <1>2. h \in HandType /\ h[r] = Idle /\ \A t \in Roles \ {r} : h[t] = hand[c][t]
    BY IdleType, HandSet
  <1> HIDE DEF h
  <1> QED BY <1>1, <1>2

LEMMA InitInv == Init => IInv
PROOF
  <1> SUFFICES ASSUME Init PROVE IInv OBVIOUS
  <1>1. \A r \in Roles : [q \in Roles |-> Idle][r] = Idle OBVIOUS
  <1>2. NoRow \in Rows /\ NoRow.to = "none" /\ ~NoRow.batch BY DEF NoRow, Rows
  <1>3. \A c \in Coins : /\ row[c] = NoRow /\ latch[c] = "none" /\ place[c] = "sender"
                         /\ unlocked[c] = {} /\ finished[c] = {}
                         /\ \A r \in Roles : hand[c][r] = Idle
    BY <1>1 DEF Init
  <1>4. TypeOK BY <1>2, IdleType DEF Init, TypeOK, HandRec
  <1>5. ASSUME NEW c \in Coins
        PROVE  Coin(c, row[c], hand[c], latch[c], unlocked[c], finished[c], now)
    <2>1. \A r \in Roles : hand[c][r].pc = "idle" BY <1>3, IdleType
    <2> QED BY <1>2, <1>3, <2>1, ZenonT(20) DEF Coin, RowOK, SendOK, LockOK, LatchOK, Sides, Roles
  <1>6. \A c \in Coins : TakeOK(c, row[c], hand[c], place[c], seen[c], unlocked)
    BY <1>3, IdleType DEF TakeOK, Roles
  <1> QED BY <1>4, <1>5, <1>6 DEF IInv

-----------------------------------------------------------------------------
(* The handlers' steps keep the invariant *)

LEMMA TickInv == ASSUME IInv, Tick PROVE IInv'
PROOF
  <1>1. /\ now' = now + 1 /\ now \in Nat
        /\ UNCHANGED <<row, latch, place, hand, unlocked, finished, seen>>
    BY DEF Tick, IInv, TypeOK, history
  <1>2. TypeOK' BY <1>1 DEF IInv, TypeOK
  <1>3. ASSUME NEW c \in Coins PROVE Late(row[c].time, now) => Late(row[c].time, now')
    BY <1>1, TimeAssumption DEF Late, IInv, TypeOK, Rows
  <1>4. ASSUME NEW c \in Coins
        PROVE  Coin(c, row[c], hand[c], latch[c], unlocked[c], finished[c], now')
    BY <1>3 DEF IInv, Coin, SendOK
  <1> QED BY <1>1, <1>2, <1>4 DEF IInv

\* The payment hash is stored, the preimage released.
LEMMA LatchInv ==
  ASSUME IInv, NEW c \in Coins, post_paymenthash(c) \/ transfer_preimage(c) PROVE IInv'
PROOF
  <1>1. PICK l \in {"locked", "released"} :
          /\ latch' = [latch EXCEPT ![c] = l]
          /\ l = "locked" => c \in Latched /\ latch[c] = "none"
          /\ l = "released" => latch[c] = "open"
    BY DEF post_paymenthash, transfer_preimage
  <1>2. UNCHANGED <<now, row, place, hand, unlocked, finished, seen>>
    BY DEF post_paymenthash, transfer_preimage, history
  <1>3. Coin(c, row[c], hand[c], latch[c], unlocked[c], finished[c], now)
        /\ TakeOK(c, row[c], hand[c], place[c], seen[c], unlocked) /\ TypeOK
    BY DEF IInv
  <1>4. Coin(c, row[c], hand[c], l, unlocked[c], finished[c], now)
    BY <1>1, <1>3 DEF Coin, SendOK, LockOK, LatchOK
  <1>5. /\ row[c] \in Rows /\ hand[c] \in HandType /\ l \in LatchType /\ place[c] \in Places
        /\ unlocked[c] \in SUBSET Roles /\ finished[c] \in SUBSET Roles
        /\ seen[c] \in SUBSET Coins /\ unlocked[c] \subseteq unlocked[c]
        /\ row' = [row EXCEPT ![c] = row[c]] /\ hand' = [hand EXCEPT ![c] = hand[c]]
        /\ place' = [place EXCEPT ![c] = place[c]]
        /\ unlocked' = [unlocked EXCEPT ![c] = unlocked[c]]
        /\ finished' = [finished EXCEPT ![c] = finished[c]]
        /\ seen' = [seen EXCEPT ![c] = seen[c]] /\ now' = now
    BY <1>2, <1>3, Parts DEF LatchType
  <1> QED BY ONLY <1>1, <1>3, <1>4, <1>5, IInv, c \in Coins, CoinStep, ZenonT(20)

\* What an offer with or without the batch_id finds.
LEMMA OfferFinds ==
  ASSUME IInv, NEW c \in Coins,
         NEW to \in {"peer", "back"}, NEW batch \in BOOLEAN, Offer(c, to, batch),
         batch => to = "peer" /\ row[c].to # "back", ~batch => to = "back" /\ row[c].batch
  PROVE  \E h \in HandType :
           /\ hand' = [hand EXCEPT ![c] = h]
           /\ h["send"].pc = (IF batch THEN "join" ELSE "back") /\ h["send"].to = to
           /\ \A t \in Roles \ {"send"} : h[t] = hand[c][t]
           /\ batch => row[c].to = "none" /\ (c \in Latched => latch[c] # "none")
           /\ ~batch => Late(row[c].time, now) \/ (~row[c].locked /\ ~row[c].locked2)
PROOF
  <1>1. PICK t \in IF batch /\ BatchTimes # {} THEN BatchTimes ELSE {now} :
          hand' = [hand EXCEPT ![c]["send"] =
                     [pc |-> IF batch THEN "join" ELSE "back", to |-> to, time |-> t]]
    BY DEF Offer
  <1>2. now \in Nat /\ row \in [Coins -> Rows] /\ hand \in [Coins -> HandType]
    BY DEF IInv, TypeOK, HandType, HandRec
  <1>3. t \in Nat BY <1>2 DEF BatchTimes, Rows
  <1> DEFINE q == [pc |-> IF batch THEN "join" ELSE "back", to |-> to, time |-> t]
             h == [hand[c] EXCEPT !["send"] = q]
  <1>4. q \in HandRec /\ q.pc = (IF batch THEN "join" ELSE "back") /\ q.to = to
    BY <1>3 DEF HandRec, Pcs
  <1>5. hand' = [hand EXCEPT ![c] = h] BY <1>1, <1>2
  <1> HIDE DEF q
  <1>6. h \in HandType /\ h["send"] = q /\ \A r \in Roles \ {"send"} : h[r] = hand[c][r]
    BY <1>4, HandSet DEF Roles
  <1>7. batch => row[c].to = "none" /\ (c \in Latched => latch[c] # "none")
    <2>1. row[c].to \in {"none", "peer", "back"} BY <1>2 DEF Rows
    <2>2. row[c].to = "peer" => row[c].batch BY DEF IInv, Coin, RowOK
    <2> QED BY <2>1, <2>2 DEF Offer
  <1>8. ~batch => Late(row[c].time, now) \/ (~row[c].locked /\ ~row[c].locked2)
    BY DEF Offer, validate_batch_transfer, is_batch_expired, is_all_coins_unlocked, Late
  <1> HIDE DEF h
  <1> QED BY <1>4, <1>5, <1>6, <1>7, <1>8

LEMMA OfferInv ==
  ASSUME IInv, NEW c \in Coins,
         NEW to \in {"peer", "back"}, NEW batch \in BOOLEAN, Offer(c, to, batch),
         batch => to = "peer" /\ row[c].to # "back", ~batch => to = "back" /\ row[c].batch
  PROVE  IInv'
PROOF
  <1>1. PICK h \in HandType :
          /\ hand' = [hand EXCEPT ![c] = h]
          /\ h["send"].pc = (IF batch THEN "join" ELSE "back") /\ h["send"].to = to
          /\ \A t \in Roles \ {"send"} : h[t] = hand[c][t]
          /\ batch => row[c].to = "none" /\ (c \in Latched => latch[c] # "none")
          /\ ~batch => Late(row[c].time, now) \/ (~row[c].locked /\ ~row[c].locked2)
    BY OfferFinds
  <1>2. Coin(c, row[c], hand[c], latch[c], unlocked[c], finished[c], now)
        /\ TakeOK(c, row[c], hand[c], place[c], seen[c], unlocked)
    BY DEF IInv
  <1>3. h["take"] = hand[c]["take"] /\ \A r \in Sides : h[r] = hand[c][r]
    BY <1>1 DEF Sides, Roles
  <1>4. Coin(c, row[c], h, latch[c], unlocked[c], finished[c], now)
    BY <1>1, <1>2, <1>3 DEF Coin, RowOK, SendOK, LatchOK
  <1>5. TakeOK(c, row[c], h, place[c], seen[c], unlocked) BY <1>2, <1>3 DEF TakeOK
  <1>6. UNCHANGED <<now, row, latch, place, history>> BY DEF Offer
  <1> QED BY <1>1, <1>4, <1>5, <1>6, HandStep

LEMMA InsertInv == ASSUME IInv, NEW c \in Coins, InsertTransfer(c) PROVE IInv'
PROOF
  <1> DEFINE s == hand[c]["send"]
             x == IF s.pc = "join"
                  THEN [to |-> s.to, batch |-> TRUE, time |-> s.time, locked |-> TRUE,
                        locked2 |-> latch[c] # "none"]
                  ELSE [NoRow EXCEPT !.to = s.to]
  <1>0. /\ "send" \in Roles /\ s \in HandRec /\ s.pc \in {"join", "back"}
        /\ row' = [row EXCEPT ![c] = x] /\ Done(c, "send")
        /\ UNCHANGED <<now, latch, place, unlocked, finished, seen>>
    BY DEF Roles, IInv, TypeOK, HandRec, InsertTransfer, history
  <1>1. PICK h \in HandType :
          /\ hand' = [hand EXCEPT ![c] = h]
          /\ h["send"] = Idle /\ \A t \in Roles \ {"send"} : h[t] = hand[c][t]
    BY <1>0, DoneSet
  <1>2. /\ x \in Rows /\ x.to = s.to /\ (x.batch <=> s.pc = "join")
        /\ s.pc = "join" => x.locked /\ (x.locked2 <=> latch[c] # "none")
    BY <1>0 DEF Rows, NoRow, HandRec
  <1>3. Coin(c, row[c], hand[c], latch[c], unlocked[c], finished[c], now)
        /\ TakeOK(c, row[c], hand[c], place[c], seen[c], unlocked) /\ TypeOK
    BY DEF IInv
  <1>4. h["take"] = hand[c]["take"] /\ \A r \in Sides : h[r] = hand[c][r]
    BY <1>1 DEF Sides, Roles
  <1> HIDE DEF s, x
  <1>5. /\ s.pc = "join" =>
             /\ row[c].to = "none" /\ s.to = "peer" /\ (c \in Latched => latch[c] # "none")
             /\ unlocked[c] = {} /\ finished[c] = {} /\ hand[c]["take"].pc = "idle"
             /\ \A r \in Sides : hand[c][r].pc = "idle"
        /\ s.pc = "back" => row[c].batch /\ s.to = "back" /\ row[c].to # "none"
    BY <1>3 DEF Coin, SendOK, RowOK, s
  <1>6. Coin(c, x, h, latch[c], unlocked[c], finished[c], now)
    <2>1. RowOK(x, h, unlocked[c], finished[c]) BY <1>0, <1>2, <1>4, <1>5 DEF RowOK
    <2>2. SendOK(c, x, h, latch[c], now) BY <1>1, IdleType DEF SendOK
    <2>3. LockOK(c, x, unlocked[c], latch[c]) BY <1>2, <1>5 DEF LockOK
    <2>4. LatchOK(c, x, h, latch[c], unlocked[c], finished[c])
      <3>1. CASE s.pc = "join" BY <1>3, <1>4, <1>5, <3>1 DEF Coin, LatchOK, Sides
      <3>2. CASE s.pc = "back" BY <1>2, <1>3, <1>4, <3>2 DEF Coin, LatchOK
      <3> QED BY <1>0, <3>1, <3>2
    <2> QED BY <2>1, <2>2, <2>3, <2>4 DEF Coin
  <1>7. TakeOK(c, x, h, place[c], seen[c], unlocked)
    BY <1>0, <1>2, <1>3, <1>4, <1>5 DEF TakeOK
  <1>8. /\ latch[c] \in LatchType /\ place[c] \in Places
        /\ unlocked[c] \in SUBSET Roles /\ finished[c] \in SUBSET Roles
        /\ seen[c] \in SUBSET Coins /\ unlocked[c] \subseteq unlocked[c]
        /\ latch' = [latch EXCEPT ![c] = latch[c]] /\ place' = [place EXCEPT ![c] = place[c]]
        /\ unlocked' = [unlocked EXCEPT ![c] = unlocked[c]]
        /\ finished' = [finished EXCEPT ![c] = finished[c]]
        /\ seen' = [seen EXCEPT ![c] = seen[c]] /\ now' = now
    BY <1>0, <1>3, Parts
  <1>9. x \in Rows /\ h \in HandType /\ row' = [row EXCEPT ![c] = x] BY <1>0, <1>2
  <1> QED BY ONLY <1>1, <1>6, <1>7, <1>8, <1>9, IInv, c \in Coins, CoinStep, ZenonT(20)

\* An unlock writes its lock.
LEMMA UnlockInv == ASSUME IInv, NEW c \in Coins, NEW r \in Sides, Unlock(c, r) PROVE IInv'
PROOF
  <1> DEFINE x == IF r = "unlock_s" THEN [row[c] EXCEPT !.locked2 = FALSE]
                                    ELSE [row[c] EXCEPT !.locked = FALSE]
             un == unlocked[c] \cup {r}
  <1>0. /\ r \in Roles /\ "select" \in Pcs /\ row \in [Coins -> Rows] /\ row[c] \in Rows
        /\ unlocked \in [Coins -> SUBSET Roles] /\ row[c].batch /\ TypeOK
        /\ UNCHANGED <<now, latch, place, finished, seen>>
    BY DEF Sides, Roles, Pcs, IInv, TypeOK, Unlock
  <1>1. PICK h \in HandType :
          /\ hand' = [hand EXCEPT ![c] = h] /\ h[r].pc \in {"idle", "select"}
          /\ h[r].pc = "select" => c \in Latched
          /\ \A t \in Roles \ {r} : h[t] = hand[c][t]
    <2>1. CASE c \in Latched
      <3>1. Goto(c, r, "select") BY <2>1 DEF Unlock
      <3> QED BY <1>0, <2>1, <3>1, GotoSet
    <2>2. CASE c \notin Latched
      <3>1. /\ hand' = [hand EXCEPT ![c] = hand[c]] /\ hand[c] \in HandType
            /\ hand[c][r].pc = "idle"
        BY <1>0, <2>2, Parts, IdleType DEF Unlock
      <3> QED BY <3>1
    <2> QED BY <2>1, <2>2
  <1>2. /\ x \in Rows /\ x.to = row[c].to /\ x.batch = row[c].batch /\ x.time = row[c].time
        /\ x.locked = IF r = "unlock_s" THEN row[c].locked ELSE FALSE
        /\ x.locked2 = IF r = "unlock_s" THEN FALSE ELSE row[c].locked2
    BY <1>0 DEF Rows
  <1>3. un \in SUBSET Roles /\ unlocked[c] \subseteq un /\ r \in un BY <1>0
  <1>4. row' = [row EXCEPT ![c] = x] /\ unlocked' = [unlocked EXCEPT ![c] = un]
    BY <1>0 DEF Unlock
  <1>5. Coin(c, row[c], hand[c], latch[c], unlocked[c], finished[c], now)
        /\ TakeOK(c, row[c], hand[c], place[c], seen[c], unlocked)
    BY DEF IInv
  <1>6. /\ h["take"] = hand[c]["take"] /\ h["send"] = hand[c]["send"]
        /\ \A t \in Sides \ {r} : h[t] = hand[c][t]
    BY <1>1 DEF Sides, Roles
  <1> HIDE DEF x, un
  <1>7. Coin(c, x, h, latch[c], un, finished[c], now)
    <2>1. row[c].to # "none" BY <1>0, <1>5 DEF Coin, RowOK
    <2>2. RowOK(x, h, un, finished[c]) BY <1>2, <1>5, <2>1 DEF Coin, RowOK
    <2>3. SendOK(c, x, h, latch[c], now) BY <1>2, <1>5, <1>6 DEF Coin, SendOK
    <2>4. LockOK(c, x, un, latch[c]) BY <1>2, <1>3, <1>5 DEF Coin, LockOK, Sides
    <2>5. LatchOK(c, x, h, latch[c], un, finished[c])
      <3>1. ASSUME NEW t \in Sides, t # r
            PROVE  /\ h[t].pc \in {"idle", "select", "latch"}
                   /\ x.batch /\ (t \in finished[c] \/ h[t].pc # "idle") => ~Lock(x, t)
                   /\ h[t].pc = "latch" => Sides \subseteq un
                   /\ h[t].pc # "idle" => c \in Latched
        BY <1>2, <1>3, <1>5, <1>6, <3>1 DEF Coin, LatchOK, Lock, Sides
      <3>2. ~Lock(x, r) BY <1>2 DEF Lock
      <3> QED BY <1>1, <1>3, <1>5, <3>1, <3>2 DEF Coin, LatchOK
    <2> QED BY <2>2, <2>3, <2>4, <2>5 DEF Coin
  <1>8. TakeOK(c, x, h, place[c], seen[c], unlocked) BY <1>2, <1>5, <1>6 DEF TakeOK
  <1>9. /\ latch[c] \in LatchType /\ place[c] \in Places /\ finished[c] \in SUBSET Roles
        /\ seen[c] \in SUBSET Coins
        /\ latch' = [latch EXCEPT ![c] = latch[c]] /\ place' = [place EXCEPT ![c] = place[c]]
        /\ finished' = [finished EXCEPT ![c] = finished[c]]
        /\ seen' = [seen EXCEPT ![c] = seen[c]] /\ now' = now
    BY <1>0, Parts
  <1>10. x \in Rows /\ h \in HandType /\ hand' = [hand EXCEPT ![c] = h] BY <1>1, <1>2
  <1> QED BY ONLY <1>3, <1>4, <1>7, <1>8, <1>9, <1>10, IInv, c \in Coins, CoinStep, ZenonT(20)

\* The steps after the first leave the row and the unlocks alone.
LEMMA SideStep ==
  ASSUME IInv, NEW c \in Coins, NEW r \in Sides, NEW h \in HandType, NEW l \in LatchType,
         NEW fi \in SUBSET Roles,
         hand' = [hand EXCEPT ![c] = h], latch' = [latch EXCEPT ![c] = l],
         finished' = [finished EXCEPT ![c] = fi],
         UNCHANGED <<now, row, place, unlocked, seen>>,
         hand[c][r].pc # "idle", \A t \in Roles \ {r} : h[t] = hand[c][t],
         latch[c] = "none" <=> l = "none", LatchOK(c, row[c], h, l, unlocked[c], fi)
  PROVE  IInv'
PROOF
  <1>1. Coin(c, row[c], hand[c], latch[c], unlocked[c], finished[c], now)
        /\ TakeOK(c, row[c], hand[c], place[c], seen[c], unlocked) /\ TypeOK
    BY DEF IInv
  <1>2. h["take"] = hand[c]["take"] /\ h["send"] = hand[c]["send"] BY DEF Sides, Roles
  <1>3. Coin(c, row[c], h, l, unlocked[c], fi, now)
    <2>1. row[c].to # "none" BY <1>1 DEF Coin, RowOK
    <2>2. RowOK(row[c], h, unlocked[c], fi) BY <1>1, <2>1 DEF Coin, RowOK
    <2>3. SendOK(c, row[c], h, l, now) BY <1>1, <1>2 DEF Coin, SendOK
    <2>4. LockOK(c, row[c], unlocked[c], l) BY <1>1 DEF Coin, LockOK
    <2> QED BY <2>2, <2>3, <2>4 DEF Coin
  <1>4. TakeOK(c, row[c], h, place[c], seen[c], unlocked) BY <1>1, <1>2 DEF TakeOK
  <1>5. /\ row[c] \in Rows /\ place[c] \in Places /\ unlocked[c] \in SUBSET Roles
        /\ seen[c] \in SUBSET Coins /\ unlocked[c] \subseteq unlocked[c]
        /\ row' = [row EXCEPT ![c] = row[c]] /\ place' = [place EXCEPT ![c] = place[c]]
        /\ unlocked' = [unlocked EXCEPT ![c] = unlocked[c]]
        /\ seen' = [seen EXCEPT ![c] = seen[c]] /\ now' = now
    BY <1>1, Parts
  <1>6. /\ IInv /\ c \in Coins /\ h \in HandType /\ l \in LatchType /\ fi \in SUBSET Roles
        /\ hand' = [hand EXCEPT ![c] = h] /\ latch' = [latch EXCEPT ![c] = l]
        /\ finished' = [finished EXCEPT ![c] = fi]
    OBVIOUS
  <1> QED BY ONLY <1>3, <1>4, <1>5, <1>6, CoinStep, ZenonT(20)

\* The end of an unlock: it opens the latch, or found a lock set or the coin
\* out of the batch.
LEMMA FinishInv ==
  ASSUME IInv, NEW c \in Coins, NEW r \in Sides, hand[c][r].pc # "idle", Finish(c, r),
         NEW l \in LatchType, latch' = [latch EXCEPT ![c] = l],
         UNCHANGED <<now, row, place, unlocked, seen>>,
         latch[c] = "none" <=> l = "none",
         l # latch[c] => l = "open" /\ Sides \subseteq unlocked[c],
         row[c].batch => l \in {"open", "released"} \/ row[c].locked \/ row[c].locked2
  PROVE  IInv'
PROOF
  <1> DEFINE fi == IF row[c].batch THEN finished[c] \cup {r} ELSE finished[c]
  <1>0. r \in Roles /\ TypeOK /\ finished \in [Coins -> SUBSET Roles]
    BY DEF Sides, Roles, IInv, TypeOK
  <1>1. PICK h \in HandType :
          /\ hand' = [hand EXCEPT ![c] = h] /\ h[r] = Idle
          /\ \A t \in Roles \ {r} : h[t] = hand[c][t]
    BY <1>0, DoneSet DEF Finish
  <1>2. /\ fi \in SUBSET Roles /\ finished[c] \subseteq fi /\ fi \subseteq finished[c] \cup {r}
        /\ (~row[c].batch => fi = finished[c])
        /\ finished' = [finished EXCEPT ![c] = fi]
    BY <1>0 DEF Finish
  <1>3. LatchOK(c, row[c], hand[c], latch[c], unlocked[c], finished[c]) BY DEF IInv, Coin
  <1> HIDE DEF fi
  <1>4. LatchOK(c, row[c], h, l, unlocked[c], fi)
    <2>1. ASSUME NEW t \in Sides
          PROVE  /\ h[t].pc \in {"idle", "select", "latch"}
                 /\ row[c].batch /\ (t \in fi \/ h[t].pc # "idle") => ~Lock(row[c], t)
                 /\ h[t].pc = "latch" => Sides \subseteq unlocked[c]
                 /\ h[t].pc # "idle" => c \in Latched
      <3>1. CASE t = r BY <1>1, <1>3, <3>1, IdleType DEF LatchOK
      <3>2. CASE t # r
        <4>1. h[t] = hand[c][t] BY <1>1, <3>2 DEF Sides, Roles
        <4> QED BY <1>2, <1>3, <3>2, <4>1 DEF LatchOK
      <3> QED BY <3>1, <3>2
    <2>2. /\ c \notin Latched => l = "none"
          /\ l \in {"open", "released"} => Sides \subseteq unlocked[c]
      BY <1>3 DEF LatchOK
    <2>3. c \in Latched /\ Sides \subseteq fi => l \in {"open", "released"}
      <3>1. CASE row[c].batch
        <4>1. Sides \subseteq fi => ~row[c].locked /\ ~row[c].locked2
          BY <2>1, <3>1 DEF Sides, Lock
        <4> QED BY <3>1, <4>1
      <3>2. CASE ~row[c].batch BY <1>2, <1>3, <3>2 DEF LatchOK
      <3> QED BY <3>1, <3>2
    <2> QED BY <2>1, <2>2, <2>3 DEF LatchOK
  <1>5. h \in HandType /\ fi \in SUBSET Roles /\ \A t \in Roles \ {r} : h[t] = hand[c][t]
    BY <1>1, <1>2
  <1> QED BY <1>1, <1>2, <1>4, <1>5, SideStep

LEMMA UnlockSelectInv ==
  ASSUME IInv, NEW c \in Coins, NEW r \in Sides, UnlockSelect(c, r) PROVE IInv'
PROOF
  <1>0. /\ r \in Roles /\ "latch" \in Pcs /\ hand[c][r].pc = "select" /\ TypeOK
        /\ UNCHANGED <<now, row, latch, place, unlocked, seen>>
    BY DEF Sides, Roles, Pcs, IInv, UnlockSelect
  <1>1. /\ latch[c] \in LatchType /\ latch' = [latch EXCEPT ![c] = latch[c]]
        /\ finished[c] \in SUBSET Roles /\ finished = [finished EXCEPT ![c] = finished[c]]
    BY <1>0, Parts
  <1>2. CASE ~BothOpen(row[c]) /\ Finish(c, r)
    BY <1>0, <1>1, <1>2, FinishInv DEF BothOpen
  <1>3. CASE BothOpen(row[c]) /\ Goto(c, r, "latch") /\ UNCHANGED finished
    <2>1. PICK h \in HandType :
            /\ hand' = [hand EXCEPT ![c] = h] /\ h[r].pc = "latch"
            /\ \A t \in Roles \ {r} : h[t] = hand[c][t]
      BY <1>0, <1>3, GotoSet
    <2>2. /\ LatchOK(c, row[c], hand[c], latch[c], unlocked[c], finished[c])
          /\ LockOK(c, row[c], unlocked[c], latch[c])
      BY DEF IInv, Coin
    <2>3. c \in Latched /\ Sides \subseteq unlocked[c]
      BY <1>0, <1>3, <2>2 DEF LatchOK, LockOK, BothOpen, Sides
    <2>4. \A t \in Sides \ {r} : h[t] = hand[c][t] BY <2>1 DEF Sides, Roles
    <2>5. ASSUME NEW t \in Sides
          PROVE  /\ h[t].pc \in {"idle", "select", "latch"}
                 /\ row[c].batch /\ (t \in finished[c] \/ h[t].pc # "idle") => ~Lock(row[c], t)
                 /\ h[t].pc # "idle" => c \in Latched
      BY <1>0, <2>1, <2>2, <2>3, <2>4 DEF LatchOK
    <2>6. LatchOK(c, row[c], h, latch[c], unlocked[c], finished[c])
      BY <2>2, <2>3, <2>5 DEF LatchOK
    <2>7. /\ IInv /\ c \in Coins /\ r \in Sides /\ h \in HandType /\ hand[c][r].pc # "idle"
          /\ finished' = [finished EXCEPT ![c] = finished[c]]
          /\ UNCHANGED <<now, row, place, unlocked, seen>>
          /\ latch[c] = "none" <=> latch[c] = "none"
      BY <1>0, <1>1, <1>3
    <2> QED BY ONLY <1>1, <2>1, <2>6, <2>7, SideStep, ZenonT(20)
  <1> QED BY <1>2, <1>3 DEF UnlockSelect

LEMMA UnlockLatchInv ==
  ASSUME IInv, NEW c \in Coins, NEW r \in Sides, UnlockLatch(c, r) PROVE IInv'
PROOF
  <1> DEFINE l == IF latch[c] = "locked" THEN "open" ELSE latch[c]
  <1>0. /\ hand[c][r].pc = "latch" /\ TypeOK /\ Finish(c, r)
        /\ UNCHANGED <<now, row, place, unlocked, seen>>
    BY DEF IInv, UnlockLatch
  <1>1. latch[c] \in LatchType /\ latch = [latch EXCEPT ![c] = latch[c]] BY <1>0, Parts
  <1>2. l \in LatchType /\ latch' = [latch EXCEPT ![c] = l] BY <1>1 DEF UnlockLatch, LatchType
  <1>3. /\ LatchOK(c, row[c], hand[c], latch[c], unlocked[c], finished[c])
        /\ LockOK(c, row[c], unlocked[c], latch[c])
    BY DEF IInv, Coin
  <1>4. c \in Latched /\ Sides \subseteq unlocked[c] BY <1>0, <1>3 DEF LatchOK
  <1>5. /\ latch[c] = "none" <=> l = "none"
        /\ l # latch[c] => l = "open" /\ Sides \subseteq unlocked[c]
        /\ row[c].batch => l \in {"open", "released"}
    BY <1>1, <1>3, <1>4 DEF LockOK, LatchType
  <1> HIDE DEF l
  <1> QED BY <1>0, <1>2, <1>5, FinishInv

\* An unlock stops.
LEMMA StopInv == ASSUME IInv, NEW c \in Coins, NEW r \in Sides, Stop(c, r) PROVE IInv'
PROOF
  <1>0. r \in Roles BY DEF Sides, Roles
  <1>1. PICK h \in HandType :
          /\ hand' = [hand EXCEPT ![c] = h] /\ h[r] = Idle
          /\ \A t \in Roles \ {r} : h[t] = hand[c][t]
    BY <1>0, DoneSet DEF Stop
  <1>2. Coin(c, row[c], hand[c], latch[c], unlocked[c], finished[c], now)
        /\ TakeOK(c, row[c], hand[c], place[c], seen[c], unlocked)
    BY DEF IInv
  <1>3. /\ h["take"] = hand[c]["take"] /\ h["send"] = hand[c]["send"] /\ h[r].pc = "idle"
        /\ \A t \in Sides \ {r} : h[t] = hand[c][t]
    BY <1>1, IdleType DEF Sides, Roles
  <1>4. Coin(c, row[c], h, latch[c], unlocked[c], finished[c], now)
    BY <1>2, <1>3 DEF Coin, RowOK, SendOK, LatchOK
  <1>5. TakeOK(c, row[c], h, place[c], seen[c], unlocked) BY <1>2, <1>3 DEF TakeOK
  <1>6. UNCHANGED <<now, row, latch, place, history>> BY DEF Stop
  <1> QED BY <1>1, <1>4, <1>5, <1>6, HandStep

\* A request for the coin starts.
LEMMA ReadInv == ASSUME IInv, NEW c \in Coins, ReadBatch(c) PROVE IInv'
PROOF
  <1> DEFINE q == [Idle EXCEPT !.pc = IF row[c].batch THEN "locks" ELSE "key", !.to = row[c].to]
             h == [hand[c] EXCEPT !["take"] = q]
  <1>0. /\ "take" \in Roles /\ TypeOK /\ row[c] \in Rows /\ row[c].to # "none"
        /\ place[c] = "sender" /\ UNCHANGED <<now, row, latch, place, history>>
    BY DEF Roles, IInv, TypeOK, ReadBatch
  <1>1. /\ q \in HandRec /\ q.to = row[c].to
        /\ q.pc = IF row[c].batch THEN "locks" ELSE "key"
    BY <1>0 DEF HandRec, Idle, Pcs, Rows
  <1>2. hand' = [hand EXCEPT ![c] = h] BY <1>0 DEF ReadBatch, TypeOK
  <1> HIDE DEF q
  <1>3. h \in HandType /\ h["take"] = q /\ \A t \in Roles \ {"take"} : h[t] = hand[c][t]
    BY <1>0, <1>1, HandSet
  <1> HIDE DEF h
  <1>4. Coin(c, row[c], hand[c], latch[c], unlocked[c], finished[c], now) BY DEF IInv
  <1>5. h["send"] = hand[c]["send"] /\ \A r \in Sides : h[r] = hand[c][r]
    BY <1>3 DEF Sides, Roles
  <1>6. Coin(c, row[c], h, latch[c], unlocked[c], finished[c], now)
    BY <1>0, <1>4, <1>5 DEF Coin, RowOK, SendOK, LatchOK
  <1>7. TakeOK(c, row[c], h, place[c], seen[c], unlocked)
    BY <1>0, <1>1, <1>3, <1>4 DEF TakeOK, Coin, RowOK
  <1> QED BY <1>0, <1>2, <1>3, <1>6, <1>7, HandStep

\* It moves on or ends: the rest of the coin's state allows any place and any
\* coins seen.
LEMMA TakeStep ==
  ASSUME IInv, NEW c \in Coins, NEW h \in HandType, NEW p \in Places, NEW S \in SUBSET Coins,
         hand' = [hand EXCEPT ![c] = h], place' = [place EXCEPT ![c] = p],
         seen' = [seen EXCEPT ![c] = S], UNCHANGED <<now, row, latch, unlocked, finished>>,
         hand[c]["take"].pc # "idle", \A t \in Roles \ {"take"} : h[t] = hand[c][t],
         TakeOK(c, row[c], h, p, S, unlocked)
  PROVE  IInv'
PROOF
  <1>1. Coin(c, row[c], hand[c], latch[c], unlocked[c], finished[c], now) /\ TypeOK BY DEF IInv
  <1>2. h["send"] = hand[c]["send"] /\ \A r \in Sides : h[r] = hand[c][r] BY DEF Sides, Roles
  <1>3. Coin(c, row[c], h, latch[c], unlocked[c], finished[c], now)
    BY <1>1, <1>2 DEF Coin, RowOK, SendOK, LatchOK
  <1>4. /\ row[c] \in Rows /\ latch[c] \in LatchType /\ unlocked[c] \in SUBSET Roles
        /\ finished[c] \in SUBSET Roles /\ unlocked[c] \subseteq unlocked[c]
        /\ row' = [row EXCEPT ![c] = row[c]] /\ latch' = [latch EXCEPT ![c] = latch[c]]
        /\ unlocked' = [unlocked EXCEPT ![c] = unlocked[c]]
        /\ finished' = [finished EXCEPT ![c] = finished[c]] /\ now' = now
    BY <1>1, Parts
  <1>5. /\ IInv /\ c \in Coins /\ h \in HandType /\ p \in Places /\ S \in SUBSET Coins
        /\ hand' = [hand EXCEPT ![c] = h] /\ place' = [place EXCEPT ![c] = p]
        /\ seen' = [seen EXCEPT ![c] = S] /\ TakeOK(c, row[c], h, p, S, unlocked)
    OBVIOUS
  <1> QED BY ONLY <1>3, <1>4, <1>5, CoinStep, ZenonT(20)

LEMMA CheckLocksInv == ASSUME IInv, NEW c \in Coins, CheckLocks(c) PROVE IInv'
PROOF
  <1>0. /\ "take" \in Roles /\ "key" \in Pcs /\ TypeOK /\ hand[c]["take"].pc = "locks"
        /\ UNCHANGED <<now, row, latch, place, unlocked, finished>>
    BY DEF Roles, Pcs, IInv, CheckLocks
  <1>1. TakeOK(c, row[c], hand[c], place[c], seen[c], unlocked) BY DEF IInv
  <1>2. place[c] \in Places /\ place' = [place EXCEPT ![c] = place[c]] /\ place[c] = "sender"
    BY <1>0, <1>1, Parts DEF TakeOK
  <1>3. CASE is_all_coins_unlocked /\ Goto(c, "take", "key") /\ Checked(c)
    <2> DEFINE S == {d \in Coins : row[d].batch}
    <2>1. PICK h \in HandType :
            /\ hand' = [hand EXCEPT ![c] = h] /\ \A t \in Roles \ {"take"} : h[t] = hand[c][t]
      BY <1>0, <1>3, GotoSet
    <2>2. row[c].to = "peer" => c \in S BY DEF IInv, Coin, RowOK
    <2>3. Agreed(S, unlocked)
      BY <1>3 DEF IInv, Coin, LockOK, Agreed, is_all_coins_unlocked
    <2>4. TakeOK(c, row[c], h, place[c], S, unlocked) BY <1>2, <2>2, <2>3 DEF TakeOK
    <2>5. S \in SUBSET Coins /\ seen' = [seen EXCEPT ![c] = S] BY <1>3 DEF Checked
    <2> HIDE DEF S
    <2> QED BY <1>0, <1>2, <2>1, <2>4, <2>5, TakeStep
  <1>4. CASE Done(c, "take") /\ UNCHANGED seen
    <2>1. PICK h \in HandType :
            /\ hand' = [hand EXCEPT ![c] = h] /\ h["take"] = Idle
            /\ \A t \in Roles \ {"take"} : h[t] = hand[c][t]
      BY <1>0, <1>4, DoneSet
    <2>2. TakeOK(c, row[c], h, place[c], seen[c], unlocked)
      BY <1>1, <2>1, IdleType DEF TakeOK
    <2>3. seen[c] \in SUBSET Coins /\ seen' = [seen EXCEPT ![c] = seen[c]]
      BY <1>0, <1>4, Parts
    <2> QED BY <1>0, <1>2, <2>1, <2>2, <2>3, TakeStep
  <1> QED BY <1>3, <1>4 DEF CheckLocks

LEMMA TakeInv == ASSUME IInv, NEW c \in Coins, Take(c) PROVE IInv'
PROOF
  <1> DEFINE to == hand[c]["take"].to
             p == IF row[c].to = to THEN to ELSE place[c]
  <1>0. /\ "take" \in Roles /\ TypeOK /\ hand[c]["take"].pc = "key" /\ row[c] \in Rows
        /\ Done(c, "take") /\ UNCHANGED <<now, row, latch, unlocked, finished, seen>>
    BY DEF Roles, IInv, TypeOK, Take, history
  <1>1. /\ TakeOK(c, row[c], hand[c], place[c], seen[c], unlocked)
        /\ RowOK(row[c], hand[c], unlocked[c], finished[c])
    BY DEF IInv, Coin
  <1>2. place[c] \in Places /\ place = [place EXCEPT ![c] = place[c]]
        /\ seen[c] \in SUBSET Coins /\ seen' = [seen EXCEPT ![c] = seen[c]]
    BY <1>0, Parts
  <1>3. row[c].to \in {"peer", "back"} BY <1>0, <1>1 DEF RowOK, Rows
  <1>4. p \in Places /\ place' = [place EXCEPT ![c] = p]
    BY <1>2, <1>3 DEF Take, Places
  <1>5. PICK h \in HandType :
          /\ hand' = [hand EXCEPT ![c] = h] /\ h["take"] = Idle
          /\ \A t \in Roles \ {"take"} : h[t] = hand[c][t]
    BY <1>0, DoneSet
  <1>6. TakeOK(c, row[c], h, p, seen[c], unlocked)
    BY <1>0, <1>1, <1>5, IdleType DEF TakeOK
  <1> HIDE DEF p
  <1> QED BY <1>0, <1>2, <1>4, <1>5, <1>6, TakeStep

LEMMA StepInv == IInv /\ [Next]_vars => IInv'
PROOF
  <1> SUFFICES ASSUME IInv, [Next]_vars PROVE IInv' OBVIOUS
  <1>1. CASE UNCHANGED vars
    <2>1. TypeOK' BY <1>1 DEF IInv, TypeOK, vars
    <2> QED BY <1>1, <2>1 DEF IInv, vars
  <1>2. CASE Tick BY <1>2, TickInv
  <1>3. ASSUME NEW c \in Coins, Send(c) PROVE IInv'
    <2>1. CASE row[c].to # "back" /\ Offer(c, "peer", TRUE) BY <2>1, OfferInv
    <2>2. CASE row[c].batch /\ Offer(c, "back", FALSE) BY <2>2, OfferInv
    <2> QED BY <1>3, <2>1, <2>2, InsertInv DEF Send
  <1>4. ASSUME NEW c \in Coins, Receive(c) PROVE IInv'
    BY <1>4, ReadInv, CheckLocksInv, TakeInv DEF Receive
  <1>5. ASSUME NEW c \in Coins, NEW r \in Sides, UnlockBy(c, r) \/ Stop(c, r) PROVE IInv'
    BY <1>5, UnlockInv, UnlockSelectInv, UnlockLatchInv, StopInv DEF UnlockBy
  <1> QED BY <1>1, <1>2, <1>3, <1>4, <1>5, LatchInv DEF Next, Sides

-----------------------------------------------------------------------------
(* What follows, whatever time a handler takes *)

\* Type correctness of the server's rows and handlers.
THEOREM TypesHold == Spec => []TypeOK
PROOF
  <1>1. IInv => TypeOK BY DEF IInv
  <1> QED BY InitInv, StepInv, <1>1, PTL DEF Spec

\* No coin of a batch passes to its peer before every coin that is in the
\* batch when its locks are checked was unlocked, a latched one by its owner
\* too.
THEOREM CoinsTakenTogether == Spec => []TakenTogether
PROOF
  <1>1. ASSUME IInv PROVE TakenTogether BY <1>1 DEF IInv, TakeOK, Agreed, TakenTogether
  <1> QED BY InitInv, StepInv, <1>1, PTL DEF Spec

\* Once an unlock with the owner's signature and another one have run to their
\* end for a latched coin its latch is open.
THEOREM LatchHasOpened == Spec => []LatchOpens
PROOF
  <1>1. ASSUME IInv PROVE LatchOpens
    BY <1>1, CoinAssumption DEF IInv, Coin, LatchOK, LatchOpens, Sides
  <1> QED BY InitInv, StepInv, <1>1, PTL DEF Spec

\* The preimage is released only after an unlock with the owner's signature
\* and another one.
THEOREM PreimageIsEarned == Spec => []PreimageEarned
PROOF
  <1>1. ASSUME IInv PROVE PreimageEarned
    BY <1>1 DEF IInv, Coin, LatchOK, PreimageEarned, Sides
  <1> QED BY InitInv, StepInv, <1>1, PTL DEF Spec

\* A coin leaves its batch only when the batch has expired or both its own
\* locks are open.
THEOREM BatchIsHeld == Spec => LockHeld
PROOF
  <1> DEFINE Holds == \A c \in Coins :
               row[c].batch /\ ~row'[c].batch
                 => is_batch_expired(row[c].time) \/ ~(row[c].locked \/ row[c].locked2)
  <1>1. ASSUME IInv, [Next]_vars PROVE [Holds]_vars
    <2> SUFFICES ASSUME NEW c \in Coins, row[c].batch, ~row'[c].batch
                 PROVE  is_batch_expired(row[c].time) \/ ~(row[c].locked \/ row[c].locked2)
      OBVIOUS
    <2>1. row \in [Coins -> Rows] BY <1>1 DEF IInv, TypeOK
    <2>2. ASSUME NEW d \in Coins, NEW r, Unlock(d, r) PROVE FALSE
      <3>1. row[c] \in Rows BY <2>1
      <3>2. row'[c].batch = row[c].batch BY <2>1, <2>2, <3>1 DEF Unlock, Rows
      <3> QED BY <3>2
    <2>3. ASSUME NEW d \in Coins, NEW r, NEW to, NEW batch,
                 \/ Offer(d, to, batch) \/ post_paymenthash(d) \/ transfer_preimage(d)
                 \/ Receive(d) \/ Stop(d, r) \/ UnlockSelect(d, r) \/ UnlockLatch(d, r)
          PROVE  FALSE
      <3>1. row' = row
        BY <2>3 DEF Offer, post_paymenthash, transfer_preimage, Receive, ReadBatch, CheckLocks,
                    Take, Stop, UnlockSelect, UnlockLatch
      <3> QED BY <3>1
    <2>4. ~(Tick \/ UNCHANGED vars)
      <3>1. Tick \/ UNCHANGED vars => row' = row BY DEF Tick, vars
      <3> QED BY <3>1
    <2>5. PICK d \in Coins : InsertTransfer(d)
      BY <1>1, <2>2, <2>3, <2>4 DEF Next, Send, UnlockBy
    <2>6. d = c BY <2>1, <2>5 DEF InsertTransfer
    <2>7. hand[c]["send"].pc = "back"
      <3>1. hand[c]["send"].pc = "join" => row'[c].batch BY <2>1, <2>5, <2>6 DEF InsertTransfer
      <3> QED BY <2>5, <2>6, <3>1 DEF InsertTransfer
    <2>8. SendOK(c, row[c], hand[c], latch[c], now) BY <1>1 DEF IInv, Coin
    <2> QED BY <2>7, <2>8 DEF SendOK, Late, is_batch_expired
  <1> QED BY InitInv, StepInv, <1>1, PTL DEF Spec, LockHeld
=============================================================================
