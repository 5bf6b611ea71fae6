--------------------------- MODULE StatecoinProofs ---------------------------
(***************************************************************************)
(* Proofs about Statecoin, for any number of addresses, any locktime       *)
(* configuration and any number of offers and signing sessions.            *)
(*                                                                         *)
(* The argument: sigs counts the transactions signed, each of which is the *)
(* challenge of its own session.  So a message that passes num_sigs and    *)
(* whose transactions are all signed lists every transaction there is, and *)
(* as long as the transfer row holds the message's x1 no further backup is *)
(* signed.  A later offer changes x1, and a key update with another x1     *)
(* makes a key the receiver refuses.                                       *)
(***************************************************************************)
EXTENDS Statecoin, FiniteSetTheorems, SequenceTheorems, WellFoundedInduction, TLAPS

\* Each leaf is given to Zenon and then to SMT, for so many seconds.
USE ZenonT(10), SMTT(20)

-----------------------------------------------------------------------------
(* The inductive invariant; sg stands for signed *)

\* A list of backup transactions a wallet stores or sends.
ListOK(L, sg) ==
  /\ L \in Seq(Tx)
  /\ \A k \in 1..Len(L) : L[k] \in sg /\ L[k].n = k

\* L has a last transaction that pays to u, and above it every backup that
\* somebody else had signed for somebody else.
Cover(u, L, sg) ==
  \E k \in 1..Len(L) :
    /\ L[k].to = u /\ \A j \in (k + 1)..Len(L) : L[j].to # u
    /\ \A tx \in sg : tx.n > 0 /\ tx.by # u /\ tx.to # u => tx.n < k /\ L[tx.n] = tx

Disclosed(L, sg) == \A tx \in sg : tx.n > 0 => tx.n <= Len(L) /\ L[tx.n] = tx

\* A message posted for u, while the transfer row's x1 is x.
MsgOK(m, u, x, sg) ==
  /\ m # NoMsg /\ m.to = u /\ m.from # u /\ m.x1 <= x
  /\ ListOK(m.txs, sg)
  /\ Len(m.txs) # 0 /\ m.txs[Len(m.txs)].to = u

Sending == {"offered", "first", "second"}
Receiving == {"fetched", "validated", "prepared", "accepted", "stored"}

New(q, u) == [n |-> Len(q.msg.txs) + 1, to |-> q.msg.to, by |-> u, s |-> q.row]

\* What a sender's command q of u has built from the stored list own.
Sender(q, u, own, s, x, sg) ==
  /\ q.at \in Sending \cup {"posted", "saved"} => s \in Held
  /\ q.at \in Sending \cup {"posted"} =>
       q.msg # NoMsg /\ q.msg.from = u /\ q.msg.to # u /\ q.msg.x1 <= x
  /\ q.at \in Sending => q.msg.txs = own
  /\ q.at = "second" => New(q, u) \in sg
  /\ q.at = "posted" =>
       /\ ListOK(q.msg.txs, sg) /\ Len(q.msg.txs) = Len(own) + 1
       /\ q.msg.txs[Len(own) + 1].to # u
       /\ \A k \in 1..Len(own) : q.msg.txs[k] = own[k]

\* What a receiver's command knows of the offer o; h is the key's holder and
\* a the authorised address.
Receiver(q, u, own, s, o, h, a, sg, again) ==
  /\ q.at \in Receiving =>
       /\ s = "INITIALISED" /\ MsgOK(q.msg, u, o.x1, sg)
       /\ o.to = u /\ q.msg.x1 # o.x1 => again
  /\ q.at \in {"validated", "prepared"} =>
       /\ h # u
       /\ q.msg.x1 = o.x1 =>
            Disclosed(q.msg.txs, sg) /\ (~o.key_updated => h = q.msg.from)
  /\ q.at = "accepted" /\ h = u => Cover(u, q.msg.txs, sg)
  /\ q.at = "stored" /\ a = u => Cover(u, own, sg)

\* The stored list of u, and what it is worth to the owner.
Wallet(u, own, s, a, sg) ==
  /\ ListOK(own, sg)
  /\ s \in Held /\ a = u => Cover(u, own, sg)

\* Each signed transaction is the challenge of its own session.
Sessions(rs, sg, n) ==
  /\ IsFiniteSet(sg) /\ n = Cardinality(sg)
  /\ \A tx \in sg : tx.s \in 1..Len(rs) /\ rs[tx.s] = tx

\* The owner's session is open, and while the owner builds a backup nobody
\* has a message of the current offer.
Owner(q, o, rs) ==
  /\ q.at \in {"first", "wfirst"} => q.row \in 1..Len(rs) /\ rs[q.row] = Null
  /\ q.at \in Sending => o.msg = NoMsg /\ q.msg.x1 = o.x1 /\ q.msg.to = o.to
Unposted(q, js, x) ==
  q.at \in Sending => \A u \in Users : js[u].at \in Receiving => js[u].msg.x1 < x

Keys(h, a, again) == h \in {a, NoUser} /\ (~again => h = a)

IInv ==
  /\ TypeOK
  /\ Keys(holder, auth, resent)
  /\ Sessions(rows, signed, sigs)
  /\ Owner(job[auth], offer, rows)
  /\ Unposted(job[auth], job, offer.x1)
  /\ offer.msg # NoMsg =>
       MsgOK(offer.msg, offer.to, offer.x1, signed) /\ offer.msg.x1 = offer.x1
  /\ \A u \in Users :
       /\ Wallet(u, txs[u], st[u], auth, signed)
       /\ Sender(job[u], u, txs[u], st[u], offer.x1, signed)
       /\ Receiver(job[u], u, txs[u], st[u], offer, holder, auth, signed, resent)

-----------------------------------------------------------------------------
(* Frames: what a step of one command leaves alone *)

JobType == [at : Steps, row : Nat, seen : Nat, msg : Msg]

LEMMA Constants ==
  /\ Null \notin Tx /\ NoUser \notin Users /\ Depositor \in Users
  /\ Idle \in JobType /\ Idle.at = "idle" /\ NoMsg \in Msg
PROOF
  BY UserAssumption DEF Null, Tx, Idle, JobType, Steps, Msg

\* A step of the command of u that leaves the offer, the key and the signed
\* transactions alone.
LEMMA OwnStep ==
  ASSUME IInv, NEW u \in Users, NEW q \in JobType, NEW own \in Seq(Tx), NEW s \in Status,
         job' = [job EXCEPT ![u] = q],
         txs' = [txs EXCEPT ![u] = own], st' = [st EXCEPT ![u] = s],
         UNCHANGED <<auth, offer, sigs, holder, signed, resent>>,
         height' \in Nat, spent' \in SUBSET Tx, alive' \in BOOLEAN, nonce' \in Nat,
         rows' \in Seq(Tx \cup {Null}), Sessions(rows', signed, sigs),
         Owner(IF auth = u THEN q ELSE job[auth], offer, rows'),
         q.at \in Receiving => job[auth].at \notin Sending \/ q.msg.x1 < offer.x1,
         q.at \in Sending => job[u].at \in Sending,
         Wallet(u, own, s, auth, signed),
         Sender(q, u, own, s, offer.x1, signed),
         Receiver(q, u, own, s, offer, holder, auth, signed, resent)
  PROVE  IInv'
PROOF
  <1>0. /\ TypeOK /\ auth \in Users /\ job \in [Users -> JobType]
        /\ txs \in [Users -> Seq(Tx)] /\ st \in [Users -> Status]
    BY DEF IInv, TypeOK, JobType
  <1>1. /\ \A w \in Users : job'[w] = IF w = u THEN q ELSE job[w]
        /\ \A w \in Users : txs'[w] = IF w = u THEN own ELSE txs[w]
        /\ \A w \in Users : st'[w] = IF w = u THEN s ELSE st[w]
    BY <1>0
  <1>2. TypeOK'
    <2>1. /\ job' \in [Users -> JobType] /\ txs' \in [Users -> Seq(Tx)]
          /\ st' \in [Users -> Status]
      BY <1>0
    <2> QED BY <1>0, <2>1 DEF TypeOK, JobType
  <1>3. Owner(job'[auth], offer, rows') BY <1>0, <1>1
  <1>4. Unposted(job'[auth], job', offer.x1)
    <2>1. Unposted(job[auth], job, offer.x1) BY DEF IInv
    <2> SUFFICES ASSUME job'[auth].at \in Sending, NEW w \in Users, job'[w].at \in Receiving
                 PROVE  job'[w].msg.x1 < offer.x1
      BY DEF Unposted
    <2>2. job[auth].at \in Sending BY <1>0, <1>1
    <2>3. CASE w = u BY <1>1, <2>2, <2>3
    <2>4. CASE w # u BY <1>1, <2>1, <2>2, <2>4 DEF Unposted
    <2> QED BY <2>3, <2>4
  <1>5. ASSUME NEW w \in Users
        PROVE  /\ Wallet(w, txs'[w], st'[w], auth, signed)
               /\ Sender(job'[w], w, txs'[w], st'[w], offer.x1, signed)
               /\ Receiver(job'[w], w, txs'[w], st'[w], offer, holder, auth, signed, resent)
    <2>1. CASE w = u BY <1>1, <2>1
    <2>2. CASE w # u
      <3>1. job'[w] = job[w] /\ txs'[w] = txs[w] /\ st'[w] = st[w] BY <1>1, <2>2
      <3> QED BY <3>1 DEF IInv
    <2> QED BY <2>1, <2>2
  <1> QED BY <1>2, <1>3, <1>4, <1>5 DEF IInv

\* The same when the wallet's stored coin stays as it is.
LEMMA JobStep ==
  ASSUME IInv, NEW u \in Users, NEW q \in JobType, job' = [job EXCEPT ![u] = q],
         UNCHANGED <<auth, offer, sigs, holder, signed, resent, txs, st>>,
         height' \in Nat, spent' \in SUBSET Tx, alive' \in BOOLEAN, nonce' \in Nat,
         rows' \in Seq(Tx \cup {Null}), Sessions(rows', signed, sigs),
         Owner(IF auth = u THEN q ELSE job[auth], offer, rows'),
         q.at \in Receiving => job[auth].at \notin Sending \/ q.msg.x1 < offer.x1,
         q.at \in Sending => job[u].at \in Sending,
         Sender(q, u, txs[u], st[u], offer.x1, signed),
         Receiver(q, u, txs[u], st[u], offer, holder, auth, signed, resent)
  PROVE  IInv'
PROOF
  <1>1. txs[u] \in Seq(Tx) /\ st[u] \in Status /\ Wallet(u, txs[u], st[u], auth, signed)
    BY DEF IInv, TypeOK
  <1>2. txs' = [txs EXCEPT ![u] = txs[u]] /\ st' = [st EXCEPT ![u] = st[u]]
    BY DEF IInv, TypeOK
  <1> QED BY <1>1, <1>2, OwnStep

\* A command that is neither sending nor receiving carries no obligation.
Quiet == Steps \ (Sending \cup Receiving \cup {"posted", "saved", "wfirst"})

LEMMA QuietJob ==
  ASSUME NEW q, q.at \in Quiet, NEW u, NEW own, NEW s, NEW o, NEW h, NEW a, NEW sg, NEW again,
         NEW rs
  PROVE  /\ Sender(q, u, own, s, o.x1, sg)
         /\ Receiver(q, u, own, s, o, h, a, sg, again)
         /\ Owner(q, o, rs)
         /\ q.at \notin Sending /\ q.at \notin Receiving
PROOF
  BY DEF Quiet, Sender, Receiver, Owner, Sending, Receiving

\* A command that ends and changes nothing the invariant is about.
LEMMA EndStep ==
  ASSUME IInv, NEW u \in Users, job' = [job EXCEPT ![u] = Idle],
         UNCHANGED <<auth, offer, rows, sigs, holder, signed, resent, txs, st>>,
         height' \in Nat, spent' \in SUBSET Tx, alive' \in BOOLEAN, nonce' \in Nat
  PROVE  IInv'
PROOF
  <1>1. Idle.at \in Quiet BY DEF Idle, Quiet, Steps, Sending, Receiving
  <1>2. Owner(IF auth = u THEN Idle ELSE job[auth], offer, rows)
    BY <1>1, QuietJob DEF IInv
  <1>3. rows \in Seq(Tx \cup {Null}) /\ Sessions(rows, signed, sigs) BY DEF IInv, TypeOK
  <1> QED BY <1>1, <1>2, <1>3, QuietJob, Constants, JobStep

-----------------------------------------------------------------------------
(* One lemma per action *)

LEMMA InitInv == Init => IInv
PROOF
  <1> SUFFICES ASSUME Init PROVE IInv OBVIOUS
  <1> DEFINE tx1 == [n |-> 1, to |-> Depositor, by |-> Depositor, s |-> 1]
  <1>1. tx1 \in Tx BY Constants DEF Tx
  <1>2. /\ height = 0 /\ spent = {} /\ alive = TRUE
        /\ auth = Depositor /\ holder = Depositor /\ offer = NoOffer
        /\ rows = <<tx1>> /\ sigs = 1 /\ nonce = 1 /\ signed = {tx1} /\ resent = FALSE
        /\ st = [u \in Users |-> IF u = Depositor THEN "CONFIRMED" ELSE "INITIALISED"]
        /\ txs = [u \in Users |-> IF u = Depositor THEN <<tx1>> ELSE <<>>]
        /\ job = [u \in Users |-> Idle]
    BY DEF Init
  <1>3. tx1.n = 1 /\ tx1.to = Depositor /\ tx1.by = Depositor /\ tx1.s = 1 OBVIOUS
  <1> HIDE DEF tx1
  <1>4. <<tx1>> \in Seq(Tx) /\ Len(<<tx1>>) = 1 /\ <<tx1>>[1] = tx1 BY <1>1
  <1>5. TypeOK
    <2>1. offer \in [to : Users \cup {NoUser}, x1 : Nat, msg : Msg, key_updated : BOOLEAN]
      BY <1>2, Constants DEF NoOffer
    <2>2. rows \in Seq(Tx \cup {Null}) BY <1>1, <1>2
    <2>3. st \in [Users -> Status] BY <1>2 DEF Status
    <2>4. txs \in [Users -> Seq(Tx)]
      <3>1. <<>> \in Seq(Tx) OBVIOUS
      <3> QED BY <1>2, <1>4, <3>1
    <2>5. job \in [Users -> JobType] BY <1>2, Constants
    <2> QED BY <1>1, <1>2, <2>1, <2>2, <2>3, <2>4, <2>5, Constants DEF TypeOK, JobType
  <1>6. Sessions(rows, signed, sigs)
    <2>1. IsFiniteSet({tx1}) /\ Cardinality({tx1}) = 1 BY FS_Singleton
    <2> QED BY <1>2, <1>3, <1>4, <2>1 DEF Sessions
  <1>7. offer.msg = NoMsg /\ job[auth] = Idle /\ Idle.at \in Quiet
    BY <1>2, Constants DEF NoOffer, Idle, Quiet, Steps, Sending, Receiving
  <1>8. ASSUME NEW u \in Users PROVE Wallet(u, txs[u], st[u], auth, signed)
    <2>1. CASE u = Depositor
      <3>1. txs[u] = <<tx1>> BY <1>2, <2>1
      <3>2. ListOK(txs[u], signed) BY <1>2, <1>3, <1>4, <3>1 DEF ListOK
      <3>3. Cover(u, txs[u], signed)
        <4>1. 1 \in 1..Len(txs[u]) /\ txs[u][1].to = u /\ Len(txs[u]) = 1 BY <1>3, <1>4, <2>1, <3>1
        <4>2. \A j \in (1 + 1)..Len(txs[u]) : txs[u][j].to # u BY <4>1
        <4>3. \A tx \in signed : tx.to = u BY <1>2, <1>3, <2>1
        <4> QED BY <4>1, <4>2, <4>3 DEF Cover
      <3> QED BY <3>2, <3>3 DEF Wallet
    <2>2. CASE u # Depositor
      <3>1. txs[u] = <<>> BY <1>2, <2>2
      <3>2. ListOK(txs[u], signed) BY <3>1 DEF ListOK
      <3> QED BY <1>2, <2>2, <3>2 DEF Wallet
    <2> QED BY <2>1, <2>2
  <1>9. \A u \in Users :
          /\ Sender(job[u], u, txs[u], st[u], offer.x1, signed)
          /\ Receiver(job[u], u, txs[u], st[u], offer, holder, auth, signed, resent)
    BY <1>2, <1>7, QuietJob
  <1>10. Owner(job[auth], offer, rows) /\ Unposted(job[auth], job, offer.x1)
    BY <1>7, QuietJob DEF Unposted
  <1>11. Keys(holder, auth, resent) BY <1>2 DEF Keys
  <1> QED BY <1>5, <1>6, <1>7, <1>8, <1>9, <1>10, <1>11 DEF IInv

\* Appending a session keeps the challenges of the others.
LEMMA AppendSession ==
  ASSUME IInv
  PROVE  /\ Append(rows, Null) \in Seq(Tx \cup {Null})
         /\ Len(Append(rows, Null)) = Len(rows) + 1 /\ Len(rows) \in Nat
         /\ \A k \in 1..Len(rows) : Append(rows, Null)[k] = rows[k]
         /\ Append(rows, Null)[Len(rows) + 1] = Null
         /\ Sessions(Append(rows, Null), signed, sigs)
PROOF
  <1>1. rows \in Seq(Tx \cup {Null}) /\ Null \in Tx \cup {Null} BY DEF IInv, TypeOK
  <1> DEFINE rs == Append(rows, Null)
  <1>2. /\ rs \in Seq(Tx \cup {Null})
        /\ Len(rs) = Len(rows) + 1 /\ Len(rows) \in Nat
        /\ \A k \in 1..Len(rows) : rs[k] = rows[k]
        /\ rs[Len(rows) + 1] = Null
    BY <1>1, AppendProperties
  <1> HIDE DEF rs
  <1>3. Sessions(rs, signed, sigs) BY <1>2 DEF IInv, Sessions
  <1> QED BY <1>2, <1>3 DEF rs

LEMMA SignFirstInv ==
  ASSUME IInv, NEW u \in Users, NEW from, NEW to, SignFirst(u, from, to),
         <<from, to>> \in {<<"offered", "first">>, <<"idle", "wfirst">>}
  PROVE  IInv'
PROOF
  <1>1. /\ rows \in Seq(Tx \cup {Null}) /\ Len(rows) \in Nat /\ nonce \in Nat
        /\ job \in [Users -> JobType] /\ job[u] \in JobType /\ job[u].at = from /\ auth = u
        /\ UNCHANGED <<height, spent, alive, auth, offer, sigs, holder, signed, txs, st, resent>>
    BY LenProperties DEF IInv, TypeOK, JobType, SignFirst, wallets
  <1>2. height' \in Nat /\ spent' \in SUBSET Tx /\ alive' \in BOOLEAN
    BY <1>1 DEF IInv, TypeOK
  <1>3. to \in Steps /\ from # to BY DEF Steps
  <1>4. ASSUME NEW r \in Nat, job' = [job EXCEPT ![u].at = to, ![u].row = r],
               nonce' \in Nat, rows' \in Seq(Tx \cup {Null}), Sessions(rows', signed, sigs),
               r \in 1..Len(rows'), rows'[r] = Null
        PROVE  IInv'
    <2> DEFINE q == [job[u] EXCEPT !.at = to, !.row = r]
    <2>1. job' = [job EXCEPT ![u] = q] BY <1>1, <1>4
    <2>2. q \in JobType /\ q.at = to /\ q.row = r /\ q.msg = job[u].msg
      BY <1>1, <1>3, <1>4 DEF JobType
    <2> HIDE DEF q
    <2>3. /\ Sender(job[u], u, txs[u], st[u], offer.x1, signed)
          /\ Owner(job[u], offer, rows)
      BY <1>1 DEF IInv
    <2>4. Sender(q, u, txs[u], st[u], offer.x1, signed)
      BY <1>1, <2>2, <2>3 DEF Sender, Sending
    <2>5. Receiver(q, u, txs[u], st[u], offer, holder, auth, signed, resent)
      BY <2>2 DEF Receiver, Receiving
    <2>6. Owner(q, offer, rows')
      BY <1>1, <1>4, <2>2, <2>3 DEF Owner, Sending
    <2>7. q.at \notin Receiving /\ (q.at \in Sending => job[u].at \in Sending)
      BY <1>1, <2>2 DEF Receiving, Sending
    <2> QED BY <1>1, <1>2, <1>4, <2>1, <2>2, <2>4, <2>5, <2>6, <2>7, JobStep
  <1>5. ASSUME NEW k \in OpenRows, job' = [job EXCEPT ![u].at = to, ![u].row = k],
               UNCHANGED <<rows, nonce>>
        PROVE  IInv'
    <2>1. k \in Nat /\ k \in 1..Len(rows) /\ rows[k] = Null BY <1>1 DEF OpenRows
    <2>2. Sessions(rows, signed, sigs) BY DEF IInv
    <2> QED BY <1>1, <1>4, <1>5, <2>1, <2>2
  <1>6. ASSUME rows' = Append(rows, Null), nonce' = Len(rows) + 1,
               job' = [job EXCEPT ![u].at = to, ![u].row = Len(rows) + 1]
        PROVE  IInv'
    <2>1. Len(rows) + 1 \in Nat /\ Len(rows) + 1 \in 1..Len(rows') BY <1>1, <1>6, AppendSession
    <2>2. rows' \in Seq(Tx \cup {Null}) /\ Sessions(rows', signed, sigs)
          /\ rows'[Len(rows) + 1] = Null
      BY <1>6, AppendSession
    <2> QED BY <1>4, <1>6, <2>1, <2>2
  <1> QED BY <1>5, <1>6 DEF SignFirst

\* The transactions a command has signed are typed, and a challenge is stored
\* in an open session only.
LEMMA ChallengeStored ==
  ASSUME IInv, NEW u \in Users, auth = u, job[u].at \in {"first", "wfirst"},
         NEW tx \in Tx, tx.s = job[u].row
  PROVE  LET rs == [rows EXCEPT ![job[u].row] = tx]
         IN /\ rs \in Seq(Tx \cup {Null}) /\ Sessions(rs, signed, sigs)
            /\ tx \notin signed /\ tx.s \in 1..Len(rs) /\ rs[tx.s] = tx
PROOF
  <1> DEFINE r == job[u].row
             rs == [rows EXCEPT ![r] = tx]
  <1>1. rows \in Seq(Tx \cup {Null}) /\ r \in 1..Len(rows) /\ rows[r] = Null
    BY DEF IInv, TypeOK, Owner
  <1>2. /\ rs \in Seq(Tx \cup {Null}) /\ Len(rs) = Len(rows)
        /\ \A k \in 1..Len(rows) : rs[k] = IF k = r THEN tx ELSE rows[k]
    BY <1>1, ExceptSeq
  <1>3. signed \subseteq Tx /\ Sessions(rows, signed, sigs) BY DEF IInv, TypeOK
  <1> HIDE DEF rs
  <1>4. \A t \in signed : t.s \in 1..Len(rows) /\ rows[t.s] = t /\ t.s # r
    BY <1>1, <1>3, Constants DEF Sessions
  <1>5. Sessions(rs, signed, sigs) BY <1>2, <1>3, <1>4 DEF Sessions
  <1>6. tx \notin signed BY <1>4
  <1>7. tx.s \in 1..Len(rs) /\ rs[tx.s] = tx BY <1>1, <1>2
  <1> QED BY <1>2, <1>5, <1>6, <1>7 DEF rs

\* The transaction a command has built
LEMMA BuiltTx ==
  ASSUME IInv, NEW u \in Users
  PROVE  /\ WithdrawalTx(u) \in Tx /\ WithdrawalTx(u).s = job[u].row
         /\ WithdrawalTx(u).n = 0 /\ WithdrawalTx(u).by = u
         /\ job[u].at \in Sending =>
              /\ NewBackupTx(u) \in Tx /\ NewBackupTx(u).s = job[u].row
              /\ NewBackupTx(u).by = u /\ NewBackupTx(u) = New(job[u], u)
              /\ NewBackupTx(u).n = Len(txs[u]) + 1 /\ NewBackupTx(u).to = job[u].msg.to
PROOF
  <1>1. job[u] \in JobType /\ txs[u] \in Seq(Tx) BY DEF IInv, TypeOK, JobType
  <1>2. job[u].row \in Nat /\ job[u].msg \in Msg /\ Len(txs[u]) \in Nat
    BY <1>1, LenProperties DEF JobType
  <1>3. WithdrawalTx(u) \in Tx BY <1>2 DEF WithdrawalTx, Tx
  <1>4. ASSUME job[u].at \in Sending
        PROVE  NewBackupTx(u) \in Tx /\ job[u].msg.txs = txs[u]
    <2>1. job[u].msg # NoMsg /\ job[u].msg.txs = txs[u] BY <1>4 DEF IInv, Sender
    <2>2. job[u].msg.to \in Users BY <1>2, <2>1 DEF Msg
    <2>3. Len(job[u].msg.txs) + 1 \in Nat BY <1>2, <2>1
    <2> QED BY <1>2, <2>1, <2>2, <2>3 DEF NewBackupTx, Tx
  <1> QED BY <1>3, <1>4 DEF WithdrawalTx, NewBackupTx, New

LEMMA SignUnansweredInv ==
  ASSUME IInv, NEW u \in Users, NEW from \in {"first", "wfirst"}, NEW tx \in Tx,
         tx.s = job[u].row, SignUnanswered(u, from, tx)
  PROVE  IInv'
PROOF
  <1>1. /\ auth = u /\ job[u].at = from /\ rows' = [rows EXCEPT ![job[u].row] = tx]
        /\ job' = [job EXCEPT ![u] = Idle]
        /\ UNCHANGED <<height, spent, alive, auth, offer, sigs, nonce, holder, signed, txs, st,
                       resent>>
    BY DEF SignUnanswered, wallets
  <1>2. rows' \in Seq(Tx \cup {Null}) /\ Sessions(rows', signed, sigs)
    BY <1>1, ChallengeStored
  <1>3. Idle.at \in Quiet BY DEF Idle, Quiet, Steps, Sending, Receiving
  <1>4. height' \in Nat /\ spent' \in SUBSET Tx /\ alive' \in BOOLEAN /\ nonce' \in Nat
    BY <1>1 DEF IInv, TypeOK
  <1> QED BY <1>1, <1>2, <1>3, <1>4, QuietJob, Constants, JobStep

LEMMA FirstUnansweredInv ==
  ASSUME IInv, NEW u \in Users, NEW from, FirstUnanswered(u, from)
  PROVE  IInv'
PROOF
  <1>1. /\ job' = [job EXCEPT ![u] = Idle] /\ nonce' \in Nat
        /\ UNCHANGED <<height, spent, alive, auth, offer, rows, sigs, holder, signed, txs, st,
                       resent>>
    BY DEF FirstUnanswered, wallets
  <1>2. height' \in Nat /\ spent' \in SUBSET Tx /\ alive' \in BOOLEAN
    BY <1>1 DEF IInv, TypeOK
  <1> QED BY <1>1, <1>2, EndStep

\* More signed transactions keep a list in order.
LEMMA ListGrows ==
  ASSUME NEW L, NEW sg, ListOK(L, sg), NEW sg2, sg \subseteq sg2
  PROVE  ListOK(L, sg2)
PROOF
  BY DEF ListOK

\* A withdrawal, or a backup its owner signed, takes no cover away.
LEMMA CoverStays ==
  ASSUME NEW u, NEW L, NEW sg, Cover(u, L, sg), NEW tx,
         tx.by = u \/ tx.n = 0
  PROVE  Cover(u, L, sg \cup {tx})
PROOF
  <1>1. PICK k \in 1..Len(L) :
          /\ L[k].to = u /\ \A j \in (k + 1)..Len(L) : L[j].to # u
          /\ \A t \in sg : t.n > 0 /\ t.by # u /\ t.to # u => t.n < k /\ L[t.n] = t
    BY DEF Cover
  <1>2. \A t \in sg \cup {tx} : t.n > 0 /\ t.by # u /\ t.to # u => t.n < k /\ L[t.n] = t
    BY <1>1
  <1> QED BY <1>1, <1>2 DEF Cover

\* POST /sign/second with an answer, to a transfer or a withdrawal.
LEMMA SignSecondInv ==
  ASSUME IInv, NEW u \in Users, NEW from, NEW to, NEW tx \in Tx, tx.s = job[u].row, tx.by = u,
         \/ from = "first" /\ to = "second" /\ tx = New(job[u], u)
         \/ from = "wfirst" /\ to = "wsecond" /\ tx.n = 0,
         SignSecond(u, from, to, tx)
  PROVE  IInv'
PROOF
  <1> DEFINE q == [job[u] EXCEPT !.at = to]
             sg == signed \cup {tx}
  <1>1. /\ auth = u /\ job[u].at = from /\ rows' = [rows EXCEPT ![job[u].row] = tx]
        /\ sigs' = sigs + 1 /\ signed' = sg
        /\ job \in [Users -> JobType] /\ job[u] \in JobType /\ sigs \in Nat
        /\ signed \subseteq Tx
        /\ UNCHANGED <<height, spent, alive, auth, offer, nonce, holder, txs, st, resent>>
    BY DEF SignSecond, wallets, IInv, TypeOK, JobType
  <1>2. /\ rows' \in Seq(Tx \cup {Null}) /\ Sessions(rows', signed, sigs)
        /\ tx \notin signed /\ tx.s \in 1..Len(rows') /\ rows'[tx.s] = tx
    BY <1>1, ChallengeStored
  <1>3. Sessions(rows', sg, sigs')
    <2>1. IsFiniteSet(sg) /\ Cardinality(sg) = Cardinality(signed) + 1
      BY <1>2, FS_AddElement DEF Sessions
    <2> QED BY <1>1, <1>2, <2>1 DEF Sessions
  <1>4. job' = [job EXCEPT ![u] = q] BY <1>1 DEF SignSecond, Goto
  <1>5. q \in JobType /\ q.at = to /\ q.row = job[u].row /\ q.msg = job[u].msg
    BY <1>1 DEF JobType, Steps
  <1> HIDE DEF q, sg
  <1>6. \A w \in Users : job'[w] = IF w = u THEN q ELSE job[w] BY <1>1, <1>4
  <1>7. signed \subseteq sg /\ sg \in SUBSET Tx BY <1>1 DEF sg
  <1>8. TypeOK'
    <2>1. job' \in [Users -> JobType] BY <1>1, <1>4, <1>5
    <2>2. TypeOK /\ sigs' \in Nat BY <1>1 DEF IInv
    <2> QED BY <1>1, <1>2, <1>7, <2>1, <2>2 DEF TypeOK, JobType
  <1>9. Owner(q, offer, rows') /\ Unposted(q, job', offer.x1)
    <2>1. Owner(job[u], offer, rows) /\ Unposted(job[u], job, offer.x1) BY <1>1 DEF IInv
    <2>2. q.at \in Sending => job[u].at \in Sending BY <1>1, <1>5 DEF Sending
    <2>3. q.at \notin {"first", "wfirst"} /\ q.at \notin Receiving BY <1>5 DEF Receiving
    <2> QED BY <1>5, <1>6, <2>1, <2>2, <2>3 DEF Owner, Unposted
  <1>10. offer.msg # NoMsg => MsgOK(offer.msg, offer.to, offer.x1, sg) /\ offer.msg.x1 = offer.x1
    BY <1>7, ListGrows DEF IInv, MsgOK
  <1>11. ASSUME NEW w \in Users PROVE Wallet(w, txs[w], st[w], auth, sg)
    <2>1. Wallet(w, txs[w], st[w], auth, signed) BY DEF IInv
    <2>2. ListOK(txs[w], sg) BY <1>7, <2>1, ListGrows DEF Wallet
    <2>3. auth = w /\ Cover(w, txs[w], signed) => Cover(w, txs[w], sg)
      BY <1>1, CoverStays DEF sg
    <2> QED BY <2>1, <2>2, <2>3 DEF Wallet
  <1>12. ASSUME NEW w \in Users PROVE Sender(job'[w], w, txs[w], st[w], offer.x1, sg)
    <2>1. Sender(job[w], w, txs[w], st[w], offer.x1, signed) BY DEF IInv
    <2>2. CASE w = u
      <3>1. job'[w] = q /\ Sender(job[u], u, txs[u], st[u], offer.x1, signed) BY <1>6, <2>1, <2>2
      <3>2. CASE from = "first"
        <4>1. q.at = "second" /\ New(q, u) = tx BY <1>5, <3>2 DEF New
        <4>2. tx \in sg BY DEF sg
        <4> QED BY <1>1, <1>5, <2>2, <3>1, <3>2, <4>1, <4>2 DEF Sender, Sending
      <3>3. CASE from = "wfirst"
        <4>1. q.at = "wsecond" BY <1>5, <3>3
        <4> QED BY <3>1, <4>1 DEF Sender, Sending
      <3> QED BY <3>2, <3>3
    <2>3. CASE w # u
      <3>1. job'[w] = job[w] BY <1>6, <2>3
      <3>2. job[w].at = "posted" => ListOK(job[w].msg.txs, sg) BY <1>7, <2>1, ListGrows DEF Sender
      <3> QED BY <1>7, <2>1, <3>1, <3>2 DEF Sender
    <2> QED BY <2>2, <2>3
  <1>13. ASSUME NEW w \in Users
         PROVE  Receiver(job'[w], w, txs[w], st[w], offer, holder, auth, sg, resent)
    <2>1. CASE w = u
      <3>1. job'[w].at \notin Receiving BY <1>5, <1>6, <2>1 DEF Receiving
      <3> QED BY <3>1 DEF Receiver, Receiving
    <2>2. CASE w # u
      <3>1. job'[w] = job[w] BY <1>6, <2>2
      <3>2. Receiver(job[w], w, txs[w], st[w], offer, holder, auth, signed, resent) BY DEF IInv
      <3>3. job[w].at \in Receiving => MsgOK(job[w].msg, w, offer.x1, sg)
        BY <1>7, <3>2, ListGrows DEF Receiver, MsgOK
      <3>4. ASSUME job[w].at \in {"validated", "prepared"}, job[w].msg.x1 = offer.x1
            PROVE  Disclosed(job[w].msg.txs, sg)
        <4>1. Disclosed(job[w].msg.txs, signed) BY <3>2, <3>4 DEF Receiver
        <4>2. CASE from = "first"
          <5>1. Unposted(job[u], job, offer.x1) BY <1>1 DEF IInv
          <5>2. job[u].at \in Sending /\ job[w].at \in Receiving
            BY <1>1, <3>4, <4>2 DEF Sending, Receiving
          <5>3. job[w].msg.x1 < offer.x1 BY <5>1, <5>2 DEF Unposted
          <5>4. offer.x1 \in Nat BY DEF IInv, TypeOK
          <5> QED BY <3>4, <5>3, <5>4
        <4>3. CASE tx.n = 0 BY <4>1, <4>3 DEF Disclosed, sg
        <4> QED BY <4>2, <4>3
      <3>5. holder # w /\ auth # w
        <4>1. holder \in {auth, NoUser} BY DEF IInv, Keys
        <4> QED BY <1>1, <2>2, <4>1, Constants
      <3> QED BY <3>1, <3>2, <3>3, <3>4, <3>5 DEF Receiver
    <2> QED BY <2>1, <2>2
  <1>14. Keys(holder, auth, resent) BY DEF IInv
  <1>15. job'[auth] = q BY <1>1, <1>6
  <1> QED BY <1>1, <1>3, <1>8, <1>9, <1>10, <1>11, <1>12, <1>13, <1>14, <1>15 DEF IInv

\* A list of signed transactions that is as long as their number has them all.
LEMMA AllListed ==
  ASSUME NEW L, NEW sg, ListOK(L, sg), IsFiniteSet(sg), Cardinality(sg) = Len(L)
  PROVE  Disclosed(L, sg)
PROOF
  <1>1. L \in Seq(Tx) /\ Len(L) \in Nat /\ DOMAIN L = 1..Len(L) /\ L \in [1..Len(L) -> Tx]
    BY LenProperties DEF ListOK
  <1>2. L \in Injection(1..Len(L), sg)
    BY <1>1 DEF Injection, IsInjective, ListOK
  <1>3. Cardinality(1..Len(L)) = Len(L)
    <2>1. 1 \in Int /\ Len(L) \in Int BY <1>1
    <2>2. Cardinality(1..Len(L)) = IF 1 > Len(L) THEN 0 ELSE Len(L) - 1 + 1 BY <2>1, FS_Interval
    <2> QED BY <1>1, <2>2
  <1>4. L \in Surjection(1..Len(L), sg) BY <1>2, <1>3, FS_Injection
  <1>5. ASSUME NEW tx \in sg PROVE tx.n \in 1..Len(L) /\ L[tx.n] = tx
    <2>1. PICK k \in 1..Len(L) : L[k] = tx BY <1>4 DEF Surjection
    <2> QED BY <2>1 DEF ListOK
  <1> QED BY <1>1, <1>5 DEF Disclosed

\* Every backup listed, and the last one paying to u: u is covered.
LEMMA DisclosedCovers ==
  ASSUME NEW L, NEW u, NEW sg \in SUBSET Tx, ListOK(L, sg), Disclosed(L, sg),
         Len(L) # 0, L[Len(L)].to = u
  PROVE  Cover(u, L, sg)
PROOF
  <1>1. Len(L) \in Nat /\ Len(L) \in 1..Len(L) BY LenProperties DEF ListOK
  <1>2. ASSUME NEW tx \in sg, tx.n > 0, tx.to # u PROVE tx.n < Len(L) /\ L[tx.n] = tx
    <2>1. tx.n \in Nat /\ tx.n <= Len(L) /\ L[tx.n] = tx BY <1>2 DEF Disclosed, Tx
    <2>2. tx.n # Len(L) BY <1>2, <2>1
    <2> QED BY <1>1, <2>1, <2>2
  <1>3. \A j \in (Len(L) + 1)..Len(L) : L[j].to # u BY <1>1
  <1> QED BY <1>1, <1>2, <1>3 DEF Cover

\* A list that goes on with transactions to others covers u as before.
LEMMA LongerCovers ==
  ASSUME NEW L \in Seq(Tx), NEW A \in Seq(Tx), NEW u, NEW sg \in SUBSET Tx, Cover(u, L, sg),
         Len(A) = Len(L) + 1, A[Len(L) + 1].to # u, \A k \in 1..Len(L) : A[k] = L[k]
  PROVE  Cover(u, A, sg)
PROOF
  <1>0. Len(L) \in Nat BY LenProperties
  <1>1. PICK k \in 1..Len(L) :
          /\ L[k].to = u /\ \A j \in (k + 1)..Len(L) : L[j].to # u
          /\ \A t \in sg : t.n > 0 /\ t.by # u /\ t.to # u => t.n < k /\ L[t.n] = t
    BY DEF Cover
  <1>2. k \in 1..Len(A) /\ A[k].to = u BY <1>0, <1>1
  <1>3. ASSUME NEW j \in (k + 1)..Len(A) PROVE A[j].to # u
    <2>1. j = Len(L) + 1 \/ (j \in (k + 1)..Len(L) /\ j \in 1..Len(L)) BY <1>0
    <2> QED BY <1>1, <2>1
  <1>4. ASSUME NEW t \in sg, t.n > 0, t.by # u, t.to # u PROVE t.n < k /\ A[t.n] = t
    <2>1. t.n < k /\ L[t.n] = t /\ t.n \in Nat BY <1>1, <1>4 DEF Tx
    <2>2. t.n \in 1..Len(L) BY <1>0, <1>4, <2>1
    <2> QED BY <2>1, <2>2
  <1> QED BY <1>2, <1>3, <1>4 DEF Cover

LEMMA ValidateInv ==
  ASSUME IInv, NEW u \in Users, Validate(u)
  PROVE  IInv'
PROOF
  <1> DEFINE q == [job[u] EXCEPT !.at = "validated"]
             m == job[u].msg
  <1>1. /\ job[u].at = "fetched" /\ job \in [Users -> JobType] /\ job[u] \in JobType
        /\ m.from = holder /\ sigs = Len(m.txs)
        /\ UNCHANGED <<height, spent, alive, auth, offer, rows, sigs, nonce, holder, signed, txs,
                       st, resent>>
    BY DEF Validate, ValidMsg, wallets, server, IInv, TypeOK, JobType
  <1>2. job' = [job EXCEPT ![u] = q] BY <1>1 DEF Validate, Goto
  <1>3. q \in JobType /\ q.at = "validated" /\ q.msg = m BY <1>1 DEF JobType, Steps
  <1>4. /\ Receiver(job[u], u, txs[u], st[u], offer, holder, auth, signed, resent)
        /\ Sessions(rows, signed, sigs) /\ Owner(job[auth], offer, rows)
        /\ Unposted(job[auth], job, offer.x1) /\ auth \in Users
    BY DEF IInv, TypeOK
  <1>5. st[u] = "INITIALISED" /\ MsgOK(m, u, offer.x1, signed) BY <1>1, <1>4 DEF Receiver, Receiving
  <1>6. Disclosed(m.txs, signed) BY <1>1, <1>4, <1>5, AllListed DEF MsgOK, Sessions
  <1>7. holder # u BY <1>1, <1>5 DEF MsgOK
  <1> HIDE DEF q, m
  <1>8. Receiver(q, u, txs[u], st[u], offer, holder, auth, signed, resent)
    <2>1. offer.to = u /\ m.x1 # offer.x1 => resent BY <1>1, <1>4 DEF Receiver, Receiving, m
    <2> QED BY <1>1, <1>3, <1>5, <1>6, <1>7, <2>1 DEF Receiver
  <1>9. Sender(q, u, txs[u], st[u], offer.x1, signed) BY <1>3 DEF Sender, Sending
  <1>10. Owner(IF auth = u THEN q ELSE job[auth], offer, rows)
    BY <1>3, <1>4 DEF Owner, Sending
  <1>11. q.at \notin Sending /\ (job[auth].at \notin Sending \/ q.msg.x1 < offer.x1)
    <2>1. q.at \notin Sending /\ job[u].at \in Receiving BY <1>1, <1>3 DEF Sending, Receiving
    <2> QED BY <1>3, <1>4, <2>1 DEF Unposted, m
  <1>12. /\ height' \in Nat /\ spent' \in SUBSET Tx /\ alive' \in BOOLEAN /\ nonce' \in Nat
         /\ rows' \in Seq(Tx \cup {Null})
    BY <1>1 DEF IInv, TypeOK
  <1> QED BY <1>1, <1>2, <1>3, <1>4, <1>8, <1>9, <1>10, <1>11, <1>12, JobStep

LEMMA PrepareInv ==
  ASSUME IInv, NEW u \in Users, Prepare(u)
  PROVE  IInv'
PROOF
  <1> DEFINE q == [job[u] EXCEPT !.at = "prepared"]
  <1>1. /\ job[u].at = "validated" /\ job \in [Users -> JobType] /\ job[u] \in JobType
        /\ UNCHANGED <<height, spent, alive, auth, offer, rows, sigs, nonce, holder, signed, txs,
                       st, resent>>
    BY DEF Prepare, wallets, server, IInv, TypeOK, JobType
  <1>2. job' = [job EXCEPT ![u] = q] BY <1>1 DEF Prepare, Goto
  <1>3. q \in JobType /\ q.at = "prepared" /\ q.msg = job[u].msg BY <1>1 DEF JobType, Steps
  <1>4. /\ Receiver(job[u], u, txs[u], st[u], offer, holder, auth, signed, resent)
        /\ Sessions(rows, signed, sigs) /\ Owner(job[auth], offer, rows)
        /\ Unposted(job[auth], job, offer.x1) /\ auth \in Users
    BY DEF IInv, TypeOK
  <1> HIDE DEF q
  <1>8. Receiver(q, u, txs[u], st[u], offer, holder, auth, signed, resent)
    BY <1>1, <1>3, <1>4 DEF Receiver, Receiving
  <1>9. Sender(q, u, txs[u], st[u], offer.x1, signed) BY <1>3 DEF Sender, Sending
  <1>10. Owner(IF auth = u THEN q ELSE job[auth], offer, rows)
    BY <1>3, <1>4 DEF Owner, Sending
  <1>11. q.at \notin Sending /\ (job[auth].at \notin Sending \/ q.msg.x1 < offer.x1)
    <2>1. q.at \notin Sending /\ job[u].at \in Receiving BY <1>1, <1>3 DEF Sending, Receiving
    <2> QED BY <1>3, <1>4, <2>1 DEF Unposted
  <1>12. /\ height' \in Nat /\ spent' \in SUBSET Tx /\ alive' \in BOOLEAN /\ nonce' \in Nat
         /\ rows' \in Seq(Tx \cup {Null})
    BY <1>1 DEF IInv, TypeOK
  <1> QED BY <1>1, <1>2, <1>3, <1>4, <1>8, <1>9, <1>10, <1>11, <1>12, JobStep

LEMMA FetchInv ==
  ASSUME IInv, NEW u \in Users, Fetch(u)
  PROVE  IInv'
PROOF
  <1> DEFINE q == [at |-> "fetched", row |-> 0, seen |-> height, msg |-> offer.msg]
  <1>1. /\ job[u] = Idle /\ st[u] = "INITIALISED" /\ offer.to = u /\ offer.msg # NoMsg
        /\ job' = [job EXCEPT ![u] = q]
        /\ UNCHANGED <<height, spent, alive, auth, offer, rows, sigs, nonce, holder, signed, txs,
                       st, resent>>
    BY DEF Fetch, wallets, server
  <1>2. /\ height \in Nat /\ offer.msg \in Msg /\ Sessions(rows, signed, sigs)
        /\ Owner(job[auth], offer, rows)
        /\ MsgOK(offer.msg, u, offer.x1, signed) /\ offer.msg.x1 = offer.x1
    BY <1>1 DEF IInv, TypeOK
  <1>3. q \in JobType /\ q.at = "fetched" /\ q.msg = offer.msg BY <1>2 DEF JobType, Steps
  <1> HIDE DEF q
  <1>8. Receiver(q, u, txs[u], st[u], offer, holder, auth, signed, resent)
    BY <1>1, <1>2, <1>3 DEF Receiver
  <1>9. Sender(q, u, txs[u], st[u], offer.x1, signed) BY <1>3 DEF Sender, Sending
  <1>10. Owner(IF auth = u THEN q ELSE job[auth], offer, rows)
    BY <1>2, <1>3 DEF Owner, Sending
  <1>11. q.at \notin Sending /\ job[auth].at \notin Sending
    BY <1>1, <1>2, <1>3 DEF Owner, Sending
  <1>12. /\ height' \in Nat /\ spent' \in SUBSET Tx /\ alive' \in BOOLEAN /\ nonce' \in Nat
         /\ rows' \in Seq(Tx \cup {Null})
    BY <1>1 DEF IInv, TypeOK
  <1> QED BY <1>1, <1>2, <1>3, <1>8, <1>9, <1>10, <1>11, <1>12, JobStep

\* A step that saves the wallet u: its list own and its status s.
LEMMA SaveStep ==
  ASSUME IInv, NEW u \in Users, NEW q \in JobType, NEW own \in Seq(Tx), NEW s \in Status,
         job' = [job EXCEPT ![u] = q],
         txs' = [txs EXCEPT ![u] = own], st' = [st EXCEPT ![u] = s],
         UNCHANGED <<height, alive, auth, offer, rows, sigs, nonce, holder, signed, resent>>,
         spent' \in SUBSET Tx, Owner(q, offer, rows),
         q.at \in Receiving => job[u].at \in Receiving /\ q.msg = job[u].msg,
         q.at \notin Sending,
         Wallet(u, own, s, auth, signed),
         Sender(q, u, own, s, offer.x1, signed),
         Receiver(q, u, own, s, offer, holder, auth, signed, resent)
  PROVE  IInv'
PROOF
  <1>1. /\ height' \in Nat /\ alive' \in BOOLEAN /\ nonce' \in Nat
        /\ rows' \in Seq(Tx \cup {Null})
    BY DEF IInv, TypeOK
  <1>2. Sessions(rows', signed, sigs) /\ Owner(IF auth = u THEN q ELSE job[auth], offer, rows')
    BY DEF IInv
  <1>3. q.at \in Receiving => job[auth].at \notin Sending \/ q.msg.x1 < offer.x1
    BY DEF IInv, Unposted
  <1> QED BY <1>1, <1>2, <1>3, OwnStep

LEMMA SaveSentTxsInv ==
  ASSUME IInv, NEW u \in Users, SaveSentTxs(u)
  PROVE  IInv'
PROOF
  <1> DEFINE q == [job[u] EXCEPT !.at = "saved"]
             A == job[u].msg.txs
  <1>1. /\ job[u].at = "posted" /\ job \in [Users -> JobType] /\ job[u] \in JobType
        /\ txs' = [txs EXCEPT ![u] = A] /\ st \in [Users -> Status] /\ txs[u] \in Seq(Tx)
        /\ signed \in SUBSET Tx /\ spent \in SUBSET Tx
        /\ UNCHANGED <<height, spent, alive, auth, offer, rows, sigs, nonce, holder, signed, st,
                       resent>>
    BY DEF SaveSentTxs, server, IInv, TypeOK, JobType
  <1>2. job' = [job EXCEPT ![u] = q] BY <1>1 DEF SaveSentTxs, Goto
  <1>3. q \in JobType /\ q.at = "saved" BY <1>1 DEF JobType, Steps
  <1>4. /\ Sender(job[u], u, txs[u], st[u], offer.x1, signed)
        /\ Wallet(u, txs[u], st[u], auth, signed)
    BY DEF IInv
  <1>5. /\ st[u] \in Held /\ ListOK(A, signed) /\ Len(A) = Len(txs[u]) + 1
        /\ A[Len(txs[u]) + 1].to # u /\ \A k \in 1..Len(txs[u]) : A[k] = txs[u][k]
    BY <1>1, <1>4 DEF Sender
  <1>6. A \in Seq(Tx) BY <1>5 DEF ListOK
  <1>7. st' = [st EXCEPT ![u] = st[u]] /\ st[u] \in Status BY <1>1
  <1> HIDE DEF q, A
  <1>8. Wallet(u, A, st[u], auth, signed)
    BY <1>1, <1>4, <1>5, <1>6, LongerCovers DEF Wallet
  <1>9. /\ Sender(q, u, A, st[u], offer.x1, signed)
        /\ Receiver(q, u, A, st[u], offer, holder, auth, signed, resent)
        /\ Owner(q, offer, rows) /\ q.at \notin Receiving /\ q.at \notin Sending
    BY <1>3, <1>5 DEF Sender, Receiver, Owner, Sending, Receiving
  <1> QED BY <1>1, <1>2, <1>3, <1>6, <1>7, <1>8, <1>9, SaveStep

\* A saved status: u stays covered if it was, or has just been covered.
LEMMA StatusInv ==
  ASSUME IInv, NEW u \in Users, NEW q \in JobType, q.at \in Quiet, NEW s \in Status,
         job' = [job EXCEPT ![u] = q], st' = [st EXCEPT ![u] = s],
         s \in Held /\ auth = u => Cover(u, txs[u], signed),
         UNCHANGED <<height, alive, auth, offer, rows, sigs, nonce, holder, signed, resent, txs>>,
         spent' \in SUBSET Tx
  PROVE  IInv'
PROOF
  <1>1. txs[u] \in Seq(Tx) /\ txs' = [txs EXCEPT ![u] = txs[u]] BY DEF IInv, TypeOK
  <1>2. Wallet(u, txs[u], s, auth, signed) BY DEF IInv, Wallet
  <1> QED BY <1>1, <1>2, QuietJob, SaveStep

LEMMA QuietIdle == Idle.at \in Quiet /\ Idle \in JobType
PROOF
  BY Constants DEF Idle, Quiet, Steps, Sending, Receiving

LEMMA SaveSentInv ==
  ASSUME IInv, NEW u \in Users, SaveSent(u)
  PROVE  IInv'
PROOF
  <1>1. /\ job[u].at = "saved" /\ st' = [st EXCEPT ![u] = "IN_TRANSFER"]
        /\ job' = [job EXCEPT ![u] = Idle] /\ spent' \in SUBSET Tx
        /\ UNCHANGED <<height, alive, auth, offer, rows, sigs, nonce, holder, signed, resent, txs>>
    BY DEF SaveSent, server, IInv, TypeOK
  <1>2. st[u] \in Held BY <1>1 DEF IInv, Sender
  <1>3. auth = u => Cover(u, txs[u], signed) BY <1>2 DEF IInv, Wallet
  <1>4. "IN_TRANSFER" \in Status BY DEF Status
  <1> QED BY <1>1, <1>3, <1>4, QuietIdle, StatusInv

LEMMA SaveReceivedInv ==
  ASSUME IInv, NEW u \in Users, SaveReceived(u)
  PROVE  IInv'
PROOF
  <1>1. /\ job[u].at = "stored" /\ st' = [st EXCEPT ![u] = "CONFIRMED"]
        /\ job' = [job EXCEPT ![u] = Idle] /\ spent' \in SUBSET Tx
        /\ UNCHANGED <<height, alive, auth, offer, rows, sigs, nonce, holder, signed, resent, txs>>
    BY DEF SaveReceived, server, IInv, TypeOK
  <1>2. auth = u => Cover(u, txs[u], signed) BY <1>1 DEF IInv, Receiver
  <1>3. "CONFIRMED" \in Status BY DEF Status
  <1> QED BY <1>1, <1>2, <1>3, QuietIdle, StatusInv

LEMMA SaveReceivedTxsInv ==
  ASSUME IInv, NEW u \in Users, SaveReceivedTxs(u)
  PROVE  IInv'
PROOF
  <1> DEFINE q == [job[u] EXCEPT !.at = "stored"]
             A == job[u].msg.txs
  <1>1. /\ job[u].at = "accepted" /\ holder = u
        /\ job \in [Users -> JobType] /\ job[u] \in JobType
        /\ txs' = [txs EXCEPT ![u] = A] /\ st \in [Users -> Status] /\ spent \in SUBSET Tx
        /\ UNCHANGED <<height, spent, alive, auth, offer, rows, sigs, nonce, holder, signed, st,
                       resent>>
    BY DEF SaveReceivedTxs, server, IInv, TypeOK, JobType
  <1>2. job' = [job EXCEPT ![u] = q] BY <1>1 DEF SaveReceivedTxs, Goto
  <1>3. q \in JobType /\ q.at = "stored" /\ q.msg = job[u].msg BY <1>1 DEF JobType, Steps
  <1>4. Receiver(job[u], u, txs[u], st[u], offer, holder, auth, signed, resent)
    BY DEF IInv
  <1>5. /\ st[u] = "INITIALISED" /\ MsgOK(job[u].msg, u, offer.x1, signed)
        /\ (offer.to = u /\ job[u].msg.x1 # offer.x1 => resent)
        /\ Cover(u, A, signed)
    BY <1>1, <1>4 DEF Receiver, Receiving
  <1>6. A \in Seq(Tx) /\ ListOK(A, signed) BY <1>5 DEF ListOK, MsgOK
  <1>7. st' = [st EXCEPT ![u] = st[u]] /\ st[u] \in Status BY <1>1
  <1> HIDE DEF q, A
  <1>8. Wallet(u, A, st[u], auth, signed) BY <1>5, <1>6 DEF Wallet
  <1>9. /\ Sender(q, u, A, st[u], offer.x1, signed)
        /\ Receiver(q, u, A, st[u], offer, holder, auth, signed, resent)
        /\ Owner(q, offer, rows) /\ q.at \notin Sending
    BY <1>3, <1>5 DEF Sender, Receiver, Owner, Sending
  <1>10. job[u].at \in Receiving BY <1>1 DEF Receiving
  <1> QED BY <1>1, <1>2, <1>3, <1>6, <1>7, <1>8, <1>9, <1>10, SaveStep

LEMMA BroadcastInv ==
  ASSUME IInv, NEW u \in Users, NEW tx \in Tx, Broadcast(u, tx)
  PROVE  IInv'
PROOF
  <1> DEFINE q == [Idle EXCEPT !.at = "closing"]
  <1>1. /\ st' = [st EXCEPT ![u] = "WITHDRAWING"] /\ job' = [job EXCEPT ![u] = q]
        /\ spent' \in SUBSET Tx
        /\ UNCHANGED <<height, alive, auth, offer, rows, sigs, nonce, holder, signed, resent, txs>>
    BY DEF Broadcast, server
  <1>2. q \in JobType /\ q.at \in Quiet
    BY Constants DEF Idle, JobType, Quiet, Steps, Sending, Receiving
  <1>3. "WITHDRAWING" \in Status \ Held BY DEF Status, Held
  <1> HIDE DEF q
  <1> QED BY <1>1, <1>2, <1>3, StatusInv

LEMMA UpdateCoinInv ==
  ASSUME IInv, NEW u \in Users, UpdateCoin(u)
  PROVE  IInv'
PROOF
  <1>1. /\ job[u] = Idle /\ spent' \in SUBSET Tx /\ job \in [Users -> JobType]
        /\ UNCHANGED <<height, alive, auth, offer, rows, sigs, nonce, holder, signed, resent, txs,
                       job>>
    BY DEF UpdateCoin, server, IInv, TypeOK, JobType
  <1>2. job' = [job EXCEPT ![u] = Idle] BY <1>1
  <1>3. PICK s \in {"TRANSFERRED", "WITHDRAWN"} : st' = [st EXCEPT ![u] = s] BY DEF UpdateCoin
  <1>4. s \in Status \ Held BY DEF Status, Held
  <1> QED BY <1>1, <1>2, <1>3, <1>4, QuietIdle, StatusInv

\* A step of the command of u that changes the offer, the owner or the holder
\* and no wallet.
LEMMA OfferStep ==
  ASSUME IInv, NEW u \in Users, NEW q \in JobType, job' = [job EXCEPT ![u] = q],
         UNCHANGED <<height, spent, alive, rows, sigs, signed, txs, st>>,
         offer' \in [to : Users \cup {NoUser}, x1 : Nat, msg : Msg, key_updated : BOOLEAN],
         auth' = u, holder' \in Users \cup {NoUser}, nonce' \in Nat, resent' \in BOOLEAN,
         Keys(holder', auth', resent'), Owner(q, offer', rows),
         q.at \in Sending =>
           \A w \in Users \ {u} : job[w].at \in Receiving => job[w].msg.x1 < offer'.x1,
         offer'.msg # NoMsg =>
           MsgOK(offer'.msg, offer'.to, offer'.x1, signed) /\ offer'.msg.x1 = offer'.x1,
         Wallet(u, txs[u], st[u], u, signed),
         Sender(q, u, txs[u], st[u], offer'.x1, signed),
         Receiver(q, u, txs[u], st[u], offer', holder', u, signed, resent'),
         \A w \in Users \ {u} :
           /\ Sender(job[w], w, txs[w], st[w], offer'.x1, signed)
           /\ Receiver(job[w], w, txs[w], st[w], offer', holder', u, signed, resent')
  PROVE  IInv'
PROOF
  <1>0. TypeOK /\ job \in [Users -> JobType] BY DEF IInv, TypeOK, JobType
  <1>1. \A w \in Users : job'[w] = IF w = u THEN q ELSE job[w] BY <1>0
  <1>2. TypeOK'
    <2>1. job' \in [Users -> JobType] BY <1>0
    <2> QED BY <1>0, <2>1 DEF TypeOK, JobType
  <1>3. Unposted(q, job', offer'.x1)
    <2> SUFFICES ASSUME q.at \in Sending, NEW w \in Users, job'[w].at \in Receiving
                 PROVE  job'[w].msg.x1 < offer'.x1
      BY DEF Unposted
    <2>1. w # u BY <1>1 DEF Sending, Receiving
    <2> QED BY <1>1, <2>1
  <1>4. ASSUME NEW w \in Users
        PROVE  /\ Wallet(w, txs[w], st[w], u, signed)
               /\ Sender(job'[w], w, txs[w], st[w], offer'.x1, signed)
               /\ Receiver(job'[w], w, txs[w], st[w], offer', holder', u, signed, resent')
    <2>1. CASE w = u BY <1>1, <2>1
    <2>2. CASE w # u
      <3>1. Wallet(w, txs[w], st[w], u, signed) BY <2>2 DEF IInv, Wallet
      <3> QED BY <1>1, <2>2, <3>1
    <2> QED BY <2>1, <2>2
  <1>5. Sessions(rows', signed', sigs') BY DEF IInv
  <1>6. job'[auth'] = q BY <1>1
  <1> QED BY <1>2, <1>3, <1>4, <1>5, <1>6 DEF IInv

LEMMA OfferInv ==
  ASSUME IInv, NEW u \in Users, NEW v \in Users, Offer(u, v)
  PROVE  IInv'
PROOF
  <1> DEFINE x == offer.x1 + 1
             m == [from |-> u, to |-> v, x1 |-> x, txs |-> txs[u]]
             o == [to |-> v, x1 |-> x, msg |-> NoMsg, key_updated |-> FALSE]
             q == [at |-> "offered", row |-> 0, seen |-> 0, msg |-> m]
             again == resent \/ \E tx \in signed : tx.to = v
  <1>1. /\ st[u] \in Held /\ v # u /\ auth = u
        /\ offer' = o /\ job' = [job EXCEPT ![u] = q] /\ resent' = again
        /\ UNCHANGED <<height, spent, alive, auth, rows, sigs, nonce, holder, signed, txs, st>>
    BY DEF Offer, wallets
  <1>2. /\ offer.x1 \in Nat /\ txs[u] \in Seq(Tx) /\ resent \in BOOLEAN
        /\ holder \in Users \cup {NoUser} /\ nonce \in Nat
        /\ \A w \in Users : job[w] \in JobType
    BY DEF IInv, TypeOK, JobType
  <1>3. x \in Nat /\ offer.x1 < x BY <1>2
  <1> HIDE DEF x
  <1>4. m \in Msg /\ m # NoMsg
    <2>1. m \in [from : Users, to : Users, x1 : Nat, txs : Seq(Tx)] BY <1>2, <1>3
    <2>2. m.from # NoMsg.from BY Constants DEF NoMsg
    <2> QED BY <2>1, <2>2 DEF Msg
  <1>5. /\ m.from = u /\ m.to = v /\ m.x1 = x /\ m.txs = txs[u]
        /\ o.to = v /\ o.x1 = x /\ o.msg = NoMsg /\ o.key_updated = FALSE
    OBVIOUS
  <1>6. o \in [to : Users \cup {NoUser}, x1 : Nat, msg : Msg, key_updated : BOOLEAN]
    BY <1>3, Constants
  <1> HIDE DEF m, o
  <1>7. q \in JobType /\ q.at = "offered" /\ q.msg = m BY <1>4 DEF JobType, Steps
  <1> HIDE DEF q
  <1>8. Wallet(u, txs[u], st[u], u, signed) BY <1>1 DEF IInv
  <1>9. again \in BOOLEAN /\ Keys(holder, auth, again) BY <1>2 DEF IInv, Keys
  <1>10. Owner(q, o, rows) BY <1>5, <1>7 DEF Owner
  <1>11. Sender(q, u, txs[u], st[u], x, signed)
    BY <1>1, <1>3, <1>4, <1>5, <1>7 DEF Sender, Sending
  <1>12. Receiver(q, u, txs[u], st[u], o, holder, u, signed, again)
    BY <1>7 DEF Receiver, Receiving
  <1>13. ASSUME NEW w \in Users \ {u}, job[w].msg # NoMsg
         PROVE  job[w].msg.x1 \in Nat
    BY <1>2, <1>13 DEF JobType, Msg
  <1>14. ASSUME NEW w \in Users \ {u} PROVE Sender(job[w], w, txs[w], st[w], x, signed)
    <2>1. Sender(job[w], w, txs[w], st[w], offer.x1, signed) BY DEF IInv
    <2>2. job[w].at \in Sending \cup {"posted"} => job[w].msg.x1 <= x
      BY <1>2, <1>3, <1>13, <2>1 DEF Sender
    <2> QED BY <2>1, <2>2 DEF Sender
  <1>15. ASSUME NEW w \in Users \ {u}, job[w].at \in Receiving
         PROVE  /\ job[w].msg.x1 < x /\ MsgOK(job[w].msg, w, x, signed)
                /\ \E tx \in signed : tx.to = w
    <2>1. MsgOK(job[w].msg, w, offer.x1, signed) BY <1>15 DEF IInv, Receiver
    <2>2. job[w].msg.x1 < x /\ job[w].msg.x1 <= x BY <1>2, <1>3, <1>13, <2>1 DEF MsgOK
    <2>3. job[w].msg.txs[Len(job[w].msg.txs)] \in signed
      BY <2>1, LenProperties DEF MsgOK, ListOK
    <2> QED BY <2>1, <2>2, <2>3 DEF MsgOK
  <1>16. ASSUME NEW w \in Users \ {u}
         PROVE  Receiver(job[w], w, txs[w], st[w], o, holder, u, signed, again)
    <2>1. Receiver(job[w], w, txs[w], st[w], offer, holder, u, signed, resent) BY <1>1 DEF IInv
    <2>2. job[w].at \in Receiving => job[w].msg.x1 # x
      <3> SUFFICES ASSUME job[w].at \in Receiving PROVE job[w].msg.x1 # x OBVIOUS
      <3>1. job[w].msg.x1 < x /\ job[w].msg # NoMsg BY <1>15 DEF MsgOK
      <3>2. job[w].msg.x1 \in Nat BY <1>13, <3>1
      <3> QED BY <1>3, <3>1, <3>2
    <2>3. job[w].at \in Receiving /\ o.to = w => again BY <1>5, <1>15
    <2>4. {"validated", "prepared"} \subseteq Receiving BY DEF Receiving
    <2> HIDE DEF again
    <2> QED BY <1>5, <1>15, <2>1, <2>2, <2>3, <2>4 DEF Receiver
  <1> HIDE DEF again
  <1>17. /\ offer' \in [to : Users \cup {NoUser}, x1 : Nat, msg : Msg, key_updated : BOOLEAN]
         /\ auth' = u /\ holder' \in Users \cup {NoUser} /\ nonce' \in Nat
         /\ resent' \in BOOLEAN /\ Keys(holder', auth', resent') /\ Owner(q, offer', rows)
         /\ offer'.msg = NoMsg
    BY <1>1, <1>2, <1>5, <1>6, <1>9, <1>10
  <1>18. \A w \in Users \ {u} : job[w].at \in Receiving => job[w].msg.x1 < offer'.x1
    BY <1>1, <1>5, <1>15
  <1>19. /\ Sender(q, u, txs[u], st[u], offer'.x1, signed)
         /\ Receiver(q, u, txs[u], st[u], offer', holder', u, signed, resent')
         /\ \A w \in Users \ {u} :
              /\ Sender(job[w], w, txs[w], st[w], offer'.x1, signed)
              /\ Receiver(job[w], w, txs[w], st[w], offer', holder', u, signed, resent')
    BY <1>1, <1>5, <1>11, <1>12, <1>14, <1>16
  <1> QED BY <1>1, <1>7, <1>8, <1>17, <1>18, <1>19, OfferStep

LEMMA PostMsgInv ==
  ASSUME IInv, NEW u \in Users, PostMsg(u)
  PROVE  IInv'
PROOF
  <1> DEFINE m == job[u].msg
             A == Append(txs[u], NewBackupTx(u))
             msg == [m EXCEPT !.txs = A]
             o == [offer EXCEPT !.msg = msg]
             q == [job[u] EXCEPT !.at = "posted", !.msg = msg]
  <1>0. /\ job[u].at = "second" /\ auth = u /\ job[u].at \in Sending
        /\ job \in [Users -> JobType] /\ job[u] \in JobType /\ txs[u] \in Seq(Tx)
        /\ offer \in [to : Users \cup {NoUser}, x1 : Nat, msg : Msg, key_updated : BOOLEAN]
        /\ holder \in Users \cup {NoUser} /\ nonce \in Nat /\ resent \in BOOLEAN
        /\ UNCHANGED <<height, spent, alive, auth, rows, sigs, nonce, holder, signed, txs, st,
                       resent>>
    BY DEF PostMsg, wallets, IInv, TypeOK, JobType, Sending
  <1>1. /\ Sender(job[u], u, txs[u], st[u], offer.x1, signed) /\ Owner(job[u], offer, rows)
        /\ Wallet(u, txs[u], st[u], u, signed) /\ Keys(holder, auth, resent)
    BY <1>0 DEF IInv
  <1>2. /\ m # NoMsg /\ m.from = u /\ m.to # u /\ m.txs = txs[u] /\ m.x1 = offer.x1
        /\ m.to = offer.to /\ st[u] \in Held /\ NewBackupTx(u) \in signed
    BY <1>0, <1>1, BuiltTx DEF Sender, Owner
  <1>3. m \in [from : Users, to : Users, x1 : Nat, txs : Seq(Tx)]
    BY <1>0, <1>2 DEF JobType, Msg
  <1>4. /\ NewBackupTx(u) \in Tx /\ NewBackupTx(u).n = Len(txs[u]) + 1
        /\ NewBackupTx(u).to = m.to
    BY <1>0, BuiltTx
  <1>5. /\ A \in Seq(Tx) /\ Len(A) = Len(txs[u]) + 1 /\ Len(txs[u]) \in Nat
        /\ A[Len(txs[u]) + 1] = NewBackupTx(u)
        /\ \A k \in 1..Len(txs[u]) : A[k] = txs[u][k]
    BY <1>0, <1>4, AppendProperties
  <1>6. offer' = o /\ job' = [job EXCEPT ![u] = q]
    BY <1>0, <1>2 DEF PostMsg
  <1> HIDE DEF A
  <1>7. ListOK(A, signed)
    <2>1. ListOK(txs[u], signed) BY <1>1 DEF Wallet
    <2>2. ASSUME NEW k \in 1..Len(A) PROVE A[k] \in signed /\ A[k].n = k
      <3>1. CASE k = Len(txs[u]) + 1 BY <1>2, <1>4, <1>5, <3>1
      <3>2. CASE k \in 1..Len(txs[u]) BY <1>5, <2>1, <3>2 DEF ListOK
      <3> QED BY <1>5, <3>1, <3>2
    <2> QED BY <1>5, <2>2 DEF ListOK
  <1>8. /\ msg \in [from : Users, to : Users, x1 : Nat, txs : Seq(Tx)]
        /\ msg.txs = A /\ msg.from = u /\ msg.to = offer.to /\ msg.x1 = offer.x1
    BY <1>2, <1>3, <1>5
  <1>9. msg \in Msg /\ msg # NoMsg
    BY <1>8, Constants DEF Msg, NoMsg
  <1> HIDE DEF msg, m
  <1>10. /\ o \in [to : Users \cup {NoUser}, x1 : Nat, msg : Msg, key_updated : BOOLEAN]
         /\ o.to = offer.to /\ o.x1 = offer.x1 /\ o.key_updated = offer.key_updated
         /\ o.msg = msg
    BY <1>0, <1>9
  <1>11. q \in JobType /\ q.at = "posted" /\ q.msg = msg
    BY <1>0, <1>9 DEF JobType, Steps
  <1> HIDE DEF o, q
  <1>12. MsgOK(msg, offer.to, offer.x1, signed)
    <2>1. Len(A) # 0 /\ A[Len(A)].to = offer.to /\ u # offer.to /\ offer.x1 \in Nat
      BY <1>0, <1>2, <1>4, <1>5
    <2> QED BY <1>7, <1>8, <1>9, <2>1 DEF MsgOK
  <1>13. Sender(q, u, txs[u], st[u], offer.x1, signed)
    <2>1. /\ offer.x1 \in Nat /\ offer.to # u /\ A[Len(txs[u]) + 1].to # u
      BY <1>0, <1>2, <1>4, <1>5
    <2>2. q.msg.x1 <= offer.x1 BY <1>8, <1>11, <2>1
    <2> QED BY <1>2, <1>5, <1>7, <1>8, <1>9, <1>11, <2>1, <2>2 DEF Sender, Sending
  <1>14. Receiver(q, u, txs[u], st[u], o, holder, u, signed, resent)
    BY <1>11 DEF Receiver, Receiving
  <1>15. ASSUME NEW w \in Users \ {u}
         PROVE  /\ Sender(job[w], w, txs[w], st[w], o.x1, signed)
                /\ Receiver(job[w], w, txs[w], st[w], o, holder, u, signed, resent)
    <2>1. /\ Sender(job[w], w, txs[w], st[w], offer.x1, signed)
          /\ Receiver(job[w], w, txs[w], st[w], offer, holder, u, signed, resent)
      BY <1>0 DEF IInv
    <2> QED BY <1>10, <2>1 DEF Receiver
  <1>16. /\ offer' \in [to : Users \cup {NoUser}, x1 : Nat, msg : Msg, key_updated : BOOLEAN]
         /\ auth' = u /\ holder' \in Users \cup {NoUser} /\ nonce' \in Nat
         /\ resent' \in BOOLEAN /\ Keys(holder', auth', resent')
    BY <1>0, <1>1, <1>6, <1>10
  <1>17. Owner(q, offer', rows) /\ q.at \notin Sending BY <1>11 DEF Owner, Sending
  <1>18. MsgOK(offer'.msg, offer'.to, offer'.x1, signed) /\ offer'.msg.x1 = offer'.x1
    BY <1>6, <1>8, <1>10, <1>12
  <1>19. /\ Sender(q, u, txs[u], st[u], offer'.x1, signed)
         /\ Receiver(q, u, txs[u], st[u], offer', holder', u, signed, resent')
         /\ \A w \in Users \ {u} :
              /\ Sender(job[w], w, txs[w], st[w], offer'.x1, signed)
              /\ Receiver(job[w], w, txs[w], st[w], offer', holder', u, signed, resent')
    BY <1>0, <1>6, <1>10, <1>13, <1>14, <1>15
  <1> QED BY <1>0, <1>1, <1>6, <1>11, <1>16, <1>17, <1>18, <1>19, OfferStep

LEMMA AcceptInv ==
  ASSUME IInv, NEW u \in Users, Accept(u)
  PROVE  IInv'
PROOF
  <1> DEFINE m == job[u].msg
             q == [job[u] EXCEPT !.at = "accepted"]
             OfferType == [to : Users \cup {NoUser}, x1 : Nat, msg : Msg, key_updated : BOOLEAN]
  <1>1. /\ job[u].at = "prepared" /\ offer.to = u
        /\ job \in [Users -> JobType] /\ job[u] \in JobType /\ offer \in OfferType
        /\ holder \in Users \cup {NoUser} /\ resent \in BOOLEAN /\ auth \in Users
        /\ signed \in SUBSET Tx
        /\ UNCHANGED <<height, spent, alive, rows, sigs, signed, txs, st, resent>>
    BY DEF Accept, wallets, IInv, TypeOK, JobType
  <1>2. job' = [job EXCEPT ![u] = q] BY <1>1 DEF Accept, Goto
  <1>3. q \in JobType /\ q.at = "accepted" /\ q.msg = m BY <1>1 DEF JobType, Steps
  <1>4. /\ Receiver(job[u], u, txs[u], st[u], offer, holder, auth, signed, resent)
        /\ Keys(holder, auth, resent) /\ Wallet(u, txs[u], st[u], auth, signed)
    BY DEF IInv
  <1>5. /\ st[u] = "INITIALISED" /\ MsgOK(m, u, offer.x1, signed) /\ holder # u
        /\ (m.x1 # offer.x1 => resent)
        /\ m.x1 = offer.x1 =>
             Disclosed(m.txs, signed) /\ (~offer.key_updated => holder = m.from)
    BY <1>1, <1>4 DEF Receiver, Receiving
  <1> HIDE DEF q, m
  <1>6. Sender(q, u, txs[u], st[u], offer.x1, signed) BY <1>3 DEF Sender, Sending
  <1>7. q.at \notin Sending /\ q.at \notin {"first", "wfirst"} BY <1>3 DEF Sending
  <1>8. CASE offer.key_updated
    <2>1. UNCHANGED <<auth, offer, nonce, holder>> BY <1>8 DEF Accept
    <2>2. Receiver(q, u, txs[u], st[u], offer, holder, auth, signed, resent)
      BY <1>1, <1>3, <1>5 DEF Receiver
    <2>3. Owner(IF auth = u THEN q ELSE job[auth], offer, rows) BY <1>7 DEF IInv, Owner
    <2>4. job[auth].at \notin Sending \/ q.msg.x1 < offer.x1
      <3>1. Unposted(job[auth], job, offer.x1) BY DEF IInv
      <3>2. job[u].at \in Receiving BY <1>1 DEF Receiving
      <3> QED BY <1>3, <3>1, <3>2 DEF Unposted, m
    <2>5. /\ height' \in Nat /\ spent' \in SUBSET Tx /\ alive' \in BOOLEAN /\ nonce' \in Nat
          /\ rows' \in Seq(Tx \cup {Null}) /\ Sessions(rows', signed, sigs)
      BY <1>1, <2>1 DEF IInv, TypeOK
    <2> QED BY <1>1, <1>2, <1>3, <1>6, <1>7, <2>1, <2>2, <2>3, <2>4, <2>5, JobStep
  <1>9. CASE ~offer.key_updated
    <2> DEFINE h == IF offer.x1 = m.x1 /\ holder = m.from THEN u ELSE NoUser
               o == [offer EXCEPT !.key_updated = TRUE]
    <2>1. holder' = h /\ auth' = u /\ nonce' = 0 /\ offer' = o BY <1>9 DEF Accept, m
    <2>2. o \in OfferType /\ o.to = offer.to /\ o.x1 = offer.x1 /\ o.msg = offer.msg
          /\ o.key_updated = TRUE
      BY <1>1
    <2>3. h \in {u, NoUser} /\ (h = u => offer.x1 = m.x1) BY Constants
    <2>4. ~resent => h = u BY <1>5, <1>9
    <2> HIDE DEF h, o
    <2>5. Keys(h, u, resent) BY <2>3, <2>4 DEF Keys
    <2>6. Receiver(q, u, txs[u], st[u], o, h, u, signed, resent)
      <3>1. h = u => Cover(u, m.txs, signed)
        BY <1>1, <1>5, <2>3, DisclosedCovers DEF MsgOK
      <3> QED BY <1>1, <1>3, <1>5, <2>2, <3>1 DEF Receiver
    <2>7. ASSUME NEW w \in Users \ {u}
          PROVE  /\ Sender(job[w], w, txs[w], st[w], o.x1, signed)
                 /\ Receiver(job[w], w, txs[w], st[w], o, h, u, signed, resent)
      <3>1. /\ Sender(job[w], w, txs[w], st[w], offer.x1, signed)
            /\ Receiver(job[w], w, txs[w], st[w], offer, holder, auth, signed, resent)
        BY DEF IInv
      <3>2. h # w BY <2>3, Constants
      <3> QED BY <2>2, <3>1, <3>2 DEF Receiver
    <2>8. Wallet(u, txs[u], st[u], u, signed) BY <1>4, <1>5 DEF Wallet, Held
    <2>9. offer.msg # NoMsg => MsgOK(offer.msg, offer.to, offer.x1, signed) /\ offer.msg.x1 = offer.x1
      BY DEF IInv
    <2>10. /\ offer' \in [to : Users \cup {NoUser}, x1 : Nat, msg : Msg, key_updated : BOOLEAN]
           /\ holder' \in Users \cup {NoUser} /\ nonce' \in Nat
           /\ resent' \in BOOLEAN /\ Keys(holder', auth', resent')
      BY <1>1, <2>1, <2>2, <2>3, <2>5
    <2>11. Owner(q, offer', rows) BY <1>7 DEF Owner
    <2>12. offer'.msg # NoMsg =>
             MsgOK(offer'.msg, offer'.to, offer'.x1, signed) /\ offer'.msg.x1 = offer'.x1
      BY <2>1, <2>2, <2>9
    <2>13. /\ Sender(q, u, txs[u], st[u], offer'.x1, signed)
           /\ Receiver(q, u, txs[u], st[u], offer', holder', u, signed, resent')
           /\ \A w \in Users \ {u} :
                /\ Sender(job[w], w, txs[w], st[w], offer'.x1, signed)
                /\ Receiver(job[w], w, txs[w], st[w], offer', holder', u, signed, resent')
      BY <1>1, <1>6, <2>1, <2>2, <2>6, <2>7
    <2> QED BY <1>1, <1>2, <1>3, <1>7, <2>1, <2>8, <2>10, <2>11, <2>12, <2>13, OfferStep
  <1> QED BY <1>8, <1>9

-----------------------------------------------------------------------------
\* The latest transaction paying to u is one of those paying to u.
LEMMA LatestOwn ==
  ASSUME IInv, NEW u \in Users, PaysTo(u) # {}
  PROVE  OwnTx(u) \in PaysTo(u) /\ \A j \in PaysTo(u) : j <= OwnTx(u)
PROOF
  <1> DEFINE n == Len(txs[u])
             T == {n - k : k \in PaysTo(u)}
  <1>1. n \in Nat /\ PaysTo(u) \subseteq 1..n
    <2>1. txs[u] \in Seq(Tx) BY DEF IInv, TypeOK
    <2> QED BY <2>1, LenProperties DEF PaysTo
  <1> HIDE DEF n
  <1>2. T \subseteq Nat /\ T # {} BY <1>1
  <1>3. PICK x \in T : \A y \in T : ~ (<<y, x>> \in OpToRel(<, Nat))
    BY <1>2, NatLessThanWellFounded, WFMin
  <1>4. \A y \in T : ~(y < x) BY <1>2, <1>3 DEF OpToRel
  <1>5. PICK k \in PaysTo(u) : x = n - k OBVIOUS
  <1>6. \A j \in PaysTo(u) : j <= k
    <2> TAKE j \in PaysTo(u)
    <2>1. ~(n - j < n - k) BY <1>4, <1>5
    <2> QED BY <1>1, <2>1
  <1> QED BY <1>6 DEF OwnTx

LEMMA StepInv == IInv /\ [Next]_vars => IInv'
PROOF
  <1> SUFFICES ASSUME IInv, [Next]_vars PROVE IInv' OBVIOUS
  <1>0. height \in Nat /\ spent \in SUBSET Tx /\ alive \in BOOLEAN /\ nonce \in Nat
    BY DEF IInv, TypeOK
  <1>1. ASSUME height' \in Nat,
               UNCHANGED <<spent, alive, auth, offer, rows, sigs, nonce, holder, signed, txs, st,
                          job, resent>>
        PROVE  IInv'
    <2>1. TypeOK' BY <1>1 DEF IInv, TypeOK
    <2> QED BY <1>1, <2>1 DEF IInv
  <1>2. CASE UNCHANGED vars BY <1>0, <1>1, <1>2 DEF vars, server, wallets
  <1>3. CASE Tick
    <2>1. height' \in Nat BY <1>0, <1>3 DEF Tick
    <2> QED BY <1>1, <1>3, <2>1 DEF Tick, server, wallets
  <1>4. ASSUME NEW u \in Users, Send(u) PROVE IInv'
    <2>1. CASE SendFirst(u) BY <2>1, SignFirstInv DEF SendFirst
    <2>2. CASE SendSecond(u)
      <3>1. SignSecond(u, "first", "second", NewBackupTx(u)) /\ job[u].at \in Sending
        BY <2>2 DEF SendSecond, SignSecond, Sending
      <3> QED BY <3>1, BuiltTx, SignSecondInv
    <2>3. CASE SendUnanswered(u)
      <3>1. CASE FirstUnanswered(u, "offered") BY <3>1, FirstUnansweredInv
      <3>2. CASE SignUnanswered(u, "first", NewBackupTx(u))
        <4>1. job[u].at \in Sending BY <3>2 DEF SignUnanswered, Sending
        <4> QED BY <3>2, <4>1, BuiltTx, SignUnansweredInv
      <3> QED BY <2>3, <3>1, <3>2 DEF SendUnanswered
    <2>4. CASE PostMsg(u) BY <2>4, PostMsgInv
    <2>5. CASE SaveSentTxs(u) BY <2>5, SaveSentTxsInv
    <2>6. CASE SaveSent(u) BY <2>6, SaveSentInv
    <2> QED BY <1>4, <2>1, <2>2, <2>3, <2>4, <2>5, <2>6 DEF Send
  <1>5. ASSUME NEW u \in Users, Skip(u) \/ Refused(u) \/ Fail(u) \/ CompleteWithdraw(u)
        PROVE  IInv'
    <2>1. /\ job' = [job EXCEPT ![u] = Idle] /\ height' = height /\ spent' = spent
          /\ alive' \in BOOLEAN
          /\ UNCHANGED <<auth, offer, rows, sigs, nonce, holder, signed, resent, txs, st>>
      BY <1>0, <1>5 DEF Skip, Refused, Fail, CompleteWithdraw, server, wallets
    <2> QED BY <1>0, <2>1, EndStep
  <1>6. ASSUME NEW u \in Users, Receive(u) PROVE IInv'
    BY <1>5, <1>6, FetchInv, ValidateInv, PrepareInv, AcceptInv, SaveReceivedTxsInv,
       SaveReceivedInv DEF Receive
  <1>7. ASSUME NEW u \in Users, Withdraw(u) PROVE IInv'
    <2>1. CASE WithdrawFirst(u) BY <2>1, SignFirstInv DEF WithdrawFirst
    <2>2. CASE WithdrawSecond(u) BY <2>2, BuiltTx, SignSecondInv DEF WithdrawSecond
    <2>3. CASE WithdrawUnanswered(u)
      BY <2>3, BuiltTx, FirstUnansweredInv, SignUnansweredInv DEF WithdrawUnanswered
    <2>4. CASE WithdrawBroadcast(u) BY <2>4, BuiltTx, BroadcastInv DEF WithdrawBroadcast
    <2>5. CASE BroadcastBackup(u)
      <3>1. OwnTx(u) \in PaysTo(u) /\ Broadcast(u, txs[u][OwnTx(u)])
        BY <2>5, LatestOwn DEF BroadcastBackup
      <3>2. txs[u] \in Seq(Tx) BY DEF IInv, TypeOK
      <3>3. txs[u][OwnTx(u)] \in Tx BY <3>1, <3>2, ElementOfSeq DEF PaysTo
      <3> QED BY <3>1, <3>3, BroadcastInv
    <2>6. CASE CompleteWithdraw(u) BY <1>5, <2>6
    <2> QED BY <1>7, <2>1, <2>2, <2>3, <2>4, <2>5, <2>6 DEF Withdraw
  <1>8. ASSUME NEW u \in Users, NEW v \in Users, Offer(u, v) PROVE IInv' BY <1>8, OfferInv
  <1> QED BY <1>2, <1>3, <1>4, <1>5, <1>6, <1>7, <1>8, UpdateCoinInv DEF Next

\* Type correctness: every variable keeps its type, whatever the wallets do.
THEOREM TypesHold == Spec => []TypeOK
PROOF
  <1>1. IInv => TypeOK BY DEF IInv
  <1> QED BY InitInv, StepInv, <1>1, PTL DEF Spec

\* s2 + o2 = s1 + o1: the enclave's share and the owner's add up to the key
\* unless the coin was offered a second time to an address already paid.
THEOREM SharesStayTogether == Spec => []SharesAddUp
PROOF
  <1>1. IInv => SharesAddUp BY DEF IInv, Keys, SharesAddUp
  <1> QED BY InitInv, StepInv, <1>1, PTL DEF Spec

\* The owner stores every backup an earlier owner had signed for somebody else.
THEOREM EarlierBackupsKnown == Spec => []BackupsDisclosed
PROOF
  <1>1. ASSUME IInv PROVE BackupsDisclosed
    <2> SUFFICES ASSUME st[auth] \in Held, NEW tx \in signed,
                        tx.n > 0, tx.by # auth, tx.to # auth
                 PROVE  \E k \in 1..Len(txs[auth]) : txs[auth][k] = tx
      BY DEF BackupsDisclosed
    <2>1. auth \in Users /\ tx \in Tx /\ txs[auth] \in Seq(Tx) BY <1>1 DEF IInv, TypeOK
    <2>2. Cover(auth, txs[auth], signed) BY <1>1, <2>1 DEF IInv, Wallet
    <2>3. PICK k \in 1..Len(txs[auth]) : tx.n < k /\ txs[auth][tx.n] = tx
      BY <2>2 DEF Cover
    <2>4. tx.n \in Nat /\ Len(txs[auth]) \in Nat BY <2>1, LenProperties DEF Tx
    <2>5. tx.n \in 1..Len(txs[auth]) BY <2>3, <2>4
    <2> QED BY <2>3, <2>5
  <1> QED BY InitInv, StepInv, <1>1, PTL DEF Spec

\* The locktime falls by a whole interval from one backup to the next.
LEMMA LocktimeFalls ==
  ASSUME NEW a \in Int, NEW b \in Int, a < b
  PROVE  Locktime(b) + Interval <= Locktime(a)
PROOF
  <1>1. Interval \in Nat /\ Initlock \in Nat BY LockAssumption
  <1>2. \A d \in Nat : Interval * d \in Nat BY <1>1
  <1>3. b - a - 1 \in Nat OBVIOUS
  <1>4. Interval * (b - 1) = Interval * (a - 1) + Interval * (b - a - 1) + Interval BY <1>1
  <1>5. Interval * (b - 1) \in Int /\ Interval * (a - 1) \in Int /\ Interval * (b - a - 1) \in Nat
    BY <1>1, <1>2, <1>3
  <1> QED BY <1>1, <1>4, <1>5 DEF Locktime, calculate_block_height

LEMMA LocktimeIsInt ==
  ASSUME NEW n \in Int
  PROVE  Locktime(n) \in Int /\ Interval \in Int
PROOF
  <1>1. Interval \in Nat /\ Initlock \in Nat BY LockAssumption
  <1> QED BY <1>1 DEF Locktime, calculate_block_height

\* What a wallet that has the coin knows of the backups signed so far.
LEMMA HeldCovers ==
  ASSUME IInv, st[auth] \in Held
  PROVE  /\ PaysTo(auth) # {} /\ OwnTx(auth) \in Int
         /\ \A tx \in signed :
              tx.n > 0 /\ tx.by # auth /\ tx.to # auth =>
                Locktime(OwnTx(auth)) + Interval <= Locktime(tx.n)
PROOF
  <1> DEFINE L == txs[auth]
  <1>1. auth \in Users /\ L \in Seq(Tx) /\ signed \in SUBSET Tx BY DEF IInv, TypeOK
  <1>2. Cover(auth, L, signed) BY <1>1 DEF IInv, Wallet
  <1>3. PICK k \in 1..Len(L) :
          /\ L[k].to = auth /\ \A j \in (k + 1)..Len(L) : L[j].to # auth
          /\ \A tx \in signed : tx.n > 0 /\ tx.by # auth /\ tx.to # auth =>
               tx.n < k /\ L[tx.n] = tx
    BY <1>2 DEF Cover
  <1>4. Len(L) \in Nat BY <1>1, LenProperties
  <1>5. k \in PaysTo(auth) BY <1>3 DEF PaysTo
  <1>6. OwnTx(auth) \in PaysTo(auth) /\ k <= OwnTx(auth) BY <1>1, <1>5, LatestOwn
  <1>7. OwnTx(auth) \in 1..Len(L) BY <1>6 DEF PaysTo
  <1>8. OwnTx(auth) \in Int BY <1>4, <1>7
  <1>9. ASSUME NEW tx \in signed, tx.n > 0, tx.by # auth, tx.to # auth
        PROVE  Locktime(OwnTx(auth)) + Interval <= Locktime(tx.n)
    <2>1. tx.n < k BY <1>3, <1>9
    <2>2. tx.n \in Int BY <1>1 DEF Tx
    <2>3. tx.n < OwnTx(auth) BY <1>4, <1>6, <1>8, <2>1, <2>2
    <2> QED BY <1>8, <2>2, <2>3, LocktimeFalls
  <1> QED BY <1>5, <1>8, <1>9

\* The current owner's backup is final an interval before any that an earlier
\* owner had signed for somebody else.
THEOREM OwnerIsFirst == Spec => []OwnerFirst
PROOF
  <1>1. IInv => OwnerFirst BY HeldCovers DEF OwnerFirst
  <1> QED BY InitInv, StepInv, <1>1, PTL DEF Spec

-----------------------------------------------------------------------------
(* Who once had the coin *)

\* Whether every transaction of L that pays to u and that a had signed means
\* that u is a.
NotFrom(u, L, a) == \A k \in 1..Len(L) : L[k].to = u /\ L[k].by = a => u = a

\* No wallet becomes the owner after it had a backup signed, and what it has
\* signed by then only others hold once they are owners.
Past ==
  /\ \A tx \in signed : tx.n > 0 => st[tx.by] # "INITIALISED"
  /\ \A u \in Users : NotFrom(u, txs[u], auth)

\* A wallet that has not yet stored the coin is the only one that may lack the
\* key; the row goes only after the owner's withdrawal.
Gone ==
  /\ holder = NoUser => st[auth] = "INITIALISED"
  /\ ~alive => st[auth] \in {"WITHDRAWING", "WITHDRAWN"}
  /\ \A u \in Users :
       /\ job[u].at = "stored" /\ auth = u => holder = u
       /\ job[u].at \in {"wfirst", "wsecond"} => st[u] \in Held
       /\ job[u].at = "closing" => st[u] = "WITHDRAWING"
       /\ st[u] = "TRANSFERRED" => auth # u

\* The step every command is at afterwards, when u takes one to step s.
At(u, s) == \A w \in Users : job'[w].at = IF w = u THEN s ELSE job[w].at

LEMMA GotoAt ==
  ASSUME TypeOK, NEW u \in Users, NEW s, job' = [job EXCEPT ![u].at = s]
  PROVE  At(u, s)
PROOF
  <1>1. job \in [Users -> JobType] BY DEF TypeOK, JobType
  <1>2. ASSUME NEW w \in Users PROVE job'[w].at = IF w = u THEN s ELSE job[w].at
    BY <1>1 DEF JobType
  <1> QED BY <1>2 DEF At

LEMMA SetAt ==
  ASSUME TypeOK, NEW u \in Users, NEW q, job' = [job EXCEPT ![u] = q]
  PROVE  At(u, q.at)
PROOF
  <1>1. job \in [Users -> JobType] BY DEF TypeOK, JobType
  <1>2. ASSUME NEW w \in Users PROVE job'[w].at = IF w = u THEN q.at ELSE job[w].at
    BY <1>1
  <1> QED BY <1>2 DEF At

\* What a step leaves alone that neither moves the coin nor saves anything.
Kept == UNCHANGED <<alive, auth, holder, st, txs>>

Saving == {"stored", "wsecond", "closing"}

\* The steps that move nothing and save nothing.
LEMMA PlainStep ==
  ASSUME TypeOK, NEW u \in Users,
         \/ \E v \in Users : Offer(u, v)
         \/ SendFirst(u) \/ SendUnanswered(u) \/ PostMsg(u)
         \/ Fetch(u) \/ Validate(u) \/ Prepare(u) \/ Skip(u)
         \/ WithdrawFirst(u) \/ WithdrawUnanswered(u) \/ Refused(u) \/ Fail(u)
  PROVE  /\ Kept /\ signed' = signed
         /\ \E s \in Steps \ Saving : At(u, s) /\ (s = "wfirst" => st[u] \in Held)
PROOF
  <1> DEFINE Plain == /\ Kept /\ signed' = signed
                      /\ \E s \in Steps \ Saving :
                           At(u, s) /\ (s = "wfirst" => st[u] \in Held)
  <1> SUFFICES Plain OBVIOUS
  <1>0. job \in [Users -> JobType] BY DEF TypeOK, JobType
  <1>i. Idle.at = "idle" BY DEF Idle
  <1>s. {"idle", "offered", "first", "posted", "fetched", "validated", "prepared", "wfirst"}
          \subseteq Steps \ Saving
    BY DEF Steps, Saving
  <1>a. ASSUME NEW q, job' = [job EXCEPT ![u] = q], Kept, signed' = signed,
               q.at \in {"idle", "offered", "fetched"}
        PROVE  Plain
    <2>1. At(u, q.at) BY <1>a, SetAt
    <2>2. q.at \in Steps \ Saving /\ q.at # "wfirst" BY <1>a, <1>s
    <2> QED BY <1>a, <2>1, <2>2
  <1>1. ASSUME job' = [job EXCEPT ![u] = Idle], Kept, signed' = signed PROVE Plain
    BY <1>1, <1>i, <1>a
  <1>2. ASSUME NEW s \in {"posted", "validated", "prepared"}, NEW m, Kept, signed' = signed,
               \/ job' = [job EXCEPT ![u].at = s]
               \/ job' = [job EXCEPT ![u].at = s, ![u].msg = m]
        PROVE  Plain
    <2>1. CASE job' = [job EXCEPT ![u].at = s] BY <1>2, <1>s, <2>1, GotoAt
    <2>2. CASE job' = [job EXCEPT ![u].at = s, ![u].msg = m]
      <3>1. ASSUME NEW w \in Users PROVE job'[w].at = IF w = u THEN s ELSE job[w].at
        BY <1>0, <2>2 DEF JobType
      <3> QED BY <1>2, <1>s, <3>1 DEF At
    <2> QED BY <1>2, <2>1, <2>2
  <1>3. ASSUME NEW v \in Users, Offer(u, v) PROVE Plain
    <2> DEFINE q == [at |-> "offered", row |-> 0, seen |-> 0,
                     msg |-> [from |-> u, to |-> v, x1 |-> offer.x1 + 1, txs |-> txs[u]]]
    <2>1. job' = [job EXCEPT ![u] = q] /\ Kept /\ signed' = signed
      BY <1>3 DEF Offer, Kept, wallets
    <2>2. q.at = "offered" OBVIOUS
    <2> HIDE DEF q
    <2> QED BY <1>a, <2>1, <2>2
  <1>4. ASSUME NEW f, NEW s \in {"first", "wfirst"}, SignFirst(u, f, s),
               s = "wfirst" => st[u] \in Held
        PROVE  Plain
    <2>1. Kept /\ signed' = signed BY <1>4 DEF SignFirst, Kept, wallets
    <2>2. PICK r : job' = [job EXCEPT ![u].at = s, ![u].row = r] BY <1>4 DEF SignFirst
    <2>3. ASSUME NEW w \in Users PROVE job'[w].at = IF w = u THEN s ELSE job[w].at
      BY <1>0, <2>2 DEF JobType
    <2> QED BY <1>4, <1>s, <2>1, <2>3 DEF At
  <1>5. ASSUME NEW f, FirstUnanswered(u, f) PROVE Plain
    BY <1>1, <1>5 DEF FirstUnanswered, Kept, wallets
  <1>6. ASSUME NEW f, NEW tx, SignUnanswered(u, f, tx) PROVE Plain
    BY <1>1, <1>6 DEF SignUnanswered, Kept, wallets
  <1>7. CASE Skip(u) \/ Refused(u) \/ Fail(u)
    <2>1. job' = [job EXCEPT ![u] = Idle] /\ Kept /\ signed' = signed
      BY <1>7 DEF Skip, Refused, Fail, Kept, server, wallets
    <2> QED BY <1>1, <2>1
  <1>8. CASE Validate(u)
    <2>1. job' = [job EXCEPT ![u].at = "validated"] /\ Kept /\ signed' = signed
      BY <1>8 DEF Validate, Goto, Kept, server, wallets
    <2> QED BY <1>2, <2>1
  <1>9. CASE Prepare(u)
    <2>1. job' = [job EXCEPT ![u].at = "prepared"] /\ Kept /\ signed' = signed
      BY <1>9 DEF Prepare, Goto, Kept, server, wallets
    <2> QED BY <1>2, <2>1
  <1>10. CASE PostMsg(u)
    <2>1. Kept /\ signed' = signed BY <1>10 DEF PostMsg, Kept, wallets
    <2>2. PICK m : job' = [job EXCEPT ![u].at = "posted", ![u].msg = m] BY <1>10 DEF PostMsg
    <2> QED BY <1>2, <2>1, <2>2
  <1>11. CASE Fetch(u)
    <2> DEFINE q == [at |-> "fetched", row |-> 0, seen |-> height, msg |-> offer.msg]
    <2>1. job' = [job EXCEPT ![u] = q] /\ Kept /\ signed' = signed
      BY <1>11 DEF Fetch, Kept, server, wallets
    <2>2. q.at = "fetched" OBVIOUS
    <2> HIDE DEF q
    <2> QED BY <1>a, <2>1, <2>2
  <1>12. CASE SendFirst(u) \/ WithdrawFirst(u)
    BY <1>4, <1>12 DEF SendFirst, WithdrawFirst
  <1>13. CASE SendUnanswered(u) \/ WithdrawUnanswered(u)
    BY <1>5, <1>6, <1>13 DEF SendUnanswered, WithdrawUnanswered
  <1> HIDE DEF Plain
  <1> QED BY <1>3, <1>7, <1>8, <1>9, <1>10, <1>11, <1>12, <1>13

\* What each owner command and each save does to a wallet's status.
LEMMA StatusStep ==
  ASSUME TypeOK, NEW u \in Users,
         \/ SaveSent(u) \/ SaveReceived(u) \/ WithdrawBroadcast(u) \/ BroadcastBackup(u)
         \/ UpdateCoin(u)
  PROVE  /\ UNCHANGED <<alive, auth, holder, signed, txs>>
         /\ \E s \in Status \ {"INITIALISED"} : st' = [st EXCEPT ![u] = s]
PROOF
  <1>s. {"IN_TRANSFER", "CONFIRMED", "WITHDRAWING", "TRANSFERRED", "WITHDRAWN"}
          \subseteq Status \ {"INITIALISED"}
    BY DEF Status
  <1>1. CASE SaveSent(u) BY <1>1, <1>s DEF SaveSent, server
  <1>2. CASE SaveReceived(u) BY <1>2, <1>s DEF SaveReceived, server
  <1>3. ASSUME NEW tx, Broadcast(u, tx)
        PROVE  UNCHANGED <<alive, auth, holder, signed, txs>>
               /\ st' = [st EXCEPT ![u] = "WITHDRAWING"]
    BY <1>3 DEF Broadcast, server
  <1>4. CASE WithdrawBroadcast(u) BY <1>3, <1>4, <1>s DEF WithdrawBroadcast
  <1>5. CASE BroadcastBackup(u) BY <1>3, <1>5, <1>s DEF BroadcastBackup
  <1>6. CASE UpdateCoin(u)
    <2>1. UNCHANGED <<alive, auth, holder, signed, txs>> BY <1>6 DEF UpdateCoin, server
    <2> QED BY <1>6, <1>s, <2>1 DEF UpdateCoin
  <1> QED BY <1>1, <1>2, <1>4, <1>5, <1>6

LEMMA PastFrame ==
  ASSUME IInv, Past, auth' = auth,
         \A tx \in signed' : tx \in signed \/ (tx.n > 0 => st[tx.by] # "INITIALISED"),
         \A tx \in signed' : tx.by \in Users,
         \A w \in Users : st[w] # "INITIALISED" => st'[w] # "INITIALISED",
         \A w \in Users : NotFrom(w, txs'[w], auth)
  PROVE  Past'
PROOF
  BY DEF Past

LEMMA SignedBy == ASSUME IInv, NEW tx \in signed PROVE tx.by \in Users /\ tx \in Tx
PROOF
  <1>1. tx \in Tx BY DEF IInv, TypeOK
  <1> QED BY <1>1 DEF Tx

\* A step that saves at most the status of a coin already received.
LEMMA PastKept ==
  ASSUME IInv, Past, UNCHANGED <<auth, signed, txs>>,
         \A w \in Users : st[w] # "INITIALISED" => st'[w] # "INITIALISED"
  PROVE  Past'
PROOF
  <1>1. \A tx \in signed' : tx.by \in Users BY SignedBy
  <1>2. \A w \in Users : NotFrom(w, txs'[w], auth) BY DEF Past
  <1> QED BY <1>1, <1>2, PastFrame

LEMMA PastSigned ==
  ASSUME IInv, Past, NEW u \in Users, SendSecond(u) \/ WithdrawSecond(u)
  PROVE  Past'
PROOF
  <1>1. PICK tx : /\ signed' = signed \cup {tx} /\ UNCHANGED <<auth, st, txs>>
                  /\ tx.by = u /\ (tx.n > 0 => st[u] # "INITIALISED")
    <2>1. CASE SendSecond(u)
      <3>1. /\ signed' = signed \cup {NewBackupTx(u)} /\ UNCHANGED <<auth, st, txs>>
            /\ job[u].at = "first"
        BY <2>1 DEF SendSecond, SignSecond, wallets
      <3>2. Sender(job[u], u, txs[u], st[u], offer.x1, signed) BY DEF IInv
      <3>3. st[u] \in Held BY <3>1, <3>2 DEF Sender, Sending
      <3>4. st[u] # "INITIALISED" BY <3>3 DEF Held
      <3>5. NewBackupTx(u).by = u BY DEF NewBackupTx
      <3> QED BY <3>1, <3>4, <3>5
    <2>2. CASE WithdrawSecond(u)
      <3>1. signed' = signed \cup {WithdrawalTx(u)} /\ UNCHANGED <<auth, st, txs>>
        BY <2>2 DEF WithdrawSecond, SignSecond, wallets
      <3>2. WithdrawalTx(u).by = u /\ WithdrawalTx(u).n = 0 BY DEF WithdrawalTx
      <3>3. ~(WithdrawalTx(u).n > 0) BY <3>2
      <3> QED BY <3>1, <3>2, <3>3
    <2> QED BY <2>1, <2>2
  <1>2. \A t \in signed' : t \in signed \/ (t.n > 0 => st[t.by] # "INITIALISED") BY <1>1
  <1>3. \A t \in signed' : t.by \in Users BY <1>1, SignedBy
  <1>4. \A w \in Users : NotFrom(w, txs'[w], auth) BY <1>1 DEF Past
  <1> QED BY <1>1, <1>2, <1>3, <1>4, PastFrame

LEMMA PastSaved ==
  ASSUME IInv, Past, NEW u \in Users, SaveSentTxs(u) \/ SaveReceivedTxs(u)
  PROVE  Past'
PROOF
  <1> DEFINE L == job[u].msg.txs
  <1>1. UNCHANGED <<auth, signed, st>> /\ txs' = [txs EXCEPT ![u] = L]
    BY DEF SaveSentTxs, SaveReceivedTxs, server
  <1>2. txs \in [Users -> Seq(Tx)] BY DEF IInv, TypeOK
  <1>3. NotFrom(u, L, auth)
    <2>1. CASE SaveSentTxs(u)
      <3>1. job[u].at = "posted" BY <2>1 DEF SaveSentTxs
      <3>2. Sender(job[u], u, txs[u], st[u], offer.x1, signed) BY DEF IInv
      <3>3. /\ Len(L) = Len(txs[u]) + 1 /\ L[Len(txs[u]) + 1].to # u
            /\ \A k \in 1..Len(txs[u]) : L[k] = txs[u][k]
        BY <3>1, <3>2 DEF Sender
      <3>4. NotFrom(u, txs[u], auth) BY DEF Past
      <3>5. Len(txs[u]) \in Nat BY <1>2, LenProperties
      <3>6. \A n \in Nat : \A k \in 1..(n + 1) : k \in 1..n \/ k = n + 1 OBVIOUS
      <3>7. \A k \in 1..Len(L) : k \in 1..Len(txs[u]) \/ k = Len(txs[u]) + 1
        BY <3>3, <3>5, <3>6
      <3> HIDE DEF L
      <3> QED BY <3>3, <3>4, <3>7 DEF NotFrom
    <2>2. CASE SaveReceivedTxs(u)
      <3>1. holder = u BY <2>2 DEF SaveReceivedTxs
      <3>2. auth = u BY <3>1, Constants DEF IInv, Keys
      <3> QED BY <3>2 DEF NotFrom
    <2> QED BY <2>1, <2>2
  <1> HIDE DEF L
  <1>4. \A w \in Users : txs'[w] = IF w = u THEN L ELSE txs[w] BY <1>1, <1>2
  <1>5. \A w \in Users : NotFrom(w, txs'[w], auth) BY <1>3, <1>4 DEF Past
  <1>6. \A tx \in signed' : tx.by \in Users BY <1>1, SignedBy
  <1> QED BY <1>1, <1>5, <1>6, PastFrame

\* Who accepts the coin has had nothing signed, so no stored backup is theirs.
LEMMA PastAccept ==
  ASSUME IInv, Past, NEW u \in Users, Accept(u)
  PROVE  Past'
PROOF
  <1>1. UNCHANGED <<signed, st, txs>> /\ auth' \in {auth, u} /\ job[u].at = "prepared"
    BY DEF Accept, wallets
  <1>2. st[u] = "INITIALISED"
    <2>1. Receiver(job[u], u, txs[u], st[u], offer, holder, auth, signed, resent) BY DEF IInv
    <2> QED BY <1>1, <2>1 DEF Receiver, Receiving
  <1>3. ASSUME NEW w \in Users PROVE NotFrom(w, txs[w], u)
    <2> SUFFICES ASSUME NEW k \in 1..Len(txs[w]), txs[w][k].by = u PROVE FALSE
      BY DEF NotFrom
    <2>1. ListOK(txs[w], signed) BY DEF IInv, Wallet
    <2>2. txs[w][k] \in signed /\ txs[w][k].n = k BY <2>1 DEF ListOK
    <2>3. Len(txs[w]) \in Nat
      <3>1. txs[w] \in Seq(Tx) BY <2>1 DEF ListOK
      <3> QED BY <3>1, LenProperties
    <2>4. k > 0 BY <2>3
    <2>5. st[u] # "INITIALISED" BY <2>2, <2>4 DEF Past
    <2> QED BY <1>2, <2>5
  <1>4. \A w \in Users : NotFrom(w, txs[w], auth') BY <1>1, <1>3 DEF Past
  <1> QED BY <1>1, <1>4 DEF Past

\* The three kinds of step a proof about Next has to look at: those that move
\* and save nothing, those that save a status, and the few that do more.
LEMMA ByKind ==
  ASSUME TypeOK, [Next]_vars
  PROVE  \/ UNCHANGED <<alive, auth, holder, st, txs, job, signed>>
         \/ \E u \in Users :
              \/ /\ Kept /\ signed' = signed
                 /\ \E s \in Steps \ Saving : At(u, s) /\ (s = "wfirst" => st[u] \in Held)
              \/ SaveSent(u) \/ SaveReceived(u) \/ UpdateCoin(u)
              \/ WithdrawBroadcast(u) \/ BroadcastBackup(u)
              \/ SendSecond(u) \/ WithdrawSecond(u) \/ SaveSentTxs(u) \/ SaveReceivedTxs(u)
              \/ Accept(u) \/ CompleteWithdraw(u)
PROOF
  <1>1. CASE UNCHANGED vars \/ Tick BY <1>1 DEF vars, Tick, server, wallets
  <1>2. ASSUME NEW u \in Users,
               \/ \E v \in Users : Offer(u, v)
               \/ Send(u) \/ Receive(u) \/ Withdraw(u)
               \/ UpdateCoin(u) \/ Refused(u) \/ Fail(u)
        PROVE  \/ /\ Kept /\ signed' = signed
                  /\ \E s \in Steps \ Saving : At(u, s) /\ (s = "wfirst" => st[u] \in Held)
               \/ SaveSent(u) \/ SaveReceived(u) \/ UpdateCoin(u)
               \/ WithdrawBroadcast(u) \/ BroadcastBackup(u)
               \/ SendSecond(u) \/ WithdrawSecond(u) \/ SaveSentTxs(u) \/ SaveReceivedTxs(u)
               \/ Accept(u) \/ CompleteWithdraw(u)
    BY <1>2, PlainStep DEF Send, Receive, Withdraw
  <1> QED BY <1>1, <1>2 DEF Next

LEMMA PastStep == IInv /\ Past /\ [Next]_vars => Past'
PROOF
  <1> SUFFICES ASSUME IInv, Past, [Next]_vars PROVE Past' OBVIOUS
  <1>0. TypeOK /\ st \in [Users -> Status] BY DEF IInv, TypeOK
  <1>1. ASSUME UNCHANGED <<auth, signed, txs, st>> PROVE Past' BY <1>1, PastKept
  <1>2. ASSUME NEW u \in Users,
               \/ SaveSent(u) \/ SaveReceived(u) \/ WithdrawBroadcast(u) \/ BroadcastBackup(u)
               \/ UpdateCoin(u)
        PROVE  Past'
    <2>1. /\ UNCHANGED <<auth, signed, txs>>
          /\ \E s \in Status \ {"INITIALISED"} : st' = [st EXCEPT ![u] = s]
      BY <1>0, <1>2, StatusStep
    <2>2. \A w \in Users : st[w] # "INITIALISED" => st'[w] # "INITIALISED" BY <1>0, <2>1
    <2> QED BY <2>1, <2>2, PastKept
  <1>3. ASSUME NEW u \in Users, CompleteWithdraw(u) PROVE Past'
    BY <1>1, <1>3 DEF CompleteWithdraw, wallets
  <1>4. ASSUME NEW u \in Users, Kept, signed' = signed PROVE Past' BY <1>1, <1>4 DEF Kept
  <1> QED BY <1>0, <1>1, <1>2, <1>3, <1>4, ByKind, PastSigned, PastSaved, PastAccept

LEMMA GoneFrame ==
  ASSUME IInv, Gone, UNCHANGED <<alive, auth, holder, st>>, NEW u \in Users, NEW s, At(u, s),
         s = "stored" => holder = u,
         s \in {"wfirst", "wsecond"} => st[u] \in Held,
         s # "closing"
  PROVE  Gone'
PROOF
  <1>1. ASSUME NEW w \in Users
        PROVE  /\ job'[w].at = "stored" /\ auth = w => holder = w
               /\ job'[w].at \in {"wfirst", "wsecond"} => st[w] \in Held
               /\ job'[w].at = "closing" => st[w] = "WITHDRAWING"
               /\ st[w] = "TRANSFERRED" => auth # w
    BY DEF At, Gone
  <1> QED BY <1>1 DEF Gone

\* A step of u that saves the status s of a coin that u has or has just got.
LEMMA GoneStatus ==
  ASSUME IInv, Gone, NEW u \in Users, NEW s \in Status, NEW q,
         UNCHANGED <<alive, auth, holder>>, st' = [st EXCEPT ![u] = s],
         At(u, q), q \in {"idle", "closing"},
         q = "closing" => s = "WITHDRAWING",
         auth = u => holder # NoUser,
         auth = u /\ ~alive => s \in {"WITHDRAWING", "WITHDRAWN"},
         s = "TRANSFERRED" => auth # u
  PROVE  Gone'
PROOF
  <1>1. st \in [Users -> Status] /\ auth \in Users BY DEF IInv, TypeOK
  <1>2. \A w \in Users : st'[w] = IF w = u THEN s ELSE st[w] BY <1>1
  <1>3. holder' = NoUser => st'[auth'] = "INITIALISED" BY <1>1, <1>2 DEF Gone
  <1>4. ~alive' => st'[auth'] \in {"WITHDRAWING", "WITHDRAWN"} BY <1>1, <1>2 DEF Gone
  <1>5. ASSUME NEW w \in Users
        PROVE  /\ job'[w].at = "stored" /\ auth = w => holder = w
               /\ job'[w].at \in {"wfirst", "wsecond"} => st'[w] \in Held
               /\ job'[w].at = "closing" => st'[w] = "WITHDRAWING"
               /\ st'[w] = "TRANSFERRED" => auth # w
    <2>1. CASE w = u
      <3>1. job'[w].at = q /\ st'[w] = s BY <1>2, <2>1 DEF At
      <3>2. q \notin {"stored", "wfirst", "wsecond"} OBVIOUS
      <3> QED BY <2>1, <3>1, <3>2
    <2>2. CASE w # u
      <3>1. job'[w].at = job[w].at /\ st'[w] = st[w] BY <1>2, <2>2 DEF At
      <3> QED BY <3>1 DEF Gone
    <2> QED BY <2>1, <2>2
  <1> QED BY <1>3, <1>4, <1>5 DEF Gone

LEMMA GoneSaves ==
  ASSUME IInv, Gone, NEW u \in Users,
         SaveSent(u) \/ SaveReceived(u) \/ WithdrawBroadcast(u) \/ BroadcastBackup(u)
  PROVE  Gone'
PROOF
  <1>0. TypeOK BY DEF IInv
  <1>1. Idle.at = "idle" BY DEF Idle
  <1>2. /\ Sender(job[u], u, txs[u], st[u], offer.x1, signed)
        /\ Receiver(job[u], u, txs[u], st[u], offer, holder, auth, signed, resent)
    BY DEF IInv
  <1>3. {"IN_TRANSFER", "CONFIRMED", "WITHDRAWING"} \subseteq Status BY DEF Status
  <1>4. CASE SaveSent(u)
    <2>1. /\ job[u].at = "saved" /\ st' = [st EXCEPT ![u] = "IN_TRANSFER"]
          /\ job' = [job EXCEPT ![u] = Idle] /\ UNCHANGED <<alive, auth, holder>>
      BY <1>4 DEF SaveSent, server
    <2>2. At(u, "idle") BY <1>0, <1>1, <2>1, SetAt
    <2>3. st[u] \in Held BY <1>2, <2>1 DEF Sender
    <2>4. st[u] \notin {"INITIALISED", "WITHDRAWING", "WITHDRAWN"} BY <2>3 DEF Held
    <2>5. auth = u => holder # NoUser /\ alive BY <2>4 DEF Gone
    <2> QED BY <1>3, <2>1, <2>2, <2>5, GoneStatus
  <1>5. CASE SaveReceived(u)
    <2>1. /\ job[u].at = "stored" /\ st' = [st EXCEPT ![u] = "CONFIRMED"]
          /\ job' = [job EXCEPT ![u] = Idle] /\ UNCHANGED <<alive, auth, holder>>
      BY <1>5 DEF SaveReceived, server
    <2>2. At(u, "idle") BY <1>0, <1>1, <2>1, SetAt
    <2>3. st[u] = "INITIALISED" BY <1>2, <2>1 DEF Receiver, Receiving
    <2>4. auth = u => holder # NoUser /\ alive BY <2>1, <2>3, Constants DEF Gone
    <2> QED BY <1>3, <2>1, <2>2, <2>4, GoneStatus
  <1>6. ASSUME NEW tx, Broadcast(u, tx), st[u] \in Held PROVE Gone'
    <2> DEFINE q == [Idle EXCEPT !.at = "closing"]
    <2>1. /\ st' = [st EXCEPT ![u] = "WITHDRAWING"]
          /\ job' = [job EXCEPT ![u] = q] /\ UNCHANGED <<alive, auth, holder>>
      BY <1>6 DEF Broadcast, server
    <2>2. q.at = "closing" BY DEF Idle
    <2> HIDE DEF q
    <2>3. At(u, "closing") BY <1>0, <2>1, <2>2, SetAt
    <2>4. auth = u => holder # NoUser
      <3>1. st[u] # "INITIALISED" BY <1>6 DEF Held
      <3> QED BY <3>1 DEF Gone
    <2> QED BY <1>3, <2>1, <2>3, <2>4, GoneStatus
  <1>7. CASE WithdrawBroadcast(u)
    <2>1. job[u].at = "wsecond" /\ Broadcast(u, WithdrawalTx(u)) BY <1>7 DEF WithdrawBroadcast
    <2>2. st[u] \in Held BY <2>1 DEF Gone
    <2> QED BY <1>6, <2>1, <2>2
  <1>8. CASE BroadcastBackup(u)
    <2>1. st[u] \in Held /\ Broadcast(u, txs[u][OwnTx(u)]) BY <1>8 DEF BroadcastBackup
    <2> QED BY <1>6, <2>1
  <1> QED BY <1>4, <1>5, <1>7, <1>8

\* An owner's wallet that refreshes the status finds its own key in use.
LEMMA GoneUpdate ==
  ASSUME IInv, Gone, NEW u \in Users, UpdateCoin(u)
  PROVE  Gone'
PROOF
  <1>1. job[u] = Idle /\ UNCHANGED <<alive, auth, holder, job>> BY DEF UpdateCoin, server
  <1>2. At(u, "idle") BY <1>1 DEF At, Idle
  <1>3. {"TRANSFERRED", "WITHDRAWN"} \subseteq Status BY DEF Status
  <1>4. st[u] # "INITIALISED" BY DEF UpdateCoin
  <1>5. auth = u => holder # NoUser BY <1>4 DEF Gone
  <1>6. CASE st[u] = "IN_TRANSFER" /\ (alive => InfoAvailable /\ holder # u)
             /\ st' = [st EXCEPT ![u] = "TRANSFERRED"]
    <2>1. auth # u
      <3>1. holder \in {auth, NoUser} BY DEF IInv, Keys
      <3>2. auth = u => alive BY <1>6 DEF Gone
      <3> QED BY <1>5, <1>6, <3>1, <3>2
    <2> QED BY <1>1, <1>2, <1>3, <1>6, <2>1, GoneStatus
  <1>7. CASE st[u] = "WITHDRAWING" /\ st' = [st EXCEPT ![u] = "WITHDRAWN"]
    BY <1>1, <1>2, <1>3, <1>5, <1>7, GoneStatus
  <1> QED BY <1>6, <1>7 DEF UpdateCoin

LEMMA GoneAccept ==
  ASSUME IInv, Gone, NEW u \in Users, Accept(u)
  PROVE  Gone'
PROOF
  <1>1. /\ alive /\ job[u].at = "prepared" /\ job' = [job EXCEPT ![u].at = "accepted"]
        /\ UNCHANGED <<alive, st>>
        /\ (UNCHANGED <<auth, holder>> \/ auth' = u)
    BY DEF Accept, Goto, wallets
  <1>2. At(u, "accepted") BY <1>1, GotoAt DEF IInv
  <1>3. CASE UNCHANGED <<auth, holder>> BY <1>1, <1>2, <1>3, GoneFrame
  <1>4. CASE auth' = u
    <2>1. Receiver(job[u], u, txs[u], st[u], offer, holder, auth, signed, resent) BY DEF IInv
    <2>2. st[u] = "INITIALISED" BY <1>1, <2>1 DEF Receiver, Receiving
    <2>3. ASSUME NEW w \in Users
          PROVE  /\ job'[w].at = "stored" => w # u
                 /\ job'[w].at \in {"wfirst", "wsecond"} => st[w] \in Held
                 /\ job'[w].at = "closing" => st[w] = "WITHDRAWING"
                 /\ st[w] = "TRANSFERRED" => w # u
      BY <1>2, <2>2 DEF At, Gone
    <2> QED BY <1>1, <1>4, <2>2, <2>3 DEF Gone
  <1> QED BY <1>1, <1>3, <1>4

LEMMA GoneComplete ==
  ASSUME IInv, Gone, NEW u \in Users, CompleteWithdraw(u)
  PROVE  Gone'
PROOF
  <1>1. /\ job[u].at = "closing" /\ auth = u /\ job' = [job EXCEPT ![u] = Idle]
        /\ UNCHANGED <<auth, holder, st>>
    BY DEF CompleteWithdraw, wallets
  <1>2. Idle.at = "idle" BY DEF Idle
  <1>3. At(u, "idle") BY <1>1, <1>2, SetAt DEF IInv
  <1>4. st[u] = "WITHDRAWING" BY <1>1 DEF Gone
  <1>5. ASSUME NEW w \in Users
        PROVE  /\ job'[w].at = "stored" /\ auth = w => holder = w
               /\ job'[w].at \in {"wfirst", "wsecond"} => st[w] \in Held
               /\ job'[w].at = "closing" => st[w] = "WITHDRAWING"
               /\ st[w] = "TRANSFERRED" => auth # w
    BY <1>3 DEF At, Gone
  <1> QED BY <1>1, <1>4, <1>5 DEF Gone

LEMMA GoneStep == IInv /\ Gone /\ [Next]_vars => Gone'
PROOF
  <1> SUFFICES ASSUME IInv, Gone, [Next]_vars PROVE Gone' OBVIOUS
  <1>0. TypeOK BY DEF IInv
  <1>1. CASE UNCHANGED <<alive, auth, holder, st, txs, job, signed>> BY <1>1 DEF Gone
  <1>2. ASSUME NEW u \in Users, Kept, NEW s \in Steps \ Saving, At(u, s),
               s = "wfirst" => st[u] \in Held
        PROVE  Gone'
    <2>1. s \notin {"stored", "wsecond", "closing"} BY <1>2 DEF Saving
    <2>2. UNCHANGED <<alive, auth, holder, st>> BY <1>2 DEF Kept
    <2> QED BY <1>2, <2>1, <2>2, GoneFrame
  <1>3. ASSUME NEW u \in Users, SendSecond(u) \/ SaveSentTxs(u) PROVE Gone'
    <2>1. PICK s \in {"second", "saved"} : job' = [job EXCEPT ![u].at = s]
      BY <1>3 DEF SendSecond, SignSecond, SaveSentTxs, Goto
    <2>2. UNCHANGED <<alive, auth, holder, st>>
      BY <1>3 DEF SendSecond, SignSecond, SaveSentTxs, server, wallets
    <2>3. At(u, s) BY <1>0, <2>1, GotoAt
    <2>4. s \notin {"stored", "wfirst", "wsecond", "closing"} BY <2>1
    <2> QED BY <2>2, <2>3, <2>4, GoneFrame
  <1>4. ASSUME NEW u \in Users, WithdrawSecond(u) PROVE Gone'
    <2>1. /\ job[u].at = "wfirst" /\ job' = [job EXCEPT ![u].at = "wsecond"]
          /\ UNCHANGED <<alive, auth, holder, st>>
      BY <1>4 DEF WithdrawSecond, SignSecond, Goto, wallets
    <2>2. At(u, "wsecond") BY <1>0, <2>1, GotoAt
    <2>3. st[u] \in Held BY <2>1 DEF Gone
    <2> QED BY <2>1, <2>2, <2>3, GoneFrame
  <1>5. ASSUME NEW u \in Users, SaveReceivedTxs(u) PROVE Gone'
    <2>1. /\ holder = u /\ job' = [job EXCEPT ![u].at = "stored"]
          /\ UNCHANGED <<alive, auth, holder, st>>
      BY <1>5 DEF SaveReceivedTxs, Goto, server
    <2>2. At(u, "stored") BY <1>0, <2>1, GotoAt
    <2> QED BY <2>1, <2>2, GoneFrame
  <1> QED BY <1>0, <1>1, <1>2, <1>3, <1>4, <1>5, ByKind, GoneSaves, GoneUpdate, GoneAccept,
             GoneComplete

LEMMA HistoryInit == Init => Past /\ Gone
PROOF
  <1> SUFFICES ASSUME Init PROVE Past /\ Gone OBVIOUS
  <1>1. /\ auth = Depositor /\ holder = Depositor /\ alive = TRUE
        /\ \A u \in Users : job[u].at = "idle"
        /\ \A u \in Users : st[u] \in {"CONFIRMED", "INITIALISED"}
        /\ st[Depositor] = "CONFIRMED"
        /\ \A tx \in signed : tx.by = Depositor
    BY Constants DEF Init, Idle
  <1>2. \A u \in Users : u # Depositor => txs[u] = <<>> BY DEF Init
  <1>3. Gone BY <1>1, Constants DEF Gone
  <1>4. ASSUME NEW u \in Users PROVE NotFrom(u, txs[u], auth)
    <2>1. CASE u = Depositor BY <1>1, <2>1 DEF NotFrom
    <2>2. CASE u # Depositor
      <3>1. Len(<<>>) = 0 OBVIOUS
      <3>2. 1..0 = {} OBVIOUS
      <3> QED BY <1>2, <2>2, <3>1, <3>2 DEF NotFrom
    <2> QED BY <2>1, <2>2
  <1>5. Past BY <1>1, <1>4 DEF Past
  <1> QED BY <1>3, <1>5

\* A wallet writes off the coin of an address only when it belongs to another
\* one, and that address never becomes its owner again.  (update_coins)
THEOREM WrittenOffIsGone == Spec => []TransferredIsGone
PROOF
  <1>1. Gone => TransferredIsGone BY DEF Gone, TransferredIsGone
  <1>2. Init => IInv /\ Gone BY InitInv, HistoryInit
  <1>3. IInv /\ Gone /\ [Next]_vars => (IInv /\ Gone)' BY StepInv, GoneStep
  <1> QED BY <1>1, <1>2, <1>3, PTL DEF Spec

\* The only backup a step puts on the chain is one that the wallet stores and
\* that pays to it, once it is final.
LEMMA BackupSpends ==
  ASSUME IInv, [Next]_vars, NEW tx \in spent' \ spent, tx.n > 0
  PROVE  \E u \in Users :
           /\ OwnTx(u) \in PaysTo(u) /\ tx = txs[u][OwnTx(u)]
           /\ Locktime(OwnTx(u)) <= height
PROOF
  <1>1. \E u \in Users : WithdrawBroadcast(u) \/ BroadcastBackup(u)
    <2>1. spent' # spent OBVIOUS
    <2> SUFFICES ASSUME \A u \in Users : ~WithdrawBroadcast(u) /\ ~BroadcastBackup(u)
                 PROVE  spent' = spent
      BY <2>1
    <2>2. CASE UNCHANGED vars \/ Tick BY <2>2 DEF vars, Tick
    <2>3. ASSUME NEW u \in Users, Send(u) PROVE spent' = spent
      BY <2>3 DEF Send, SendFirst, SendSecond, SendUnanswered, SignFirst, SignSecond,
                  FirstUnanswered, SignUnanswered, PostMsg, SaveSentTxs, SaveSent
    <2>4. ASSUME NEW u \in Users, Receive(u) PROVE spent' = spent
      BY <2>4 DEF Receive, Fetch, Validate, Prepare, Skip, Accept, SaveReceivedTxs, SaveReceived
    <2>5. ASSUME NEW u \in Users, Withdraw(u) PROVE spent' = spent
      BY <2>5 DEF Withdraw, WithdrawFirst, WithdrawSecond, WithdrawUnanswered, SignFirst,
                  SignSecond, FirstUnanswered, SignUnanswered, CompleteWithdraw
    <2>6. ASSUME NEW u \in Users, UpdateCoin(u) \/ Refused(u) \/ Fail(u) PROVE spent' = spent
      BY <2>6 DEF UpdateCoin, Refused, Fail
    <2>7. ASSUME NEW u \in Users, NEW v \in Users, Offer(u, v) PROVE spent' = spent
      BY <2>7 DEF Offer
    <2> QED BY <2>2, <2>3, <2>4, <2>5, <2>6, <2>7 DEF Next
  <1>2. PICK u \in Users : WithdrawBroadcast(u) \/ BroadcastBackup(u) BY <1>1
  <1>3. ASSUME WithdrawBroadcast(u) PROVE FALSE
    <2>1. tx = WithdrawalTx(u) BY <1>3 DEF WithdrawBroadcast, Broadcast
    <2>2. tx.n = 0 BY <2>1 DEF WithdrawalTx
    <2> QED BY <2>2
  <1>4. BroadcastBackup(u) BY <1>2, <1>3
  <1>5. tx = txs[u][OwnTx(u)] /\ PaysTo(u) # {} /\ Locktime(OwnTx(u)) <= height
    BY <1>4 DEF BroadcastBackup, Broadcast
  <1> QED BY <1>5, LatestOwn

\* Nobody who once held the coin spends it by a backup transaction before the
\* owner's has been final for an interval.
THEOREM EarlierOwnersWait == Spec => OwnerHadItsTurn
PROOF
  <1>1. ASSUME IInv, Past, [Next]_vars, NEW tx \in spent' \ spent,
               tx.n > 0, tx.to # auth, st[auth] \in Held
        PROVE  Locktime(OwnTx(auth)) + Interval <= height
    <2>1. PICK u \in Users : /\ OwnTx(u) \in PaysTo(u) /\ tx = txs[u][OwnTx(u)]
                             /\ Locktime(OwnTx(u)) <= height
      BY <1>1, BackupSpends
    <2>2. OwnTx(u) \in 1..Len(txs[u]) /\ tx.to = u BY <2>1 DEF PaysTo
    <2>3. tx \in signed /\ tx.n = OwnTx(u) /\ txs[u] \in Seq(Tx)
      BY <1>1, <2>1, <2>2 DEF IInv, Wallet, ListOK
    <2>4. tx.by # auth
      <3>1. NotFrom(u, txs[u], auth) BY <1>1 DEF Past
      <3> QED BY <1>1, <2>1, <2>2, <3>1 DEF NotFrom
    <2>5. Locktime(OwnTx(auth)) + Interval <= Locktime(tx.n)
      BY <1>1, <2>3, <2>4, HeldCovers
    <2>6. OwnTx(auth) \in Int /\ OwnTx(u) \in Int /\ height \in Int
      <3>1. Len(txs[u]) \in Nat BY <2>3, LenProperties
      <3>2. OwnTx(auth) \in Int BY <1>1, HeldCovers
      <3>3. height \in Nat BY <1>1 DEF IInv, TypeOK
      <3> QED BY <2>2, <3>1, <3>2, <3>3
    <2>7. Locktime(OwnTx(auth)) \in Int /\ Locktime(OwnTx(u)) \in Int /\ Interval \in Int
      BY <2>6, LocktimeIsInt
    <2>8. \A a, b, c, d \in Int : a + b <= c /\ c <= d => a + b <= d OBVIOUS
    <2> QED BY <2>1, <2>3, <2>5, <2>6, <2>7, <2>8
  <1>2. Init => IInv /\ Past BY InitInv, HistoryInit
  <1>3. IInv /\ Past /\ [Next]_vars => (IInv /\ Past)' BY StepInv, PastStep
  <1>4. IInv /\ Past /\ [Next]_vars =>
          [\A tx \in spent' \ spent :
             tx.n > 0 /\ tx.to # auth /\ st[auth] \in Held =>
               Locktime(OwnTx(auth)) + Interval <= height]_vars
    BY <1>1
  <1> QED BY <1>2, <1>3, <1>4, PTL DEF Spec, OwnerHadItsTurn
=============================================================================
