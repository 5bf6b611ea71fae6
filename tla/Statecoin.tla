------------------------------ MODULE Statecoin ------------------------------
(***************************************************************************)
(* One statecoin passed from address to address: the wallets' commands     *)
(* (transfer-send, transfer-receive, withdraw, broadcast-backup, status    *)
(* refresh), one action per request a command sends or per record it       *)
(* saves, against the statechain entity's rows and the chain.  Requests    *)
(* to the server take effect atomically here; KeyTransfer opens the        *)
(* /transfer/receiver handler.                                             *)
(*                                                                         *)
(* A backup transaction is [n, to, by, s]: it is the n-th of the chain     *)
(* (its tx_n, and its locktime is Locktime(n)), it pays address to, and    *)
(* address by had it signed in session s.  n = 0 is a withdrawal, which no *)
(* locktime holds back.  tx1 is signed at height 0, the lowest a chain has. *)
(***************************************************************************)
EXTENDS Integers, Sequences, FiniteSets

CONSTANTS Users,        \* transfer addresses, each with its own wallet
          Depositor,    \* the address that made the deposit
          NoUser,       \* no address: the shares no longer add up to the key
          Initlock,     \* info_config: locktime of tx1 above its height
          Interval,     \* info_config: locktime decrement per transfer
          MaxHeight,    \* bound on the chain height
          MaxOffers,    \* bound on /transfer/sender calls
          MaxRows,      \* bound on signing sessions
          MayFail,      \* may a command stop between two of its steps?
          MayWithdraw   \* are withdraw and broadcast-backup commands issued?

ASSUME UserAssumption == Depositor \in Users /\ NoUser \notin Users
ASSUME LockAssumption == Initlock \in Nat /\ Interval \in Nat \ {0}
ASSUME BoundAssumption == MaxHeight \in Nat /\ MaxOffers \in Nat /\ MaxRows \in Nat
ASSUME SwitchAssumption == {MayFail, MayWithdraw} \subseteq BOOLEAN

VARIABLES
  height,   \* the chain: its height ...
  spent,    \* ... and the set of transactions (none or one) spending tx0
  alive,    \* server: the statechain_data row exists
  auth,     \* server: statechain_data.auth_xonly_public_key
  offer,    \* server: the statechain_transfer row
  rows,     \* server: statechain_signature_data, in tx_n order
  sigs,     \* enclave: sig_count
  nonce,    \* enclave: the session whose secret nonce is sealed, 0 for none
  holder,   \* whose share completes the enclave's share to the coin's key
  st,       \* wallets: the coin's status
  txs,      \* wallets: the stored backup transactions
  job,      \* wallets: the command in progress
  signed,   \* every transaction the enclave has co-signed so far
  resent    \* has the coin been offered again to an address already paid?

server == <<alive, auth, offer, rows, sigs, nonce, holder, signed>>
wallets == <<st, txs>>
vars == <<height, spent, server, wallets, job, resent>>

Tx == [n : Nat, to : Users, by : Users, s : Nat]
Null == [n |-> 0, to |-> NoUser, by |-> NoUser, s |-> 0]   \* a row without challenge
NoMsg == [from |-> NoUser, to |-> NoUser, x1 |-> 0, txs |-> <<>>]
NoOffer == [to |-> NoUser, x1 |-> 0, msg |-> NoMsg, key_updated |-> FALSE]
Idle == [at |-> "idle", row |-> 0, seen |-> 0, msg |-> NoMsg]

Steps == {"idle", "offered", "first", "second", "posted", "saved",
          "fetched", "validated", "prepared", "accepted", "stored",
          "wfirst", "wsecond", "closing"}
Status == {"INITIALISED", "CONFIRMED", "IN_TRANSFER", "TRANSFERRED",
           "WITHDRAWING", "WITHDRAWN"}
Held == {"CONFIRMED", "IN_TRANSFER"}

-----------------------------------------------------------------------------
(* Locktimes and the transactions a wallet builds. *)

\* tx1 was signed at height 0.  calculate_block_height subtracts the interval
\* once per transaction already in the chain.
calculate_block_height(qt) == Initlock - Interval * qt
Locktime(n) == calculate_block_height(n - 1)

\* The transactions the command of u asks the server to sign.
NewBackupTx(u) == [n |-> Len(job[u].msg.txs) + 1, to |-> job[u].msg.to, by |-> u, s |-> job[u].row]
WithdrawalTx(u) == [n |-> 0, to |-> u, by |-> u, s |-> job[u].row]

Last(s) == s[Len(s)]

\* The latest stored transaction that pays to u, and whether there is one.
PaysTo(u) == {k \in 1..Len(txs[u]) : txs[u][k].to = u}
OwnTx(u) == CHOOSE k \in PaysTo(u) : \A j \in PaysTo(u) : j <= k

-----------------------------------------------------------------------------
Init ==
  LET tx1 == [n |-> 1, to |-> Depositor, by |-> Depositor, s |-> 1] IN
  /\ height = 0 /\ spent = {} /\ alive = TRUE
  /\ auth = Depositor /\ holder = Depositor /\ offer = NoOffer
  /\ rows = <<tx1>> /\ sigs = 1 /\ nonce = 1 /\ signed = {tx1} /\ resent = FALSE
  /\ st = [u \in Users |-> IF u = Depositor THEN "CONFIRMED" ELSE "INITIALISED"]
  /\ txs = [u \in Users |-> IF u = Depositor THEN <<tx1>> ELSE <<>>]
  /\ job = [u \in Users |-> Idle]

Tick ==
  /\ height < MaxHeight
  /\ height' = height + 1
  /\ UNCHANGED <<spent, server, wallets, job, resent>>

Goto(u, step) == job' = [job EXCEPT ![u].at = step]

-----------------------------------------------------------------------------
(* transfer-send *)

\* Mutant: every offer of the coin carries the same x1.
Offer_SameX1(u, v) ==
  /\ job[u] = Idle /\ st[u] \in Held /\ v # u /\ st[v] = "INITIALISED"
  /\ alive /\ auth = u
  /\ offer' = [to |-> v, x1 |-> 1, msg |-> NoMsg, key_updated |-> FALSE]
  /\ job' = [job EXCEPT ![u] = [at |-> "offered", row |-> 0, seen |-> 0,
                msg |-> [from |-> u, to |-> v, x1 |-> 1, txs |-> txs[u]]]]
  /\ resent' = (resent \/ \E tx \in signed : tx.to = v)
  /\ UNCHANGED <<height, spent, alive, auth, rows, sigs, nonce, holder, signed, wallets>>

\* get_new_x1: POST /transfer/sender replaces the transfer row.
Offer(u, v) ==
  /\ job[u] = Idle /\ st[u] \in Held /\ v # u /\ st[v] = "INITIALISED"
  /\ alive /\ auth = u
  /\ offer.x1 < MaxOffers
  /\ offer' = [to |-> v, x1 |-> offer.x1 + 1, msg |-> NoMsg, key_updated |-> FALSE]
  /\ job' = [job EXCEPT ![u] = [at |-> "offered", row |-> 0, seen |-> 0,
                msg |-> [from |-> u, to |-> v, x1 |-> offer.x1 + 1, txs |-> txs[u]]]]
  /\ resent' = (resent \/ \E tx \in signed : tx.to = v)
  /\ UNCHANGED <<height, spent, alive, auth, rows, sigs, nonce, holder, signed, wallets>>

\* get_server_pubnonce_from_null_challenge
OpenRows == {k \in 1..Len(rows) : rows[k] = Null}

\* POST /sign/first: a session without challenge is handed out again,
\* otherwise the enclave replaces its nonce and a session is added.
SignFirst(u, from, to) ==
  /\ job[u].at = from
  /\ alive /\ auth = u
  /\ \/ \E k \in OpenRows :
          /\ \A j \in OpenRows : k <= j
          /\ job' = [job EXCEPT ![u].at = to, ![u].row = k]
          /\ UNCHANGED <<rows, nonce>>
     \/ /\ OpenRows = {} /\ Len(rows) < MaxRows
        /\ rows' = Append(rows, Null)
        /\ nonce' = Len(rows) + 1
        /\ job' = [job EXCEPT ![u].at = to, ![u].row = Len(rows) + 1]
  /\ UNCHANGED <<height, spent, alive, auth, offer, sigs, holder, signed, wallets, resent>>

\* create_backup_transactions refuses a coin whose locktime has passed.
SendFirst(u) == SignFirst(u, "offered", "first") /\ height <= Locktime(OwnTx(u))

\* POST /sign/second: the challenge is stored, then the enclave signs and
\* counts, if it still has the session's nonce.
SignSecond(u, from, to, tx) ==
  /\ job[u].at = from
  /\ alive /\ auth = u
  /\ nonce = job[u].row
  /\ rows' = [rows EXCEPT ![job[u].row] = tx]
  /\ sigs' = sigs + 1
  /\ signed' = signed \cup {tx}
  /\ Goto(u, to)
  /\ UNCHANGED <<height, spent, alive, auth, offer, nonce, holder, wallets, resent>>

\* The same request when the enclave does not answer with a signature: the
\* key update cleared the nonce, or the call failed.  The command ends.
SignUnanswered(u, from, tx) ==
  /\ job[u].at = from
  /\ alive /\ auth = u
  /\ nonce # job[u].row \/ MayFail
  /\ rows' = [rows EXCEPT ![job[u].row] = tx]
  /\ job' = [job EXCEPT ![u] = Idle]
  /\ UNCHANGED <<height, spent, alive, auth, offer, sigs, nonce, holder, signed, wallets, resent>>

\* The same for /sign/first: the enclave's nonce is replaced, no row is added.
FirstUnanswered(u, from) ==
  /\ MayFail /\ job[u].at = from
  /\ alive /\ auth = u /\ OpenRows = {}
  /\ nonce' = 0
  /\ job' = [job EXCEPT ![u] = Idle]
  /\ UNCHANGED <<height, spent, alive, auth, offer, rows, sigs, holder, signed, wallets, resent>>

\* Between the two requests the wallet computes the new locktime, a u32.
Representable(u) == Locktime(NewBackupTx(u).n) >= 0

SendSecond(u) == SignSecond(u, "first", "second", NewBackupTx(u)) /\ Representable(u)
SendUnanswered(u) == \/ FirstUnanswered(u, "offered") /\ height <= Locktime(OwnTx(u))
                     \/ SignUnanswered(u, "first", NewBackupTx(u)) /\ Representable(u)

\* POST /transfer/update_msg: stored only in a row for this receiver.
PostMsg(u) ==
  LET m == job[u].msg
      msg == [m EXCEPT !.txs = Append(m.txs, NewBackupTx(u))] IN
  /\ job[u].at = "second"
  /\ alive /\ auth = u
  /\ offer' = IF offer.to = m.to THEN [offer EXCEPT !.msg = msg] ELSE offer
  /\ job' = [job EXCEPT ![u].at = "posted", ![u].msg = msg]
  /\ UNCHANGED <<height, spent, alive, auth, rows, sigs, nonce, holder, signed, wallets, resent>>

\* update_backup_txs, then update_wallet.
SaveSentTxs(u) ==
  /\ job[u].at = "posted"
  /\ txs' = [txs EXCEPT ![u] = job[u].msg.txs]
  /\ Goto(u, "saved")
  /\ UNCHANGED <<height, spent, server, st, resent>>

SaveSent(u) ==
  /\ job[u].at = "saved"
  /\ st' = [st EXCEPT ![u] = "IN_TRANSFER"]
  /\ job' = [job EXCEPT ![u] = Idle]
  /\ UNCHANGED <<height, spent, server, txs, resent>>

-----------------------------------------------------------------------------
(* transfer-receive *)

\* GET /transfer/get_msg_addr; the chain's height is read here, once.
Fetch(u) ==
  /\ job[u] = Idle /\ st[u] = "INITIALISED"
  /\ alive /\ offer.to = u /\ offer.msg # NoMsg
  /\ job' = [job EXCEPT ![u] = [at |-> "fetched", row |-> 0, seen |-> height, msg |-> offer.msg]]
  /\ UNCHANGED <<height, spent, server, wallets, resent>>

\* GET /info/statechain fails while a session has no challenge.
InfoAvailable == alive /\ \A k \in 1..Len(rows) : rows[k] # Null

\* Mutant: the freshest allowed locktime is refused.
ValidScheme_Strict(m, h) ==
  \A k \in 1..Len(m.txs) :
    /\ k <= Len(rows) /\ rows[k] = m.txs[k]
    /\ h < Locktime(m.txs[k].n) /\ Locktime(m.txs[k].n) < h + Initlock
    /\ k > 1 => Locktime(m.txs[k - 1].n) - Locktime(m.txs[k].n) = Interval

\* validate_signature_scheme: every transaction is the one its session signed,
\* is not final yet, and lies one interval below its predecessor.
ValidScheme(m, h) ==
  \A k \in 1..Len(m.txs) :
    /\ k <= Len(rows) /\ rows[k] = m.txs[k]
    /\ h < Locktime(m.txs[k].n) /\ Locktime(m.txs[k].n) <= h + Initlock
    /\ k > 1 => Locktime(m.txs[k - 1].n) - Locktime(m.txs[k].n) = Interval

\* validate_encrypted_message
ValidMsg(u, m, h) ==
  /\ InfoAvailable
  /\ m.from = holder                \* validate_tx0_output_pubkey
  /\ Last(m.txs).to = u             \* latest backup tx pays to the receiver
  /\ sigs = Len(m.txs)              \* num_sigs
  /\ spent = {}
  /\ ValidScheme(m, h)

Validate(u) ==
  /\ job[u].at = "fetched"
  /\ ValidMsg(u, job[u].msg, job[u].seen)
  /\ Goto(u, "validated")
  /\ UNCHANGED <<height, spent, server, wallets, resent>>

\* The second GET /info/statechain: t1 must match the row's x1.
Prepare(u) ==
  /\ job[u].at = "validated"
  /\ InfoAvailable /\ offer.x1 = job[u].msg.x1
  /\ Goto(u, "prepared")
  /\ UNCHANGED <<height, spent, server, wallets, resent>>

\* A message that does not pass is skipped.
Skip(u) ==
  /\ \/ job[u].at = "fetched" /\ ~ValidMsg(u, job[u].msg, job[u].seen)
     \/ job[u].at = "validated" /\ ~(InfoAvailable /\ offer.x1 = job[u].msg.x1)
     \/ job[u].at = "prepared" /\ ~(alive /\ offer.to = u)
     \/ job[u].at = "accepted" /\ holder # u
  /\ job' = [job EXCEPT ![u] = Idle]
  /\ UNCHANGED <<height, spent, server, wallets, resent>>

\* Mutant: the transfer row is looked up by statechain_id alone.
Accept_AnyRow(u) ==
  LET m == job[u].msg IN
  /\ job[u].at = "prepared"
  /\ alive
  /\ IF offer.key_updated
     THEN UNCHANGED <<auth, offer, nonce, holder>>
     ELSE /\ holder' = IF offer.x1 = m.x1 /\ holder = m.from THEN u ELSE NoUser
          /\ auth' = u
          /\ nonce' = 0
          /\ offer' = [offer EXCEPT !.key_updated = TRUE]
  /\ Goto(u, "accepted")
  /\ UNCHANGED <<height, spent, alive, rows, sigs, signed, wallets, resent>>

\* POST /transfer/receiver: the enclave adds t2 - x1 to its share and drops
\* its nonce, then the address becomes the owner.  The shares still add up to
\* the key only if t2 was made with the x1 the row now holds.
Accept(u) ==
  LET m == job[u].msg IN
  /\ job[u].at = "prepared"
  /\ alive /\ offer.to = u
  /\ IF offer.key_updated
     THEN UNCHANGED <<auth, offer, nonce, holder>>
     ELSE /\ holder' = IF offer.x1 = m.x1 /\ holder = m.from THEN u ELSE NoUser
          /\ auth' = u
          /\ nonce' = 0
          /\ offer' = [offer EXCEPT !.key_updated = TRUE]
  /\ Goto(u, "accepted")
  /\ UNCHANGED <<height, spent, alive, rows, sigs, signed, wallets, resent>>

\* Mutant: the new aggregate key is not compared with the coin's.
SaveReceivedTxs_AnyKey(u) ==
  /\ job[u].at = "accepted"
  /\ txs' = [txs EXCEPT ![u] = job[u].msg.txs]
  /\ Goto(u, "stored")
  /\ UNCHANGED <<height, spent, server, st, resent>>

\* get_new_key_info, insert_or_update_backup_txs, then update_wallet.
SaveReceivedTxs(u) ==
  /\ job[u].at = "accepted" /\ holder = u
  /\ txs' = [txs EXCEPT ![u] = job[u].msg.txs]
  /\ Goto(u, "stored")
  /\ UNCHANGED <<height, spent, server, st, resent>>

SaveReceived(u) ==
  /\ job[u].at = "stored"
  /\ st' = [st EXCEPT ![u] = "CONFIRMED"]
  /\ job' = [job EXCEPT ![u] = Idle]
  /\ UNCHANGED <<height, spent, server, txs, resent>>

-----------------------------------------------------------------------------
(* withdraw, broadcast-backup and the status refresh *)

WithdrawFirst(u) ==
  /\ MayWithdraw /\ st[u] \in Held /\ job[u] = Idle
  /\ SignFirst(u, "idle", "wfirst")

WithdrawSecond(u) == SignSecond(u, "wfirst", "wsecond", WithdrawalTx(u))
WithdrawUnanswered(u) == \/ MayWithdraw /\ st[u] \in Held /\ FirstUnanswered(u, "idle")
                         \/ SignUnanswered(u, "wfirst", WithdrawalTx(u))

\* A transaction that spends tx0 is broadcast and the wallet saved.
Broadcast(u, tx) ==
  /\ spent = {}
  /\ spent' = {tx}
  /\ st' = [st EXCEPT ![u] = "WITHDRAWING"]
  /\ job' = [job EXCEPT ![u] = [Idle EXCEPT !.at = "closing"]]
  /\ UNCHANGED <<height, server, txs, resent>>

WithdrawBroadcast(u) ==
  /\ job[u].at = "wsecond"
  /\ Broadcast(u, WithdrawalTx(u))

\* broadcast_backup_tx: the latest transaction paying to the wallet's address.
BroadcastBackup(u) ==
  /\ MayWithdraw /\ st[u] \in Held /\ job[u] = Idle
  /\ PaysTo(u) # {}
  /\ Locktime(OwnTx(u)) <= height
  /\ Broadcast(u, txs[u][OwnTx(u)])

\* Mutant: the owner is cleared with the row.
CompleteWithdraw_ClearOwner(u) ==
  /\ job[u].at = "closing"
  /\ alive /\ auth = u
  /\ alive' = FALSE /\ auth' = NoUser
  /\ job' = [job EXCEPT ![u] = Idle]
  /\ UNCHANGED <<height, spent, offer, rows, sigs, nonce, holder, signed, wallets, resent>>

\* DELETE at the enclave and the server by the current owner.
CompleteWithdraw(u) ==
  /\ job[u].at = "closing"
  /\ alive /\ auth = u
  /\ alive' = FALSE
  /\ job' = [job EXCEPT ![u] = Idle]
  /\ UNCHANGED <<height, spent, auth, offer, rows, sigs, nonce, holder, signed, wallets, resent>>

\* Mutant: a server that gives no answer counts as one that has moved on.
UpdateCoin_NoAnswer(u) ==
  /\ job[u] = Idle
  /\ \/ /\ st[u] = "IN_TRANSFER" /\ ~(InfoAvailable /\ holder = u)
        /\ st' = [st EXCEPT ![u] = "TRANSFERRED"]
     \/ /\ st[u] = "WITHDRAWING"
        /\ st' = [st EXCEPT ![u] = "WITHDRAWN"]
  /\ UNCHANGED <<height, spent, server, txs, job, resent>>

\* update_coins: IN_TRANSFER becomes TRANSFERRED once the server's key no
\* longer completes the wallet's, WITHDRAWING becomes WITHDRAWN once its
\* transaction is in the chain.
UpdateCoin(u) ==
  /\ job[u] = Idle
  /\ \/ /\ st[u] = "IN_TRANSFER" /\ (alive => InfoAvailable /\ holder # u)
        /\ st' = [st EXCEPT ![u] = "TRANSFERRED"]
     \/ /\ st[u] = "WITHDRAWING"
        /\ st' = [st EXCEPT ![u] = "WITHDRAWN"]
  /\ UNCHANGED <<height, spent, server, txs, job, resent>>

-----------------------------------------------------------------------------
\* A request the server or the chain refuses ends the command, and so does a
\* locktime that cannot be represented: its session stays without challenge.
Refused(u) ==
  /\ \/ /\ job[u].at \in {"offered", "first", "second", "wfirst", "closing"}
        /\ ~(alive /\ auth = u)
     \/ job[u].at = "offered" /\ height > Locktime(OwnTx(u))
     \/ job[u].at = "first" /\ ~Representable(u)
     \/ job[u].at = "wsecond" /\ spent # {}
  /\ job' = [job EXCEPT ![u] = Idle]
  /\ UNCHANGED <<height, spent, server, wallets, resent>>

\* A lost request, a lost reply or a crash ends the command where it stands.
Fail(u) ==
  /\ MayFail /\ job[u] # Idle
  /\ job' = [job EXCEPT ![u] = Idle]
  /\ UNCHANGED <<height, spent, server, wallets, resent>>

Send(u) == \/ SendFirst(u) \/ SendSecond(u) \/ SendUnanswered(u)
           \/ PostMsg(u) \/ SaveSentTxs(u) \/ SaveSent(u)
Receive(u) == \/ Fetch(u) \/ Validate(u) \/ Prepare(u) \/ Skip(u) \/ Accept(u)
              \/ SaveReceivedTxs(u) \/ SaveReceived(u)
Withdraw(u) == \/ WithdrawFirst(u) \/ WithdrawSecond(u) \/ WithdrawUnanswered(u)
               \/ WithdrawBroadcast(u) \/ BroadcastBackup(u) \/ CompleteWithdraw(u)

Next ==
  \/ Tick
  \/ \E u \in Users : \/ \E v \in Users : Offer(u, v)
                      \/ Send(u) \/ Receive(u) \/ Withdraw(u)
                      \/ UpdateCoin(u) \/ Refused(u) \/ Fail(u)

Spec == Init /\ [][Next]_vars

\* Wallet commands run to their end and receivers keep polling.
Fairness == \A u \in Users : WF_vars(Send(u)) /\ WF_vars(Receive(u)) /\ WF_vars(Refused(u))
LiveSpec == Spec /\ Fairness

-----------------------------------------------------------------------------
(* Properties *)

Msg == [from : Users, to : Users, x1 : Nat, txs : Seq(Tx)] \cup {NoMsg}

\* The type of every variable.
TypeOK ==
  /\ height \in Nat /\ spent \in SUBSET Tx /\ alive \in BOOLEAN
  /\ auth \in Users /\ holder \in Users \cup {NoUser}
  /\ offer \in [to : Users \cup {NoUser}, x1 : Nat, msg : Msg, key_updated : BOOLEAN]
  /\ rows \in Seq(Tx \cup {Null}) /\ sigs \in Nat /\ nonce \in Nat
  /\ signed \in SUBSET Tx
  /\ st \in [Users -> Status] /\ txs \in [Users -> Seq(Tx)]
  /\ job \in [Users -> [at : Steps, row : Nat, seen : Nat, msg : Msg]]
  /\ resent \in BOOLEAN

\* Whatever earlier owners signed, however often they changed their mind about
\* the receiver and wherever their commands stopped: the wallet of the current
\* owner stores a backup transaction paying to it that becomes final at least
\* one interval before any transaction an earlier owner had signed for somebody
\* else.  (validate_encrypted_message, calculate_block_height)
OwnerFirst ==
  alive /\ st[auth] \in Held =>
    /\ PaysTo(auth) # {}
    /\ \A tx \in signed :
         tx.n > 0 /\ tx.by # auth /\ tx.to # auth =>
           Locktime(OwnTx(auth)) + Interval <= Locktime(tx.n)

\* The owner has been told of every backup transaction an earlier owner had
\* signed for somebody else: matching num_sigs and the stored challenges leaves
\* no room for one it does not hold.  (validate_encrypted_message)
BackupsDisclosed ==
  alive /\ st[auth] \in Held =>
    \A tx \in signed :
      tx.n > 0 /\ tx.by # auth /\ tx.to # auth =>
        \E k \in 1..Len(txs[auth]) : txs[auth][k] = tx

\* s2 + o2 = s1 + o1: the enclave's share and the owner's share add up to the
\* coin's key, as long as no address is offered the coin a second time after a
\* transaction was signed for it.  (key_update, transfer_receiver)
SharesAddUp == alive /\ ~resent => holder = auth

\* When the chain takes a backup transaction that pays to an earlier owner, the
\* owner's has been final for at least one interval: nobody who once held the
\* coin can spend it before the owner had time to.  Withdrawals are left out,
\* no locktime holds them back.  (broadcast_backup_tx, calculate_block_height)
OwnerHadItsTurn ==
  [][\A tx \in spent' \ spent :
       tx.n > 0 /\ tx.to # auth /\ st[auth] \in Held =>
         Locktime(OwnTx(auth)) + Interval <= height]_vars

\* A wallet writes off the coin of one of its addresses as TRANSFERRED only when
\* the coin belongs to another address, and no address it was written off for
\* becomes its owner again, whichever transfers are under way when the status is
\* refreshed; the same wallet may own it at a new address.  (update_coins)
TransferredIsGone == \A u \in Users : st[u] = "TRANSFERRED" => auth # u

\* A posted transfer message ends with the receiver holding the coin, unless
\* the offer is replaced, or the message expires, or the coin was offered to
\* an address a second time.
\* (transfer_sender::execute, transfer_receiver::execute)
TransferCompletes ==
  \A u \in Users :
    (offer.to = u /\ offer.msg # NoMsg) ~>
      (st[u] \in Held \/ offer.to # u \/ offer.msg = NoMsg
         \/ height >= Locktime(Len(offer.msg.txs)) \/ resent)
=============================================================================
