----------------------------- MODULE WalletStore -----------------------------
(***************************************************************************)
(* The Rust wallet's store and the two commands every other one starts     *)
(* from: new-deposit-address, which saves the whole wallet three times on  *)
(* its way to an address, and the refresh update_coins, which reads the    *)
(* wallet once, signs and stores a backup transaction for each deposit it  *)
(* finds, and saves the wallet once at its end.  A command works on its    *)
(* own copy of the wallet; nothing locks the store, and a command may end  *)
(* in an error or a stop after any of its steps.                           *)
(*                                                                         *)
(* The coins here are deposits that have not been sent, so check_transfer, *)
(* check_withdrawal and the invalidation of duplicates have no work to do; *)
(* they belong to Statecoin.  A statechain_id stands for its deposit       *)
(* address too.                                                            *)
(***************************************************************************)
EXTENDS Naturals, Sequences, FiniteSets, FiniteSetsExt, Functions

CONSTANTS Commands,     \* processes of the client on one wallet
          MaxDeposits,  \* new-deposit-address commands
          MaxUtxos,     \* outputs paid to its addresses
          MaxSigs,      \* signatures per statechain
          MaxStops,     \* commands that end in an error or a stop
          MaxOverlaps   \* commands that begin while another one runs

ASSUME BoundAssumption ==
  {MaxDeposits, MaxUtxos, MaxSigs, MaxStops, MaxOverlaps} \subseteq Nat

VARIABLES wallet,      \* the coins of the wallet's row of the wallet table
          rows,        \* the backup_txs table, in insertion order
          cmd,         \* the commands
          sigs,        \* the statechain entity: signatures made per statechain
          chain,       \* the outputs paid to the wallet's addresses
          shown,       \* the statechains whose address the user has seen
          begun,       \* new-deposit-address commands so far
          stops,       \* commands cut short so far
          overlaps,    \* commands begun while another one ran
          cut          \* statechains signed for by a refresh that never saved

vars == <<wallet, rows, cmd, sigs, chain, shown, begun, stops, overlaps, cut>>

Sids == 1..MaxDeposits
Utxos == 1..MaxUtxos
None == 0

Awaited == {"INITIALISED", "IN_MEMPOOL", "UNCONFIRMED"}
Funded == {"IN_MEMPOOL", "UNCONFIRMED", "CONFIRMED"}
CoinStatus == Awaited \cup Funded \cup {"DUPLICATED"}

Coin == [sid : Sids \cup {None}, address : BOOLEAN, utxo : Utxos \cup {None},
         status : CoinStatus, duplicate_index : 0..MaxUtxos]

NewCoin == [sid |-> None, address |-> FALSE, utxo |-> None,
            status |-> "INITIALISED", duplicate_index |-> 0]

Idle == [pc |-> "idle", copy |-> <<>>, i |-> 0, sid |-> None, signed |-> {}]

Init ==
  /\ wallet = <<>> /\ rows = <<>> /\ sigs = <<>> /\ chain = <<>>
  /\ cmd = [k \in Commands |-> Idle]
  /\ shown = {} /\ begun = 0 /\ stops = 0 /\ overlaps = 0 /\ cut = {}

Alone(k) == \A j \in Commands \ {k} : cmd[j].pc = "idle"

\* get_wallet: the command goes on with its own copy of the wallet.  A new
\* process takes one free place; the places are all alike.
get_wallet(k, pc) ==
  /\ cmd[k].pc = "idle" /\ k = CHOOSE j \in Commands : cmd[j].pc = "idle"
  /\ Alone(k) \/ overlaps < MaxOverlaps
  /\ overlaps' = IF Alone(k) THEN overlaps ELSE overlaps + 1
  /\ cmd' = [cmd EXCEPT ![k] = [Idle EXCEPT !.pc = pc, !.copy = wallet, !.i = 1]]

\* update_wallet replaces the stored wallet by the command's copy.
update_wallet(k, coins, pc) ==
  /\ wallet' = coins
  /\ cmd' = [cmd EXCEPT ![k].copy = coins, ![k].pc = pc]

-----------------------------------------------------------------------------
(* new-deposit-address *)

NewDeposit(k) ==
  /\ begun < MaxDeposits /\ begun' = begun + 1
  /\ get_wallet(k, "push")
  /\ UNCHANGED <<wallet, rows, sigs, chain, shown, stops, cut>>

\* init saves the new coin before it talks to the server.
PushCoin(k) ==
  /\ cmd[k].pc = "push"
  /\ update_wallet(k, Append(cmd[k].copy, NewCoin), "ask")
  /\ UNCHANGED <<rows, sigs, chain, shown, begun, stops, overlaps, cut>>

\* The request is sent again after its answer is lost.
AskServer_Retried(k) ==
  /\ cmd[k].pc = "ask"
  /\ sigs' = sigs \o <<0, 0>>
  /\ cmd' = [cmd EXCEPT ![k].sid = Len(sigs) + 2, ![k].pc = "answered"]
  /\ UNCHANGED <<wallet, rows, chain, shown, begun, stops, overlaps, cut>>

\* POST deposit/init/pod
AskServer(k) ==
  /\ cmd[k].pc = "ask"
  /\ sigs' = Append(sigs, 0)
  /\ cmd' = [cmd EXCEPT ![k].sid = Len(sigs) + 1, ![k].pc = "answered"]
  /\ UNCHANGED <<wallet, rows, chain, shown, begun, stops, overlaps, cut>>

SaveStatechainId(k) ==
  /\ cmd[k].pc = "answered"
  /\ update_wallet(k, [cmd[k].copy EXCEPT ![Len(cmd[k].copy)].sid = cmd[k].sid], "address")
  /\ UNCHANGED <<rows, sigs, chain, shown, begun, stops, overlaps, cut>>

Show(k) ==
  /\ cmd' = [cmd EXCEPT ![k] = Idle]
  /\ shown' = shown \cup {cmd[k].sid}

\* The address is shown and not saved.
get_deposit_bitcoin_address_Unsaved(k) ==
  /\ cmd[k].pc = "address"
  /\ Show(k)
  /\ UNCHANGED <<wallet, rows, sigs, chain, begun, stops, overlaps, cut>>

get_deposit_bitcoin_address(k) ==
  /\ cmd[k].pc = "address"
  /\ wallet' = [cmd[k].copy EXCEPT ![Len(cmd[k].copy)].address = TRUE]
  /\ Show(k)
  /\ UNCHANGED <<rows, sigs, chain, begun, stops, overlaps, cut>>

-----------------------------------------------------------------------------
(* The refresh *)

update_coins(k) ==
  /\ get_wallet(k, "check")
  /\ UNCHANGED <<wallet, rows, sigs, chain, shown, begun, stops, cut>>

Outputs(sid) == {u \in DOMAIN chain : chain[u].sid = sid}
\* The outputs check_deposit may find: the first listed with the amount.
Deposits(sid) == {u \in Outputs(sid) : chain[u].exact}

\* A coin that is past this stage, whose deposit init did not finish, or that
\* is not paid is passed over.
PassedOver(c) ==
  \/ c.status \notin Awaited
  \/ c.sid = None
  \/ c.address /\ Deposits(c.sid) = {}

\* The loop over the coins has come to the i-th.
Reaches(k, i) ==
  /\ cmd[k].pc = "check" /\ cmd[k].i <= i
  /\ \A j \in cmd[k].i..(i - 1) : PassedOver(cmd[k].copy[j])

\* The unwrap of a missing address ends the refresh.
NoAddress(k, i) ==
  /\ Reaches(k, i)
  /\ LET c == cmd[k].copy[i]
     IN c.status \in Awaited /\ c.sid # None /\ ~c.address
  /\ cmd' = [cmd EXCEPT ![k] = Idle]
  /\ cut' = cut \cup cmd[k].signed
  /\ UNCHANGED <<wallet, rows, sigs, chain, shown, begun, stops, overlaps>>

\* A coin seen in the mempool stays there.
StatusAt_Stays(status, u) ==
  IF status = "IN_MEMPOOL" \/ chain[u].depth = 0
  THEN IF status = "INITIALISED" THEN "IN_MEMPOOL" ELSE status
  ELSE IF chain[u].depth = 1 THEN "UNCONFIRMED" ELSE "CONFIRMED"

\* The status check_deposit gives a coin when it finds u
StatusAt(status, u) ==
  IF chain[u].depth = 0
  THEN IF status = "INITIALISED" THEN "IN_MEMPOOL" ELSE status
  ELSE IF chain[u].depth = 1 THEN "UNCONFIRMED" ELSE "CONFIRMED"

\* A request that was answered is sent again.
create_tx1_Retried(sid) == sigs' = [sigs EXCEPT ![sid] = @ + 2]

\* create_tx1 has the server sign the backup transaction of a new deposit.
create_tx1(sid) == sigs' = [sigs EXCEPT ![sid] = @ + 1]

check_deposit(k, i, u) ==
  LET c == cmd[k].copy[i]
      found == [c EXCEPT !.status = StatusAt(c.status, u)]
  IN /\ Reaches(k, i)
     /\ c.status \in Awaited /\ c.address /\ u \in Deposits(c.sid)
     /\ IF c.status = "INITIALISED"
        THEN /\ sigs[c.sid] < MaxSigs
             /\ create_tx1(c.sid)
             /\ cmd' = [cmd EXCEPT ![k].copy[i] = [found EXCEPT !.utxo = u],
                                   ![k].signed = @ \cup {c.sid},
                                   ![k].i = i, ![k].pc = "row"]
        ELSE /\ cmd' = [cmd EXCEPT ![k].copy[i] = found, ![k].i = i + 1]
             /\ UNCHANGED sigs
     /\ UNCHANGED <<wallet, rows, chain, shown, begun, stops, overlaps, cut>>

\* A row of the statechain is left as it is.
insert_backup_txs_OrIgnore(sid, u) ==
  rows' = IF \E r \in DOMAIN rows : rows[r].sid = sid THEN rows
          ELSE Append(rows, [sid |-> sid, utxo |-> u])

\* INSERT INTO backup_txs; the table has no key.
insert_backup_txs(sid, u) == rows' = Append(rows, [sid |-> sid, utxo |-> u])

StoreBackup(k) ==
  /\ cmd[k].pc = "row"
  /\ LET c == cmd[k].copy[cmd[k].i] IN insert_backup_txs(c.sid, c.utxo)
  /\ cmd' = [cmd EXCEPT ![k].i = @ + 1, ![k].pc = "check"]
  /\ UNCHANGED <<wallet, sigs, chain, shown, begun, stops, overlaps, cut>>

\* Only outputs that funded coins hold are known.
Extra_Funded(coins) ==
  {u \in DOMAIN chain :
     /\ \E c \in Range(coins) : c.status \in Funded /\ c.sid = chain[u].sid
     /\ ~\E c \in Range(coins) : c.status \in Funded /\ c.utxo = u}

\* check_for_duplicated: every other output at the address of a funded coin.
Extra(coins) ==
  {u \in DOMAIN chain :
     /\ \E c \in Range(coins) : c.status \in Funded /\ c.sid = chain[u].sid
     /\ ~\E c \in Range(coins) : c.utxo = u}

\* max_duplicated_index, the highest among the coins of a statechain
MaxIndex(coins, sid) ==
  Max({c.duplicate_index : c \in {d \in Range(coins) : d.sid = sid}})

Duplicate(coins, found, n) ==
  LET sid == chain[found[n]].sid
      coin == CHOOSE c \in Range(coins) : c.status \in Funded /\ c.sid = sid
  IN [coin EXCEPT !.status = "DUPLICATED", !.utxo = found[n],
        !.duplicate_index = MaxIndex(coins, sid)
           + Cardinality({m \in 1..n : chain[found[m]].sid = sid})]

\* The orders in which the Electrum server may list a set of outputs.
Listings(S) == Bijection(1..Cardinality(S), S)

\* found: the extra outputs in the order the server lists them.
SaveCoins(k) ==
  /\ Reaches(k, Len(cmd[k].copy) + 1)
  /\ \E found \in Listings(Extra(cmd[k].copy)) :
       wallet' = cmd[k].copy \o
                 [n \in 1..Len(found) |-> Duplicate(cmd[k].copy, found, n)]
  /\ cmd' = [cmd EXCEPT ![k] = Idle]
  /\ UNCHANGED <<rows, sigs, chain, shown, begun, stops, overlaps, cut>>

-----------------------------------------------------------------------------
(* Failures, the user and the chain *)

\* A request fails, an answer is lost, or the process is stopped.
Stop(k) ==
  /\ cmd[k].pc # "idle" /\ stops < MaxStops
  /\ stops' = stops + 1
  /\ cut' = cut \cup cmd[k].signed
  /\ cmd' = [cmd EXCEPT ![k] = Idle]
  /\ UNCHANGED <<wallet, rows, sigs, chain, shown, begun, overlaps>>

Pay(sid, exact) ==
  /\ sid \in shown /\ Len(chain) < MaxUtxos
  /\ chain' = Append(chain, [sid |-> sid, exact |-> exact, depth |-> 0])
  /\ UNCHANGED <<wallet, rows, cmd, sigs, shown, begun, stops, overlaps, cut>>

\* Depth 0: in the mempool; 1: in a block; 2: at the confirmation target.
Mine(u) ==
  /\ u \in DOMAIN chain /\ chain[u].depth < 2
  /\ chain' = [chain EXCEPT ![u].depth = @ + 1]
  /\ UNCHANGED <<wallet, rows, cmd, sigs, shown, begun, stops, overlaps, cut>>

Work(k) ==
  \/ PushCoin(k) \/ AskServer(k) \/ SaveStatechainId(k) \/ get_deposit_bitcoin_address(k)
  \/ \E i \in DOMAIN cmd[k].copy :
       NoAddress(k, i) \/ \E u \in DOMAIN chain : check_deposit(k, i, u)
  \/ StoreBackup(k) \/ SaveCoins(k)

Next ==
  \/ \E k \in Commands : NewDeposit(k) \/ update_coins(k) \/ Work(k) \/ Stop(k)
  \/ \E sid \in Sids, exact \in BOOLEAN : Pay(sid, exact)
  \/ \E u \in Utxos : Mine(u)

Spec == Init /\ [][Next]_vars

\* Some running command takes its next step, or a user who has none running
\* comes back to look at the wallet: most commands begin with update_coins.
GoesOn == \E k \in Commands : Work(k) \/ (Alone(k) /\ update_coins(k))
LiveSpec == Spec /\ WF_vars(GoesOn)

-----------------------------------------------------------------------------
(* Properties *)

Command == [pc : {"idle", "push", "ask", "answered", "address", "check", "row"},
            copy : Seq(Coin), i : Nat, sid : Sids \cup {None}, signed : SUBSET Sids]

\* The type invariant: among others, the server opens at most one statechain
\* per command, and a duplicate_index is at most the number of outputs.
TypeOK ==
  /\ wallet \in Seq(Coin)
  /\ rows \in Seq([sid : Sids, utxo : Utxos])
  /\ cmd \in [Commands -> Command]
  /\ sigs \in Seq(Nat) /\ Len(sigs) <= begun /\ begun <= MaxDeposits
  /\ chain \in Seq([sid : Sids, exact : BOOLEAN, depth : 0..2])
  /\ shown \subseteq Sids /\ cut \subseteq Sids
  /\ stops \in 0..MaxStops /\ overlaps \in 0..MaxOverlaps

\* The coin of a statechain, not one of its duplicates.
IsCoin(c, sid) == c.sid = sid /\ c.duplicate_index = 0

\* A stored coin that has left INITIALISED has a stored backup transaction of
\* the very output it holds, whatever commands overlapped or broke off:
\* insert_backup_txs comes before the update_wallet that shows the coin.
BackupKept ==
  \A c \in Range(wallet) : c.status \in Funded =>
    \E r \in DOMAIN rows : rows[r].sid = c.sid /\ rows[r].utxo = c.utxo

\* The first row of a statechain is the one get_backup_txs returns.
FirstRow(sid) ==
  CHOOSE r \in DOMAIN rows :
    /\ rows[r].sid = sid
    /\ \A q \in DOMAIN rows : rows[q].sid = sid => r <= q

\* A CONFIRMED coin can be sent: the backup transactions get_backup_txs gives
\* its sender spend its own output and are as many as the signatures the
\* server counts, which its receiver compares.  Not so when commands
\* overlapped, or the refresh that signed for the coin never saved it: the
\* next one signs again, maybe for another output, and adds a second row.
Sendable ==
  overlaps = 0 =>
    \A c \in Range(wallet) : c.status = "CONFIRMED" /\ c.sid \notin cut =>
      /\ rows[FirstRow(c.sid)].utxo = c.utxo
      /\ sigs[c.sid] = 1

\* No output is held by two stored coins, and no two coins of a statechain
\* have the same duplicate_index, whatever commands overlapped or broke off:
\* senders and withdrawals pick a duplicate by its index.
OutputHeldOnce ==
  \A i, j \in DOMAIN wallet : i # j =>
    /\ wallet[i].utxo = wallet[j].utxo => wallet[i].utxo = None
    /\ wallet[i].sid = wallet[j].sid /\ wallet[i].sid # None =>
         wallet[i].duplicate_index # wallet[j].duplicate_index

\* As long as no two commands overlapped, every address the user was shown is
\* that of a stored coin, and stays so through every later save.
AddressKept ==
  overlaps = 0 =>
    \A sid \in shown : \E c \in Range(wallet) : IsCoin(c, sid) /\ c.address

\* A coin with a statechain_id and no address, left by a deposit command that
\* broke off between its last two saves.
Blocked ==
  /\ \E c \in Range(wallet) : c.sid # None /\ ~c.address
  /\ \A k \in Commands : cmd[k].pc # "address"

\* All outputs of the coin's amount at its address are at the target depth.
Settled(sid) ==
  Deposits(sid) # {} /\ \A u \in Deposits(sid) : chain[u].depth = 2

\* A deposit to a shown address that reaches the confirmation target shows as
\* CONFIRMED, unless commands overlapped, a new payment of the same amount
\* came in, or an unfinished deposit of the same wallet stops every refresh
\* at its missing address.
DepositConfirmed ==
  \A sid \in Sids : Settled(sid) ~>
    \/ \E c \in Range(wallet) : IsCoin(c, sid) /\ c.status = "CONFIRMED"
    \/ ~Settled(sid) \/ Blocked \/ overlaps > 0
=============================================================================
