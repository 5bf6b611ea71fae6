-------------------------- MODULE WalletSendProofs --------------------------
(***************************************************************************)
(* Further proofs about WalletStore, for any number of commands, deposits  *)
(* and outputs: the bounds in its type invariant, and that a confirmed     *)
(* coin can be sent.  They build on Lists and Solo of WalletStoreProofs.   *)
(***************************************************************************)
EXTENDS WalletStoreProofs

\* Each leaf is given to Zenon and then to SMT, for so many seconds.
USE ZenonT(10), SMTT(20)

-----------------------------------------------------------------------------
(* What each step does to the copy of the command that takes it *)

Turn(k) == \A j \in Commands : j # k => cmd'[j] = cmd[j]

\* The coins of L go on in A, with the outputs and indices they have; further
\* ones are new or duplicates.
GoesOnIn(L, A) ==
  /\ Len(L) <= Len(A)
  /\ \A i \in 1..Len(A) :
       IF i <= Len(L)
       THEN /\ A[i].sid = L[i].sid /\ A[i].utxo = L[i].utxo
            /\ A[i].duplicate_index = L[i].duplicate_index
            /\ A[i].status \in Funded <=> L[i].status \in Funded
            /\ A[i].status = "INITIALISED" => L[i].status = "INITIALISED"
       ELSE A[i] = NewCoin \/ A[i].status = "DUPLICATED"

\* No duplicate is new.
Plain(L, A) == \A i \in 1..Len(A) : i > Len(L) => A[i].duplicate_index = 0

Begins(k) ==
  LET q == cmd'[k] IN
  /\ Turn(k) /\ cmd[k].pc = "idle" /\ q.pc \in {"push", "check"}
  /\ q.copy = wallet /\ q.sid = None /\ q.signed = {}
  /\ Alone(k) \/ overlaps < MaxOverlaps
  /\ overlaps' = IF Alone(k) THEN overlaps ELSE overlaps + 1
  /\ IF q.pc = "push" THEN begun < MaxDeposits /\ begun' = begun + 1 ELSE UNCHANGED begun
  /\ UNCHANGED <<wallet, rows, sigs, chain, shown, stops, cut>>

Pushes(k) ==
  LET o == cmd[k]  q == cmd'[k] IN
  /\ Turn(k) /\ o.pc = "push" /\ q.pc = "ask"
  /\ q.sid = o.sid /\ q.signed = o.signed /\ q.copy = wallet'
  /\ GoesOnIn(o.copy, wallet') /\ Plain(o.copy, wallet')
  /\ UNCHANGED <<rows, sigs, chain, shown, begun, stops, overlaps, cut>>

Asks(k) ==
  LET o == cmd[k]  q == cmd'[k] IN
  /\ Turn(k) /\ o.pc = "ask" /\ q.pc = "answered"
  /\ q.sid = Len(sigs) + 1 /\ q.signed = o.signed /\ q.copy = o.copy
  /\ sigs' = Append(sigs, 0)
  /\ UNCHANGED <<wallet, rows, chain, shown, begun, stops, overlaps, cut>>

Names(k) ==
  LET o == cmd[k]  q == cmd'[k]  L == o.copy  A == q.copy IN
  /\ Turn(k) /\ o.pc = "answered" /\ q.pc = "address"
  /\ q.sid = o.sid /\ q.signed = o.signed /\ A = wallet'
  /\ Len(A) = Len(L) /\ \A i \in 1..Len(L) : i # Len(L) => A[i] = L[i]
  /\ A[Len(L)] = [L[Len(L)] EXCEPT !.sid = o.sid]
  /\ UNCHANGED <<rows, sigs, chain, shown, begun, stops, overlaps, cut>>

Shows(k) ==
  /\ Turn(k) /\ cmd[k].pc = "address" /\ cmd'[k] = Idle
  /\ GoesOnIn(cmd[k].copy, wallet') /\ Plain(cmd[k].copy, wallet')
  /\ shown' = shown \cup {cmd[k].sid}
  /\ UNCHANGED <<rows, sigs, chain, begun, stops, overlaps, cut>>

Ends(k) ==
  /\ Turn(k) /\ cmd[k].pc # "idle" /\ cmd'[k] = Idle
  /\ cut' = cut \cup cmd[k].signed
  /\ stops' = stops \/ (stops < MaxStops /\ stops' = stops + 1)
  /\ UNCHANGED <<wallet, rows, sigs, chain, shown, begun, overlaps>>

Signs(k, i) ==
  LET o == cmd[k]  q == cmd'[k]  L == o.copy  A == q.copy IN
  /\ Turn(k) /\ o.pc = "check" /\ q.pc = "row"
  /\ i \in 1..Len(L) /\ L[i].status = "INITIALISED" /\ L[i].sid \in 1..Len(sigs)
  /\ q.i = i /\ q.sid = o.sid /\ q.signed = o.signed \cup {L[i].sid}
  /\ Len(A) = Len(L) /\ \A j \in 1..Len(L) : j # i => A[j] = L[j]
  /\ A[i].sid = L[i].sid /\ A[i].duplicate_index = L[i].duplicate_index
  /\ A[i].status \in Funded /\ A[i].utxo # None
  /\ sigs' = [sigs EXCEPT ![L[i].sid] = @ + 1]
  /\ UNCHANGED <<wallet, rows, chain, shown, begun, stops, overlaps, cut>>

Refreshes(k) ==
  LET o == cmd[k]  q == cmd'[k] IN
  /\ Turn(k) /\ o.pc = "check" /\ q.pc = "check"
  /\ q.sid = o.sid /\ q.signed = o.signed
  /\ GoesOnIn(o.copy, q.copy) /\ Plain(o.copy, q.copy)
  /\ UNCHANGED <<wallet, rows, sigs, chain, shown, begun, stops, overlaps, cut>>

Stores(k) ==
  LET o == cmd[k]  q == cmd'[k]  c == o.copy[o.i] IN
  /\ Turn(k) /\ o.pc = "row" /\ q.pc = "check"
  /\ q.sid = o.sid /\ q.signed = o.signed /\ q.copy = o.copy
  /\ rows' = Append(rows, [sid |-> c.sid, utxo |-> c.utxo])
  /\ UNCHANGED <<wallet, sigs, chain, shown, begun, stops, overlaps, cut>>

Saves(k) ==
  /\ Turn(k) /\ cmd[k].pc = "check" /\ cmd'[k] = Idle
  /\ GoesOnIn(cmd[k].copy, wallet')
  /\ \E found \in Listings(Extra(cmd[k].copy)) :
       wallet' = cmd[k].copy \o [n \in 1..Len(found) |-> Duplicate(cmd[k].copy, found, n)]
  /\ UNCHANGED <<rows, sigs, chain, shown, begun, stops, overlaps, cut>>

\* A payment, a block, or nothing
Rests ==
  /\ Len(chain) <= Len(chain') /\ (Len(chain) <= MaxUtxos => Len(chain') <= MaxUtxos)
  /\ \A u \in 1..Len(chain') :
       chain'[u].sid \in Sids \/ (u \in 1..Len(chain) /\ chain'[u].sid = chain[u].sid)
  /\ UNCHANGED <<wallet, rows, cmd, sigs, shown, begun, stops, overlaps, cut>>

LEMMA TurnOf ==
  ASSUME Lists, NEW k \in Commands, NEW q, cmd' = [cmd EXCEPT ![k] = q]
  PROVE  Turn(k) /\ cmd'[k] = q
PROOF
  BY DEF Lists, Types, Turn

LEMMA BeginShape ==
  ASSUME Lists, NEW k \in Commands, NewDeposit(k) \/ update_coins(k)
  PROVE  Begins(k)
PROOF
  <1>1. PICK pc \in {"push", "check"} :
          /\ get_wallet(k, pc) /\ UNCHANGED <<wallet, rows, sigs, chain, shown, stops, cut>>
          /\ IF pc = "push" THEN begun < MaxDeposits /\ begun' = begun + 1 ELSE UNCHANGED begun
    BY DEF NewDeposit, update_coins
  <1> DEFINE q == [Idle EXCEPT !.pc = pc, !.copy = wallet, !.i = 1]
  <1>2. cmd' = [cmd EXCEPT ![k] = q] BY <1>1 DEF get_wallet
  <1>3. q.pc = pc /\ q.copy = wallet /\ q.sid = None /\ q.signed = {} BY DEF Idle
  <1> HIDE DEF q
  <1>4. Turn(k) /\ cmd'[k] = q BY <1>2, TurnOf
  <1> QED BY <1>1, <1>3, <1>4 DEF Begins, get_wallet

LEMMA PushShape ==
  ASSUME Lists, NEW k \in Commands, PushCoin(k)
  PROVE  Pushes(k)
PROOF
  <1> DEFINE L == cmd[k].copy
             A == Append(L, NewCoin)
             q == [cmd[k] EXCEPT !.copy = A, !.pc = "ask"]
  <1>1. cmd[k] \in ProofCommand /\ L \in Seq(ListCoin) BY DEF Lists, Types, ProofCommand
  <1>2. NewCoin \in ListCoin BY DEF NewCoin, ListCoin, CoinStatus, Awaited, None
  <1>3. /\ Len(A) = Len(L) + 1 /\ Len(L) \in Nat /\ \A i \in 1..Len(L) : A[i] = L[i]
        /\ A[Len(L) + 1] = NewCoin
    BY <1>1, <1>2, AppendProperties
  <1>4. cmd' = [cmd EXCEPT ![k] = q] /\ wallet' = A
    BY DEF PushCoin, update_wallet, Lists, Types
  <1>5. q.copy = A /\ q.pc = "ask" /\ q.sid = cmd[k].sid /\ q.signed = cmd[k].signed
    <2> HIDE DEF A
    <2> QED BY <1>1 DEF ProofCommand
  <1>6. cmd[k].pc = "push" /\ UNCHANGED <<rows, sigs, chain, shown, begun, stops, overlaps, cut>>
    BY DEF PushCoin
  <1> HIDE DEF A, q, L
  <1>7. Turn(k) /\ cmd'[k] = q BY <1>4, TurnOf
  <1>8. GoesOnIn(L, A) /\ Plain(L, A)
    <2>1. \A i \in 1..Len(A) : IF i <= Len(L) THEN A[i] = L[i] ELSE A[i] = NewCoin BY <1>3
    <2>2. GoesOnIn(L, A) BY <1>3, <2>1 DEF GoesOnIn
    <2>3. Plain(L, A) BY <1>3, <2>1 DEF Plain, NewCoin
    <2> QED BY <2>2, <2>3
  <1> QED BY <1>4, <1>5, <1>6, <1>7, <1>8 DEF Pushes, L

LEMMA AskShape ==
  ASSUME Lists, NEW k \in Commands, AskServer(k)
  PROVE  Asks(k)
PROOF
  <1> DEFINE q == [cmd[k] EXCEPT !.sid = Len(sigs) + 1, !.pc = "answered"]
  <1>1. cmd[k] \in ProofCommand BY DEF Lists, Types
  <1>2. cmd' = [cmd EXCEPT ![k] = q] BY DEF AskServer, Lists, Types
  <1>3. q.copy = cmd[k].copy /\ q.pc = "answered" /\ q.sid = Len(sigs) + 1
        /\ q.signed = cmd[k].signed
    BY <1>1 DEF ProofCommand
  <1> HIDE DEF q
  <1>4. Turn(k) /\ cmd'[k] = q BY <1>2, TurnOf
  <1> QED BY <1>3, <1>4 DEF Asks, AskServer

LEMMA NameShape ==
  ASSUME Lists, NEW k \in Commands, SaveStatechainId(k)
  PROVE  Names(k)
PROOF
  <1> DEFINE L == cmd[k].copy
             A == [L EXCEPT ![Len(L)].sid = cmd[k].sid]
             q == [cmd[k] EXCEPT !.copy = A, !.pc = "address"]
  <1>1. /\ cmd[k] \in ProofCommand /\ CommandInv(cmd[k], chain, Len(sigs), rows)
        /\ cmd[k].pc = "answered" /\ Len(sigs) \in Nat
    BY LenProperties DEF Lists, Types, SaveStatechainId
  <1>2. /\ ListInv(L, chain, Len(sigs)) /\ Len(L) \in Nat
        /\ Len(L) # 0 /\ L[Len(L)].sid = None /\ L[Len(L)].status = "INITIALISED"
        /\ cmd[k].sid \in 1..Len(sigs) /\ \A i \in 1..Len(L) : L[i].sid # cmd[k].sid
    BY <1>1 DEF CommandInv, ListInv, Copies
  <1>3. /\ Len(A) = Len(L)
        /\ \A j \in 1..Len(L) :
             A[j] = IF j = Len(L) THEN [L[Len(L)] EXCEPT !.sid = cmd[k].sid] ELSE L[j]
    <2> HIDE DEF L
    <2> QED BY <1>1, <1>2, SidKeepsList
  <1>4. cmd' = [cmd EXCEPT ![k] = q] /\ wallet' = A
    BY DEF SaveStatechainId, update_wallet, Lists, Types
  <1>5. q.copy = A /\ q.pc = "address" /\ q.sid = cmd[k].sid /\ q.signed = cmd[k].signed
    <2> HIDE DEF A
    <2> QED BY <1>1 DEF ProofCommand
  <1>6. UNCHANGED <<rows, sigs, chain, shown, begun, stops, overlaps, cut>>
    BY DEF SaveStatechainId
  <1> HIDE DEF A, q, L
  <1>7. Turn(k) /\ cmd'[k] = q BY <1>4, TurnOf
  <1>8. /\ \A i \in 1..Len(L) : i # Len(L) => A[i] = L[i]
        /\ A[Len(L)] = [L[Len(L)] EXCEPT !.sid = cmd[k].sid]
    BY <1>2, <1>3
  <1> QED BY <1>1, <1>3, <1>4, <1>5, <1>6, <1>7, <1>8 DEF Names, L

LEMMA ShowShape ==
  ASSUME Lists, NEW k \in Commands, get_deposit_bitcoin_address(k)
  PROVE  Shows(k)
PROOF
  <1> DEFINE L == cmd[k].copy
             A == [L EXCEPT ![Len(L)].address = TRUE]
  <1>1. /\ CommandInv(cmd[k], chain, Len(sigs), rows) /\ cmd[k].pc = "address"
        /\ Len(sigs) \in Nat
    BY LenProperties DEF Lists, Types, get_deposit_bitcoin_address
  <1>2. /\ ListInv(L, chain, Len(sigs)) /\ L \in Seq(ListCoin) /\ Len(L) \in Nat
        /\ Len(L) # 0 /\ L[Len(L)].sid # None /\ L[Len(L)].status = "INITIALISED"
    BY <1>1 DEF CommandInv, ListInv, Copies
  <1>3. /\ Len(A) = Len(L)
        /\ \A j \in 1..Len(L) :
             A[j] = IF j = Len(L) THEN [L[Len(L)] EXCEPT !.address = TRUE] ELSE L[j]
    <2> HIDE DEF L
    <2> QED BY <1>1, <1>2, AddressKeepsList
  <1>4. /\ cmd' = [cmd EXCEPT ![k] = Idle] /\ wallet' = A /\ shown' = shown \cup {cmd[k].sid}
        /\ UNCHANGED <<rows, sigs, chain, begun, stops, overlaps, cut>>
    BY DEF get_deposit_bitcoin_address, Show
  <1> HIDE DEF A, L
  <1>5. L[Len(L)] \in ListCoin BY <1>2, ElementOfSeq
  <1>6. \A i \in 1..Len(L) :
          /\ A[i].sid = L[i].sid /\ A[i].utxo = L[i].utxo /\ A[i].status = L[i].status
          /\ A[i].duplicate_index = L[i].duplicate_index
    BY <1>3, <1>5, ZenonT(30), SMTT(20) DEF ListCoin
  <1>7. GoesOnIn(L, A) /\ Plain(L, A) BY <1>2, <1>3, <1>6 DEF GoesOnIn, Plain
  <1>8. Turn(k) /\ cmd'[k] = Idle BY <1>4, TurnOf
  <1> QED BY <1>1, <1>4, <1>7, <1>8 DEF Shows, L

LEMMA EndShape ==
  ASSUME Lists, NEW k \in Commands,
         Stop(k) \/ \E i \in DOMAIN cmd[k].copy : NoAddress(k, i)
  PROVE  Ends(k)
PROOF
  <1>1. /\ cmd[k].pc # "idle" /\ cmd' = [cmd EXCEPT ![k] = Idle]
        /\ cut' = cut \cup cmd[k].signed
        /\ stops' = stops \/ (stops < MaxStops /\ stops' = stops + 1)
        /\ UNCHANGED <<wallet, rows, sigs, chain, shown, begun, overlaps>>
    BY DEF Stop, NoAddress, Reaches
  <1>2. Turn(k) /\ cmd'[k] = Idle BY <1>1, TurnOf
  <1> QED BY <1>1, <1>2 DEF Ends

LEMMA SignShape ==
  ASSUME Lists, NEW k \in Commands, NEW i \in DOMAIN cmd[k].copy, NEW u \in DOMAIN chain,
         check_deposit(k, i, u), cmd[k].copy[i].status = "INITIALISED"
  PROVE  Signs(k, i)
PROOF
  <1> DEFINE L == cmd[k].copy
             f == [[L[i] EXCEPT !.status = StatusAt(L[i].status, u)] EXCEPT !.utxo = u]
             A == [L EXCEPT ![i] = f]
             q == [cmd[k] EXCEPT !.copy = A, !.signed = @ \cup {L[i].sid}, !.i = i, !.pc = "row"]
  <1>1. /\ cmd[k] \in ProofCommand /\ cmd[k].pc = "check" /\ L \in Seq(ListCoin)
        /\ i \in 1..Len(L) /\ L[i] \in ListCoin /\ L[i].sid \in 1..Len(sigs)
        /\ u \in Nat /\ u # None /\ StatusAt(L[i].status, u) \in Funded
        /\ L[i].status = "INITIALISED"
    BY DepositFound DEF ListInv
  <1>2. StatusAt(L[i].status, u) \in CoinStatus BY <1>1 DEF CoinStatus
  <1>3. /\ f \in ListCoin /\ f.status \in Funded /\ f.sid = L[i].sid /\ f.utxo = u
        /\ f.duplicate_index = L[i].duplicate_index
    <2>1. ASSUME NEW c \in ListCoin, NEW st \in CoinStatus
          PROVE  LET g == [[c EXCEPT !.status = st] EXCEPT !.utxo = u]
                 IN /\ g \in ListCoin /\ g.status = st /\ g.sid = c.sid /\ g.utxo = u
                    /\ g.duplicate_index = c.duplicate_index
      BY <1>1 DEF ListCoin
    <2> QED BY <1>1, <1>2, <2>1
  <1>4. cmd' = [cmd EXCEPT ![k].copy[i] = f, ![k].signed = @ \cup {L[i].sid},
                           ![k].i = i, ![k].pc = "row"]
        /\ sigs' = [sigs EXCEPT ![L[i].sid] = @ + 1]
        /\ UNCHANGED <<wallet, rows, chain, shown, begun, stops, overlaps, cut>>
    BY DEF check_deposit, create_tx1
  <1> HIDE DEF f
  <1>5. cmd' = [cmd EXCEPT ![k] = q] BY <1>4 DEF Lists, Types
  <1>6. Len(A) = Len(L) /\ \A j \in 1..Len(L) : A[j] = IF j = i THEN f ELSE L[j]
    BY <1>1, <1>3, ExceptSeq
  <1>7. /\ q.copy = A /\ q.i = i /\ q.pc = "row" /\ q.sid = cmd[k].sid
        /\ q.signed = cmd[k].signed \cup {L[i].sid}
    <2> HIDE DEF A
    <2> QED BY <1>1 DEF ProofCommand
  <1> HIDE DEF A, q, L
  <1>8. Turn(k) /\ cmd'[k] = q BY <1>5, TurnOf
  <1>9. /\ A[i].sid = L[i].sid /\ A[i].duplicate_index = L[i].duplicate_index
        /\ A[i].status \in Funded /\ A[i].utxo # None
        /\ \A j \in 1..Len(L) : j # i => A[j] = L[j]
    BY <1>1, <1>3, <1>6
  <1>10. /\ cmd[k].pc = "check" /\ i \in 1..Len(L) /\ L[i].status = "INITIALISED"
         /\ L[i].sid \in 1..Len(sigs) /\ sigs' = [sigs EXCEPT ![L[i].sid] = @ + 1]
    BY <1>1, <1>4
  <1>11. /\ cmd'[k].copy = A /\ cmd'[k].i = i /\ cmd'[k].pc = "row" /\ cmd'[k].sid = cmd[k].sid
         /\ cmd'[k].signed = cmd[k].signed \cup {L[i].sid}
    BY <1>7, <1>8
  <1> QED BY <1>4, <1>6, <1>8, <1>9, <1>10, <1>11, ZenonT(20) DEF Signs, L

LEMMA RefreshShape ==
  ASSUME Lists, NEW k \in Commands, NEW i \in DOMAIN cmd[k].copy, NEW u \in DOMAIN chain,
         check_deposit(k, i, u), cmd[k].copy[i].status # "INITIALISED"
  PROVE  Refreshes(k)
PROOF
  <1> DEFINE L == cmd[k].copy
             f == [L[i] EXCEPT !.status = StatusAt(L[i].status, u)]
             A == [L EXCEPT ![i] = f]
             q == [cmd[k] EXCEPT !.copy = A, !.i = i + 1]
  <1>1. /\ cmd[k] \in ProofCommand /\ cmd[k].pc = "check" /\ L \in Seq(ListCoin)
        /\ i \in 1..Len(L) /\ L[i] \in ListCoin /\ L[i].status \in Funded
        /\ StatusAt(L[i].status, u) \in Funded
    BY DepositFound DEF ListInv
  <1>2. StatusAt(L[i].status, u) \in CoinStatus BY <1>1 DEF CoinStatus
  <1>3. /\ f \in ListCoin /\ f.status \in Funded /\ f.sid = L[i].sid /\ f.utxo = L[i].utxo
        /\ f.duplicate_index = L[i].duplicate_index
    <2>1. ASSUME NEW c \in ListCoin, NEW st \in CoinStatus
          PROVE  LET g == [c EXCEPT !.status = st]
                 IN /\ g \in ListCoin /\ g.status = st /\ g.sid = c.sid /\ g.utxo = c.utxo
                    /\ g.duplicate_index = c.duplicate_index
      BY DEF ListCoin
    <2> QED BY <1>1, <1>2, <2>1
  <1>4. cmd' = [cmd EXCEPT ![k].copy[i] = f, ![k].i = i + 1]
        /\ UNCHANGED <<wallet, rows, sigs, chain, shown, begun, stops, overlaps, cut>>
    BY DEF check_deposit
  <1> HIDE DEF f
  <1>5. cmd' = [cmd EXCEPT ![k] = q] BY <1>4 DEF Lists, Types
  <1>6. Len(A) = Len(L) /\ \A j \in 1..Len(L) : A[j] = IF j = i THEN f ELSE L[j]
    BY <1>1, <1>3, ExceptSeq
  <1>7. q.copy = A /\ q.pc = "check" /\ q.sid = cmd[k].sid /\ q.signed = cmd[k].signed
    <2> HIDE DEF A
    <2> QED BY <1>1 DEF ProofCommand
  <1>8. Len(L) \in Nat BY <1>1, LenProperties
  <1> HIDE DEF A, q, L
  <1>9. Turn(k) /\ cmd'[k] = q BY <1>5, TurnOf
  <1>10. GoesOnIn(L, A) /\ Plain(L, A)
    <2>1. ASSUME NEW j \in 1..Len(A)
          PROVE  /\ j <= Len(L) /\ A[j].sid = L[j].sid /\ A[j].utxo = L[j].utxo
                 /\ A[j].duplicate_index = L[j].duplicate_index
                 /\ A[j].status \in Funded <=> L[j].status \in Funded
                 /\ A[j].status = "INITIALISED" => L[j].status = "INITIALISED"
      <3>1. CASE j = i BY <1>1, <1>3, <1>6, <1>8, <3>1 DEF Funded
      <3>2. CASE j # i BY <1>6, <1>8, <3>2
      <3> QED BY <3>1, <3>2
    <2> QED BY <1>6, <1>8, <2>1 DEF GoesOnIn, Plain
  <1> QED BY <1>1, <1>4, <1>7, <1>9, <1>10 DEF Refreshes, L

LEMMA StoreShape ==
  ASSUME Lists, NEW k \in Commands, StoreBackup(k)
  PROVE  Stores(k)
PROOF
  <1> DEFINE q == [cmd[k] EXCEPT !.i = cmd[k].i + 1, !.pc = "check"]
  <1>1. cmd[k] \in ProofCommand BY DEF Lists, Types
  <1>2. cmd' = [cmd EXCEPT ![k] = q] BY DEF StoreBackup, Lists, Types
  <1>3. q.copy = cmd[k].copy /\ q.pc = "check" /\ q.sid = cmd[k].sid /\ q.signed = cmd[k].signed
    BY <1>1 DEF ProofCommand
  <1> HIDE DEF q
  <1>4. Turn(k) /\ cmd'[k] = q BY <1>2, TurnOf
  <1> QED BY <1>3, <1>4 DEF Stores, StoreBackup, insert_backup_txs

LEMMA SaveShape ==
  ASSUME Lists, NEW k \in Commands, SaveCoins(k)
  PROVE  Saves(k)
PROOF
  <1> DEFINE L == cmd[k].copy
             A(found) == L \o [m \in 1..Len(found) |-> Duplicate(L, found, m)]
  <1>1. /\ CommandInv(cmd[k], chain, Len(sigs), rows) /\ cmd[k].pc = "check"
        /\ Len(sigs) \in Nat /\ ChainType
    BY LenProperties DEF Lists, Types, SaveCoins, Reaches
  <1>2. ListInv(L, chain, Len(sigs)) /\ L \in Seq(ListCoin) /\ Len(L) \in Nat
    BY <1>1 DEF CommandInv, ListInv
  <1>3. PICK found \in Listings(Extra(L)) : wallet' = A(found) BY DEF SaveCoins
  <1>4. /\ ListInv(wallet', chain, Len(sigs)) /\ Len(wallet') >= Len(L)
        /\ \A i \in 1..Len(L) : wallet'[i] = L[i]
        /\ \A i \in 1..Len(wallet') : i > Len(L) => wallet'[i].status = "DUPLICATED"
    <2>1. LET B == L \o [m \in 1..Len(found) |-> Duplicate(L, found, m)]
          IN /\ ListInv(B, chain, Len(sigs)) /\ Len(B) >= Len(L)
             /\ \A i \in 1..Len(L) : B[i] = L[i]
             /\ \A i \in 1..Len(B) : i > Len(L) => B[i].status = "DUPLICATED"
      <3> HIDE DEF L
      <3> QED BY <1>1, <1>2, SaveKeepsList
    <2> QED BY <1>3, <2>1
  <1>5. Len(wallet') \in Nat BY <1>4, LenProperties DEF ListInv
  <1>6. GoesOnIn(L, wallet')
    <2> HIDE DEF L
    <2>1. Len(L) <= Len(wallet') BY <1>2, <1>4, <1>5
    <2>2. \A i \in 1..Len(wallet') : IF i <= Len(L) THEN wallet'[i] = L[i]
                                     ELSE wallet'[i].status = "DUPLICATED"
      BY <1>2, <1>4, <1>5
    <2> QED BY <2>1, <2>2 DEF GoesOnIn
  <1>7. Turn(k) /\ cmd'[k] = Idle BY TurnOf DEF SaveCoins
  <1> QED BY <1>1, <1>6, <1>7 DEF Saves, SaveCoins

LEMMA RestShape ==
  ASSUME Lists,
         \/ UNCHANGED vars
         \/ \E sid \in Sids, exact \in BOOLEAN : Pay(sid, exact)
         \/ \E u \in Utxos : Mine(u)
  PROVE  Rests
PROOF
  <1>0. chain \in Seq([sid : Nat, exact : BOOLEAN, depth : 0..2]) /\ Len(chain) \in Nat
        /\ DOMAIN chain = 1..Len(chain)
    BY LenProperties DEF Lists, Types, ChainType
  <1>00. MaxUtxos \in Nat /\ Sids \subseteq Nat BY BoundAssumption DEF Sids
  <1>1. CASE UNCHANGED vars
    BY <1>0, <1>00, <1>1 DEF vars, Rests
  <1>2. ASSUME NEW sid \in Sids, NEW exact \in BOOLEAN, Pay(sid, exact) PROVE Rests
    <2> DEFINE out == [sid |-> sid, exact |-> exact, depth |-> 0]
    <2>1. out \in [sid : Nat, exact : BOOLEAN, depth : 0..2] /\ out.sid \in Sids BY <1>00
    <2>2. chain' = Append(chain, out) /\ Len(chain) < MaxUtxos
          /\ UNCHANGED <<wallet, rows, cmd, sigs, shown, begun, stops, overlaps, cut>>
      BY <1>2 DEF Pay
    <2> HIDE DEF out
    <2>3. /\ Len(chain') = Len(chain) + 1 /\ chain'[Len(chain) + 1] = out
          /\ \A u \in 1..Len(chain) : chain'[u] = chain[u]
      BY <1>0, <2>1, <2>2, AppendProperties
    <2>4. \A u \in 1..Len(chain') : u \in 1..Len(chain) \/ u = Len(chain) + 1 BY <1>0, <2>3
    <2> QED BY <1>0, <1>00, <2>1, <2>2, <2>3, <2>4 DEF Rests
  <1>3. ASSUME NEW u \in Utxos, Mine(u) PROVE Rests
    <2>1. /\ u \in 1..Len(chain) /\ chain[u].depth < 2
          /\ chain' = [chain EXCEPT ![u].depth = @ + 1]
          /\ UNCHANGED <<wallet, rows, cmd, sigs, shown, begun, stops, overlaps, cut>>
      BY <1>0, <1>3 DEF Mine
    <2> DEFINE out == [chain[u] EXCEPT !.depth = @ + 1]
    <2>2. chain[u] \in [sid : Nat, exact : BOOLEAN, depth : 0..2] BY <1>0, <2>1, ElementOfSeq
    <2>3. out \in [sid : Nat, exact : BOOLEAN, depth : 0..2] /\ out.sid = chain[u].sid
      BY <2>1, <2>2
    <2>4. chain' = [chain EXCEPT ![u] = out] BY <2>1
    <2> HIDE DEF out
    <2>5. Len(chain') = Len(chain)
          /\ \A v \in 1..Len(chain) : chain'[v] = IF v = u THEN out ELSE chain[v]
      <3> DEFINE R == [sid : Nat, exact : BOOLEAN, depth : 0..2]
      <3>1. chain \in Seq(R) /\ out \in R /\ u \in 1..Len(chain) BY <1>0, <2>1, <2>3
      <3> HIDE DEF R
      <3> QED BY <2>4, <3>1, ExceptSeq
    <2>6. \A v \in 1..Len(chain) : chain'[v].sid = chain[v].sid BY <2>3, <2>5
    <2> QED BY <1>0, <1>00, <2>1, <2>5, <2>6 DEF Rests
  <1> QED BY <1>1, <1>2, <1>3

\* Every step is one of these.
LEMMA Shapes ==
  ASSUME Lists, [Next]_vars
  PROVE  \/ Rests
         \/ \E k \in Commands :
              \/ Begins(k) \/ Pushes(k) \/ Asks(k) \/ Names(k) \/ Shows(k) \/ Ends(k)
              \/ Refreshes(k) \/ Stores(k) \/ Saves(k)
              \/ \E i \in 1..Len(cmd[k].copy) : Signs(k, i)
PROOF
  <1> DEFINE S(k) ==
        \/ Begins(k) \/ Pushes(k) \/ Asks(k) \/ Names(k) \/ Shows(k) \/ Ends(k)
        \/ Refreshes(k) \/ Stores(k) \/ Saves(k)
        \/ \E i \in 1..Len(cmd[k].copy) : Signs(k, i)
  <1>1. ASSUME NEW k \in Commands, NewDeposit(k) \/ update_coins(k) PROVE S(k)
    BY <1>1, BeginShape
  <1>2. ASSUME NEW k \in Commands, Stop(k) PROVE S(k) BY <1>2, EndShape
  <1>3. ASSUME NEW k \in Commands, Work(k) PROVE S(k)
    <2>1. CASE PushCoin(k) BY <2>1, PushShape
    <2>2. CASE AskServer(k) BY <2>2, AskShape
    <2>3. CASE SaveStatechainId(k) BY <2>3, NameShape
    <2>4. CASE get_deposit_bitcoin_address(k) BY <2>4, ShowShape
    <2>5. ASSUME NEW i \in DOMAIN cmd[k].copy, NoAddress(k, i) PROVE S(k)
      BY <2>5, EndShape
    <2>6. ASSUME NEW i \in DOMAIN cmd[k].copy, NEW u \in DOMAIN chain, check_deposit(k, i, u)
          PROVE S(k)
      <3>1. CASE cmd[k].copy[i].status = "INITIALISED"
        <4>1. Signs(k, i) BY <2>6, <3>1, SignShape
        <4>2. i \in 1..Len(cmd[k].copy) BY <4>1 DEF Signs
        <4> QED BY <4>1, <4>2
      <3>2. CASE cmd[k].copy[i].status # "INITIALISED" BY <2>6, <3>2, RefreshShape
      <3> QED BY <3>1, <3>2
    <2>7. CASE StoreBackup(k) BY <2>7, StoreShape
    <2>8. CASE SaveCoins(k) BY <2>8, SaveShape
    <2> HIDE DEF S
    <2> QED BY <1>3, <2>1, <2>2, <2>3, <2>4, <2>5, <2>6, <2>7, <2>8 DEF Work
  <1> HIDE DEF S
  <1>4. ASSUME NEW k \in Commands, S(k) PROVE \E j \in Commands : S(j) BY <1>4
  <1>5. Rests \/ \E k \in Commands : S(k)
    BY <1>1, <1>2, <1>3, <1>4, RestShape DEF Next
  <1> QED BY <1>5 DEF S

-----------------------------------------------------------------------------
(* The numbers: statechains, duplicates, outputs *)

Pending(c) == {k \in Commands : c[k].pc \in {"push", "ask"}}

\* Every deposit command opens at most one statechain, and has counted itself
\* before it asks for one.
Bounds ==
  /\ begun \in Nat /\ begun <= MaxDeposits
  /\ IsFiniteSet(Pending(cmd)) /\ Len(sigs) + Cardinality(Pending(cmd)) <= begun
  /\ Len(chain) <= MaxUtxos /\ \A u \in 1..Len(chain) : chain[u].sid \in Sids
  /\ stops \in 0..MaxStops /\ overlaps \in 0..MaxOverlaps

\* The statechains and outputs anyone names are there.
Known ==
  /\ \A r \in 1..Len(rows) : rows[r].sid \in 1..Len(sigs) /\ rows[r].utxo \in 1..Len(chain)
  /\ shown \subseteq 1..Len(sigs) /\ cut \subseteq 1..Len(sigs)
  /\ \A k \in Commands : cmd[k].sid \in 0..Len(sigs) /\ cmd[k].signed \subseteq 1..Len(sigs)

\* No index is above the number of coins that hold an output.
HeldIdx(L) == {j \in 1..Len(L) : L[j].utxo # None}
Counted(L) == \A i \in 1..Len(L) : L[i].duplicate_index <= Cardinality(HeldIdx(L))
Counts == Counted(wallet) /\ \A k \in Commands : Counted(cmd[k].copy)

LEMMA FirstSize ==
  ASSUME NEW n \in Nat
  PROVE  IsFiniteSet(1..n) /\ Cardinality(1..n) = n
PROOF
  <1>1. IsFiniteSet(1..n) /\ Cardinality(1..n) = IF 1 > n THEN 0 ELSE n - 1 + 1
    BY FS_Interval
  <1> QED BY <1>1

LEMMA IntervalSize ==
  ASSUME NEW m \in Nat, NEW n \in Nat
  PROVE  IsFiniteSet((m + 1)..(m + n)) /\ Cardinality((m + 1)..(m + n)) = n
PROOF
  <1>1. m + 1 \in Int /\ m + n \in Int OBVIOUS
  <1>2. /\ IsFiniteSet((m + 1)..(m + n))
        /\ Cardinality((m + 1)..(m + n)) =
             IF m + 1 > m + n THEN 0 ELSE (m + n) - (m + 1) + 1
    BY <1>1, FS_Interval
  <1> QED BY <1>2

LEMMA HeldFinite ==
  ASSUME NEW L \in Seq(ListCoin)
  PROVE  IsFiniteSet(HeldIdx(L)) /\ Cardinality(HeldIdx(L)) \in Nat
PROOF
  <1>1. Len(L) \in Nat BY LenProperties
  <1>2. IsFiniteSet(1..Len(L)) BY <1>1, FS_Interval
  <1>3. HeldIdx(L) \in SUBSET (1..Len(L)) BY DEF HeldIdx
  <1>4. IsFiniteSet(HeldIdx(L)) BY <1>2, <1>3, FS_Subset
  <1> QED BY <1>4, FS_CardinalityType

\* The held outputs are different outputs of the chain.
LEMMA HeldBounded ==
  ASSUME NEW L, NEW ch, NEW n \in Nat, ListInv(L, ch, n), Len(ch) \in Nat
  PROVE  Cardinality(HeldIdx(L)) <= Len(ch)
PROOF
  <1> DEFINE f == [j \in HeldIdx(L) |-> L[j].utxo]
  <1>1. \A j \in HeldIdx(L) : L[j].utxo \in 1..Len(ch) BY DEF HeldIdx, ListInv, CoinInv
  <1>2. \A i, j \in HeldIdx(L) : L[i].utxo = L[j].utxo => i = j
    BY DEF HeldIdx, ListInv, Distinct
  <1>3. f \in Injection(HeldIdx(L), 1..Len(ch))
    BY <1>1, <1>2 DEF Injection, IsInjective
  <1>4. IsFiniteSet(1..Len(ch)) /\ Cardinality(1..Len(ch)) = Len(ch) BY FirstSize
  <1> HIDE DEF f
  <1>5. Cardinality(HeldIdx(L)) <= Cardinality(1..Len(ch)) BY <1>3, <1>4, FS_Injection
  <1> QED BY <1>4, <1>5

LEMMA CountedGrows ==
  ASSUME NEW L \in Seq(ListCoin), NEW A \in Seq(ListCoin), Counted(L),
         HeldIdx(L) \subseteq HeldIdx(A),
         \A i \in 1..Len(A) : \/ A[i].duplicate_index = 0
                              \/ i \in 1..Len(L) /\ A[i].duplicate_index = L[i].duplicate_index
  PROVE  Counted(A)
PROOF
  <1> DEFINE hl == Cardinality(HeldIdx(L))
             ha == Cardinality(HeldIdx(A))
  <1>1. hl \in Nat /\ ha \in Nat /\ IsFiniteSet(HeldIdx(A)) BY HeldFinite
  <1>2. hl <= ha BY <1>1, FS_Subset
  <1>3. ASSUME NEW i \in 1..Len(A) PROVE A[i].duplicate_index <= ha
    <2>1. CASE A[i].duplicate_index = 0 BY <1>1, <2>1
    <2>2. CASE i \in 1..Len(L) /\ A[i].duplicate_index = L[i].duplicate_index
      <3>1. L[i] \in ListCoin BY <2>2, ElementOfSeq
      <3>2. L[i].duplicate_index \in Nat BY <3>1 DEF ListCoin
      <3>3. L[i].duplicate_index <= hl BY <2>2 DEF Counted
      <3> HIDE DEF hl, ha
      <3> QED BY <1>1, <1>2, <2>2, <3>2, <3>3
    <2> QED BY <2>1, <2>2
  <1> QED BY <1>3 DEF Counted

LEMMA CountedGoesOn ==
  ASSUME NEW L \in Seq(ListCoin), NEW A \in Seq(ListCoin), Counted(L), GoesOnIn(L, A), Plain(L, A)
  PROVE  Counted(A)
PROOF
  <1>1. Len(L) \in Nat /\ Len(A) \in Nat BY LenProperties
  <1>2. HeldIdx(L) \subseteq HeldIdx(A) BY <1>1 DEF HeldIdx, GoesOnIn
  <1>3. \A i \in 1..Len(A) : \/ A[i].duplicate_index = 0
                             \/ i \in 1..Len(L) /\ A[i].duplicate_index = L[i].duplicate_index
    BY <1>1 DEF GoesOnIn, Plain
  <1> QED BY <1>2, <1>3, CountedGrows

\* Each extra output adds one coin that holds it, and at most one to the
\* highest index.
LEMMA SaveCounted ==
  ASSUME ChainType, NEW L, NEW n \in Nat, ListInv(L, chain, n), Counted(L),
         NEW found \in Listings(Extra(L))
  PROVE  Counted(L \o [m \in 1..Len(found) |-> Duplicate(L, found, m)])
PROOF
  <1> DEFINE N == Len(found)
             D == [m \in 1..N |-> Duplicate(L, found, m)]
             A == L \o D
             hl == Cardinality(HeldIdx(L))
             ha == Cardinality(HeldIdx(A))
  <1>1. L \in Seq(ListCoin) /\ Len(L) \in Nat /\ N \in Nat
    BY LenProperties, FoundAreNew DEF ListInv
  <1>2. /\ ListInv(A, chain, n) /\ Len(A) >= Len(L)
        /\ \A i \in 1..Len(L) : A[i] = L[i]
        /\ \A i \in 1..Len(A) : i > Len(L) => A[i].status = "DUPLICATED"
    BY SaveKeepsList
  <1>3. D \in Seq(Range(D)) /\ Len(D) = N
    BY <1>1 DEF Range
  <1>4. Len(A) = Len(L) + N /\ \A m \in 1..N : A[Len(L) + m] = Duplicate(L, found, m)
    <2>1. ASSUME NEW S, NEW s \in Seq(S), NEW T, NEW t \in Seq(T)
          PROVE  /\ Len(s \o t) = Len(s) + Len(t)
                 /\ \A m \in 1..Len(t) : (s \o t)[Len(s) + m] = t[m]
      OBVIOUS
    <2> HIDE DEF D
    <2>2. Len(L \o D) = Len(L) + Len(D) /\ \A m \in 1..Len(D) : (L \o D)[Len(L) + m] = D[m]
      BY <1>1, <1>3, <2>1, ZenonT(30), SMTT(20)
    <2>3. \A m \in 1..N : D[m] = Duplicate(L, found, m) BY DEF D
    <2> QED BY <1>3, <2>2, <2>3
  <1>5. A \in Seq(ListCoin) BY <1>2 DEF ListInv
  <1> HIDE DEF A, D
  <1>6. hl \in Nat /\ ha \in Nat /\ IsFiniteSet(HeldIdx(A)) /\ IsFiniteSet(HeldIdx(L))
    BY <1>1, <1>5, HeldFinite
  <1>7. hl + N <= ha
    <2> DEFINE T == (Len(L) + 1)..(Len(L) + N)
    <2>1. IsFiniteSet(T) /\ Cardinality(T) = N BY <1>1, IntervalSize
    <2>2. HeldIdx(L) \cap T = {} BY <1>1 DEF HeldIdx
    <2>3. HeldIdx(L) \subseteq HeldIdx(A) BY <1>1, <1>2, <1>4 DEF HeldIdx
    <2>4. T \subseteq HeldIdx(A)
      <3>1. ASSUME NEW i \in T PROVE i \in 1..Len(A) /\ A[i].utxo # None
        <4>1. i \in 1..Len(A) /\ i > Len(L) BY <1>1, <1>4
        <4> QED BY <1>2, <4>1 DEF ListInv, CoinInv
      <3> QED BY <3>1 DEF HeldIdx
    <2> HIDE DEF T
    <2>5. HeldIdx(L) \cup T \in SUBSET HeldIdx(A) BY <2>3, <2>4
    <2>6. Cardinality(HeldIdx(L) \cup T) = hl + N - Cardinality({})
      BY <1>6, <2>1, <2>2, FS_Union
    <2>7. Cardinality({}) = 0 BY FS_EmptySet
    <2>8. Cardinality(HeldIdx(L) \cup T) <= ha BY <1>6, <2>5, FS_Subset
    <2> HIDE DEF hl, ha
    <2> QED BY <1>1, <1>6, <2>6, <2>7, <2>8
  <1>8. ASSUME NEW m \in 1..N PROVE Duplicate(L, found, m).duplicate_index <= hl + N
    <2> DEFINE C == {r \in 1..m : chain[found[r]].sid = chain[found[m]].sid}
               X == MaxIndex(L, chain[found[m]].sid)
    <2>1. PICK i \in 1..Len(L) :
            /\ L[i].sid = chain[found[m]].sid
            /\ Duplicate(L, found, m) = DuplicateOf(L[i], L, found, m)
      BY <1>1, DuplicateIsCopy
    <2>2. L[i] \in ListCoin BY <1>1, ElementOfSeq
    <2>3. Duplicate(L, found, m).duplicate_index = X + Cardinality(C)
      <3> HIDE DEF X, C
      <3>1. ASSUME NEW c \in ListCoin, NEW a, NEW b
            PROVE  [c EXCEPT !.status = "DUPLICATED", !.utxo = a, !.duplicate_index = b].duplicate_index = b
        BY DEF ListCoin
      <3> QED BY <2>1, <2>2, <3>1 DEF DuplicateOf, X, C
    <2>4. X \in Nat /\ \E j \in 1..Len(L) : L[j].duplicate_index = X
      BY <1>1, <2>1, MaxIndexIsHighest
    <2>5. X <= hl BY <2>4 DEF Counted
    <2>6. Cardinality(C) \in Nat /\ Cardinality(C) <= m
      <3>1. m \in Nat /\ C \in SUBSET (1..m) BY <1>1
      <3>2. IsFiniteSet(1..m) /\ Cardinality(1..m) = m BY <1>1, FirstSize
      <3> HIDE DEF C
      <3>3. IsFiniteSet(C) /\ Cardinality(C) <= Cardinality(1..m) BY <3>1, <3>2, FS_Subset
      <3> QED BY <3>2, <3>3, FS_CardinalityType
    <2> HIDE DEF C, X, hl
    <2> QED BY <1>1, <1>6, <2>3, <2>4, <2>5, <2>6
  <1>9. ASSUME NEW i \in 1..Len(A) PROVE A[i].duplicate_index <= ha
    <2>0. A[i] \in ListCoin BY <1>5, ElementOfSeq
    <2>1. A[i].duplicate_index \in Nat BY <2>0 DEF ListCoin
    <2>2. A[i].duplicate_index <= hl + N
      <3>1. CASE i <= Len(L)
        <4>1. i \in 1..Len(L) BY <1>1, <1>4, <3>1
        <4>2. A[i].duplicate_index <= hl BY <1>2, <4>1 DEF Counted
        <4> HIDE DEF hl
        <4> QED BY <1>1, <1>6, <2>1, <4>2
      <3>2. CASE i > Len(L)
        <4>1. i - Len(L) \in 1..N /\ Len(L) + (i - Len(L)) = i BY <1>1, <1>4, <3>2
        <4>2. A[i] = Duplicate(L, found, i - Len(L)) BY <1>4, <4>1
        <4> QED BY <1>8, <4>1, <4>2
      <3> QED BY <1>1, <1>4, <3>1, <3>2
    <2> HIDE DEF hl, ha
    <2> QED BY <1>1, <1>6, <1>7, <2>1, <2>2
  <1> QED BY <1>9 DEF Counted, A, D

-----------------------------------------------------------------------------
(* The numbers, under every step *)

LEMMA NumbersInit == Init => Bounds /\ Known /\ Counts
PROOF
  <1> SUFFICES ASSUME Init PROVE Bounds /\ Known /\ Counts OBVIOUS
  <1>1. /\ wallet = <<>> /\ rows = <<>> /\ sigs = <<>> /\ chain = <<>>
        /\ cmd = [k \in Commands |-> Idle]
        /\ shown = {} /\ begun = 0 /\ stops = 0 /\ overlaps = 0 /\ cut = {}
    BY DEF Init
  <1>2. {MaxDeposits, MaxUtxos, MaxSigs, MaxStops, MaxOverlaps} \subseteq Nat
    BY BoundAssumption
  <1>3. Bounds
    <2>1. Pending(cmd) = {} BY <1>1 DEF Pending, Idle
    <2>2. IsFiniteSet({}) /\ Cardinality({}) = 0 BY FS_EmptySet
    <2>3. /\ Len(sigs) = 0 /\ Len(chain) = 0 /\ \A u \in 1..Len(chain) : FALSE
          /\ IsFiniteSet(Pending(cmd)) /\ Cardinality(Pending(cmd)) = 0
      <3>1. Len(sigs) = 0 /\ Len(chain) = 0 BY <1>1
      <3> QED BY <2>1, <2>2, <3>1
    <2>4. /\ begun <= MaxDeposits /\ Len(sigs) + Cardinality(Pending(cmd)) <= begun
          /\ begun \in Nat /\ Len(chain) <= MaxUtxos
          /\ stops \in 0..MaxStops /\ overlaps \in 0..MaxOverlaps
      BY <1>1, <1>2, <2>3
    <2> QED BY <2>3, <2>4 DEF Bounds
  <1>4. Known BY <1>1 DEF Known, Idle, None
  <1>5. Counts BY <1>1 DEF Counts, Counted, Idle
  <1> QED BY <1>3, <1>4, <1>5

LEMMA Naturals0 ==
  ASSUME Lists
  PROVE  /\ Len(sigs) \in Nat /\ Len(chain) \in Nat /\ Len(rows) \in Nat
         /\ MaxDeposits \in Nat /\ MaxUtxos \in Nat /\ MaxStops \in Nat /\ MaxOverlaps \in Nat
PROOF
  BY LenProperties, BoundAssumption DEF Lists, Types, ChainType

LEMMA SignLength ==
  ASSUME Lists, NEW k \in Commands, NEW i, Signs(k, i)
  PROVE  /\ Len(sigs') = Len(sigs)
         /\ \A s \in 1..Len(sigs) :
              sigs'[s] = IF s = cmd[k].copy[i].sid THEN sigs[s] + 1 ELSE sigs[s]
PROOF
  <1> DEFINE s == cmd[k].copy[i].sid
  <1>1. s \in 1..Len(sigs) /\ sigs' = [sigs EXCEPT ![s] = @ + 1] BY DEF Signs
  <1>2. sigs \in Seq(Nat) BY DEF Lists, Types
  <1>3. sigs[s] + 1 \in Nat
    <2>1. sigs[s] \in Nat BY <1>1, <1>2, ElementOfSeq
    <2> QED BY <2>1
  <1> HIDE DEF s
  <1>4. /\ Len(sigs') = Len(sigs)
        /\ \A j \in 1..Len(sigs) : sigs'[j] = IF j = s THEN sigs[s] + 1 ELSE sigs[j]
    BY <1>1, <1>2, <1>3, ExceptSeq
  <1> QED BY <1>4 DEF s

LEMMA BoundsStep == Lists /\ Bounds /\ [Next]_vars => Bounds'
PROOF
  <1> SUFFICES ASSUME Lists, Bounds, [Next]_vars PROVE Bounds' OBVIOUS
  <1> DEFINE P == Pending(cmd)
             n == Len(sigs)
  <1>0. /\ n \in Nat /\ Len(chain) \in Nat
        /\ MaxDeposits \in Nat /\ MaxUtxos \in Nat /\ MaxStops \in Nat /\ MaxOverlaps \in Nat
    BY Naturals0
  <1>1. /\ begun \in Nat /\ begun <= MaxDeposits
        /\ IsFiniteSet(P) /\ n + Cardinality(P) <= begun
        /\ Len(chain) <= MaxUtxos /\ \A u \in 1..Len(chain) : chain[u].sid \in Sids
        /\ stops \in 0..MaxStops /\ overlaps \in 0..MaxOverlaps
    BY DEF Bounds
  <1>2. Cardinality(P) \in Nat BY <1>1, FS_CardinalityType
  <1>3. ASSUME NEW k \in Commands, Turn(k),
               cmd'[k].pc \in {"push", "ask"} => cmd[k].pc \in {"push", "ask"},
               Len(sigs') = n, UNCHANGED <<chain, begun, overlaps>>, stops' \in 0..MaxStops
        PROVE  Bounds'
    <2>1. Pending(cmd') \in SUBSET P BY <1>3 DEF Turn, Pending
    <2> HIDE DEF P
    <2>2. IsFiniteSet(Pending(cmd')) /\ Cardinality(Pending(cmd')) <= Cardinality(P)
      BY <1>1, <2>1, FS_Subset
    <2>3. Cardinality(Pending(cmd')) \in Nat BY <2>2, FS_CardinalityType
    <2>4. n + Cardinality(Pending(cmd')) <= begun BY <1>0, <1>1, <1>2, <2>2, <2>3
    <2> QED BY <1>1, <1>3, <2>2, <2>4 DEF Bounds
  <1>4. CASE Rests
    <2>1. UNCHANGED <<sigs, cmd, begun, stops, overlaps>> BY <1>4 DEF Rests
    <2>2. Len(chain') <= MaxUtxos /\ \A u \in 1..Len(chain') : chain'[u].sid \in Sids
      BY <1>1, <1>4 DEF Rests
    <2> QED BY <1>1, <2>1, <2>2 DEF Bounds
  <1>5. ASSUME NEW k \in Commands, Begins(k) PROVE Bounds'
    <2>1. /\ Turn(k) /\ cmd[k].pc = "idle" /\ cmd'[k].pc \in {"push", "check"}
          /\ UNCHANGED <<sigs, chain, stops>>
          /\ Alone(k) \/ overlaps < MaxOverlaps
          /\ overlaps' = IF Alone(k) THEN overlaps ELSE overlaps + 1
          /\ IF cmd'[k].pc = "push" THEN begun < MaxDeposits /\ begun' = begun + 1
             ELSE UNCHANGED begun
      BY <1>5 DEF Begins
    <2>2. overlaps' \in 0..MaxOverlaps BY <1>0, <1>1, <2>1
    <2>3. CASE cmd'[k].pc = "push"
      <3>1. Pending(cmd') = P \cup {k} BY <2>1, <2>3 DEF Turn, Pending
      <3>2. k \notin P BY <2>1 DEF Pending
      <3> HIDE DEF P
      <3>3. IsFiniteSet(P \cup {k}) /\ Cardinality(P \cup {k}) = Cardinality(P) + 1
        BY <1>1, <3>2, FS_AddElement
      <3>4. begun' = begun + 1 /\ begun < MaxDeposits BY <2>1, <2>3
      <3>5. begun' \in Nat /\ begun' <= MaxDeposits /\ n + (Cardinality(P) + 1) <= begun'
        BY <1>0, <1>1, <1>2, <3>4
      <3> QED BY <1>1, <2>1, <2>2, <3>1, <3>3, <3>5 DEF Bounds
    <2>4. CASE cmd'[k].pc # "push"
      <3>1. Pending(cmd') = P BY <2>1, <2>4 DEF Turn, Pending
      <3>2. UNCHANGED begun BY <2>1, <2>4
      <3> HIDE DEF P
      <3> QED BY <1>1, <2>1, <2>2, <3>1, <3>2 DEF Bounds
    <2> QED BY <2>3, <2>4
  <1>6. ASSUME NEW k \in Commands, Asks(k) PROVE Bounds'
    <2>1. /\ Turn(k) /\ cmd[k].pc = "ask" /\ cmd'[k].pc = "answered" /\ sigs' = Append(sigs, 0)
          /\ UNCHANGED <<chain, begun, stops, overlaps>>
      BY <1>6 DEF Asks
    <2>2. Len(sigs') = n + 1
      <3>1. sigs \in Seq(Nat) BY DEF Lists, Types
      <3> QED BY <2>1, <3>1, AppendProperties
    <2>3. Pending(cmd') = P \ {k} /\ k \in P BY <2>1 DEF Turn, Pending
    <2> HIDE DEF P
    <2>4. IsFiniteSet(P \ {k}) /\ Cardinality(P \ {k}) = Cardinality(P) - 1
      BY <1>1, <2>3, FS_RemoveElement
    <2>5. (n + 1) + (Cardinality(P) - 1) <= begun BY <1>0, <1>1, <1>2
    <2> QED BY <1>1, <2>1, <2>2, <2>3, <2>4, <2>5 DEF Bounds
  <1>7. ASSUME NEW k \in Commands, Pushes(k) \/ Names(k) \/ Shows(k) \/ Refreshes(k)
                                     \/ Stores(k) \/ Saves(k)
        PROVE  Bounds'
    <2>1. /\ Turn(k)
          /\ cmd'[k].pc \in {"push", "ask"} => cmd[k].pc \in {"push", "ask"}
          /\ UNCHANGED <<sigs, chain, begun, stops, overlaps>>
      <3>1. CASE Pushes(k) BY <3>1 DEF Pushes
      <3>2. CASE Names(k) BY <3>2 DEF Names
      <3>3. CASE Shows(k) BY <3>3 DEF Shows, Idle
      <3>4. CASE Refreshes(k) BY <3>4 DEF Refreshes
      <3>5. CASE Stores(k) BY <3>5 DEF Stores
      <3>6. CASE Saves(k) BY <3>6 DEF Saves, Idle
      <3> QED BY <1>7, <3>1, <3>2, <3>3, <3>4, <3>5, <3>6
    <2>2. Len(sigs') = n /\ stops' \in 0..MaxStops BY <1>1, <2>1
    <2> QED BY <1>3, <2>1, <2>2
  <1>8. ASSUME NEW k \in Commands, Ends(k) PROVE Bounds'
    <2>1. /\ Turn(k) /\ cmd'[k].pc = "idle" /\ UNCHANGED <<sigs, chain, begun, overlaps>>
          /\ stops' = stops \/ (stops < MaxStops /\ stops' = stops + 1)
      BY <1>8 DEF Ends, Idle
    <2>2. stops' \in 0..MaxStops BY <1>0, <1>1, <2>1
    <2> QED BY <1>3, <2>1, <2>2
  <1>9. ASSUME NEW k \in Commands, NEW i, Signs(k, i) PROVE Bounds'
    <2>1. Turn(k) /\ cmd'[k].pc = "row" /\ UNCHANGED <<chain, begun, stops, overlaps>>
      BY <1>9 DEF Signs
    <2>2. Len(sigs') = n BY <1>9, SignLength
    <2> QED BY <1>1, <1>3, <2>1, <2>2
  <1> QED BY <1>4, <1>5, <1>6, <1>7, <1>8, <1>9, Shapes

LEMMA KnownStep == Lists /\ Known /\ [Next]_vars => Known'
PROOF
  <1> SUFFICES ASSUME Lists, Known, [Next]_vars PROVE Known' OBVIOUS
  <1>0. Len(sigs) \in Nat /\ Len(chain) \in Nat /\ Len(rows) \in Nat BY Naturals0
  <1>1. ASSUME Len(sigs') \in Nat, Len(sigs) <= Len(sigs'), Len(chain') \in Nat,
               Len(chain) <= Len(chain'), UNCHANGED rows,
               shown' \subseteq 1..Len(sigs'), cut' \subseteq 1..Len(sigs'),
               NEW k \in Commands, Turn(k),
               cmd'[k].sid \in 0..Len(sigs'), cmd'[k].signed \subseteq 1..Len(sigs')
        PROVE  Known'
    <2>1. 1..Len(sigs) \subseteq 1..Len(sigs') /\ 0..Len(sigs) \subseteq 0..Len(sigs')
          /\ 1..Len(chain) \subseteq 1..Len(chain')
      BY <1>0, <1>1
    <2>2. \A j \in Commands : cmd'[j].sid \in 0..Len(sigs') /\ cmd'[j].signed \subseteq 1..Len(sigs')
      BY <1>1, <2>1 DEF Known, Turn
    <2>3. \A r \in 1..Len(rows) : rows[r].sid \in 1..Len(sigs') /\ rows[r].utxo \in 1..Len(chain')
      BY <2>1 DEF Known
    <2> QED BY <1>1, <2>2, <2>3 DEF Known
  <1>2. ASSUME NEW k \in Commands
        PROVE  /\ cmd[k].sid \in 0..Len(sigs) /\ cmd[k].signed \subseteq 1..Len(sigs)
               /\ shown \subseteq 1..Len(sigs) /\ cut \subseteq 1..Len(sigs)
    BY DEF Known
  <1>3. CASE Rests
    <2>1. UNCHANGED <<sigs, cmd, rows, shown, cut>> /\ Len(chain) <= Len(chain')
      BY <1>3 DEF Rests
    <2>2. Len(chain') \in Nat
      <3>1. Lists' BY ListsStep
      <3>2. ChainType' BY <3>1 DEF Lists, Types
      <3> QED BY <3>2, LenProperties DEF ChainType
    <2>3. 1..Len(chain) \subseteq 1..Len(chain') BY <1>0, <2>1, <2>2
    <2> QED BY <2>1, <2>3 DEF Known
  <1>4. ASSUME NEW k \in Commands, Begins(k) PROVE Known'
    <2>1. Turn(k) /\ cmd'[k].sid = 0 /\ cmd'[k].signed = {}
          /\ UNCHANGED <<sigs, chain, rows, shown, cut>>
      BY <1>4 DEF Begins, None
    <2> QED BY <1>0, <1>1, <1>2, <2>1
  <1>5. ASSUME NEW k \in Commands, Pushes(k) \/ Names(k) \/ Refreshes(k) PROVE Known'
    <2>1. Turn(k) /\ cmd'[k].sid = cmd[k].sid /\ cmd'[k].signed = cmd[k].signed
          /\ UNCHANGED <<sigs, chain, rows, shown, cut>>
      BY <1>5 DEF Pushes, Names, Refreshes
    <2> QED BY <1>0, <1>1, <1>2, <2>1
  <1>6. ASSUME NEW k \in Commands, Asks(k) PROVE Known'
    <2>1. /\ Turn(k) /\ cmd'[k].sid = Len(sigs) + 1 /\ cmd'[k].signed = cmd[k].signed
          /\ sigs' = Append(sigs, 0) /\ UNCHANGED <<chain, rows, shown, cut>>
      BY <1>6 DEF Asks
    <2>2. Len(sigs') = Len(sigs) + 1
      <3>1. sigs \in Seq(Nat) BY DEF Lists, Types
      <3> QED BY <2>1, <3>1, AppendProperties
    <2>3. /\ Len(sigs') \in Nat /\ Len(sigs) <= Len(sigs') /\ cmd'[k].sid \in 0..Len(sigs')
          /\ 1..Len(sigs) \subseteq 1..Len(sigs')
      BY <1>0, <2>1, <2>2
    <2>4. shown' \subseteq 1..Len(sigs') /\ cut' \subseteq 1..Len(sigs')
          /\ cmd'[k].signed \subseteq 1..Len(sigs')
      BY <1>2, <2>1, <2>3
    <2> QED BY <1>0, <1>1, <2>1, <2>3, <2>4
  <1>7. ASSUME NEW k \in Commands, Shows(k) \/ Saves(k) \/ Ends(k) PROVE Known'
    <2>1. /\ Turn(k) /\ cmd'[k].sid = 0 /\ cmd'[k].signed = {}
          /\ UNCHANGED <<sigs, chain, rows>>
      BY <1>7 DEF Shows, Saves, Ends, Idle, None
    <2>2. shown' \subseteq shown \cup {cmd[k].sid} /\ (shown' = shown \/ cmd[k].pc = "address")
          /\ cut' \subseteq cut \cup cmd[k].signed
      BY <1>7 DEF Shows, Saves, Ends
    <2>3. cmd[k].pc = "address" => cmd[k].sid \in 1..Len(sigs)
      <3>1. CommandInv(cmd[k], chain, Len(sigs), rows) BY DEF Lists
      <3>2. cmd[k].pc = "address" => cmd[k].sid # 0 BY <3>1 DEF CommandInv, Copies, None
      <3> QED BY <1>0, <1>2, <3>2
    <2>4. shown' \subseteq 1..Len(sigs') /\ cut' \subseteq 1..Len(sigs')
      BY <1>2, <2>1, <2>2, <2>3
    <2> QED BY <1>0, <1>1, <2>1, <2>4
  <1>8. ASSUME NEW k \in Commands, NEW i, Signs(k, i) PROVE Known'
    <2>1. /\ Turn(k) /\ cmd'[k].sid = cmd[k].sid
          /\ cmd'[k].signed = cmd[k].signed \cup {cmd[k].copy[i].sid}
          /\ cmd[k].copy[i].sid \in 1..Len(sigs)
          /\ UNCHANGED <<chain, rows, shown, cut>>
      BY <1>8 DEF Signs
    <2>2. Len(sigs') = Len(sigs) BY <1>8, SignLength
    <2>3. cmd'[k].signed \subseteq 1..Len(sigs) BY <1>2, <2>1
    <2> QED BY <1>0, <1>1, <1>2, <2>1, <2>2, <2>3
  <1>9. ASSUME NEW k \in Commands, Stores(k) PROVE Known'
    <2> DEFINE c == cmd[k].copy[cmd[k].i]
               row == [sid |-> c.sid, utxo |-> c.utxo]
    <2>1. /\ Turn(k) /\ cmd'[k].sid = cmd[k].sid /\ cmd'[k].signed = cmd[k].signed
          /\ rows' = Append(rows, row) /\ cmd[k].pc = "row"
          /\ UNCHANGED <<sigs, chain, shown, cut>>
      BY <1>9 DEF Stores
    <2>2. CommandInv(cmd[k], chain, Len(sigs), rows) BY DEF Lists
    <2>3. /\ cmd[k].i \in 1..Len(cmd[k].copy) /\ c.status \in Funded
          /\ cmd[k].copy \in Seq(ListCoin)
      BY <2>1, <2>2 DEF CommandInv, Copies, ListInv
    <2>4. c \in ListCoin /\ CoinInv(c, chain, Len(sigs))
      BY <2>2, <2>3, ElementOfSeq DEF CommandInv, ListInv
    <2>5. c.sid \in 1..Len(sigs) /\ c.utxo \in 1..Len(chain)
      <3>1. c.sid \in Nat /\ c.utxo \in Nat BY <2>4 DEF ListCoin
      <3> HIDE DEF c
      <3> QED BY <1>0, <2>3, <2>4, <3>1 DEF CoinInv, None
    <2>6. row \in [sid : Nat, utxo : Nat] BY <2>4 DEF ListCoin
    <2>7. row.sid \in 1..Len(sigs) /\ row.utxo \in 1..Len(chain) BY <2>5
    <2> HIDE DEF row, c
    <2>8. /\ Len(rows') = Len(rows) + 1 /\ rows'[Len(rows) + 1] = row
          /\ \A r \in 1..Len(rows) : rows'[r] = rows[r]
      <3>1. rows \in Seq([sid : Nat, utxo : Nat]) BY DEF Lists, Types
      <3> QED BY <2>1, <2>6, <3>1, AppendProperties
    <2>9. \A r \in 1..Len(rows') : r \in 1..Len(rows) \/ r = Len(rows) + 1 BY <1>0, <2>8
    <2>10. \A r \in 1..Len(rows') : rows'[r].sid \in 1..Len(sigs) /\ rows'[r].utxo \in 1..Len(chain)
      BY <2>7, <2>8, <2>9 DEF Known
    <2>11. \A j \in Commands : cmd'[j].sid \in 0..Len(sigs) /\ cmd'[j].signed \subseteq 1..Len(sigs)
      BY <1>2, <2>1 DEF Turn
    <2> QED BY <1>2, <2>1, <2>10, <2>11 DEF Known
  <1> QED BY <1>3, <1>4, <1>5, <1>6, <1>7, <1>8, <1>9, Shapes

LEMMA CountsStep == Lists /\ Counts /\ [Next]_vars => Counts'
PROOF
  <1> SUFFICES ASSUME Lists, Counts, [Next]_vars PROVE Counts' OBVIOUS
  <1>0. Lists' BY ListsStep
  <1>1. /\ wallet \in Seq(ListCoin) /\ wallet' \in Seq(ListCoin)
        /\ \A k \in Commands : cmd[k].copy \in Seq(ListCoin) /\ cmd'[k].copy \in Seq(ListCoin)
    BY <1>0 DEF Lists, CommandInv, ListInv
  <1>2. Counted(wallet) /\ \A k \in Commands : Counted(cmd[k].copy) BY DEF Counts
  <1>3. ASSUME NEW k \in Commands, Turn(k), Counted(wallet'), Counted(cmd'[k].copy)
        PROVE  Counts'
    BY <1>2, <1>3 DEF Counts, Turn
  <1>4. Counted(Idle.copy) BY DEF Idle, Counted
  <1>5. CASE Rests BY <1>2, <1>5 DEF Rests, Counts
  <1>6. ASSUME NEW k \in Commands, Begins(k) PROVE Counts'
    BY <1>2, <1>3, <1>6 DEF Begins
  <1>7. ASSUME NEW k \in Commands, Pushes(k) PROVE Counts'
    <2>1. Turn(k) /\ cmd'[k].copy = wallet' /\ GoesOnIn(cmd[k].copy, wallet')
          /\ Plain(cmd[k].copy, wallet')
      BY <1>7 DEF Pushes
    <2>2. Counted(wallet') BY <1>1, <1>2, <2>1, CountedGoesOn
    <2> QED BY <1>3, <2>1, <2>2
  <1>8. ASSUME NEW k \in Commands, Asks(k) \/ Stores(k) PROVE Counts'
    BY <1>2, <1>3, <1>8 DEF Asks, Stores
  <1>9. ASSUME NEW k \in Commands, Names(k) PROVE Counts'
    <2> DEFINE L == cmd[k].copy
               A == wallet'
    <2>1. /\ Turn(k) /\ cmd[k].pc = "answered" /\ cmd'[k].copy = A
          /\ Len(A) = Len(L) /\ \A i \in 1..Len(L) : i # Len(L) => A[i] = L[i]
          /\ A[Len(L)] = [L[Len(L)] EXCEPT !.sid = cmd[k].sid]
      BY <1>9 DEF Names
    <2>2. L \in Seq(ListCoin) /\ A \in Seq(ListCoin) /\ Counted(L) BY <1>1, <1>2
    <2>3. Len(L) \in 1..Len(L)
      <3>1. CommandInv(cmd[k], chain, Len(sigs), rows) BY DEF Lists
      <3>2. Len(L) # 0 BY <2>1, <3>1 DEF CommandInv, Copies
      <3>3. Len(L) \in Nat BY <2>2, LenProperties
      <3> QED BY <3>2, <3>3
    <2>4. L[Len(L)] \in ListCoin BY <2>2, <2>3, ElementOfSeq
    <2> HIDE DEF L, A
    <2>5. \A i \in 1..Len(L) :
            A[i].utxo = L[i].utxo /\ A[i].duplicate_index = L[i].duplicate_index
      BY <2>1, <2>4 DEF ListCoin
    <2>6. HeldIdx(L) \subseteq HeldIdx(A) BY <2>1, <2>5 DEF HeldIdx
    <2>7. Counted(A) BY <2>1, <2>2, <2>5, <2>6, CountedGrows
    <2> QED BY <1>3, <2>1, <2>7 DEF A
  <1>10. ASSUME NEW k \in Commands, Shows(k) PROVE Counts'
    <2>1. Turn(k) /\ cmd'[k] = Idle /\ GoesOnIn(cmd[k].copy, wallet')
          /\ Plain(cmd[k].copy, wallet')
      BY <1>10 DEF Shows
    <2>2. Counted(wallet') BY <1>1, <1>2, <2>1, CountedGoesOn
    <2> QED BY <1>3, <1>4, <2>1, <2>2
  <1>11. ASSUME NEW k \in Commands, Ends(k) PROVE Counts'
    BY <1>2, <1>3, <1>4, <1>11 DEF Ends
  <1>12. ASSUME NEW k \in Commands, NEW i, Signs(k, i) PROVE Counts'
    <2> DEFINE L == cmd[k].copy
               A == cmd'[k].copy
    <2>1. /\ Turn(k) /\ UNCHANGED wallet /\ i \in 1..Len(L)
          /\ Len(A) = Len(L) /\ \A j \in 1..Len(L) : j # i => A[j] = L[j]
          /\ A[i].duplicate_index = L[i].duplicate_index /\ A[i].utxo # None
      BY <1>12 DEF Signs
    <2>2. L \in Seq(ListCoin) /\ A \in Seq(ListCoin) /\ Counted(L) BY <1>1, <1>2
    <2> HIDE DEF L, A
    <2>3. HeldIdx(L) \subseteq HeldIdx(A) BY <2>1 DEF HeldIdx
    <2>4. \A j \in 1..Len(A) : j \in 1..Len(L) /\ A[j].duplicate_index = L[j].duplicate_index
      BY <2>1
    <2>5. Counted(A) BY <2>2, <2>3, <2>4, CountedGrows
    <2> QED BY <1>2, <1>3, <2>1, <2>5 DEF A
  <1>13. ASSUME NEW k \in Commands, Refreshes(k) PROVE Counts'
    <2>1. Turn(k) /\ UNCHANGED wallet /\ GoesOnIn(cmd[k].copy, cmd'[k].copy)
          /\ Plain(cmd[k].copy, cmd'[k].copy)
      BY <1>13 DEF Refreshes
    <2>2. Counted(cmd'[k].copy) BY <1>1, <1>2, <2>1, CountedGoesOn
    <2> QED BY <1>2, <1>3, <2>1, <2>2
  <1>14. ASSUME NEW k \in Commands, Saves(k) PROVE Counts'
    <2> DEFINE L == cmd[k].copy
    <2>1. Turn(k) /\ cmd'[k] = Idle BY <1>14 DEF Saves
    <2>2. PICK found \in Listings(Extra(L)) :
            wallet' = L \o [n \in 1..Len(found) |-> Duplicate(L, found, n)]
      BY <1>14 DEF Saves
    <2>3. ListInv(L, chain, Len(sigs)) /\ ChainType /\ Len(sigs) \in Nat
      BY LenProperties DEF Lists, Types, CommandInv
    <2>4. Counted(L) BY <1>2
    <2> HIDE DEF L
    <2>5. Counted(wallet') BY <2>2, <2>3, <2>4, SaveCounted
    <2> QED BY <1>3, <1>4, <2>1, <2>5
  <1> QED BY <1>5, <1>6, <1>7, <1>8, <1>9, <1>10, <1>11, <1>12, <1>13, <1>14, Shapes

LEMMA CoinsInRange ==
  ASSUME NEW L, NEW n \in Nat, n <= MaxDeposits, ChainType, Len(chain) <= MaxUtxos,
         ListInv(L, chain, n), Counted(L)
  PROVE  L \in Seq(Coin)
PROOF
  <1>1. L \in Seq(ListCoin) BY DEF ListInv
  <1>2. MaxDeposits \in Nat /\ MaxUtxos \in Nat /\ Len(chain) \in Nat
    BY BoundAssumption, LenProperties DEF ChainType
  <1>3. Cardinality(HeldIdx(L)) \in Nat /\ Cardinality(HeldIdx(L)) <= Len(chain)
    BY <1>1, <1>2, HeldFinite, HeldBounded
  <1>4. ASSUME NEW i \in 1..Len(L) PROVE L[i] \in Coin
    <2>1. L[i] \in ListCoin /\ CoinInv(L[i], chain, n) BY <1>1, ElementOfSeq DEF ListInv
    <2>2. L[i].sid \in Nat /\ L[i].utxo \in Nat /\ L[i].duplicate_index \in Nat
      BY <2>1 DEF ListCoin
    <2>3. L[i].sid \in Sids \cup {None} BY <1>2, <2>1, <2>2 DEF CoinInv, Sids, None
    <2>4. L[i].utxo \in Utxos \cup {None} BY <1>2, <2>1, <2>2 DEF CoinInv, Utxos, None
    <2>5. L[i].duplicate_index \in 0..MaxUtxos
      <3>1. L[i].duplicate_index <= Cardinality(HeldIdx(L)) BY DEF Counted
      <3> QED BY <1>2, <1>3, <2>2, <3>1
    <2> QED BY <2>1, <2>3, <2>4, <2>5 DEF ListCoin, Coin
  <1>5. L \in [1..Len(L) -> Coin] /\ Len(L) \in Nat
    BY <1>1, <1>4, LenProperties
  <1> QED BY <1>5, SeqDef

LEMMA TypesHold ==
  ASSUME Lists, Bounds, Known, Counts
  PROVE  TypeOK
PROOF
  <1> DEFINE n == Len(sigs)
  <1>0. n \in Nat /\ Len(chain) \in Nat /\ Len(rows) \in Nat /\ MaxDeposits \in Nat /\ MaxUtxos \in Nat
    BY Naturals0
  <1>1. /\ begun \in Nat /\ begun <= MaxDeposits
        /\ IsFiniteSet(Pending(cmd)) /\ n + Cardinality(Pending(cmd)) <= begun
        /\ Len(chain) <= MaxUtxos /\ \A u \in 1..Len(chain) : chain[u].sid \in Sids
        /\ stops \in 0..MaxStops /\ overlaps \in 0..MaxOverlaps
    BY DEF Bounds
  <1>2. n <= begun /\ n <= MaxDeposits
    <2>1. Cardinality(Pending(cmd)) \in Nat BY <1>1, FS_CardinalityType
    <2> QED BY <1>0, <1>1, <2>1
  <1>3. 1..n \subseteq Sids /\ 1..Len(chain) \subseteq Utxos BY <1>0, <1>1, <1>2 DEF Sids, Utxos
  <1>4. sigs \in Seq(Nat) /\ ChainType /\ rows \in Seq([sid : Nat, utxo : Nat])
    BY DEF Lists, Types
  <1>5. wallet \in Seq(Coin)
    <2>1. ListInv(wallet, chain, n) /\ Counted(wallet) BY DEF Lists, Counts
    <2> HIDE DEF n
    <2> QED BY <1>0, <1>1, <1>2, <1>4, <2>1, CoinsInRange
  <1>6. ASSUME NEW k \in Commands PROVE cmd[k] \in Command
    <2>1. CommandInv(cmd[k], chain, n, rows) /\ Counted(cmd[k].copy) BY DEF Lists, Counts
    <2>2. cmd[k] \in ProofCommand /\ ListInv(cmd[k].copy, chain, n) BY <2>1 DEF CommandInv
    <2>3. cmd[k].copy \in Seq(Coin)
      <3> HIDE DEF n
      <3> QED BY <1>0, <1>1, <1>2, <1>4, <2>1, <2>2, CoinsInRange
    <2>4. cmd[k].sid \in 0..n /\ cmd[k].signed \subseteq 1..n BY DEF Known
    <2>5. cmd[k].sid \in Sids \cup {None} /\ cmd[k].signed \in SUBSET Sids
      BY <1>0, <1>3, <2>4 DEF None
    <2> QED BY <2>2, <2>3, <2>5 DEF ProofCommand, Command
  <1>7. cmd \in [Commands -> Command] BY <1>6 DEF Lists, Types
  <1>8. rows \in Seq([sid : Sids, utxo : Utxos])
    <2>1. \A r \in 1..Len(rows) : rows[r] \in [sid : Nat, utxo : Nat] BY <1>4, ElementOfSeq
    <2>2. \A r \in 1..Len(rows) : rows[r].sid \in Sids /\ rows[r].utxo \in Utxos
      BY <1>3 DEF Known
    <2>3. \A r \in 1..Len(rows) : rows[r] \in [sid : Sids, utxo : Utxos] BY <2>1, <2>2
    <2> DEFINE R == [sid : Sids, utxo : Utxos]
    <2> HIDE DEF R
    <2>4. rows \in [1..Len(rows) -> R] BY <1>4, <2>3, LenProperties DEF R
    <2>5. rows \in Seq(R) BY <1>0, <2>4, SeqDef
    <2> QED BY <2>5 DEF R
  <1>9. chain \in Seq([sid : Sids, exact : BOOLEAN, depth : 0..2])
    <2>1. \A u \in 1..Len(chain) : chain[u] \in [sid : Nat, exact : BOOLEAN, depth : 0..2]
      BY <1>4, ElementOfSeq DEF ChainType
    <2> DEFINE R == [sid : Sids, exact : BOOLEAN, depth : 0..2]
    <2>2. \A u \in 1..Len(chain) : chain[u] \in R BY <1>1, <2>1
    <2> HIDE DEF R
    <2>3. chain \in [1..Len(chain) -> R] BY <1>4, <2>2, LenProperties DEF ChainType
    <2>4. chain \in Seq(R) BY <1>0, <2>3, SeqDef
    <2> QED BY <2>4 DEF R
  <1>10. shown \subseteq Sids /\ cut \subseteq Sids BY <1>3 DEF Known
  <1> QED BY <1>1, <1>2, <1>4, <1>5, <1>7, <1>8, <1>9, <1>10 DEF TypeOK

\* Whatever commands overlap or break off: the server opens at most one
\* statechain per new-deposit-address, and check_for_duplicated gives no index
\* above the number of outputs.
THEOREM StoreTypes == Spec => []TypeOK
PROOF
  <1>1. Init => Lists /\ Bounds /\ Known /\ Counts BY ListsInit, NumbersInit
  <1>2. Lists /\ Bounds /\ Known /\ Counts /\ [Next]_vars => (Lists /\ Bounds /\ Known /\ Counts)'
    BY ListsStep, BoundsStep, KnownStep, CountsStep
  <1>3. Lists /\ Bounds /\ Known /\ Counts => TypeOK BY TypesHold
  <1> QED BY <1>1, <1>2, <1>3, PTL DEF Spec

-----------------------------------------------------------------------------
(* One signature, one row *)

\* The coins that L has of statechain sid fit the n signatures made for it and
\* the rows rs stored for it.
Fits(L, sid, n, rs) ==
  \A i \in 1..Len(L) : L[i].sid = sid =>
    /\ L[i].status \in Funded =>
         n = 1 /\ \A r \in 1..Len(rs) : rs[r].sid = sid => rs[r].utxo = L[i].utxo
    /\ L[i].status = "INITIALISED" => n = 0 /\ \A r \in 1..Len(rs) : rs[r].sid # sid

NoFunded(L, sid) == \A i \in 1..Len(L) : L[i].sid = sid => L[i].status \notin Funded

StoredFits == \A sid \in 1..Len(sigs) \ cut : Fits(wallet, sid, sigs[sid], rows)

\* While command k runs alone its copy fits; the stored wallet does too, but
\* for the coins k has had signed and not saved.
RunsWell(k) ==
  /\ \A sid \in 1..Len(sigs) \ cut :
       /\ IF sid \in cmd[k].signed THEN NoFunded(wallet, sid)
          ELSE Fits(wallet, sid, sigs[sid], rows)
       /\ Fits(cmd[k].copy, sid, sigs[sid], rows)
  /\ cmd[k].pc = "answered" =>
       sigs[cmd[k].sid] = 0 /\ \A r \in 1..Len(rows) : rows[r].sid # cmd[k].sid

Marks(q) ==
  /\ q.pc \notin {"check", "row"} => q.signed = {}
  /\ q.pc = "row" => q.copy[q.i].sid \in q.signed

Once ==
  /\ \A k \in Commands : Marks(cmd[k])
  /\ overlaps = 0 =>
       /\ \A k \in Commands : cmd[k].pc # "idle" => RunsWell(k)
       /\ (\A k \in Commands : cmd[k].pc = "idle") => StoredFits

LEMMA OnceInit == Init => Once
PROOF
  BY DEF Init, Once, Marks, Idle, StoredFits

LEMMA IdleMarks == Marks(Idle) /\ Idle.pc = "idle"
PROOF
  BY DEF Marks, Idle

\* A step of the running command
LEMMA OnceOne ==
  ASSUME Solo, Once, NEW k \in Commands, Turn(k), cmd[k].pc # "idle", UNCHANGED overlaps,
         Marks(cmd'[k]),
         RunsWell(k) => IF cmd'[k].pc = "idle" THEN StoredFits' ELSE RunsWell(k)'
  PROVE  Once'
PROOF
  <1>1. \A j \in Commands : Marks(cmd'[j]) BY DEF Once, Turn
  <1>2. ASSUME overlaps' = 0
        PROVE  /\ \A j \in Commands : cmd'[j].pc # "idle" => RunsWell(j)'
               /\ (\A j \in Commands : cmd'[j].pc = "idle") => StoredFits'
    <2>1. RunsWell(k) /\ Alone(k) BY <1>2 DEF Once, Solo
    <2>2. \A j \in Commands : j # k => cmd'[j].pc = "idle" BY <2>1 DEF Alone, Turn
    <2> QED BY <2>1, <2>2
  <1> QED BY <1>1, <1>2 DEF Once

LEMMA FitsGoesOn ==
  ASSUME NEW L, NEW A, GoesOnIn(L, A), Len(L) \in Nat, Len(A) \in Nat,
         NEW sid, sid # None, NEW n, NEW rs, Fits(L, sid, n, rs)
  PROVE  Fits(A, sid, n, rs)
PROOF
  <1> SUFFICES ASSUME NEW i \in 1..Len(A), A[i].sid = sid
               PROVE  /\ A[i].status \in Funded =>
                           n = 1 /\ \A r \in 1..Len(rs) : rs[r].sid = sid => rs[r].utxo = A[i].utxo
                      /\ A[i].status = "INITIALISED" => n = 0 /\ \A r \in 1..Len(rs) : rs[r].sid # sid
    BY DEF Fits
  <1>1. CASE i <= Len(L)
    <2>1. /\ i \in 1..Len(L) /\ L[i].sid = sid /\ A[i].utxo = L[i].utxo
          /\ A[i].status \in Funded => L[i].status \in Funded
          /\ A[i].status = "INITIALISED" => L[i].status = "INITIALISED"
      BY <1>1 DEF GoesOnIn
    <2> QED BY <2>1 DEF Fits
  <1>2. CASE i > Len(L)
    <2>1. A[i] = NewCoin \/ A[i].status = "DUPLICATED" BY <1>2 DEF GoesOnIn
    <2>2. A[i] # NewCoin BY DEF NewCoin
    <2> QED BY <2>1, <2>2 DEF Funded
  <1> QED BY <1>1, <1>2

\* Two coins of a statechain are not both without a duplicate_index.
LEMMA OneCoin ==
  ASSUME NEW L, NEW ch, NEW n, ListInv(L, ch, n), NEW i \in 1..Len(L), NEW j \in 1..Len(L),
         L[i].sid = L[j].sid, L[i].sid # None,
         L[i].status # "DUPLICATED", L[j].status # "DUPLICATED"
  PROVE  i = j
PROOF
  <1>1. CoinInv(L[i], ch, n) /\ CoinInv(L[j], ch, n) /\ Distinct(L) BY DEF ListInv
  <1>2. L[i].duplicate_index = 0 /\ L[j].duplicate_index = 0 BY <1>1 DEF CoinInv
  <1> QED BY <1>1, <1>2 DEF Distinct

LEMMA BeginOnce ==
  ASSUME Solo, Once, NEW k \in Commands, Begins(k)
  PROVE  Once'
PROOF
  <1>1. /\ Turn(k) /\ cmd[k].pc = "idle" /\ cmd'[k].pc \in {"push", "check"}
        /\ cmd'[k].copy = wallet /\ cmd'[k].signed = {}
        /\ overlaps' = IF Alone(k) THEN overlaps ELSE overlaps + 1
        /\ UNCHANGED <<wallet, rows, sigs, cut>>
    BY DEF Begins
  <1>2. Marks(cmd'[k]) BY <1>1 DEF Marks
  <1>3. \A j \in Commands : Marks(cmd'[j]) BY <1>1, <1>2 DEF Once, Turn
  <1>4. ASSUME overlaps' = 0
        PROVE  /\ \A j \in Commands : cmd'[j].pc # "idle" => RunsWell(j)'
               /\ (\A j \in Commands : cmd'[j].pc = "idle") => StoredFits'
    <2>1. overlaps = 0 /\ Alone(k) BY <1>1, <1>4 DEF Solo
    <2>2. \A j \in Commands : j # k => cmd'[j].pc = "idle" BY <1>1, <2>1 DEF Alone, Turn
    <2>3. StoredFits BY <1>1, <2>1 DEF Alone, Once
    <2>4. RunsWell(k)' BY <1>1, <2>3 DEF RunsWell, StoredFits
    <2> QED BY <1>1, <2>2, <2>4
  <1> QED BY <1>3, <1>4 DEF Once

\* A command that goes on in its own list and saves it or not.
LEMMA GoOnOnce ==
  ASSUME Lists, Lists', Solo, Once, NEW k \in Commands,
         Pushes(k) \/ Shows(k) \/ Refreshes(k) \/ Saves(k)
  PROVE  Once'
PROOF
  <1>0. Len(sigs) \in Nat BY Naturals0
  <1>1. /\ Len(cmd[k].copy) \in Nat /\ Len(wallet') \in Nat /\ Len(cmd'[k].copy) \in Nat
    BY LenProperties DEF Lists, CommandInv, ListInv
  <1>2. Marks(cmd[k]) BY DEF Once
  <1>3. CASE Pushes(k) \/ Refreshes(k)
    <2>1. /\ Turn(k) /\ cmd[k].pc # "idle" /\ cmd'[k].pc \notin {"idle", "row", "answered"}
          /\ cmd'[k].signed = cmd[k].signed
          /\ (wallet' = wallet /\ cmd'[k].pc = "check") \/ (wallet' = cmd'[k].copy /\ cmd[k].pc = "push")
          /\ GoesOnIn(cmd[k].copy, cmd'[k].copy) /\ UNCHANGED <<rows, sigs, overlaps, cut>>
      BY <1>3 DEF Pushes, Refreshes
    <2>2. Marks(cmd'[k]) BY <1>2, <2>1 DEF Marks
    <2>3. ASSUME RunsWell(k) PROVE RunsWell(k)'
      <3>1. ASSUME NEW sid \in 1..Len(sigs) \ cut
            PROVE  /\ IF sid \in cmd[k].signed THEN NoFunded(wallet', sid)
                      ELSE Fits(wallet', sid, sigs[sid], rows)
                   /\ Fits(cmd'[k].copy, sid, sigs[sid], rows)
        <4>1. sid # None BY <1>0 DEF None
        <4>2. Fits(cmd[k].copy, sid, sigs[sid], rows) BY <2>3 DEF RunsWell
        <4>3. Fits(cmd'[k].copy, sid, sigs[sid], rows) BY <1>1, <2>1, <4>1, <4>2, FitsGoesOn
        <4>4. CASE wallet' = wallet BY <2>3, <4>3, <4>4 DEF RunsWell
        <4>5. CASE wallet' = cmd'[k].copy /\ cmd[k].pc = "push"
          <5>1. cmd[k].signed = {} BY <1>2, <4>5 DEF Marks
          <5> QED BY <4>3, <4>5, <5>1
        <4> QED BY <2>1, <4>4, <4>5
      <3> QED BY <2>1, <3>1 DEF RunsWell
    <2> QED BY <2>1, <2>2, <2>3, OnceOne
  <1>4. CASE Shows(k) \/ Saves(k)
    <2>1. /\ Turn(k) /\ cmd[k].pc # "idle" /\ cmd'[k] = Idle
          /\ GoesOnIn(cmd[k].copy, wallet') /\ UNCHANGED <<rows, sigs, overlaps, cut>>
      BY <1>4 DEF Shows, Saves
    <2>2. ASSUME RunsWell(k) PROVE StoredFits'
      <3>1. ASSUME NEW sid \in 1..Len(sigs) \ cut PROVE Fits(wallet', sid, sigs[sid], rows)
        <4>1. sid # None BY <1>0 DEF None
        <4>2. Fits(cmd[k].copy, sid, sigs[sid], rows) BY <2>2 DEF RunsWell
        <4> QED BY <1>1, <2>1, <4>1, <4>2, FitsGoesOn
      <3> QED BY <2>1, <3>1 DEF StoredFits
    <2> QED BY <2>1, <2>2, IdleMarks, OnceOne
  <1> QED BY <1>3, <1>4

\* A new statechain has no signature, no row and no coin.
LEMMA AskOnce ==
  ASSUME Lists, Known, Solo, Once, NEW k \in Commands, Asks(k)
  PROVE  Once'
PROOF
  <1> DEFINE n == Len(sigs)
  <1>0. n \in Nat BY Naturals0
  <1>1. /\ Turn(k) /\ cmd[k].pc = "ask" /\ cmd'[k].pc = "answered"
        /\ cmd'[k].sid = n + 1 /\ cmd'[k].signed = cmd[k].signed /\ cmd'[k].copy = cmd[k].copy
        /\ sigs' = Append(sigs, 0) /\ UNCHANGED <<wallet, rows, overlaps, cut>>
    BY DEF Asks
  <1>2. Len(sigs') = n + 1 /\ sigs'[n + 1] = 0 /\ \A s \in 1..n : sigs'[s] = sigs[s]
    <2>1. sigs \in Seq(Nat) BY DEF Lists, Types
    <2> QED BY <1>1, <2>1, AppendProperties
  <1>3. cmd[k].signed = {} BY <1>1 DEF Once, Marks
  <1>4. Marks(cmd'[k]) BY <1>1, <1>3 DEF Marks
  <1>5. \A r \in 1..Len(rows) : rows[r].sid # n + 1 BY <1>0 DEF Known
  <1>6. ASSUME NEW L, ListInv(L, chain, n), NEW i \in 1..Len(L) PROVE L[i].sid # n + 1
    <2>1. L[i] \in ListCoin /\ CoinInv(L[i], chain, n) BY <1>6, ElementOfSeq DEF ListInv
    <2> QED BY <1>0, <2>1 DEF ListCoin, CoinInv
  <1>7. ASSUME RunsWell(k) PROVE RunsWell(k)'
    <2>1. ASSUME NEW sid \in 1..(n + 1) \ cut
          PROVE  Fits(wallet, sid, sigs'[sid], rows) /\ Fits(cmd[k].copy, sid, sigs'[sid], rows)
      <3>1. CASE sid = n + 1
        <4>1. ListInv(wallet, chain, n) /\ ListInv(cmd[k].copy, chain, n)
          BY DEF Lists, CommandInv
        <4> QED BY <1>6, <3>1, <4>1 DEF Fits
      <3>2. CASE sid # n + 1
        <4>1. sid \in 1..n \ cut BY <1>0, <3>2
        <4> QED BY <1>2, <1>3, <1>7, <4>1 DEF RunsWell
      <3> QED BY <3>1, <3>2
    <2> QED BY <1>1, <1>2, <1>3, <1>5, <2>1 DEF RunsWell
  <1> QED BY <1>1, <1>4, <1>7, OnceOne

LEMMA NameOnce ==
  ASSUME Lists, Solo, Once, NEW k \in Commands, Names(k)
  PROVE  Once'
PROOF
  <1> DEFINE L == cmd[k].copy
             A == wallet'
             s == cmd[k].sid
  <1>1. /\ Turn(k) /\ cmd[k].pc = "answered" /\ cmd'[k].pc = "address"
        /\ cmd'[k].signed = cmd[k].signed /\ cmd'[k].copy = A
        /\ Len(A) = Len(L) /\ \A i \in 1..Len(L) : i # Len(L) => A[i] = L[i]
        /\ A[Len(L)] = [L[Len(L)] EXCEPT !.sid = s]
        /\ UNCHANGED <<rows, sigs, overlaps, cut>>
    BY DEF Names
  <1>2. cmd[k].signed = {} BY <1>1 DEF Once, Marks
  <1>3. Marks(cmd'[k]) BY <1>1, <1>2 DEF Marks
  <1>4. CommandInv(cmd[k], chain, Len(sigs), rows) BY DEF Lists
  <1>5. /\ L \in Seq(ListCoin) /\ Len(L) \in 1..Len(L) /\ L[Len(L)].status = "INITIALISED"
        /\ \A i \in 1..Len(L) : L[i].sid # s
    <2>1. L \in Seq(ListCoin) /\ Len(L) # 0 /\ L[Len(L)].status = "INITIALISED"
          /\ \A i \in 1..Len(L) : L[i].sid # s
      BY <1>1, <1>4 DEF CommandInv, ListInv, Copies
    <2>2. Len(L) \in Nat BY <2>1, LenProperties
    <2> QED BY <2>1, <2>2
  <1>6. L[Len(L)] \in ListCoin BY <1>5, ElementOfSeq
  <1>7. ASSUME RunsWell(k) PROVE RunsWell(k)'
    <2>0. sigs[s] = 0 /\ \A r \in 1..Len(rows) : rows[r].sid # s BY <1>1, <1>7 DEF RunsWell
    <2>1. ASSUME NEW sid \in 1..Len(sigs) \ cut PROVE Fits(A, sid, sigs[sid], rows)
      <3>0. Fits(L, sid, sigs[sid], rows) BY <1>7 DEF RunsWell
      <3> HIDE DEF A, L, s
      <3>1. A[Len(L)].sid = s /\ A[Len(L)].status = "INITIALISED" BY <1>1, <1>5, <1>6 DEF ListCoin
      <3>2. CASE sid = s
        <4>1. \A i \in 1..Len(A) : A[i].sid = s => A[i].status = "INITIALISED"
          <5>1. /\ Len(A) = Len(L)
                /\ \A i \in 1..Len(L) : i # Len(L) => A[i] = L[i] /\ A[i].sid # s
            BY <1>1, <1>5
          <5> QED BY <3>1, <5>1
        <4>2. \A i \in 1..Len(A) : A[i].sid = s => A[i].status \notin Funded BY <4>1 DEF Funded
        <4> QED BY <2>0, <3>2, <4>2 DEF Fits
      <3>3. CASE sid # s
        <4>1. \A i \in 1..Len(A) : A[i].sid = sid => i \in 1..Len(L) /\ A[i] = L[i]
          BY <1>1, <1>5, <3>1, <3>3
        <4> QED BY <3>0, <4>1, ZenonT(30), SMTT(20) DEF Fits
      <3> QED BY <3>2, <3>3
    <2> QED BY <1>1, <1>2, <2>1 DEF RunsWell
  <1> QED BY <1>1, <1>3, <1>7, OnceOne

LEMMA EndOnce ==
  ASSUME Solo, Once, NEW k \in Commands, Ends(k)
  PROVE  Once'
PROOF
  <1>1. /\ Turn(k) /\ cmd[k].pc # "idle" /\ cmd'[k] = Idle /\ cut' = cut \cup cmd[k].signed
        /\ UNCHANGED <<wallet, rows, sigs, overlaps>>
    BY DEF Ends
  <1>2. RunsWell(k) => StoredFits' BY <1>1 DEF RunsWell, StoredFits
  <1> QED BY <1>1, <1>2, IdleMarks, OnceOne

\* create_tx1 for a coin that has neither a signature nor a row
LEMMA SignOnce ==
  ASSUME Lists, Solo, Once, NEW k \in Commands, NEW i, Signs(k, i)
  PROVE  Once'
PROOF
  <1> DEFINE L == cmd[k].copy
             A == cmd'[k].copy
             s == L[i].sid
  <1>0. Len(sigs) \in Nat BY Naturals0
  <1>1. /\ Turn(k) /\ cmd[k].pc = "check" /\ cmd'[k].pc = "row"
        /\ i \in 1..Len(L) /\ L[i].status = "INITIALISED" /\ s \in 1..Len(sigs)
        /\ cmd'[k].i = i /\ cmd'[k].signed = cmd[k].signed \cup {s}
        /\ Len(A) = Len(L) /\ \A j \in 1..Len(L) : j # i => A[j] = L[j]
        /\ A[i].sid = s /\ A[i].status \in Funded
        /\ UNCHANGED <<wallet, rows, overlaps, cut>>
    BY DEF Signs
  <1>2. Len(sigs') = Len(sigs)
        /\ \A t \in 1..Len(sigs) : sigs'[t] = IF t = s THEN sigs[t] + 1 ELSE sigs[t]
    BY SignLength
  <1>3. Marks(cmd'[k]) BY <1>1 DEF Marks
  <1>4. ListInv(L, chain, Len(sigs)) BY DEF Lists, CommandInv
  <1>5. s # None BY <1>0, <1>1 DEF None
  <1>6. ASSUME RunsWell(k) PROVE RunsWell(k)'
    <2>1. ASSUME NEW sid \in 1..Len(sigs) \ cut
          PROVE  /\ IF sid \in cmd[k].signed \cup {s} THEN NoFunded(wallet, sid)
                    ELSE Fits(wallet, sid, sigs'[sid], rows)
                 /\ Fits(A, sid, sigs'[sid], rows)
      <3>0. /\ Fits(L, sid, sigs[sid], rows)
            /\ IF sid \in cmd[k].signed THEN NoFunded(wallet, sid)
               ELSE Fits(wallet, sid, sigs[sid], rows)
        BY <1>6 DEF RunsWell
      <3> HIDE DEF L, A, s
      <3>1. CASE sid # s
        <4>1. sigs'[sid] = sigs[sid] BY <1>2, <3>1
        <4>2. \A j \in 1..Len(A) : A[j].sid = sid => j \in 1..Len(L) /\ A[j] = L[j]
          BY <1>1, <3>1
        <4>3. Fits(A, sid, sigs[sid], rows) BY <3>0, <4>2 DEF Fits
        <4> QED BY <3>0, <3>1, <4>1, <4>3
      <3>2. CASE sid = s
        <4>1. sigs[s] = 0 /\ \A r \in 1..Len(rows) : rows[r].sid # s
          BY <1>1, <3>0, <3>2 DEF Fits, s
        <4>2. sigs'[s] = 1 BY <1>1, <1>2, <4>1
        <4>3. NoFunded(wallet, s)
          <5>1. CASE s \in cmd[k].signed BY <3>0, <3>2, <5>1
          <5>2. CASE s \notin cmd[k].signed
            <6>1. Fits(wallet, s, 0, rows) BY <3>0, <3>2, <4>1, <5>2
            <6> QED BY <6>1 DEF Fits, NoFunded
          <5> QED BY <5>1, <5>2
        <4>4. ASSUME NEW j \in 1..Len(A), A[j].sid = s, j # i
              PROVE  A[j].status \notin Funded /\ A[j].status # "INITIALISED"
          <5>1. j \in 1..Len(L) /\ A[j] = L[j] /\ L[j].sid = s /\ i \in 1..Len(L)
            BY <1>1, <4>4
          <5>2. L[i].sid = s BY DEF s
          <5>3. L[i].status # "DUPLICATED" BY <1>1
          <5>4. L[j].status = "DUPLICATED"
            BY <1>4, <1>5, <4>4, <5>1, <5>2, <5>3, OneCoin
          <5> QED BY <5>1, <5>4 DEF Funded
        <4>5. A[i].status \in Funded /\ A[i].status # "INITIALISED" BY <1>1 DEF Funded
        <4>6. Fits(A, s, 1, rows) BY <4>1, <4>4, <4>5 DEF Fits
        <4> QED BY <3>2, <4>2, <4>3, <4>6
      <3> QED BY <3>1, <3>2
    <2> QED BY <1>1, <1>2, <2>1 DEF RunsWell
  <1> QED BY <1>1, <1>3, <1>6, OnceOne

\* insert_backup_txs for the coin just signed
LEMMA StoreOnce ==
  ASSUME Lists, Solo, Once, NEW k \in Commands, Stores(k)
  PROVE  Once'
PROOF
  <1> DEFINE L == cmd[k].copy
             i == cmd[k].i
             row == [sid |-> L[i].sid, utxo |-> L[i].utxo]
  <1>0. Len(sigs) \in Nat /\ Len(rows) \in Nat BY Naturals0
  <1>1. /\ Turn(k) /\ cmd[k].pc = "row" /\ cmd'[k].pc = "check"
        /\ cmd'[k].signed = cmd[k].signed /\ cmd'[k].copy = L
        /\ rows' = Append(rows, row) /\ UNCHANGED <<wallet, sigs, overlaps, cut>>
    BY DEF Stores
  <1>2. CommandInv(cmd[k], chain, Len(sigs), rows) BY DEF Lists
  <1>3. /\ ListInv(L, chain, Len(sigs)) /\ i \in 1..Len(L) /\ L[i].status \in Funded
        /\ L \in Seq(ListCoin)
    BY <1>1, <1>2 DEF CommandInv, Copies, ListInv
  <1>4. L[i] \in ListCoin BY <1>3, ElementOfSeq
  <1>5. row \in [sid : Nat, utxo : Nat] BY <1>4 DEF ListCoin
  <1>6. row.sid = L[i].sid /\ row.utxo = L[i].utxo OBVIOUS
  <1>7. L[i].sid \in cmd[k].signed BY <1>1 DEF Once, Marks
  <1>8. Marks(cmd'[k]) BY <1>1 DEF Marks
  <1> HIDE DEF row, L, i
  <1>9. /\ Len(rows') = Len(rows) + 1 /\ rows'[Len(rows) + 1] = row
        /\ \A r \in 1..Len(rows) : rows'[r] = rows[r]
    <2>1. rows \in Seq([sid : Nat, utxo : Nat]) BY DEF Lists, Types
    <2> QED BY <1>1, <1>5, <2>1, AppendProperties
  <1>10. \A r \in 1..Len(rows') : r \in 1..Len(rows) \/ r = Len(rows) + 1 BY <1>0, <1>9
  <1>11. ASSUME NEW M, NEW sid, sid # L[i].sid, NEW n, Fits(M, sid, n, rows)
         PROVE  Fits(M, sid, n, rows')
    <2>1. \A r \in 1..Len(rows') : rows'[r].sid = sid => r \in 1..Len(rows) /\ rows'[r] = rows[r]
      BY <1>6, <1>9, <1>10, <1>11
    <2> QED BY <1>11, <2>1 DEF Fits
  <1>12. ASSUME RunsWell(k) PROVE RunsWell(k)'
    <2>1. ASSUME NEW sid \in 1..Len(sigs) \ cut
          PROVE  /\ IF sid \in cmd[k].signed THEN NoFunded(wallet, sid)
                    ELSE Fits(wallet, sid, sigs[sid], rows')
                 /\ Fits(L, sid, sigs[sid], rows')
      <3>0. /\ Fits(L, sid, sigs[sid], rows)
            /\ IF sid \in cmd[k].signed THEN NoFunded(wallet, sid)
               ELSE Fits(wallet, sid, sigs[sid], rows)
        BY <1>12 DEF RunsWell, L
      <3>1. CASE sid # L[i].sid BY <1>11, <3>0, <3>1
      <3>2. CASE sid = L[i].sid
        <4>1. /\ sigs[sid] = 1
              /\ \A r \in 1..Len(rows) : rows[r].sid = sid => rows[r].utxo = L[i].utxo
          BY <1>3, <3>0, <3>2 DEF Fits
        <4>2. \A r \in 1..Len(rows') : rows'[r].sid = sid => rows'[r].utxo = L[i].utxo
          BY <1>6, <1>9, <1>10, <4>1
        <4>3. ASSUME NEW j \in 1..Len(L), L[j].sid = sid, j # i
              PROVE  L[j].status \notin Funded /\ L[j].status # "INITIALISED"
          <5>1. L[i].status # "DUPLICATED" BY <1>3 DEF Funded
          <5>2. L[i].sid # None BY <1>0, <3>2 DEF None
          <5>3. L[j].status = "DUPLICATED"
            BY <1>3, <3>2, <4>3, <5>1, <5>2, OneCoin
          <5> QED BY <5>3 DEF Funded
        <4>4. L[i].status # "INITIALISED" BY <1>3 DEF Funded
        <4>5. Fits(L, sid, sigs[sid], rows') BY <4>1, <4>2, <4>3, <4>4 DEF Fits
        <4> QED BY <1>7, <3>0, <3>2, <4>5
      <3> QED BY <3>1, <3>2
    <2> QED BY <1>1, <2>1 DEF RunsWell
  <1> QED BY <1>1, <1>8, <1>12, OnceOne

LEMMA OnceStep == Lists /\ Known /\ Solo /\ Once /\ [Next]_vars => Once'
PROOF
  <1> SUFFICES ASSUME Lists, Known, Solo, Once, [Next]_vars PROVE Once' OBVIOUS
  <1>1. Lists' BY ListsStep
  <1>2. CASE Rests BY <1>2 DEF Rests, Once, RunsWell, StoredFits
  <1>3. ASSUME NEW k \in Commands, Begins(k) PROVE Once' BY <1>3, BeginOnce
  <1>4. ASSUME NEW k \in Commands, Pushes(k) \/ Shows(k) \/ Refreshes(k) \/ Saves(k) PROVE Once'
    BY <1>1, <1>4, GoOnOnce
  <1>5. ASSUME NEW k \in Commands, Asks(k) PROVE Once' BY <1>5, AskOnce
  <1>6. ASSUME NEW k \in Commands, Names(k) PROVE Once' BY <1>6, NameOnce
  <1>7. ASSUME NEW k \in Commands, Ends(k) PROVE Once' BY <1>7, EndOnce
  <1>8. ASSUME NEW k \in Commands, NEW i, Signs(k, i) PROVE Once' BY <1>8, SignOnce
  <1>9. ASSUME NEW k \in Commands, Stores(k) PROVE Once' BY <1>9, StoreOnce
  <1> QED BY <1>2, <1>3, <1>4, <1>5, <1>6, <1>7, <1>8, <1>9, Shapes

\* get_backup_txs has a first row to return.
LEMMA FirstRowExists ==
  ASSUME Types, NEW sid, \E r \in 1..Len(rows) : rows[r].sid = sid
  PROVE  FirstRow(sid) \in 1..Len(rows) /\ rows[FirstRow(sid)].sid = sid
PROOF
  <1> DEFINE R == {r \in 1..Len(rows) : rows[r].sid = sid}
             F(r) == rows[r].sid = sid /\ \A q \in DOMAIN rows : rows[q].sid = sid => r <= q
  <1>1. DOMAIN rows = 1..Len(rows) /\ Len(rows) \in Nat BY LenProperties DEF Types
  <1>2. R # {} /\ R \subseteq Nat BY <1>1
  <1>3. PICK m \in R : \A q \in R : ~(<<q, m>> \in OpToRel(<, Nat))
    <2> HIDE DEF R
    <2> QED BY <1>2, NatLessThanWellFounded, WFMin
  <1>4. \A q \in R : m <= q
    <2>1. \A q \in R : ~(q < m) BY <1>2, <1>3 DEF OpToRel
    <2>2. m \in Nat /\ \A q \in R : q \in Nat BY <1>2
    <2> QED BY <2>1, <2>2
  <1>5. m \in DOMAIN rows /\ F(m) BY <1>1, <1>4
  <1>6. FirstRow(sid) = CHOOSE r \in DOMAIN rows : F(r) BY DEF FirstRow
  <1> HIDE DEF F
  <1>7. FirstRow(sid) \in DOMAIN rows /\ F(FirstRow(sid)) BY <1>5, <1>6
  <1> QED BY <1>1, <1>7 DEF F

\* Without overlapping commands a CONFIRMED coin whose refresh saved it can be
\* sent: create_tx1 had one transaction signed for it, insert_backup_txs
\* stored it, and get_backup_txs returns that one.
THEOREM ConfirmedIsSendable == Spec => []Sendable
PROOF
  <1>1. Init => Lists /\ Known /\ Solo /\ Once BY ListsInit, NumbersInit, SoloInit, OnceInit
  <1>2. Lists /\ Known /\ Solo /\ Once /\ [Next]_vars => (Lists /\ Known /\ Solo /\ Once)'
    BY ListsStep, KnownStep, SoloStep, OnceStep
  <1>3. Lists /\ Known /\ Solo /\ Once => Sendable
    <2> SUFFICES ASSUME Lists, Solo, Once, overlaps = 0, NEW c \in Range(wallet),
                        c.status = "CONFIRMED", c.sid \notin cut
                 PROVE  rows[FirstRow(c.sid)].utxo = c.utxo /\ sigs[c.sid] = 1
      BY DEF Sendable
    <2>1. wallet \in Seq(ListCoin) /\ Backed(wallet, rows, 0) /\ Len(sigs) \in Nat
      BY Naturals0 DEF Lists, ListInv
    <2>2. DOMAIN wallet = 1..Len(wallet) /\ Len(wallet) \in Nat BY <2>1, LenProperties
    <2>3. PICK i \in 1..Len(wallet) : c = wallet[i] BY <2>2 DEF Range
    <2>4. c \in ListCoin /\ CoinInv(c, chain, Len(sigs)) /\ c.status \in Funded
      BY <2>1, <2>3, ElementOfSeq DEF Lists, ListInv, Funded
    <2>5. c.sid \in 1..Len(sigs) \ cut BY <2>1, <2>4 DEF CoinInv, ListCoin, None
    <2>6. Fits(wallet, c.sid, sigs[c.sid], rows)
      <3>1. CASE \A k \in Commands : cmd[k].pc = "idle"
        BY <2>5, <3>1 DEF Once, StoredFits
      <3>2. ASSUME NEW k \in Commands, cmd[k].pc # "idle"
            PROVE  Fits(wallet, c.sid, sigs[c.sid], rows)
        <4>1. RunsWell(k) BY <3>2 DEF Once
        <4>2. ~NoFunded(wallet, c.sid) BY <2>3, <2>4 DEF NoFunded
        <4> QED BY <2>5, <4>1, <4>2 DEF RunsWell
      <3> QED BY <3>1, <3>2
    <2>7. sigs[c.sid] = 1 /\ \A r \in 1..Len(rows) : rows[r].sid = c.sid => rows[r].utxo = c.utxo
      BY <2>3, <2>4, <2>6 DEF Fits
    <2>8. HasRow(rows, c) BY <2>1, <2>2, <2>3, <2>4 DEF Backed
    <2>9. FirstRow(c.sid) \in 1..Len(rows) /\ rows[FirstRow(c.sid)].sid = c.sid
      BY <2>8, FirstRowExists DEF HasRow, Lists
    <2> QED BY <2>7, <2>9
  <1> QED BY <1>1, <1>2, <1>3, PTL DEF Spec
=============================================================================
