-------------------------- MODULE WalletStoreProofs --------------------------
(***************************************************************************)
(* Proofs about WalletStore, for any number of commands, deposits and      *)
(* outputs.                                                                *)
(***************************************************************************)
EXTENDS WalletStore, FiniteSetTheorems, SequenceTheorems, WellFoundedInduction, TLAPS

\* Each leaf is given to Zenon and then to SMT, for so many seconds.
USE ZenonT(10), SMTT(20)

-----------------------------------------------------------------------------
(* Operators *)

\* A finite set of integers has a largest element, the one Max picks.
LEMMA MaxOfFinite ==
  ASSUME NEW S \in SUBSET Int, IsFiniteSet(S), S # {}
  PROVE  Max(S) \in S /\ \A y \in S : y <= Max(S)
PROOF
  <1> DEFINE Above(m) == {x \in S : x > m}
             T == {Above(m) : m \in S}
  <1>1. T \subseteq FiniteSubsetsOf(S)
    BY FS_FiniteSubsetsOfFinite
  <1>2. IsWellFoundedOn(StrictSubsetOrdering(S), FiniteSubsetsOf(S))
    BY FS_StrictSubsetOrderingWellFounded
  <1>3. \E x \in T : \A y \in T : ~(<<y, x>> \in StrictSubsetOrdering(S))
    <2>1. T # {} OBVIOUS
    <2> HIDE DEF T
    <2> QED BY <1>1, <1>2, <2>1, WFMin
  <1>4. PICK m \in S : \A y \in T : ~(<<y, Above(m)>> \in StrictSubsetOrdering(S))
    BY <1>3
  <1>5. \A y \in S : y <= m
    <2> SUFFICES ASSUME NEW y \in S, y > m PROVE FALSE OBVIOUS
    <2>1. Above(y) \in T OBVIOUS
    <2>2. Above(y) \subseteq Above(m)
      <3>1. SUFFICES ASSUME NEW x \in S, x > y PROVE x > m OBVIOUS
      <3>2. x \in Int /\ y \in Int /\ m \in Int OBVIOUS
      <3> QED BY <3>1, <3>2
    <2>3. y \in Above(m) /\ y \notin Above(y) OBVIOUS
    <2>4. Above(y) \in SUBSET S /\ Above(m) \in SUBSET S OBVIOUS
    <2>5. <<Above(y), Above(m)>> \in StrictSubsetOrdering(S)
      <3> HIDE DEF Above, T
      <3> QED BY <2>2, <2>3, <2>4 DEF StrictSubsetOrdering
    <2> QED BY <1>4, <2>1, <2>5
  <1>6. \E x \in S : \A y \in S : x >= y BY <1>5
  <1> QED BY <1>6 DEF Max

ListCoin == [sid : Nat, address : BOOLEAN, utxo : Nat,
             status : CoinStatus, duplicate_index : Nat]

\* max_duplicated_index is the highest index of a statechain that has a coin,
\* and the index of one of its coins.
LEMMA MaxIndexIsHighest ==
  ASSUME NEW coins \in Seq(ListCoin), NEW i \in 1..Len(coins)
  PROVE  /\ MaxIndex(coins, coins[i].sid) \in Nat
         /\ \A j \in 1..Len(coins) : coins[j].sid = coins[i].sid =>
              coins[j].duplicate_index <= MaxIndex(coins, coins[i].sid)
         /\ \E j \in 1..Len(coins) :
              coins[j].duplicate_index = MaxIndex(coins, coins[i].sid)
PROOF
  <1> DEFINE sid == coins[i].sid
             I == {j \in 1..Len(coins) : coins[j].sid = sid}
             S == {c.duplicate_index : c \in {d \in Range(coins) : d.sid = sid}}
             f == [j \in I |-> coins[j].duplicate_index]
  <1>1. DOMAIN coins = 1..Len(coins) /\ Len(coins) \in Nat OBVIOUS
  <1>2. S = {coins[j].duplicate_index : j \in I}
    BY <1>1 DEF Range
  <1>3. IsFiniteSet(I)
    <2>1. I \in SUBSET (1..Len(coins)) OBVIOUS
    <2>2. IsFiniteSet(1..Len(coins)) BY <1>1, FS_Interval
    <2> HIDE DEF I
    <2> QED BY <2>1, <2>2, FS_Subset
  <1>4. S \in SUBSET Nat
    <2>1. \A j \in I : coins[j] \in ListCoin BY ElementOfSeq
    <2>2. \A j \in I : coins[j].duplicate_index \in Nat BY <2>1 DEF ListCoin
    <2> QED BY <1>2, <2>2
  <1>5. f \in Surjection(I, S)
    BY <1>2 DEF Surjection
  <1>6. IsFiniteSet(S)
    <2> HIDE DEF I, S, f
    <2> QED BY <1>3, <1>5, FS_Surjection
  <1>7. coins[i].duplicate_index \in S
    BY <1>2
  <1>8. Max(S) \in S /\ \A y \in S : y <= Max(S)
    <2> HIDE DEF S
    <2> QED BY <1>4, <1>6, <1>7, MaxOfFinite
  <1> QED BY <1>2, <1>4, <1>8 DEF MaxIndex

ChainType == chain \in Seq([sid : Nat, exact : BOOLEAN, depth : 0..2])

\* The outputs check_for_duplicated finds are new, and each is listed once.
LEMMA FoundAreNew ==
  ASSUME ChainType, NEW coins \in Seq(ListCoin), NEW found \in Listings(Extra(coins))
  PROVE  /\ found \in Seq(Extra(coins))
         /\ Extra(coins) \subseteq 1..Len(chain)
         /\ \A m, n \in 1..Len(found) : m # n => found[m] # found[n]
PROOF
  <1> DEFINE E == Extra(coins)
  <1>1. DOMAIN chain = 1..Len(chain) /\ Len(chain) \in Nat BY DEF ChainType
  <1>2. E \subseteq 1..Len(chain) BY <1>1 DEF Extra
  <1>3. IsFiniteSet(E)
    <2>1. IsFiniteSet(1..Len(chain)) BY <1>1, FS_Interval
    <2> HIDE DEF E
    <2> QED BY <1>2, <2>1, FS_Subset
  <1>4. Cardinality(E) \in Nat
    <2> HIDE DEF E
    <2> QED BY <1>3, FS_CardinalityType
  <1>5. /\ found \in [1..Cardinality(E) -> E]
        /\ \A m, n \in 1..Cardinality(E) : m # n => found[m] # found[n]
    <2>1. found \in Injection(1..Cardinality(E), E) BY DEF Listings, Bijection
    <2> HIDE DEF E
    <2> QED BY <2>1 DEF Injection, IsInjective
  <1>6. found \in Seq(E)
    <2> HIDE DEF E
    <2> QED BY <1>4, <1>5, SeqDef
  <1>7. DOMAIN found = 1..Len(found) BY <1>6, LenProperties
  <1> QED BY <1>2, <1>5, <1>6, <1>7

\* c is what check_for_duplicated makes of coin for the n-th output.
DuplicateOf(coin, coins, found, n) ==
  [coin EXCEPT !.status = "DUPLICATED", !.utxo = found[n],
     !.duplicate_index = MaxIndex(coins, chain[found[n]].sid)
        + Cardinality({m \in 1..n : chain[found[m]].sid = chain[found[n]].sid})]

\* A duplicate is a copy of a funded coin of the statechain.
LEMMA DuplicateIsCopy ==
  ASSUME ChainType, NEW coins \in Seq(ListCoin), NEW found \in Listings(Extra(coins)),
         NEW n \in 1..Len(found)
  PROVE  \E i \in 1..Len(coins) :
           /\ coins[i].status \in Funded /\ coins[i].sid = chain[found[n]].sid
           /\ Duplicate(coins, found, n) = DuplicateOf(coins[i], coins, found, n)
PROOF
  <1> DEFINE sid == chain[found[n]].sid
             F(c) == c.status \in Funded /\ c.sid = sid
  <1>1. found[n] \in Extra(coins) BY FoundAreNew, ElementOfSeq
  <1>2. \E c \in Range(coins) : F(c) BY <1>1 DEF Extra
  <1>3. F(CHOOSE c \in Range(coins) : F(c)) /\ (CHOOSE c \in Range(coins) : F(c)) \in Range(coins)
    BY <1>2
  <1>4. PICK i \in 1..Len(coins) : coins[i] = (CHOOSE c \in Range(coins) : F(c))
    BY <1>3 DEF Range
  <1> QED BY <1>3, <1>4 DEF Duplicate, DuplicateOf

\* The duplicates of a statechain are numbered upwards in the order they are
\* listed.
LEMMA CountGrows ==
  ASSUME NEW P, NEW m \in Nat, NEW n \in Nat, m < n, n \in P
  PROVE  /\ Cardinality((1..m) \cap P) \in Nat /\ Cardinality((1..n) \cap P) \in Nat
         /\ Cardinality((1..m) \cap P) < Cardinality((1..n) \cap P)
PROOF
  <1> DEFINE A == (1..m) \cap P
             B == (1..n) \cap P
  <1>1. IsFiniteSet(A) /\ IsFiniteSet(B)
    <2>1. IsFiniteSet(1..m) /\ IsFiniteSet(1..n) BY FS_Interval
    <2>2. A \in SUBSET (1..m) /\ B \in SUBSET (1..n) OBVIOUS
    <2> HIDE DEF A, B
    <2> QED BY <2>1, <2>2, FS_Subset
  <1>2. n \notin A /\ A \cup {n} \subseteq B OBVIOUS
  <1>3. Cardinality(A) \in Nat /\ Cardinality(B) \in Nat
    <2> HIDE DEF A, B
    <2> QED BY <1>1, FS_CardinalityType
  <1>4. Cardinality(A \cup {n}) = Cardinality(A) + 1
    <2> HIDE DEF A, B
    <2> QED BY <1>1, <1>2, FS_AddElement
  <1>5. Cardinality(A \cup {n}) <= Cardinality(B)
    <2> HIDE DEF A, B
    <2> QED BY <1>1, <1>2, FS_Subset
  <1> QED BY <1>3, <1>4, <1>5

LEMMA DuplicateIndexGrows ==
  ASSUME ChainType, NEW coins \in Seq(ListCoin), NEW found \in Listings(Extra(coins)),
         NEW n \in 1..Len(found)
  PROVE  /\ Duplicate(coins, found, n).duplicate_index \in Nat
         /\ \A j \in 1..Len(coins) : coins[j].sid = chain[found[n]].sid =>
              coins[j].duplicate_index < Duplicate(coins, found, n).duplicate_index
         /\ \A m \in 1..(n - 1) : chain[found[m]].sid = chain[found[n]].sid =>
              Duplicate(coins, found, m).duplicate_index
                < Duplicate(coins, found, n).duplicate_index
PROOF
  <1> DEFINE sid == chain[found[n]].sid
             P == {m \in 1..Len(found) : chain[found[m]].sid = sid}
             M == MaxIndex(coins, sid)
             C(m) == Cardinality((1..m) \cap P)
             D(m) == Duplicate(coins, found, m).duplicate_index
  <1>0. Len(found) \in Nat BY FoundAreNew
  <1>1. ASSUME NEW m \in P, m <= n PROVE D(m) = M + C(m)
    <2>1. {q \in 1..m : chain[found[q]].sid = sid} = (1..m) \cap P BY <1>0, <1>1
    <2>2. chain[found[m]].sid = sid BY <1>1
    <2>3. PICK i \in 1..Len(coins) : Duplicate(coins, found, m) = DuplicateOf(coins[i], coins, found, m)
      <3>1. m \in 1..Len(found) BY <1>1
      <3> QED BY <3>1, DuplicateIsCopy
    <2>4. coins[i] \in ListCoin BY ElementOfSeq
    <2>5. Duplicate(coins, found, m).duplicate_index = MaxIndex(coins, chain[found[m]].sid)
            + Cardinality({q \in 1..m : chain[found[q]].sid = chain[found[m]].sid})
      BY <2>3, <2>4 DEF ListCoin, DuplicateOf
    <2> HIDE DEF P
    <2> QED BY <2>1, <2>2, <2>5
  <1>2. n \in P /\ n \in Nat BY <1>0
  <1>3. PICK i \in 1..Len(coins) : coins[i].sid = sid
    BY DuplicateIsCopy
  <1>4. /\ M \in Nat
        /\ \A j \in 1..Len(coins) : coins[j].sid = sid => coins[j].duplicate_index <= M
    BY <1>3, MaxIndexIsHighest
  <1>5. C(n) \in Nat /\ C(n) > 0
    <2>1. C(0) \in Nat /\ C(n) \in Nat /\ C(0) < C(n)
      <3>1. 0 \in Nat /\ 0 < n /\ n \in Nat BY <1>0
      <3>2. n \in P BY <1>2
      <3> HIDE DEF P
      <3> QED BY <3>1, <3>2, CountGrows
    <2> QED BY <2>1
  <1>6. \A j \in 1..Len(coins) : coins[j].duplicate_index \in Nat
    <2>1. \A j \in 1..Len(coins) : coins[j] \in ListCoin BY ElementOfSeq
    <2> QED BY <2>1 DEF ListCoin
  <1>7. D(n) = M + C(n) BY <1>0, <1>1, <1>2
  <1>8. ASSUME NEW m \in 1..(n - 1), chain[found[m]].sid = sid PROVE D(m) < D(n)
    <2>1. m \in P /\ m \in Nat /\ m < n BY <1>0, <1>8
    <2>2. D(m) = M + C(m)
      <3>1. m <= n BY <1>0, <2>1
      <3> HIDE DEF P, D, C, M
      <3> QED BY <3>1, <2>1, <1>1
    <2>3. C(m) \in Nat /\ C(m) < C(n)
      <3> HIDE DEF P
      <3> QED BY <2>1, <1>2, CountGrows
    <2> QED BY <2>2, <2>3, <1>4, <1>5, <1>7
  <1>9. \A j \in 1..Len(coins) : coins[j].sid = sid => coins[j].duplicate_index < D(n)
    <2> HIDE DEF D, C, M, sid
    <2> QED BY <1>4, <1>5, <1>6, <1>7
  <1>10. D(n) \in Nat BY <1>4, <1>5, <1>7
  <1> QED BY <1>8, <1>9, <1>10

-----------------------------------------------------------------------------
(* Lists of coins: what a stored wallet and every command's copy keep *)

\* ch: the outputs in the chain; n: the statechains the server has opened.
CoinInv(c, ch, n) ==
  /\ c.sid <= n
  /\ c.utxo # None => c.utxo \in 1..Len(ch) /\ ch[c.utxo].sid = c.sid
  /\ c.status \in Funded \cup {"DUPLICATED"} => c.utxo # None /\ c.sid # None
  /\ c.status = "INITIALISED" => c.utxo = None
  /\ c.status = "DUPLICATED" <=> c.duplicate_index # 0
  /\ c.address => c.sid # None

Distinct(L) ==
  \A i, j \in 1..Len(L) : i # j =>
    /\ L[i].utxo = L[j].utxo => L[i].utxo = None
    /\ L[i].sid = L[j].sid /\ L[i].sid # None =>
         L[i].duplicate_index # L[j].duplicate_index

\* Every duplicate has its funded coin.
HasCoin(L) ==
  \A i \in 1..Len(L) : L[i].status = "DUPLICATED" =>
    \E j \in 1..Len(L) : L[j].sid = L[i].sid /\ L[j].status \in Funded

ListInv(L, ch, n) ==
  /\ L \in Seq(ListCoin)
  /\ \A i \in 1..Len(L) : CoinInv(L[i], ch, n)
  /\ Distinct(L)
  /\ HasCoin(L)

\* A new coin at the end of the list
LEMMA AppendKeepsList ==
  ASSUME NEW L, NEW ch, NEW n \in Nat, ListInv(L, ch, n)
  PROVE  ListInv(Append(L, NewCoin), ch, n)
PROOF
  <1> DEFINE A == Append(L, NewCoin)
  <1>1. NewCoin \in ListCoin BY DEF NewCoin, ListCoin, CoinStatus, Awaited, None
  <1>2. L \in Seq(ListCoin) BY DEF ListInv
  <1>3. /\ A \in Seq(ListCoin) /\ Len(A) = Len(L) + 1 /\ Len(L) \in Nat
        /\ \A i \in 1..Len(L) : A[i] = L[i]
        /\ A[Len(L) + 1] = NewCoin
    BY <1>1, <1>2, AppendProperties
  <1> HIDE DEF A
  <1>4. CoinInv(NewCoin, ch, n)
    BY DEF CoinInv, NewCoin, None, Funded
  <1>5. \A i \in 1..Len(A) : CoinInv(A[i], ch, n)
    BY <1>3, <1>4 DEF ListInv
  <1>6. Distinct(A)
    BY <1>3 DEF ListInv, Distinct, NewCoin
  <1>7. HasCoin(A)
    BY <1>3 DEF ListInv, HasCoin, NewCoin
  <1> QED BY <1>3, <1>5, <1>6, <1>7 DEF ListInv, A

\* The i-th coin replaced by one that is as distinct
LEMMA ReplaceKeepsList ==
  ASSUME NEW L, NEW ch, NEW n \in Nat, ListInv(L, ch, n),
         NEW i \in 1..Len(L), NEW c \in ListCoin, CoinInv(c, ch, n),
         c.status # "DUPLICATED", L[i].status # "DUPLICATED",
         L[i].status \in Funded => c.status \in Funded /\ c.sid = L[i].sid,
         \A j \in 1..Len(L) : j # i =>
           /\ L[j].utxo = c.utxo => c.utxo = None
           /\ L[j].sid = c.sid /\ c.sid # None => L[j].duplicate_index # c.duplicate_index
  PROVE  /\ ListInv([L EXCEPT ![i] = c], ch, n)
         /\ Len([L EXCEPT ![i] = c]) = Len(L)
         /\ \A j \in 1..Len(L) : [L EXCEPT ![i] = c][j] = IF j = i THEN c ELSE L[j]
PROOF
  <1> DEFINE A == [L EXCEPT ![i] = c]
  <1>2. L \in Seq(ListCoin) BY DEF ListInv
  <1>3. /\ A \in Seq(ListCoin) /\ Len(A) = Len(L) /\ Len(L) \in Nat
        /\ \A j \in 1..Len(L) : A[j] = IF j = i THEN c ELSE L[j]
    BY <1>2, ExceptSeq
  <1> HIDE DEF A
  <1>5. \A j \in 1..Len(A) : CoinInv(A[j], ch, n)
    BY <1>3 DEF ListInv
  <1>6. Distinct(A)
    BY <1>3 DEF ListInv, Distinct
  <1>7. HasCoin(A)
    BY <1>3 DEF ListInv, HasCoin
  <1> QED BY <1>3, <1>5, <1>6, <1>7 DEF ListInv, A

\* The last coin is given its statechain_id, one no other coin has.
LEMMA SidKeepsList ==
  ASSUME NEW L, NEW ch, NEW n \in Nat, ListInv(L, ch, n), Len(L) # 0,
         L[Len(L)].sid = None, L[Len(L)].status = "INITIALISED",
         NEW s \in 1..n, \A i \in 1..Len(L) : L[i].sid # s
  PROVE  LET A == [L EXCEPT ![Len(L)].sid = s]
         IN /\ ListInv(A, ch, n) /\ Len(A) = Len(L)
            /\ \A j \in 1..Len(L) :
                 A[j] = IF j = Len(L) THEN [L[Len(L)] EXCEPT !.sid = s] ELSE L[j]
PROOF
  <1> DEFINE i == Len(L)
             c == [L[i] EXCEPT !.sid = s]
  <1>1. L \in Seq(ListCoin) /\ i \in 1..Len(L) /\ Len(L) \in Nat BY DEF ListInv
  <1>2. L[i] \in ListCoin BY <1>1, ElementOfSeq
  <1>3. c \in ListCoin BY <1>2 DEF ListCoin
  <1>4. /\ c.utxo = L[i].utxo /\ c.status = L[i].status /\ c.sid = s
        /\ c.duplicate_index = L[i].duplicate_index /\ c.address = L[i].address
    BY <1>2 DEF ListCoin
  <1>5. CoinInv(L[i], ch, n) BY <1>1 DEF ListInv
  <1> HIDE DEF i, c
  <1>6. L[i].utxo = None BY <1>5 DEF CoinInv, i
  <1>7. CoinInv(c, ch, n) BY <1>4, <1>5, <1>6 DEF CoinInv, i, Funded, None
  <1>8. L[i].status = "INITIALISED" BY DEF i
  <1>9. \A j \in 1..Len(L) : j # i =>
           /\ L[j].utxo = c.utxo => c.utxo = None
           /\ L[j].sid = c.sid /\ c.sid # None => L[j].duplicate_index # c.duplicate_index
    BY <1>4, <1>6
  <1>10. c.status # "DUPLICATED" /\ L[i].status # "DUPLICATED" /\ L[i].status \notin Funded
    BY <1>4, <1>8 DEF Funded
  <1>11. /\ ListInv([L EXCEPT ![i] = c], ch, n)
         /\ Len([L EXCEPT ![i] = c]) = Len(L)
         /\ \A j \in 1..Len(L) : [L EXCEPT ![i] = c][j] = IF j = i THEN c ELSE L[j]
    BY <1>1, <1>3, <1>7, <1>9, <1>10, ReplaceKeepsList
  <1> QED BY <1>11 DEF i, c

\* The last coin is given its address.
LEMMA AddressKeepsList ==
  ASSUME NEW L, NEW ch, NEW n \in Nat, ListInv(L, ch, n), Len(L) # 0,
         L[Len(L)].sid # None, L[Len(L)].status = "INITIALISED"
  PROVE  LET A == [L EXCEPT ![Len(L)].address = TRUE]
         IN /\ ListInv(A, ch, n) /\ Len(A) = Len(L)
            /\ \A j \in 1..Len(L) :
                 A[j] = IF j = Len(L) THEN [L[Len(L)] EXCEPT !.address = TRUE] ELSE L[j]
PROOF
  <1> DEFINE i == Len(L)
             c == [L[i] EXCEPT !.address = TRUE]
  <1>1. L \in Seq(ListCoin) /\ i \in 1..Len(L) /\ Len(L) \in Nat BY DEF ListInv
  <1>2. L[i] \in ListCoin BY <1>1, ElementOfSeq
  <1>3. c \in ListCoin BY <1>2 DEF ListCoin
  <1>4. /\ c.utxo = L[i].utxo /\ c.status = L[i].status /\ c.sid = L[i].sid
        /\ c.duplicate_index = L[i].duplicate_index
    BY <1>2 DEF ListCoin
  <1>5. CoinInv(L[i], ch, n) BY <1>1 DEF ListInv
  <1>8. L[i].status = "INITIALISED" /\ L[i].sid # None OBVIOUS
  <1> HIDE DEF i, c
  <1>7. CoinInv(c, ch, n) BY <1>4, <1>5, <1>8 DEF CoinInv
  <1>9. \A j \in 1..Len(L) : j # i =>
           /\ L[j].utxo = c.utxo => c.utxo = None
           /\ L[j].sid = c.sid /\ c.sid # None => L[j].duplicate_index # c.duplicate_index
    BY <1>1, <1>4 DEF ListInv, Distinct
  <1>10. c.status # "DUPLICATED" /\ L[i].status # "DUPLICATED" /\ L[i].status \notin Funded
    BY <1>4, <1>8 DEF Funded
  <1>11. /\ ListInv([L EXCEPT ![i] = c], ch, n)
         /\ Len([L EXCEPT ![i] = c]) = Len(L)
         /\ \A j \in 1..Len(L) : [L EXCEPT ![i] = c][j] = IF j = i THEN c ELSE L[j]
    BY <1>1, <1>3, <1>7, <1>9, <1>10, ReplaceKeepsList
  <1> QED BY <1>11 DEF i, c

\* No coin holds an output at the address of a coin that is INITIALISED.
LEMMA NotHeldBefore ==
  ASSUME NEW L, NEW ch, NEW n \in Nat, ListInv(L, ch, n), NEW i \in 1..Len(L),
         L[i].status = "INITIALISED", L[i].sid # None,
         NEW j \in 1..Len(L), L[j].utxo # None, ch[L[j].utxo].sid = L[i].sid
  PROVE  FALSE
PROOF
  <1>1. CoinInv(L[i], ch, n) /\ CoinInv(L[j], ch, n) BY DEF ListInv
  <1>2. i # j /\ L[j].sid = L[i].sid BY <1>1 DEF CoinInv
  <1>3. L[i].duplicate_index = 0 /\ L[j].duplicate_index # 0
    BY <1>1, <1>2 DEF CoinInv, ListInv, Distinct
  <1>4. L[j].status = "DUPLICATED" BY <1>1, <1>3 DEF CoinInv
  <1>5. PICK q \in 1..Len(L) : L[q].sid = L[i].sid /\ L[q].status \in Funded
    BY <1>2, <1>4 DEF ListInv, HasCoin
  <1>6. CoinInv(L[q], ch, n) BY DEF ListInv
  <1>7. q # i /\ L[q].duplicate_index = 0 BY <1>5, <1>6 DEF CoinInv, Funded
  <1> QED BY <1>3, <1>5, <1>7 DEF ListInv, Distinct

\* A coin is given a deposit that was found, or only a new status.
LEMMA FoundKeepsList ==
  ASSUME NEW L, NEW ch, NEW n \in Nat, ListInv(L, ch, n), NEW i \in 1..Len(L),
         NEW c \in ListCoin, c.status \in Funded,
         c.sid = L[i].sid, c.duplicate_index = L[i].duplicate_index,
         c.address = L[i].address, L[i].sid # None, L[i].status # "DUPLICATED",
         c.utxo \in 1..Len(ch), c.utxo # None, ch[c.utxo].sid = L[i].sid,
         L[i].status # "INITIALISED" => L[i].status \in Funded /\ c.utxo = L[i].utxo
  PROVE  /\ ListInv([L EXCEPT ![i] = c], ch, n)
         /\ Len([L EXCEPT ![i] = c]) = Len(L)
         /\ \A j \in 1..Len(L) : [L EXCEPT ![i] = c][j] = IF j = i THEN c ELSE L[j]
PROOF
  <1>1. CoinInv(L[i], ch, n) BY DEF ListInv
  <1>2. CoinInv(c, ch, n)
    BY <1>1 DEF CoinInv, Funded
  <1>3. c.status # "DUPLICATED" BY DEF Funded
  <1>4. ASSUME NEW j \in 1..Len(L), j # i, L[j].utxo = c.utxo PROVE c.utxo = None
    <2>1. CASE L[i].status = "INITIALISED"
      <3> QED BY <1>4, <2>1, NotHeldBefore, ZenonT(30), SMTT(20)
    <2>2. CASE c.utxo = L[i].utxo
      BY <1>4, <2>2 DEF ListInv, Distinct
    <2> QED BY <2>1, <2>2
  <1>5. ASSUME NEW j \in 1..Len(L), j # i, L[j].sid = c.sid
        PROVE L[j].duplicate_index # c.duplicate_index
    BY <1>5 DEF ListInv, Distinct
  <1> QED BY <1>2, <1>3, <1>4, <1>5, ReplaceKeepsList

\* The list a refresh saves
LEMMA SaveKeepsList ==
  ASSUME ChainType, NEW L, NEW n \in Nat, ListInv(L, chain, n),
         NEW found \in Listings(Extra(L))
  PROVE  LET A == L \o [m \in 1..Len(found) |-> Duplicate(L, found, m)]
         IN /\ ListInv(A, chain, n) /\ Len(A) >= Len(L)
            /\ \A i \in 1..Len(L) : A[i] = L[i]
            /\ \A i \in 1..Len(A) : i > Len(L) => A[i].status = "DUPLICATED"
PROOF
  <1> DEFINE N == Len(found)
             D == [m \in 1..N |-> Duplicate(L, found, m)]
             A == L \o D
  <1>1. L \in Seq(ListCoin) /\ Len(L) \in Nat BY DEF ListInv
  <1>2. /\ found \in Seq(Extra(L)) /\ N \in Nat
        /\ \A m, q \in 1..N : m # q => found[m] # found[q]
        /\ \A m \in 1..N : found[m] \in Extra(L) /\ found[m] \in 1..Len(chain)
    BY <1>1, FoundAreNew, ElementOfSeq
  <1>3. ASSUME NEW m \in 1..N
        PROVE  /\ D[m] \in ListCoin
               /\ D[m].status = "DUPLICATED" /\ D[m].utxo = found[m]
               /\ D[m].sid = chain[found[m]].sid
               /\ \E i \in 1..Len(L) : L[i].sid = D[m].sid /\ L[i].status \in Funded
    <2>1. PICK i \in 1..Len(L) :
            /\ L[i].status \in Funded /\ L[i].sid = chain[found[m]].sid
            /\ Duplicate(L, found, m) = DuplicateOf(L[i], L, found, m)
      BY <1>1, DuplicateIsCopy
    <2>2. L[i] \in ListCoin BY <1>1, ElementOfSeq
    <2>3. Duplicate(L, found, m).duplicate_index \in Nat BY <1>1, DuplicateIndexGrows
    <2>4. found[m] \in Nat BY <1>2
    <2>5. "DUPLICATED" \in CoinStatus BY DEF CoinStatus
    <2>6. D[m] = DuplicateOf(L[i], L, found, m) BY <2>1
    <2>7. /\ D[m].status = "DUPLICATED" /\ D[m].utxo = found[m] /\ D[m].sid = L[i].sid
      BY <2>2, <2>6 DEF DuplicateOf, ListCoin
    <2>8. D[m].duplicate_index \in Nat BY <2>3
    <2>9. D[m] \in ListCoin
      BY <2>2, <2>4, <2>5, <2>6, <2>8 DEF DuplicateOf, ListCoin
    <2> QED BY <2>1, <2>7, <2>9
  <1>4. D \in Seq(ListCoin) /\ Len(D) = N
    <2>1. D \in [1..N -> ListCoin] BY <1>3
    <2> HIDE DEF D
    <2> QED BY <1>2, <2>1, SeqDef
  <1>5. /\ A \in Seq(ListCoin) /\ Len(A) = Len(L) + N
        /\ \A i \in 1..Len(L) : A[i] = L[i]
        /\ \A i \in 1..Len(A) : i > Len(L) => (i - Len(L)) \in 1..N /\ A[i] = D[i - Len(L)]
    <2> HIDE DEF D
    <2>1. /\ A \in Seq(ListCoin) /\ Len(A) = Len(L) + Len(D)
          /\ \A i \in 1..Len(L) + Len(D) : A[i] = IF i <= Len(L) THEN L[i] ELSE D[i - Len(L)]
      BY <1>1, <1>4, ConcatProperties
    <2> HIDE DEF A
    <2> QED BY <1>1, <1>2, <1>4, <2>1
  <1>6. ASSUME NEW m \in 1..N, NEW i \in 1..Len(L)
        PROVE  /\ L[i].utxo # D[m].utxo
               /\ L[i].sid = D[m].sid => L[i].duplicate_index < D[m].duplicate_index
    <2>1. found[m] \in Extra(L) /\ L[i] \in Range(L) BY <1>1, <1>2 DEF Range
    <2>2. L[i].utxo # found[m] BY <2>1 DEF Extra
    <2>3. D[m] = Duplicate(L, found, m) OBVIOUS
    <2>4. L[i].sid = chain[found[m]].sid =>
            L[i].duplicate_index < Duplicate(L, found, m).duplicate_index
      BY <1>1, DuplicateIndexGrows
    <2> HIDE DEF D
    <2> QED BY <1>3, <2>2, <2>3, <2>4
  <1>7. ASSUME NEW m \in 1..N, NEW q \in 1..N, m < q
        PROVE  /\ D[m].utxo # D[q].utxo
               /\ D[m].sid = D[q].sid => D[m].duplicate_index < D[q].duplicate_index
    <2>1. m \in 1..(q - 1) BY <1>2, <1>7
    <2>2. chain[found[m]].sid = chain[found[q]].sid =>
            Duplicate(L, found, m).duplicate_index < Duplicate(L, found, q).duplicate_index
      BY <1>1, <2>1, DuplicateIndexGrows
    <2>3. D[m] = Duplicate(L, found, m) /\ D[q] = Duplicate(L, found, q) OBVIOUS
    <2>4. found[m] # found[q] BY <1>2, <1>7
    <2> HIDE DEF D
    <2> QED BY <1>3, <2>2, <2>3, <2>4
  <1> HIDE DEF A, D, N
  <1>8. ASSUME NEW m \in 1..N PROVE CoinInv(D[m], chain, n) /\ D[m].duplicate_index \in Nat
    <2>1. PICK i \in 1..Len(L) : L[i].sid = D[m].sid /\ L[i].status \in Funded BY <1>3
    <2>2. CoinInv(L[i], chain, n) BY DEF ListInv
    <2>3. L[i].duplicate_index < D[m].duplicate_index BY <1>6, <2>1
    <2>4. L[i].duplicate_index \in Nat /\ D[m].duplicate_index \in Nat
      <3>1. L[i] \in ListCoin /\ D[m] \in ListCoin BY <1>1, <1>3, ElementOfSeq
      <3> QED BY <3>1 DEF ListCoin
    <2>5. D[m].duplicate_index # 0 BY <2>3, <2>4
    <2>6. D[m].utxo \in 1..Len(chain) /\ Len(chain) \in Nat
      <3>1. Len(chain) \in Nat BY LenProperties DEF ChainType
      <3> QED BY <1>2, <1>3, <3>1
    <2>7. D[m].utxo # None BY <2>6 DEF None
    <2>8. D[m].sid <= n /\ D[m].sid # None BY <2>1, <2>2 DEF CoinInv
    <2> QED BY <1>3, <2>4, <2>5, <2>6, <2>7, <2>8, ZenonT(30), SMTT(20) DEF CoinInv, Funded
  <1>9. \A i \in 1..Len(L) : L[i].duplicate_index \in Nat
    <2>1. \A i \in 1..Len(L) : L[i] \in ListCoin BY <1>1, ElementOfSeq
    <2> QED BY <2>1 DEF ListCoin
  <1>10. \A i \in 1..Len(A) : CoinInv(A[i], chain, n)
    <2> TAKE i \in 1..Len(A)
    <2>1. CASE i <= Len(L) BY <1>1, <1>5, <2>1 DEF ListInv
    <2>2. CASE i > Len(L) BY <1>1, <1>5, <1>8, <2>2
    <2> QED BY <1>1, <1>2, <1>5, <2>1, <2>2
  <1>11. Distinct(A)
    <2> DEFINE Apart(i, j) ==
                 /\ A[i].utxo = A[j].utxo => A[i].utxo = None
                 /\ A[i].sid = A[j].sid /\ A[i].sid # None =>
                      A[i].duplicate_index # A[j].duplicate_index
    <2>0. ASSUME \A i, j \in 1..Len(A) : i < j => Apart(i, j) PROVE Distinct(A)
      <3>1. SUFFICES ASSUME NEW i \in 1..Len(A), NEW j \in 1..Len(A), i # j PROVE Apart(i, j)
        BY DEF Distinct
      <3>2. CASE i < j BY <2>0, <3>2
      <3>3. CASE j < i BY <2>0, <3>3
      <3>4. i \in Int /\ j \in Int BY <1>1, <1>2, <1>5
      <3> QED BY <3>1, <3>2, <3>3, <3>4
    <2>1. SUFFICES ASSUME NEW i \in 1..Len(A), NEW j \in 1..Len(A), i < j PROVE Apart(i, j)
      BY <2>0
    <2>2. CASE j <= Len(L)
      <3>1. i \in 1..Len(L) /\ j \in 1..Len(L) /\ i # j BY <1>1, <1>2, <1>5, <2>1, <2>2
      <3>2. A[i] = L[i] /\ A[j] = L[j] BY <3>1, <1>5
      <3> QED BY <3>1, <3>2 DEF ListInv, Distinct
    <2>3. CASE i <= Len(L) /\ j > Len(L)
      <3>1. i \in 1..Len(L) /\ (j - Len(L)) \in 1..N /\ A[i] = L[i] /\ A[j] = D[j - Len(L)]
        BY <1>1, <1>2, <1>5, <2>3
      <3> QED BY <3>1, <1>6, <1>8, <1>9
    <2>4. CASE i > Len(L)
      <3>1. /\ (i - Len(L)) \in 1..N /\ (j - Len(L)) \in 1..N /\ i - Len(L) < j - Len(L)
            /\ A[i] = D[i - Len(L)] /\ A[j] = D[j - Len(L)]
        BY <1>1, <1>2, <1>5, <2>1, <2>4
      <3> QED BY <3>1, <1>7, <1>8
    <2> QED BY <1>1, <1>2, <1>5, <2>1, <2>2, <2>3, <2>4
  <1>12. HasCoin(A)
    <2> SUFFICES ASSUME NEW i \in 1..Len(A), A[i].status = "DUPLICATED"
                 PROVE  \E j \in 1..Len(L) : L[j].sid = A[i].sid /\ L[j].status \in Funded
      <3>1. \A j \in 1..Len(L) : j \in 1..Len(A) /\ A[j] = L[j] BY <1>1, <1>2, <1>5
      <3> QED BY <3>1 DEF HasCoin
    <2>1. CASE i <= Len(L) BY <1>1, <1>5, <2>1 DEF ListInv, HasCoin
    <2>2. CASE i > Len(L) BY <1>1, <1>3, <1>5, <2>2
    <2> QED BY <1>1, <1>2, <1>5, <2>1, <2>2
  <1>13. \A i \in 1..Len(A) : i > Len(L) => A[i].status = "DUPLICATED"
    BY <1>3, <1>5
  <1>14. ListInv(A, chain, n) BY <1>5, <1>10, <1>11, <1>12 DEF ListInv
  <1>15. Len(A) >= Len(L) BY <1>1, <1>2, <1>5
  <1> QED BY <1>5, <1>13, <1>14, <1>15, ZenonT(20) DEF A, D, N

\* More outputs and more statechains take nothing away.
LEMMA GrowthKeepsList ==
  ASSUME NEW L, NEW ch, NEW n \in Nat, ListInv(L, ch, n),
         NEW ch2, NEW n2 \in Nat, n <= n2, Len(ch) \in Nat, Len(ch2) \in Nat,
         Len(ch) <= Len(ch2), \A u \in 1..Len(ch) : ch2[u].sid = ch[u].sid
  PROVE  ListInv(L, ch2, n2)
PROOF
  <1> SUFFICES ASSUME NEW i \in 1..Len(L) PROVE CoinInv(L[i], ch2, n2)
    BY DEF ListInv
  <1>1. CoinInv(L[i], ch, n) /\ L[i] \in ListCoin BY ElementOfSeq DEF ListInv
  <1>2. L[i].sid \in Nat BY <1>1 DEF ListCoin
  <1> QED BY <1>1, <1>2 DEF CoinInv

\* The funded coins of L, but for the e-th, have their row.
HasRow(rs, c) == \E r \in 1..Len(rs) : rs[r].sid = c.sid /\ rs[r].utxo = c.utxo
Backed(L, rs, e) ==
  \A i \in 1..Len(L) : L[i].status \in Funded /\ i # e => HasRow(rs, L[i])

-----------------------------------------------------------------------------
(* The stored wallet and the copies, under every step *)

ProofCommand ==
  [pc : {"idle", "push", "ask", "answered", "address", "check", "row"},
   copy : Seq(ListCoin), i : Nat, sid : Nat, signed : SUBSET Nat]

Types ==
  /\ cmd \in [Commands -> ProofCommand]
  /\ sigs \in Seq(Nat) /\ ChainType
  /\ rows \in Seq([sid : Nat, utxo : Nat])

\* What a command's copy of the wallet is at each of its steps.
Copies(q, n) ==
  /\ q.pc \in {"ask", "answered"} =>
       /\ Len(q.copy) # 0
       /\ q.copy[Len(q.copy)].sid = None /\ q.copy[Len(q.copy)].status = "INITIALISED"
  /\ q.pc = "answered" =>
       q.sid \in 1..n /\ \A i \in 1..Len(q.copy) : q.copy[i].sid # q.sid
  /\ q.pc = "address" =>
       /\ Len(q.copy) # 0 /\ q.sid # None
       /\ q.copy[Len(q.copy)].sid = q.sid /\ q.copy[Len(q.copy)].status = "INITIALISED"
  /\ q.pc = "row" => q.i \in 1..Len(q.copy) /\ q.copy[q.i].status \in Funded
  /\ q.pc = "check" => q.i # 0

Unstored(q) == IF q.pc = "row" THEN q.i ELSE 0

CommandInv(q, ch, n, rs) ==
  /\ q \in ProofCommand
  /\ ListInv(q.copy, ch, n)
  /\ Copies(q, n)
  /\ Backed(q.copy, rs, Unstored(q))

Lists ==
  /\ Types
  /\ ListInv(wallet, chain, Len(sigs)) /\ Backed(wallet, rows, 0)
  /\ \A k \in Commands : CommandInv(cmd[k], chain, Len(sigs), rows)

LEMMA EmptyList ==
  ASSUME NEW ch, NEW n \in Nat, NEW rs, NEW e
  PROVE  ListInv(<<>>, ch, n) /\ Backed(<<>>, rs, e)
PROOF
  <1>1. <<>> \in Seq(ListCoin) /\ Len(<<>>) = 0 OBVIOUS
  <1> QED BY <1>1 DEF ListInv, Distinct, HasCoin, Backed

LEMMA IdleCommand ==
  ASSUME NEW ch, NEW n \in Nat, NEW rs
  PROVE  CommandInv(Idle, ch, n, rs)
PROOF
  <1>1. Idle \in ProofCommand
    <2>1. <<>> \in Seq(ListCoin) OBVIOUS
    <2> QED BY <2>1 DEF Idle, ProofCommand, None
  <1>2. Idle.copy = <<>> /\ Idle.pc = "idle" BY DEF Idle
  <1> QED BY <1>1, <1>2, EmptyList DEF CommandInv, Copies

LEMMA ListsInit == Init => Lists
PROOF
  <1> SUFFICES ASSUME Init PROVE Lists OBVIOUS
  <1>1. /\ wallet = <<>> /\ rows = <<>> /\ sigs = <<>> /\ chain = <<>>
        /\ cmd = [k \in Commands |-> Idle] BY DEF Init
  <1>2. Len(sigs) \in Nat /\ Len(sigs) = 0 BY <1>1
  <1>3. \A k \in Commands : CommandInv(cmd[k], chain, Len(sigs), rows)
    BY <1>1, <1>2, IdleCommand
  <1>4. ListInv(wallet, chain, Len(sigs)) /\ Backed(wallet, rows, 0)
    BY <1>1, <1>2, EmptyList
  <1>5. Types
    <2>1. \A k \in Commands : cmd[k] \in ProofCommand BY <1>3 DEF CommandInv
    <2>2. cmd \in [Commands -> ProofCommand] BY <1>1, <2>1
    <2>3. \A S : <<>> \in Seq(S) BY EmptySeq
    <2> QED BY <1>1, <2>2, <2>3 DEF Types, ChainType
  <1> QED BY <1>3, <1>4, <1>5 DEF Lists

\* The other commands do not feel a step that lets the chain, the server and
\* the table grow.
LEMMA GrowthKeepsCommand ==
  ASSUME NEW q, NEW ch, NEW n \in Nat, NEW rs, CommandInv(q, ch, n, rs),
         NEW ch2, NEW n2 \in Nat, n <= n2, Len(ch) \in Nat, Len(ch2) \in Nat,
         Len(ch) <= Len(ch2), \A u \in 1..Len(ch) : ch2[u].sid = ch[u].sid,
         NEW rs2, Len(rs) \in Nat, Len(rs2) \in Nat, Len(rs) <= Len(rs2),
         \A r \in 1..Len(rs) : rs2[r] = rs[r]
  PROVE  CommandInv(q, ch2, n2, rs2)
PROOF
  <1>1. ListInv(q.copy, ch2, n2)
    BY GrowthKeepsList DEF CommandInv
  <1>2. Backed(q.copy, rs2, Unstored(q))
    <2>1. \A c : HasRow(rs, c) => HasRow(rs2, c) BY DEF HasRow
    <2> QED BY <2>1 DEF CommandInv, Backed
  <1>3. Copies(q, n2)
    BY DEF CommandInv, Copies
  <1> QED BY <1>1, <1>2, <1>3 DEF CommandInv

\* What no step takes back.
Grows ==
  /\ sigs' \in Seq(Nat) /\ Len(sigs) <= Len(sigs')
  /\ ChainType' /\ Len(chain) <= Len(chain')
  /\ \A u \in 1..Len(chain) : chain'[u].sid = chain[u].sid
  /\ rows' \in Seq([sid : Nat, utxo : Nat]) /\ Len(rows) <= Len(rows')
  /\ \A r \in 1..Len(rows) : rows'[r] = rows[r]

\* A list that is left alone has not shrunk.
LEMMA SameLengths ==
  ASSUME Types
  PROVE  Len(sigs) <= Len(sigs) /\ Len(chain) <= Len(chain) /\ Len(rows) <= Len(rows)
PROOF
  <1>1. Len(sigs) \in Nat /\ Len(chain) \in Nat /\ Len(rows) \in Nat
    BY LenProperties DEF Types, ChainType
  <1>2. \A n \in Nat : n <= n OBVIOUS
  <1> QED BY <1>1, <1>2

LEMMA StillGrows ==
  ASSUME Types, UNCHANGED <<sigs, chain, rows>>
  PROVE  Grows
PROOF
  BY SameLengths DEF Types, Grows, ChainType

LEMMA SigsGrow ==
  ASSUME Types, UNCHANGED <<chain, rows>>, sigs' \in Seq(Nat), Len(sigs) <= Len(sigs')
  PROVE  Grows
PROOF
  BY SameLengths DEF Types, Grows, ChainType

LEMMA RowsGrow ==
  ASSUME Types, UNCHANGED <<chain, sigs>>,
         rows' \in Seq([sid : Nat, utxo : Nat]), Len(rows) <= Len(rows'),
         \A r \in 1..Len(rows) : rows'[r] = rows[r]
  PROVE  Grows
PROOF
  BY SameLengths DEF Types, Grows, ChainType

LEMMA Lengths ==
  ASSUME Types, Grows
  PROVE  /\ Len(sigs) \in Nat /\ Len(chain) \in Nat /\ Len(rows) \in Nat
         /\ Len(sigs') \in Nat /\ Len(chain') \in Nat /\ Len(rows') \in Nat
PROOF
  BY LenProperties DEF Types, ChainType, Grows

LEMMA KeepsCommand ==
  ASSUME Types, Grows, NEW q, CommandInv(q, chain, Len(sigs), rows)
  PROVE  CommandInv(q, chain', Len(sigs'), rows')
PROOF
  <1> Len(sigs) \in Nat /\ Len(chain) \in Nat /\ Len(rows) \in Nat
        /\ Len(sigs') \in Nat /\ Len(chain') \in Nat /\ Len(rows') \in Nat BY Lengths
  <1> QED BY GrowthKeepsCommand DEF Grows

LEMMA KeepsWallet ==
  ASSUME Types, Grows, NEW L, ListInv(L, chain, Len(sigs)), Backed(L, rows, 0)
  PROVE  ListInv(L, chain', Len(sigs')) /\ Backed(L, rows', 0)
PROOF
  <1>1. Len(sigs) \in Nat /\ Len(chain) \in Nat /\ Len(rows) \in Nat
        /\ Len(sigs') \in Nat /\ Len(chain') \in Nat /\ Len(rows') \in Nat BY Lengths
  <1>2. ListInv(L, chain', Len(sigs')) BY <1>1, GrowthKeepsList DEF Grows
  <1>3. ASSUME NEW c, HasRow(rows, c) PROVE HasRow(rows', c)
    <2>1. PICK r \in 1..Len(rows) : rows[r].sid = c.sid /\ rows[r].utxo = c.utxo
      BY <1>3 DEF HasRow
    <2>2. r \in 1..Len(rows') /\ rows'[r] = rows[r] BY <1>1 DEF Grows
    <2> QED BY <2>1, <2>2 DEF HasRow
  <1> QED BY <1>2, <1>3 DEF Backed

\* A step of one command.
LEMMA OneCommand ==
  ASSUME Lists, Grows, NEW k \in Commands, NEW q,
         cmd' = [cmd EXCEPT ![k] = q], CommandInv(q, chain', Len(sigs'), rows'),
         ListInv(wallet', chain', Len(sigs')), Backed(wallet', rows', 0)
  PROVE  Lists'
PROOF
  <1>1. ASSUME NEW j \in Commands PROVE CommandInv(cmd'[j], chain', Len(sigs'), rows')
    <2>1. CASE j = k BY <2>1 DEF Lists, Types
    <2>2. CASE j # k
      <3>1. cmd'[j] = cmd[j] BY <2>2 DEF Lists, Types
      <3>2. CommandInv(cmd[j], chain, Len(sigs), rows) /\ Types BY DEF Lists
      <3> QED BY <3>1, <3>2, KeepsCommand
    <2> QED BY <2>1, <2>2
  <1>2. Types'
    <2>1. q \in ProofCommand BY DEF CommandInv
    <2> QED BY <2>1 DEF Lists, Types, Grows
  <1> QED BY <1>1, <1>2 DEF Lists

\* A step of one command that writes nothing but its own state.
LEMMA OwnState ==
  ASSUME Lists, NEW k \in Commands, NEW q,
         cmd' = [cmd EXCEPT ![k] = q], UNCHANGED <<wallet, rows, sigs, chain>>,
         CommandInv(q, chain, Len(sigs), rows)
  PROVE  Lists'
PROOF
  <1>1. Types BY DEF Lists
  <1>2. Grows BY <1>1, StillGrows
  <1> QED BY <1>2, OneCommand DEF Lists

\* A command that ends
LEMMA EndKeepsLists ==
  ASSUME Lists, NEW k \in Commands, cmd' = [cmd EXCEPT ![k] = Idle],
         UNCHANGED <<wallet, rows, sigs, chain>>
  PROVE  Lists'
PROOF
  <1>1. Len(sigs) \in Nat BY LenProperties DEF Lists, Types
  <1> QED BY <1>1, IdleCommand, OwnState

LEMMA BeginKeepsLists ==
  ASSUME Lists, NEW k \in Commands, NEW pc \in {"push", "check"}, get_wallet(k, pc),
         UNCHANGED <<wallet, rows, sigs, chain>>
  PROVE  Lists'
PROOF
  <1> DEFINE q == [Idle EXCEPT !.pc = pc, !.copy = wallet, !.i = 1]
  <1>1. cmd' = [cmd EXCEPT ![k] = q] BY DEF get_wallet
  <1>2. Idle \in ProofCommand
    BY IdleCommand, LenProperties DEF CommandInv, Lists, Types
  <1>3. wallet \in Seq(ListCoin) BY DEF Lists, ListInv
  <1>4. q \in ProofCommand BY <1>2, <1>3 DEF ProofCommand
  <1>5. q.copy = wallet /\ q.pc = pc /\ q.i = 1 BY <1>2 DEF ProofCommand
  <1> HIDE DEF q
  <1>6. Copies(q, Len(sigs)) BY <1>5 DEF Copies
  <1>7. Backed(q.copy, rows, Unstored(q)) BY <1>5 DEF Lists, Unstored
  <1>8. CommandInv(q, chain, Len(sigs), rows) BY <1>4, <1>5, <1>6, <1>7 DEF CommandInv, Lists
  <1> QED BY <1>1, <1>8, OwnState

\* update_wallet with a list that is in order
LEMMA UpdateKeepsLists ==
  ASSUME Lists, NEW k \in Commands, NEW coins, NEW pc, update_wallet(k, coins, pc),
         UNCHANGED <<rows, sigs, chain>>, pc \notin {"row", "check"},
         ListInv(coins, chain, Len(sigs)), Backed(coins, rows, 0),
         LET q == [cmd[k] EXCEPT !.copy = coins, !.pc = pc]
         IN q \in ProofCommand /\ Copies(q, Len(sigs))
  PROVE  Lists'
PROOF
  <1> DEFINE q == [cmd[k] EXCEPT !.copy = coins, !.pc = pc]
  <1>1. cmd' = [cmd EXCEPT ![k] = q] BY DEF update_wallet, Lists, Types
  <1>2. cmd[k] \in ProofCommand BY DEF Lists, Types
  <1>3. q.copy = coins /\ q.pc = pc BY <1>2 DEF ProofCommand
  <1>4. q \in ProofCommand /\ Copies(q, Len(sigs)) OBVIOUS
  <1> HIDE DEF q
  <1>5. Backed(q.copy, rows, Unstored(q)) BY <1>3 DEF Unstored
  <1>6. CommandInv(q, chain, Len(sigs), rows) BY <1>3, <1>4, <1>5 DEF CommandInv
  <1>7. Grows BY StillGrows DEF Lists
  <1>8. wallet' = coins BY DEF update_wallet
  <1> QED BY <1>1, <1>6, <1>7, <1>8, OneCommand

LEMMA PushKeepsLists ==
  ASSUME Lists, NEW k \in Commands, PushCoin(k)
  PROVE  Lists'
PROOF
  <1> DEFINE L == cmd[k].copy
             A == Append(L, NewCoin)
             q == [cmd[k] EXCEPT !.copy = A, !.pc = "ask"]
  <1>1. cmd[k] \in ProofCommand /\ CommandInv(cmd[k], chain, Len(sigs), rows)
    BY DEF Lists, Types
  <1>2. Len(sigs) \in Nat BY LenProperties DEF Lists, Types
  <1>3. ListInv(L, chain, Len(sigs)) /\ L \in Seq(ListCoin) BY <1>1 DEF CommandInv, ListInv
  <1>4. ListInv(A, chain, Len(sigs)) BY <1>2, <1>3, AppendKeepsList
  <1>5. NewCoin \in ListCoin BY DEF NewCoin, ListCoin, CoinStatus, Awaited, None
  <1>6. /\ A \in Seq(ListCoin) /\ Len(A) = Len(L) + 1 /\ Len(L) \in Nat
        /\ \A i \in 1..Len(L) : A[i] = L[i]
        /\ A[Len(L) + 1] = NewCoin
    BY <1>3, <1>5, AppendProperties
  <1>7. Backed(L, rows, 0)
    BY <1>1 DEF CommandInv, PushCoin, Unstored
  <1>8. Backed(A, rows, 0)
    <2> HIDE DEF A, L
    <2>1. \A i \in 1..Len(A) : i \in 1..Len(L) \/ A[i].status \notin Funded
      BY <1>6 DEF NewCoin, Funded
    <2> QED BY <1>6, <1>7, <2>1 DEF Backed
  <1>9. q \in ProofCommand BY <1>1, <1>6 DEF ProofCommand
  <1>10. q.copy = A /\ q.pc = "ask" BY <1>1 DEF ProofCommand
  <1>11. Copies(q, Len(sigs))
    <2> HIDE DEF q, A, L
    <2>1. Len(A) # 0 /\ A[Len(A)] = NewCoin BY <1>6
    <2> QED BY <1>10, <2>1 DEF Copies, NewCoin
  <1>12. update_wallet(k, A, "ask") /\ UNCHANGED <<rows, sigs, chain>> BY DEF PushCoin
  <1>13. "ask" \notin {"row", "check"} OBVIOUS
  <1> HIDE DEF A, L
  <1> QED BY <1>4, <1>8, <1>9, <1>11, <1>12, <1>13, UpdateKeepsLists

LEMMA AskKeepsLists ==
  ASSUME Lists, NEW k \in Commands, AskServer(k)
  PROVE  Lists'
PROOF
  <1> DEFINE q == [cmd[k] EXCEPT !.sid = Len(sigs) + 1, !.pc = "answered"]
             n == Len(sigs)
  <1>1. cmd[k] \in ProofCommand /\ CommandInv(cmd[k], chain, n, rows) /\ cmd[k].pc = "ask"
    BY DEF Lists, Types, AskServer
  <1>2. sigs \in Seq(Nat) /\ n \in Nat BY LenProperties DEF Lists, Types
  <1>3. sigs' = Append(sigs, 0) /\ UNCHANGED <<wallet, chain, rows>> BY DEF AskServer
  <1>4. sigs' \in Seq(Nat) /\ Len(sigs') = n + 1 BY <1>2, <1>3, AppendProperties
  <1>5. Grows
    <2>1. Len(sigs) <= Len(sigs') BY <1>2, <1>4
    <2> QED BY <1>3, <1>4, <2>1, SigsGrow DEF Lists
  <1>6. cmd' = [cmd EXCEPT ![k] = q] BY DEF AskServer, Lists, Types
  <1>7. q \in ProofCommand /\ q.copy = cmd[k].copy /\ q.pc = "answered" /\ q.sid = n + 1
    <2>1. q \in ProofCommand
      <3>1. ASSUME NEW m \in Nat PROVE [cmd[k] EXCEPT !.sid = m, !.pc = "answered"] \in ProofCommand
        BY <1>1 DEF ProofCommand
      <3>2. Len(sigs) + 1 \in Nat BY <1>2
      <3> QED BY <3>1, <3>2
    <2>2. q.copy = cmd[k].copy /\ q.pc = "answered" BY <1>1 DEF ProofCommand
    <2>3. q.sid = n + 1 BY <1>1 DEF ProofCommand
    <2> QED BY <2>1, <2>2, <2>3
  <1> HIDE DEF q
  <1>8. Types /\ CommandInv(cmd[k], chain', Len(sigs'), rows')
    BY <1>1, <1>5, KeepsCommand DEF Lists
  <1>9. ASSUME NEW i \in 1..Len(cmd[k].copy) PROVE cmd[k].copy[i].sid # n + 1
    <2>1. ListInv(cmd[k].copy, chain, n) BY <1>1 DEF CommandInv
    <2>2. CoinInv(cmd[k].copy[i], chain, n) /\ cmd[k].copy[i] \in ListCoin
      BY <2>1, ElementOfSeq DEF ListInv
    <2> QED BY <1>2, <2>2 DEF CoinInv, ListCoin
  <1>10. Copies(q, Len(sigs'))
    BY <1>1, <1>2, <1>4, <1>7, <1>9 DEF CommandInv, Copies
  <1>11. Backed(q.copy, rows', Unstored(q))
    BY <1>1, <1>7, <1>8 DEF CommandInv, Unstored
  <1>12. CommandInv(q, chain', Len(sigs'), rows')
    BY <1>7, <1>8, <1>10, <1>11 DEF CommandInv
  <1>13. ListInv(wallet', chain', Len(sigs')) /\ Backed(wallet', rows', 0)
    BY <1>3, <1>5, KeepsWallet DEF Lists
  <1> QED BY <1>5, <1>6, <1>12, <1>13, OneCommand

LEMMA SidKeepsLists ==
  ASSUME Lists, NEW k \in Commands, SaveStatechainId(k)
  PROVE  Lists'
PROOF
  <1> DEFINE L == cmd[k].copy
             A == [L EXCEPT ![Len(L)].sid = cmd[k].sid]
             q == [cmd[k] EXCEPT !.copy = A, !.pc = "address"]
  <1>1. cmd[k] \in ProofCommand /\ CommandInv(cmd[k], chain, Len(sigs), rows)
        /\ cmd[k].pc = "answered"
    BY DEF Lists, Types, SaveStatechainId
  <1>2. Len(sigs) \in Nat BY LenProperties DEF Lists, Types
  <1>3. /\ ListInv(L, chain, Len(sigs)) /\ L \in Seq(ListCoin) /\ Len(L) \in Nat
        /\ Len(L) # 0 /\ L[Len(L)].sid = None /\ L[Len(L)].status = "INITIALISED"
        /\ cmd[k].sid \in 1..Len(sigs) /\ \A i \in 1..Len(L) : L[i].sid # cmd[k].sid
        /\ Backed(L, rows, 0)
    BY <1>1 DEF CommandInv, ListInv, Copies, Unstored
  <1>4. /\ ListInv(A, chain, Len(sigs)) /\ Len(A) = Len(L)
        /\ \A j \in 1..Len(L) :
             A[j] = IF j = Len(L) THEN [L[Len(L)] EXCEPT !.sid = cmd[k].sid] ELSE L[j]
    <2> HIDE DEF L
    <2> QED BY <1>2, <1>3, SidKeepsList
  <1>5. L[Len(L)] \in ListCoin BY <1>3, ElementOfSeq
  <1>6. A[Len(L)].sid = cmd[k].sid /\ A[Len(L)].status = "INITIALISED"
    <2>1. A[Len(L)] = [L[Len(L)] EXCEPT !.sid = cmd[k].sid] BY <1>3, <1>4
    <2> HIDE DEF L, A
    <2> QED BY <1>3, <1>5, <2>1 DEF ListCoin
  <1>7. A \in Seq(ListCoin) BY <1>4 DEF ListInv
  <1>9. q \in ProofCommand
    <2> HIDE DEF A
    <2> QED BY <1>1, <1>7 DEF ProofCommand
  <1>10. q.copy = A /\ q.pc = "address" /\ q.sid = cmd[k].sid
    <2> HIDE DEF A
    <2> QED BY <1>1 DEF ProofCommand
  <1>12. update_wallet(k, A, "address") /\ UNCHANGED <<rows, sigs, chain>>
    BY DEF SaveStatechainId
  <1>13. "address" \notin {"row", "check"} OBVIOUS
  <1> HIDE DEF A, L
  <1>8. Backed(A, rows, 0)
    <2>1. \A i \in 1..Len(A) : A[i] = L[i] \/ A[i].status \notin Funded
      BY <1>4, <1>6 DEF Funded
    <2> QED BY <1>3, <1>4, <2>1 DEF Backed
  <1>11. Copies(q, Len(sigs))
    <2>1. Len(A) # 0 /\ cmd[k].sid # None /\ A[Len(A)].sid = cmd[k].sid
          /\ A[Len(A)].status = "INITIALISED"
      BY <1>2, <1>3, <1>4, <1>6 DEF None
    <2> HIDE DEF q
    <2> QED BY <1>10, <2>1 DEF Copies
  <1> QED BY <1>4, <1>8, <1>9, <1>11, <1>12, <1>13, UpdateKeepsLists

LEMMA AddressKeepsLists ==
  ASSUME Lists, NEW k \in Commands, get_deposit_bitcoin_address(k)
  PROVE  Lists'
PROOF
  <1> DEFINE L == cmd[k].copy
             A == [L EXCEPT ![Len(L)].address = TRUE]
  <1>1. CommandInv(cmd[k], chain, Len(sigs), rows) /\ cmd[k].pc = "address"
    BY DEF Lists, get_deposit_bitcoin_address
  <1>2. Len(sigs) \in Nat BY LenProperties DEF Lists, Types
  <1>3. /\ ListInv(L, chain, Len(sigs)) /\ L \in Seq(ListCoin) /\ Len(L) \in Nat
        /\ Len(L) # 0 /\ L[Len(L)].sid # None /\ L[Len(L)].status = "INITIALISED"
        /\ Backed(L, rows, 0)
    BY <1>1 DEF CommandInv, ListInv, Copies, Unstored
  <1>4. /\ ListInv(A, chain, Len(sigs)) /\ Len(A) = Len(L)
        /\ \A j \in 1..Len(L) :
             A[j] = IF j = Len(L) THEN [L[Len(L)] EXCEPT !.address = TRUE] ELSE L[j]
    <2> HIDE DEF L
    <2> QED BY <1>2, <1>3, AddressKeepsList
  <1>5. L[Len(L)] \in ListCoin BY <1>3, ElementOfSeq
  <1>6. A[Len(L)].status = "INITIALISED"
    <2>1. A[Len(L)] = [L[Len(L)] EXCEPT !.address = TRUE] BY <1>3, <1>4
    <2> HIDE DEF L, A
    <2> QED BY <1>3, <1>5, <2>1 DEF ListCoin
  <1>7. wallet' = A /\ cmd' = [cmd EXCEPT ![k] = Idle] /\ UNCHANGED <<rows, sigs, chain>>
    BY DEF get_deposit_bitcoin_address, Show
  <1> HIDE DEF A, L
  <1>8. Backed(A, rows, 0)
    <2>1. \A i \in 1..Len(A) : A[i] = L[i] \/ A[i].status \notin Funded
      BY <1>4, <1>6 DEF Funded
    <2> QED BY <1>3, <1>4, <2>1 DEF Backed
  <1>9. Grows BY <1>7, StillGrows DEF Lists
  <1>10. CommandInv(Idle, chain', Len(sigs'), rows') BY <1>2, <1>7, IdleCommand
  <1> QED BY <1>4, <1>7, <1>8, <1>9, <1>10, OneCommand

\* What check_deposit finds: a coin with an address, and an output there.
LEMMA DepositFound ==
  ASSUME Lists, NEW k \in Commands, NEW i \in DOMAIN cmd[k].copy, NEW u \in DOMAIN chain,
         check_deposit(k, i, u)
  PROVE  /\ cmd[k] \in ProofCommand /\ cmd[k].pc = "check"
         /\ ListInv(cmd[k].copy, chain, Len(sigs)) /\ Backed(cmd[k].copy, rows, 0)
         /\ i \in 1..Len(cmd[k].copy) /\ cmd[k].copy[i] \in ListCoin
         /\ cmd[k].copy[i].sid \in 1..Len(sigs) /\ cmd[k].copy[i].sid # None
         /\ cmd[k].copy[i].status # "DUPLICATED"
         /\ u \in 1..Len(chain) \ {None} /\ u \in Nat
         /\ chain[u].sid = cmd[k].copy[i].sid
         /\ StatusAt(cmd[k].copy[i].status, u) \in Funded
         /\ cmd[k].copy[i].status = "INITIALISED" \/ cmd[k].copy[i].status \in Funded
PROOF
  <1> DEFINE L == cmd[k].copy
             c == L[i]
  <1>1. /\ cmd[k].pc = "check" /\ c.status \in Awaited /\ c.address
        /\ u \in Deposits(c.sid)
    BY DEF check_deposit, Reaches
  <1>2. cmd[k] \in ProofCommand /\ CommandInv(cmd[k], chain, Len(sigs), rows)
    BY DEF Lists, Types
  <1>3. ListInv(L, chain, Len(sigs)) /\ Backed(L, rows, 0) /\ L \in Seq(ListCoin)
    BY <1>1, <1>2 DEF CommandInv, Unstored, ListInv
  <1>4. i \in 1..Len(L) BY <1>3, LenProperties
  <1>5. c \in ListCoin /\ CoinInv(c, chain, Len(sigs)) BY <1>3, <1>4, ElementOfSeq DEF ListInv
  <1>6. Len(sigs) \in Nat /\ Len(chain) \in Nat /\ DOMAIN chain = 1..Len(chain)
    BY LenProperties DEF Lists, Types, ChainType
  <1>7. c.sid # None /\ c.sid \in 1..Len(sigs)
    BY <1>1, <1>5, <1>6 DEF CoinInv, ListCoin, None
  <1>8. u \in 1..Len(chain) \ {None} /\ u \in Nat BY <1>6 DEF None
  <1>9. chain[u].sid = c.sid BY <1>1 DEF Deposits, Outputs
  <1>10. c.status # "DUPLICATED" /\ (c.status = "INITIALISED" \/ c.status \in Funded)
    BY <1>1 DEF Awaited, Funded
  <1>11. StatusAt(c.status, u) \in Funded
    BY <1>10 DEF StatusAt, Funded
  <1> QED BY <1>1, <1>2, <1>3, <1>4, <1>5, <1>7, <1>8, <1>9, <1>10, <1>11

LEMMA SignKeepsLists ==
  ASSUME Lists, NEW k \in Commands, NEW i \in DOMAIN cmd[k].copy, NEW u \in DOMAIN chain,
         check_deposit(k, i, u), cmd[k].copy[i].status = "INITIALISED"
  PROVE  Lists'
PROOF
  <1> DEFINE L == cmd[k].copy
             f == [[L[i] EXCEPT !.status = StatusAt(L[i].status, u)] EXCEPT !.utxo = u]
             A == [L EXCEPT ![i] = f]
             q == [cmd[k] EXCEPT !.copy = A, !.signed = @ \cup {L[i].sid}, !.i = i, !.pc = "row"]
  <1>1. /\ cmd[k] \in ProofCommand
        /\ ListInv(L, chain, Len(sigs)) /\ Backed(L, rows, 0)
        /\ i \in 1..Len(L) /\ L[i] \in ListCoin
        /\ L[i].sid \in 1..Len(sigs) /\ L[i].sid # None /\ L[i].status # "DUPLICATED"
        /\ u \in 1..Len(chain) \ {None} /\ u \in Nat
        /\ chain[u].sid = L[i].sid
        /\ StatusAt(L[i].status, u) \in Funded
        /\ L[i].status = "INITIALISED"
    BY DepositFound
  <1>2. L \in Seq(ListCoin) /\ Len(L) \in Nat BY <1>1 DEF ListInv
  <1>3. StatusAt(L[i].status, u) \in CoinStatus BY <1>1 DEF CoinStatus
  <1>4. /\ f \in ListCoin /\ f.status \in Funded /\ f.sid = L[i].sid /\ f.utxo = u
        /\ f.duplicate_index = L[i].duplicate_index /\ f.address = L[i].address
    <2>1. ASSUME NEW c \in ListCoin, NEW st \in CoinStatus
          PROVE  LET g == [[c EXCEPT !.status = st] EXCEPT !.utxo = u]
                 IN /\ g \in ListCoin /\ g.status = st /\ g.sid = c.sid /\ g.utxo = u
                    /\ g.duplicate_index = c.duplicate_index /\ g.address = c.address
      BY <1>1 DEF ListCoin
    <2> QED BY <1>1, <1>3, <2>1
  <1>5. Len(sigs) \in Nat /\ sigs \in Seq(Nat) BY LenProperties DEF Lists, Types
  <1>6. /\ ListInv(A, chain, Len(sigs)) /\ Len(A) = Len(L)
        /\ \A j \in 1..Len(L) : A[j] = IF j = i THEN f ELSE L[j]
    <2> HIDE DEF f, L
    <2>1. f.utxo \in 1..Len(chain) /\ f.utxo # None /\ chain[f.utxo].sid = L[i].sid
      BY <1>1, <1>4
    <2>2. /\ ListInv(L, chain, Len(sigs)) /\ i \in 1..Len(L)
          /\ L[i].sid # None /\ L[i].status # "DUPLICATED"
          /\ L[i].status # "INITIALISED" => L[i].status \in Funded /\ f.utxo = L[i].utxo
      BY <1>1
    <2>3. /\ f \in ListCoin /\ f.status \in Funded /\ f.sid = L[i].sid
          /\ f.duplicate_index = L[i].duplicate_index /\ f.address = L[i].address
      BY <1>4
    <2>4. Len(sigs) \in Nat BY <1>5
    <2> QED BY ONLY <2>1, <2>2, <2>3, <2>4, FoundKeepsList
  <1>7. sigs' = [sigs EXCEPT ![L[i].sid] = @ + 1]
        /\ UNCHANGED <<wallet, rows, chain>>
    BY DEF check_deposit, create_tx1
  <1>8. sigs' \in Seq(Nat) /\ Len(sigs') = Len(sigs)
    <2>0. sigs[L[i].sid] \in Nat BY <1>1, <1>5, ElementOfSeq
    <2>1. sigs[L[i].sid] + 1 \in Nat BY <2>0
    <2> HIDE DEF L
    <2> QED BY <1>1, <1>5, <1>7, <2>1, ExceptSeq
  <1>9. cmd' = [cmd EXCEPT ![k] = q]
    <2>1. cmd' = [cmd EXCEPT ![k].copy[i] = f, ![k].signed = @ \cup {L[i].sid},
                             ![k].i = i, ![k].pc = "row"]
      BY DEF check_deposit
    <2> HIDE DEF f
    <2> QED BY <2>1 DEF Lists, Types
  <1>10. Grows
    <2>1. Len(sigs) <= Len(sigs') BY <1>8, SameLengths DEF Lists
    <2> QED BY <1>7, <1>8, <2>1, SigsGrow DEF Lists
  <1>11. q \in ProofCommand /\ q.copy = A /\ q.i = i /\ q.pc = "row"
    <2>1. A \in Seq(ListCoin) BY <1>6 DEF ListInv
    <2>2. L[i].sid \in Nat /\ i \in Nat BY <1>1, <1>2 DEF ListCoin
    <2>3. cmd[k].signed \cup {L[i].sid} \in SUBSET Nat BY <1>1, <2>2 DEF ProofCommand
    <2> HIDE DEF A
    <2> QED BY <1>1, <2>1, <2>2, <2>3 DEF ProofCommand
  <1> HIDE DEF q, A, f, L
  <1>12. Backed(A, rows, i) BY <1>1, <1>6 DEF Backed
  <1>13. Copies(q, Len(sigs')) BY <1>1, <1>4, <1>6, <1>11 DEF Copies
  <1>14. CommandInv(q, chain', Len(sigs'), rows')
    BY <1>6, <1>7, <1>8, <1>11, <1>12, <1>13 DEF CommandInv, Unstored
  <1>15. ListInv(wallet', chain', Len(sigs')) /\ Backed(wallet', rows', 0)
    BY <1>7, <1>10, KeepsWallet DEF Lists
  <1> QED BY <1>9, <1>10, <1>14, <1>15, OneCommand

LEMMA StatusKeepsLists ==
  ASSUME Lists, NEW k \in Commands, NEW i \in DOMAIN cmd[k].copy, NEW u \in DOMAIN chain,
         check_deposit(k, i, u), cmd[k].copy[i].status # "INITIALISED"
  PROVE  Lists'
PROOF
  <1> DEFINE L == cmd[k].copy
             f == [L[i] EXCEPT !.status = StatusAt(L[i].status, u)]
             A == [L EXCEPT ![i] = f]
             q == [cmd[k] EXCEPT !.copy = A, !.i = i + 1]
  <1>1. /\ cmd[k] \in ProofCommand /\ cmd[k].pc = "check"
        /\ ListInv(L, chain, Len(sigs)) /\ Backed(L, rows, 0)
        /\ i \in 1..Len(L) /\ L[i] \in ListCoin
        /\ L[i].sid # None /\ L[i].status # "DUPLICATED" /\ L[i].status \in Funded
        /\ StatusAt(L[i].status, u) \in Funded
    BY DepositFound
  <1>2. L \in Seq(ListCoin) /\ Len(L) \in Nat BY <1>1 DEF ListInv
  <1>3. StatusAt(L[i].status, u) \in CoinStatus BY <1>1 DEF CoinStatus
  <1>4. /\ f \in ListCoin /\ f.status \in Funded /\ f.sid = L[i].sid /\ f.utxo = L[i].utxo
        /\ f.duplicate_index = L[i].duplicate_index /\ f.address = L[i].address
    <2>1. ASSUME NEW c \in ListCoin, NEW st \in CoinStatus
          PROVE  LET g == [c EXCEPT !.status = st]
                 IN /\ g \in ListCoin /\ g.status = st /\ g.sid = c.sid /\ g.utxo = c.utxo
                    /\ g.duplicate_index = c.duplicate_index /\ g.address = c.address
      BY DEF ListCoin
    <2> QED BY <1>1, <1>3, <2>1
  <1>5. Len(sigs) \in Nat BY LenProperties DEF Lists, Types
  <1>6. /\ ListInv(A, chain, Len(sigs)) /\ Len(A) = Len(L)
        /\ \A j \in 1..Len(L) : A[j] = IF j = i THEN f ELSE L[j]
    <2>1. CoinInv(L[i], chain, Len(sigs)) BY <1>1 DEF ListInv
    <2>2. f.utxo \in 1..Len(chain) /\ f.utxo # None /\ chain[f.utxo].sid = L[i].sid
      BY <1>1, <1>4, <2>1 DEF CoinInv
    <2> HIDE DEF f, L
    <2> QED BY <1>1, <1>4, <1>5, <2>2, FoundKeepsList
  <1>7. UNCHANGED <<wallet, rows, chain, sigs>>
    BY DEF check_deposit
  <1>9. cmd' = [cmd EXCEPT ![k] = q]
    <2>1. cmd' = [cmd EXCEPT ![k].copy[i] = f, ![k].i = i + 1]
      BY DEF check_deposit
    <2> HIDE DEF f
    <2> QED BY <2>1 DEF Lists, Types
  <1>11. q \in ProofCommand /\ q.copy = A /\ q.i = i + 1 /\ q.pc = "check"
    <2>1. A \in Seq(ListCoin) BY <1>6 DEF ListInv
    <2>2. i + 1 \in Nat BY <1>1, <1>2
    <2> HIDE DEF A
    <2>3. ASSUME NEW m \in Nat
          PROVE  LET g == [cmd[k] EXCEPT !.copy = A, !.i = m]
                 IN g \in ProofCommand /\ g.copy = A /\ g.i = m /\ g.pc = cmd[k].pc
      BY <1>1, <2>1 DEF ProofCommand
    <2> QED BY <1>1, <2>2, <2>3
  <1>12. i + 1 # 0 BY <1>1, <1>2
  <1> HIDE DEF q, A, f, L
  <1>13. Backed(A, rows, 0)
    <2>1. HasRow(rows, L[i]) BY <1>1, <1>2 DEF Backed
    <2>2. HasRow(rows, f) BY <1>4, <2>1 DEF HasRow
    <2> QED BY <1>1, <1>6, <2>2 DEF Backed
  <1>14. Copies(q, Len(sigs)) BY <1>11, <1>12 DEF Copies
  <1>15. CommandInv(q, chain, Len(sigs), rows)
    BY <1>6, <1>11, <1>13, <1>14 DEF CommandInv, Unstored
  <1> QED BY <1>7, <1>9, <1>15, OwnState

LEMMA StoreKeepsLists ==
  ASSUME Lists, NEW k \in Commands, StoreBackup(k)
  PROVE  Lists'
PROOF
  <1> DEFINE L == cmd[k].copy
             i == cmd[k].i
             row == [sid |-> L[i].sid, utxo |-> L[i].utxo]
             q == [cmd[k] EXCEPT !.i = i + 1, !.pc = "check"]
  <1>1. /\ cmd[k] \in ProofCommand /\ CommandInv(cmd[k], chain, Len(sigs), rows)
        /\ cmd[k].pc = "row"
    BY DEF Lists, Types, StoreBackup
  <1>2. /\ ListInv(L, chain, Len(sigs)) /\ Backed(L, rows, i)
        /\ i \in 1..Len(L) /\ L \in Seq(ListCoin) /\ Len(L) \in Nat
    BY <1>1 DEF CommandInv, Copies, Unstored, ListInv
  <1>3. L[i] \in ListCoin BY <1>2, ElementOfSeq
  <1>4. row \in [sid : Nat, utxo : Nat] BY <1>3 DEF ListCoin
  <1>5. rows' = Append(rows, row) /\ UNCHANGED <<wallet, sigs, chain>>
    BY DEF StoreBackup, insert_backup_txs
  <1>6. rows \in Seq([sid : Nat, utxo : Nat]) BY DEF Lists, Types
  <1>7. /\ rows' \in Seq([sid : Nat, utxo : Nat]) /\ Len(rows') = Len(rows) + 1
        /\ Len(rows) \in Nat
        /\ \A r \in 1..Len(rows) : rows'[r] = rows[r]
        /\ rows'[Len(rows) + 1] = row
    <2> HIDE DEF row
    <2> QED BY <1>4, <1>5, <1>6, AppendProperties
  <1>8. Grows
    <2> HIDE DEF row
    <2>1. \A n \in Nat : n <= n + 1 OBVIOUS
    <2>2. Len(rows) <= Len(rows') BY <1>7, <2>1
    <2> QED BY <1>5, <1>7, <2>2, RowsGrow DEF Lists
  <1>9. cmd' = [cmd EXCEPT ![k] = q] BY DEF StoreBackup, Lists, Types
  <1>10. q \in ProofCommand /\ q.copy = L /\ q.i = i + 1 /\ q.pc = "check"
    <2>1. i + 1 \in Nat BY <1>2
    <2>2. ASSUME NEW m \in Nat
          PROVE  LET g == [cmd[k] EXCEPT !.i = m, !.pc = "check"]
                 IN g \in ProofCommand /\ g.copy = L /\ g.i = m /\ g.pc = "check"
      BY <1>1 DEF ProofCommand
    <2> QED BY <2>1, <2>2
  <1>11. i + 1 # 0 BY <1>2
  <1>12. HasRow(rows', L[i])
    <2>1. Len(rows) + 1 \in 1..Len(rows') BY <1>7
    <2>2. rows'[Len(rows) + 1].sid = L[i].sid /\ rows'[Len(rows) + 1].utxo = L[i].utxo
      BY <1>7
    <2> QED BY <2>1, <2>2 DEF HasRow
  <1>13. Types /\ CommandInv(cmd[k], chain', Len(sigs'), rows')
    BY <1>1, <1>8, KeepsCommand DEF Lists
  <1>14. Backed(L, rows', i) BY <1>1, <1>13 DEF CommandInv, Unstored
  <1> HIDE DEF q, L, i, row
  <1>15. Backed(L, rows', 0) BY <1>12, <1>14 DEF Backed
  <1>16. Copies(q, Len(sigs')) BY <1>10, <1>11 DEF Copies
  <1>17. CommandInv(q, chain', Len(sigs'), rows')
    BY <1>2, <1>5, <1>10, <1>15, <1>16 DEF CommandInv, Unstored
  <1>18. ListInv(wallet', chain', Len(sigs')) /\ Backed(wallet', rows', 0)
    BY <1>5, <1>8, KeepsWallet DEF Lists
  <1> QED BY <1>8, <1>9, <1>17, <1>18, OneCommand

LEMMA SaveKeepsLists ==
  ASSUME Lists, NEW k \in Commands, SaveCoins(k)
  PROVE  Lists'
PROOF
  <1> DEFINE L == cmd[k].copy
             A(found) == L \o [m \in 1..Len(found) |-> Duplicate(L, found, m)]
  <1>1. CommandInv(cmd[k], chain, Len(sigs), rows) /\ cmd[k].pc = "check"
    BY DEF Lists, SaveCoins, Reaches
  <1>2. Len(sigs) \in Nat /\ ChainType BY LenProperties DEF Lists, Types
  <1>3. ListInv(L, chain, Len(sigs)) /\ Backed(L, rows, 0) /\ L \in Seq(ListCoin) /\ Len(L) \in Nat
    BY <1>1 DEF CommandInv, Unstored, ListInv
  <1>4. PICK found \in Listings(Extra(L)) : wallet' = A(found)
    BY DEF SaveCoins
  <1>5. /\ ListInv(wallet', chain, Len(sigs))
        /\ \A i \in 1..Len(L) : wallet'[i] = L[i]
        /\ \A i \in 1..Len(wallet') : i > Len(L) => wallet'[i].status = "DUPLICATED"
    <2>1. LET B == L \o [m \in 1..Len(found) |-> Duplicate(L, found, m)]
          IN /\ ListInv(B, chain, Len(sigs)) /\ Len(B) >= Len(L)
             /\ \A i \in 1..Len(L) : B[i] = L[i]
             /\ \A i \in 1..Len(B) : i > Len(L) => B[i].status = "DUPLICATED"
      <3> HIDE DEF L
      <3> QED BY <1>2, <1>3, SaveKeepsList
    <2> QED BY <1>4, <2>1
  <1>6. Len(wallet') \in Nat BY <1>5, LenProperties DEF ListInv
  <1>7. Backed(wallet', rows, 0)
    <2> HIDE DEF L
    <2>1. \A i \in 1..Len(wallet') : wallet'[i].status \in Funded =>
             i \in 1..Len(L) /\ wallet'[i] = L[i]
      BY <1>3, <1>5, <1>6 DEF Funded
    <2> QED BY <1>3, <2>1 DEF Backed
  <1>8. cmd' = [cmd EXCEPT ![k] = Idle] /\ UNCHANGED <<rows, sigs, chain>> BY DEF SaveCoins
  <1>9. Grows BY <1>8, StillGrows DEF Lists
  <1>10. CommandInv(Idle, chain', Len(sigs'), rows') BY <1>2, <1>8, IdleCommand
  <1> QED BY <1>5, <1>7, <1>8, <1>9, <1>10, OneCommand

LEMMA ChainKeepsLists ==
  ASSUME Lists, UNCHANGED <<wallet, rows, cmd, sigs>>,
         ChainType', Len(chain) <= Len(chain'),
         \A u \in 1..Len(chain) : chain'[u].sid = chain[u].sid
  PROVE  Lists'
PROOF
  <1>1. Grows
    BY SameLengths DEF Lists, Types, Grows
  <1>2. ListInv(wallet', chain', Len(sigs')) /\ Backed(wallet', rows', 0)
    BY <1>1, KeepsWallet DEF Lists
  <1>3. \A k \in Commands : CommandInv(cmd'[k], chain', Len(sigs'), rows')
    BY <1>1, KeepsCommand DEF Lists
  <1>4. Types' BY DEF Lists, Types, ChainType
  <1> QED BY <1>2, <1>3, <1>4 DEF Lists

LEMMA ListsStep == Lists /\ [Next]_vars => Lists'
PROOF
  <1> SUFFICES ASSUME Lists, [Next]_vars PROVE Lists' OBVIOUS
  <1>0. chain \in Seq([sid : Nat, exact : BOOLEAN, depth : 0..2]) /\ Len(chain) \in Nat
        /\ DOMAIN chain = 1..Len(chain)
    BY LenProperties DEF Lists, Types, ChainType
  <1>1. CASE UNCHANGED vars
    <2>1. UNCHANGED <<wallet, rows, cmd, sigs, chain>> BY <1>1 DEF vars
    <2> QED BY <1>0, <2>1, ChainKeepsLists DEF ChainType
  <1>2. ASSUME NEW k \in Commands, NewDeposit(k) PROVE Lists'
    <2>1. get_wallet(k, "push") /\ UNCHANGED <<wallet, rows, sigs, chain>>
      BY <1>2 DEF NewDeposit
    <2> QED BY <2>1, BeginKeepsLists
  <1>3. ASSUME NEW k \in Commands, update_coins(k) PROVE Lists'
    <2>1. get_wallet(k, "check") /\ UNCHANGED <<wallet, rows, sigs, chain>>
      BY <1>3 DEF update_coins
    <2> QED BY <2>1, BeginKeepsLists
  <1>4. ASSUME NEW k \in Commands, Work(k) PROVE Lists'
    <2>1. CASE PushCoin(k) BY <2>1, PushKeepsLists
    <2>2. CASE AskServer(k) BY <2>2, AskKeepsLists
    <2>3. CASE SaveStatechainId(k) BY <2>3, SidKeepsLists
    <2>4. CASE get_deposit_bitcoin_address(k) BY <2>4, AddressKeepsLists
    <2>5. ASSUME NEW i \in DOMAIN cmd[k].copy, NoAddress(k, i) PROVE Lists'
      BY <2>5, EndKeepsLists DEF NoAddress
    <2>6. ASSUME NEW i \in DOMAIN cmd[k].copy, NEW u \in DOMAIN chain, check_deposit(k, i, u)
          PROVE Lists'
      BY <2>6, SignKeepsLists, StatusKeepsLists
    <2>7. CASE StoreBackup(k) BY <2>7, StoreKeepsLists
    <2>8. CASE SaveCoins(k) BY <2>8, SaveKeepsLists
    <2> QED BY <1>4, <2>1, <2>2, <2>3, <2>4, <2>5, <2>6, <2>7, <2>8 DEF Work
  <1>5. ASSUME NEW k \in Commands, Stop(k) PROVE Lists'
    BY <1>5, EndKeepsLists DEF Stop
  <1>6. ASSUME NEW sid \in Sids, NEW exact \in BOOLEAN, Pay(sid, exact) PROVE Lists'
    <2> DEFINE out == [sid |-> sid, exact |-> exact, depth |-> 0]
    <2>1. out \in [sid : Nat, exact : BOOLEAN, depth : 0..2] BY BoundAssumption DEF Sids
    <2>2. chain' = Append(chain, out) /\ UNCHANGED <<wallet, rows, cmd, sigs>> BY <1>6 DEF Pay
    <2> HIDE DEF out
    <2>3. /\ ChainType' /\ Len(chain') = Len(chain) + 1
          /\ \A u \in 1..Len(chain) : chain'[u] = chain[u]
      BY <1>0, <2>1, <2>2, AppendProperties DEF ChainType
    <2> QED BY <1>0, <2>2, <2>3, ChainKeepsLists
  <1>7. ASSUME NEW u \in Utxos, Mine(u) PROVE Lists'
    <2>1. /\ u \in 1..Len(chain) /\ chain[u].depth < 2
          /\ chain' = [chain EXCEPT ![u].depth = @ + 1]
          /\ UNCHANGED <<wallet, rows, cmd, sigs>>
      BY <1>0, <1>7 DEF Mine
    <2> DEFINE out == [chain[u] EXCEPT !.depth = @ + 1]
    <2>2. chain[u] \in [sid : Nat, exact : BOOLEAN, depth : 0..2] BY <1>0, <2>1, ElementOfSeq
    <2>3. out \in [sid : Nat, exact : BOOLEAN, depth : 0..2] /\ out.sid = chain[u].sid
      BY <2>1, <2>2
    <2>4. chain' = [chain EXCEPT ![u] = out] BY <2>1
    <2> HIDE DEF out
    <2>5. /\ ChainType' /\ Len(chain') = Len(chain)
          /\ \A v \in 1..Len(chain) : chain'[v].sid = chain[v].sid
      <3>1. /\ ChainType' /\ Len(chain') = Len(chain)
            /\ \A v \in 1..Len(chain) : chain'[v] = IF v = u THEN out ELSE chain[v]
        <4>1. ASSUME NEW S, NEW c \in Seq(S), NEW o \in S, u \in 1..Len(c)
              PROVE  LET d == [c EXCEPT ![u] = o]
                     IN /\ d \in Seq(S) /\ Len(d) = Len(c)
                        /\ \A v \in 1..Len(c) : d[v] = IF v = u THEN o ELSE c[v]
          BY <4>1, ExceptSeq
        <4> DEFINE R == [sid : Nat, exact : BOOLEAN, depth : 0..2]
        <4>2. chain \in Seq(R) /\ out \in R /\ u \in 1..Len(chain) BY <1>0, <2>1, <2>3
        <4> HIDE DEF R
        <4>3. /\ chain' \in Seq(R) /\ Len(chain') = Len(chain)
              /\ \A v \in 1..Len(chain) : chain'[v] = IF v = u THEN out ELSE chain[v]
          BY <2>4, <4>1, <4>2
        <4> QED BY <4>3 DEF ChainType, R
      <3> QED BY <2>3, <3>1
    <2> QED BY <1>0, <2>1, <2>5, ChainKeepsLists
  <1> QED BY <1>1, <1>2, <1>3, <1>4, <1>5, <1>6, <1>7 DEF Next

LEMMA ListsAlways == Spec => []Lists
PROOF
  BY ListsInit, ListsStep, PTL DEF Spec

\* insert_backup_txs before update_wallet: whatever overlaps or breaks off, a
\* stored coin that has left INITIALISED has the backup of its own output.
THEOREM BackupsAreKept == Spec => []BackupKept
PROOF
  <1>1. Lists => BackupKept
    <2> SUFFICES ASSUME Lists, NEW c \in Range(wallet), c.status \in Funded
                 PROVE  \E r \in DOMAIN rows : rows[r].sid = c.sid /\ rows[r].utxo = c.utxo
      BY DEF BackupKept
    <2>1. wallet \in Seq(ListCoin) /\ Backed(wallet, rows, 0) BY DEF Lists, ListInv
    <2>2. rows \in Seq([sid : Nat, utxo : Nat]) BY DEF Lists, Types
    <2>3. DOMAIN wallet = 1..Len(wallet) /\ Len(wallet) \in Nat /\ DOMAIN rows = 1..Len(rows)
      BY <2>1, <2>2, LenProperties
    <2>4. PICK i \in 1..Len(wallet) : c = wallet[i] BY <2>3 DEF Range
    <2>5. HasRow(rows, c) BY <2>1, <2>3, <2>4 DEF Backed
    <2> QED BY <2>3, <2>5 DEF HasRow
  <1> QED BY <1>1, ListsAlways, PTL

\* check_for_duplicated: whatever overlaps or breaks off, no output is held
\* twice and no duplicate_index is given twice.
THEOREM OutputsHeldOnce == Spec => []OutputHeldOnce
PROOF
  <1>1. Lists => OutputHeldOnce
    <2> SUFFICES ASSUME Lists PROVE OutputHeldOnce OBVIOUS
    <2>1. wallet \in Seq(ListCoin) /\ Distinct(wallet) BY DEF Lists, ListInv
    <2>2. DOMAIN wallet = 1..Len(wallet) BY <2>1, LenProperties
    <2> QED BY <2>1, <2>2 DEF OutputHeldOnce, Distinct
  <1> QED BY <1>1, ListsAlways, PTL

-----------------------------------------------------------------------------
(* Commands one at a time *)

\* L has the coin of every statechain of S, with its address.
Has(L, sid) ==
  \E i \in 1..Len(L) : L[i].sid = sid /\ L[i].duplicate_index = 0 /\ L[i].address
Keeps(L, S) == \A sid \in S : Has(L, sid)

\* Without overlaps the running command is alone, and its copy has every
\* address the user was shown.
Solo ==
  /\ overlaps \in Nat
  /\ \A sid \in shown : sid # None
  /\ overlaps = 0 =>
       /\ Keeps(wallet, shown)
       /\ \A k \in Commands : cmd[k].pc # "idle" => Alone(k) /\ Keeps(cmd[k].copy, shown)

LEMMA SoloInit == Init => Solo
PROOF
  BY DEF Init, Solo, Keeps, Idle

\* A step of the running command
LEMMA SoloOne ==
  ASSUME Lists, Solo, NEW k \in Commands, NEW q, cmd' = [cmd EXCEPT ![k] = q],
         cmd[k].pc # "idle", UNCHANGED overlaps, \A sid \in shown' : sid # None,
         Keeps(cmd[k].copy, shown) /\ Keeps(wallet, shown) =>
           Keeps(wallet', shown') /\ (q.pc = "idle" \/ Keeps(q.copy, shown'))
  PROVE  Solo'
PROOF
  <1> SUFFICES ASSUME overlaps = 0
               PROVE  /\ Keeps(wallet', shown')
                      /\ \A j \in Commands : cmd'[j].pc # "idle" =>
                           Alone(j)' /\ Keeps(cmd'[j].copy, shown')
    BY DEF Solo
  <1>1. Keeps(wallet', shown') /\ (q.pc = "idle" \/ Keeps(q.copy, shown')) /\ Alone(k)
    BY DEF Solo
  <1>2. \A j \in Commands : cmd'[j] = IF j = k THEN q ELSE cmd[j] BY DEF Lists, Types
  <1>3. \A j \in Commands : j # k => cmd'[j].pc = "idle" BY <1>1, <1>2 DEF Alone
  <1>4. ASSUME NEW j \in Commands, cmd'[j].pc # "idle"
        PROVE  Alone(j)' /\ Keeps(cmd'[j].copy, shown')
    <2>1. j = k BY <1>3, <1>4
    <2>2. Alone(j)' BY <1>3, <2>1 DEF Alone
    <2> QED BY <1>1, <1>2, <1>4, <2>1, <2>2
  <1> QED BY <1>1, <1>4

\* A list whose coins stay where they are
LEMMA KeepsLonger ==
  ASSUME NEW L, NEW A, NEW S, Keeps(L, S), Len(L) \in Nat, Len(A) \in Nat, Len(L) <= Len(A),
         \A i \in 1..Len(L) : L[i].sid # None =>
           /\ A[i].sid = L[i].sid /\ A[i].duplicate_index = L[i].duplicate_index
           /\ L[i].address => A[i].address,
         \A sid \in S : sid # None
  PROVE  Keeps(A, S)
PROOF
  <1> SUFFICES ASSUME NEW sid \in S PROVE Has(A, sid) BY DEF Keeps
  <1>1. PICK i \in 1..Len(L) : L[i].sid = sid /\ L[i].duplicate_index = 0 /\ L[i].address
    BY DEF Keeps, Has
  <1>2. i \in 1..Len(A) OBVIOUS
  <1> QED BY <1>1, <1>2 DEF Has

LEMMA SoloStep == Lists /\ Solo /\ [Next]_vars => Solo'
PROOF
  <1> SUFFICES ASSUME Lists, Solo, [Next]_vars PROVE Solo' OBVIOUS
  <1>0. /\ overlaps \in Nat /\ \A sid \in shown : sid # None
        /\ Len(sigs) \in Nat /\ ChainType /\ Idle.pc = "idle"
    BY LenProperties DEF Lists, Types, Solo, Idle
  <1>1. CASE UNCHANGED vars BY <1>1 DEF vars, Solo, Alone
  <1>2. ASSUME NEW k \in Commands, NEW pc \in {"push", "check"}, get_wallet(k, pc),
               UNCHANGED <<wallet, shown>>
        PROVE  Solo'
    <2> DEFINE q == [Idle EXCEPT !.pc = pc, !.copy = wallet, !.i = 1]
    <2>1. cmd' = [cmd EXCEPT ![k] = q] BY <1>2 DEF get_wallet
    <2>2. q.copy = wallet BY DEF Idle
    <2> HIDE DEF q
    <2>3. overlaps' \in Nat BY <1>0, <1>2 DEF get_wallet
    <2>4. CASE overlaps' # 0 BY <1>0, <1>2, <2>3, <2>4 DEF Solo
    <2>5. CASE overlaps' = 0
      <3>1. Alone(k) /\ overlaps = 0 BY <1>0, <1>2, <2>5 DEF get_wallet
      <3>2. \A j \in Commands : cmd'[j] = IF j = k THEN q ELSE cmd[j]
        BY <2>1 DEF Lists, Types
      <3>3. \A j \in Commands : j # k => cmd'[j].pc = "idle" BY <3>1, <3>2 DEF Alone
      <3>4. Keeps(wallet, shown) BY <3>1 DEF Solo
      <3>5. ASSUME NEW j \in Commands, cmd'[j].pc # "idle"
            PROVE  Alone(j)' /\ Keeps(cmd'[j].copy, shown')
        <4>1. j = k BY <3>3, <3>5
        <4> QED BY <1>2, <2>2, <3>2, <3>3, <3>4, <4>1 DEF Alone
      <3> QED BY <1>0, <1>2, <2>3, <3>4, <3>5 DEF Solo
    <2> QED BY <2>4, <2>5
  <1>3. ASSUME NEW k \in Commands, cmd[k].pc # "idle", cmd' = [cmd EXCEPT ![k] = Idle],
               UNCHANGED <<wallet, shown, overlaps>>
        PROVE  Solo'
    BY <1>0, <1>3, SoloOne
  <1>4. ASSUME NEW k \in Commands, PushCoin(k) PROVE Solo'
    <2> DEFINE L == cmd[k].copy
               A == Append(L, NewCoin)
               q == [cmd[k] EXCEPT !.copy = A, !.pc = "ask"]
    <2>1. cmd[k] \in ProofCommand /\ L \in Seq(ListCoin) BY DEF Lists, Types, ProofCommand
    <2>2. NewCoin \in ListCoin BY DEF NewCoin, ListCoin, CoinStatus, Awaited, None
    <2>3. Len(A) = Len(L) + 1 /\ Len(L) \in Nat /\ \A i \in 1..Len(L) : A[i] = L[i]
      BY <2>1, <2>2, AppendProperties
    <2>4. cmd' = [cmd EXCEPT ![k] = q] /\ wallet' = A /\ UNCHANGED <<shown, overlaps>>
      BY <1>4 DEF PushCoin, update_wallet, Lists, Types
    <2>5. q.copy = A BY <2>1 DEF ProofCommand
    <2>6. cmd[k].pc # "idle" BY <1>4 DEF PushCoin
    <2> HIDE DEF A, L, q
    <2>7. Keeps(L, shown) => Keeps(A, shown) BY <1>0, <2>3, KeepsLonger
    <2> QED BY <1>0, <2>4, <2>5, <2>6, <2>7, SoloOne DEF L
  <1>5. ASSUME NEW k \in Commands, AskServer(k) PROVE Solo'
    <2> DEFINE q == [cmd[k] EXCEPT !.sid = Len(sigs) + 1, !.pc = "answered"]
    <2>1. cmd' = [cmd EXCEPT ![k] = q] /\ UNCHANGED <<wallet, shown, overlaps>>
      BY <1>5 DEF AskServer, Lists, Types
    <2>2. cmd[k] \in ProofCommand BY DEF Lists, Types
    <2>3. q.copy = cmd[k].copy BY <2>2 DEF ProofCommand
    <2>4. cmd[k].pc # "idle" BY <1>5 DEF AskServer
    <2> HIDE DEF q
    <2> QED BY <1>0, <2>1, <2>3, <2>4, SoloOne
  <1>6. ASSUME NEW k \in Commands, SaveStatechainId(k) PROVE Solo'
    <2> DEFINE L == cmd[k].copy
               A == [L EXCEPT ![Len(L)].sid = cmd[k].sid]
               q == [cmd[k] EXCEPT !.copy = A, !.pc = "address"]
    <2>1. /\ cmd[k] \in ProofCommand /\ CommandInv(cmd[k], chain, Len(sigs), rows)
          /\ cmd[k].pc = "answered"
      BY <1>6 DEF Lists, Types, SaveStatechainId
    <2>2. /\ ListInv(L, chain, Len(sigs)) /\ Len(L) \in Nat
          /\ Len(L) # 0 /\ L[Len(L)].sid = None /\ L[Len(L)].status = "INITIALISED"
          /\ cmd[k].sid \in 1..Len(sigs) /\ \A i \in 1..Len(L) : L[i].sid # cmd[k].sid
      BY <2>1 DEF CommandInv, ListInv, Copies
    <2>3. /\ Len(A) = Len(L)
          /\ \A j \in 1..Len(L) :
               A[j] = IF j = Len(L) THEN [L[Len(L)] EXCEPT !.sid = cmd[k].sid] ELSE L[j]
      <3> HIDE DEF L
      <3> QED BY <1>0, <2>2, SidKeepsList
    <2>4. cmd' = [cmd EXCEPT ![k] = q] /\ wallet' = A /\ UNCHANGED <<shown, overlaps>>
      BY <1>6 DEF SaveStatechainId, update_wallet, Lists, Types
    <2>5. q.copy = A
      <3> HIDE DEF A
      <3> QED BY <2>1 DEF ProofCommand
    <2> HIDE DEF A, L, q
    <2>6. \A i \in 1..Len(L) : L[i].sid # None => A[i] = L[i] BY <2>2, <2>3
    <2>7. Keeps(L, shown) => Keeps(A, shown) BY <1>0, <2>2, <2>3, <2>6, KeepsLonger
    <2> QED BY <1>0, <2>1, <2>4, <2>5, <2>7, SoloOne DEF L
  <1>7. ASSUME NEW k \in Commands, get_deposit_bitcoin_address(k) PROVE Solo'
    <2> DEFINE L == cmd[k].copy
               A == [L EXCEPT ![Len(L)].address = TRUE]
    <2>1. CommandInv(cmd[k], chain, Len(sigs), rows) /\ cmd[k].pc = "address"
      BY <1>7 DEF Lists, get_deposit_bitcoin_address
    <2>2. /\ ListInv(L, chain, Len(sigs)) /\ L \in Seq(ListCoin) /\ Len(L) \in Nat
          /\ Len(L) # 0 /\ L[Len(L)].sid = cmd[k].sid /\ cmd[k].sid # None
          /\ L[Len(L)].status = "INITIALISED"
      BY <2>1 DEF CommandInv, ListInv, Copies
    <2>3. /\ Len(A) = Len(L)
          /\ \A j \in 1..Len(L) :
               A[j] = IF j = Len(L) THEN [L[Len(L)] EXCEPT !.address = TRUE] ELSE L[j]
      <3> HIDE DEF L
      <3> QED BY <1>0, <2>2, AddressKeepsList
    <2>4. /\ cmd' = [cmd EXCEPT ![k] = Idle] /\ wallet' = A /\ UNCHANGED overlaps
          /\ shown' = shown \cup {cmd[k].sid}
      BY <1>7 DEF get_deposit_bitcoin_address, Show
    <2> HIDE DEF A, L
    <2>5. L[Len(L)] \in ListCoin /\ CoinInv(L[Len(L)], chain, Len(sigs))
      BY <2>2, ElementOfSeq DEF ListInv
    <2>6. L[Len(L)].duplicate_index = 0 BY <2>2, <2>5 DEF CoinInv
    <2>7. /\ A[Len(L)].sid = cmd[k].sid /\ A[Len(L)].duplicate_index = 0
          /\ A[Len(L)].address
      <3>1. Len(L) \in 1..Len(L) BY <2>2
      <3>2. A[Len(L)] = [L[Len(L)] EXCEPT !.address = TRUE] BY <2>3, <3>1
      <3> QED BY <2>2, <2>5, <2>6, <3>2 DEF ListCoin
    <2>8. Has(A, cmd[k].sid) BY <2>2, <2>3, <2>7 DEF Has
    <2>9. Keeps(L, shown) => Keeps(A, shown)
      <3>1. \A i \in 1..Len(L) :
              /\ A[i].sid = L[i].sid /\ A[i].duplicate_index = L[i].duplicate_index
              /\ L[i].address => A[i].address
        BY <2>2, <2>3, <2>6, <2>7
      <3> QED BY <1>0, <2>2, <2>3, <3>1, KeepsLonger
    <2>10. Keeps(L, shown) => Keeps(A, shown') BY <2>4, <2>8, <2>9 DEF Keeps
    <2> QED BY <1>0, <2>1, <2>2, <2>4, <2>10, SoloOne DEF L
  <1>8. ASSUME NEW k \in Commands, NEW i \in DOMAIN cmd[k].copy, NEW u \in DOMAIN chain,
               check_deposit(k, i, u)
        PROVE  Solo'
    <2> DEFINE L == cmd[k].copy
               g == [L[i] EXCEPT !.status = StatusAt(L[i].status, u)]
    <2>1. /\ cmd[k] \in ProofCommand /\ i \in 1..Len(L) /\ L[i] \in ListCoin
          /\ L \in Seq(ListCoin) /\ cmd[k].pc = "check"
          /\ StatusAt(L[i].status, u) \in CoinStatus /\ u \in Nat
      BY <1>8, DepositFound DEF ListInv, CoinStatus
    <2>2. UNCHANGED <<wallet, shown, overlaps>> BY <1>8 DEF check_deposit
    <2>3. ASSUME NEW f \in ListCoin, f.sid = L[i].sid, f.address = L[i].address,
                 f.duplicate_index = L[i].duplicate_index, NEW q,
                 cmd' = [cmd EXCEPT ![k] = q], q.copy = [L EXCEPT ![i] = f]
          PROVE  Solo'
      <3> DEFINE A == [L EXCEPT ![i] = f]
      <3>1. Len(A) = Len(L) /\ \A j \in 1..Len(L) : A[j] = IF j = i THEN f ELSE L[j]
        BY <2>1, ExceptSeq
      <3>2. Len(L) \in Nat BY <2>1, LenProperties
      <3>3. q.copy = A BY <2>3
      <3> HIDE DEF A, L
      <3>4. \A j \in 1..Len(L) :
              /\ A[j].sid = L[j].sid /\ A[j].duplicate_index = L[j].duplicate_index
              /\ A[j].address = L[j].address
        BY <2>3, <3>1
      <3>5. Keeps(L, shown) => Keeps(A, shown) BY <1>0, <3>1, <3>2, <3>4, KeepsLonger
      <3> QED BY <1>0, <2>1, <2>2, <2>3, <3>3, <3>5, SoloOne DEF L
    <2>4. CASE L[i].status = "INITIALISED"
      <3> DEFINE f == [g EXCEPT !.utxo = u]
                 q == [cmd[k] EXCEPT !.copy = [L EXCEPT ![i] = f],
                                     !.signed = @ \cup {L[i].sid}, !.i = i, !.pc = "row"]
      <3>1. /\ f \in ListCoin /\ f.sid = L[i].sid /\ f.address = L[i].address
            /\ f.duplicate_index = L[i].duplicate_index
        BY <2>1 DEF ListCoin
      <3>2. cmd' = [cmd EXCEPT ![k].copy[i] = f, ![k].signed = @ \cup {L[i].sid},
                               ![k].i = i, ![k].pc = "row"]
        BY <1>8, <2>4 DEF check_deposit
      <3> HIDE DEF f
      <3>3. cmd' = [cmd EXCEPT ![k] = q] BY <3>2 DEF Lists, Types
      <3>4. q.copy = [L EXCEPT ![i] = f] BY <2>1 DEF ProofCommand
      <3> QED BY <2>3, <3>1, <3>3, <3>4
    <2>5. CASE L[i].status # "INITIALISED"
      <3> DEFINE q == [cmd[k] EXCEPT !.copy = [L EXCEPT ![i] = g], !.i = i + 1]
      <3>1. /\ g \in ListCoin /\ g.sid = L[i].sid /\ g.address = L[i].address
            /\ g.duplicate_index = L[i].duplicate_index
        BY <2>1 DEF ListCoin
      <3>2. cmd' = [cmd EXCEPT ![k].copy[i] = g, ![k].i = i + 1]
        BY <1>8, <2>5 DEF check_deposit
      <3> HIDE DEF g
      <3>3. cmd' = [cmd EXCEPT ![k] = q] BY <3>2 DEF Lists, Types
      <3>4. q.copy = [L EXCEPT ![i] = g] BY <2>1 DEF ProofCommand
      <3> QED BY <2>3, <3>1, <3>3, <3>4
    <2> QED BY <2>4, <2>5
  <1>9. ASSUME NEW k \in Commands, StoreBackup(k) PROVE Solo'
    <2> DEFINE q == [cmd[k] EXCEPT !.i = cmd[k].i + 1, !.pc = "check"]
    <2>1. cmd' = [cmd EXCEPT ![k] = q] /\ UNCHANGED <<wallet, shown, overlaps>>
      BY <1>9 DEF StoreBackup, Lists, Types
    <2>2. cmd[k] \in ProofCommand BY DEF Lists, Types
    <2>3. q.copy = cmd[k].copy BY <2>2 DEF ProofCommand
    <2>4. cmd[k].pc # "idle" BY <1>9 DEF StoreBackup
    <2> HIDE DEF q
    <2> QED BY <1>0, <2>1, <2>3, <2>4, SoloOne
  <1>10. ASSUME NEW k \in Commands, SaveCoins(k) PROVE Solo'
    <2> DEFINE L == cmd[k].copy
               A(found) == L \o [m \in 1..Len(found) |-> Duplicate(L, found, m)]
    <2>1. CommandInv(cmd[k], chain, Len(sigs), rows) /\ cmd[k].pc = "check"
      BY <1>10 DEF Lists, SaveCoins, Reaches
    <2>2. ListInv(L, chain, Len(sigs)) /\ L \in Seq(ListCoin) /\ Len(L) \in Nat
      BY <2>1 DEF CommandInv, ListInv
    <2>3. PICK found \in Listings(Extra(L)) : wallet' = A(found) BY <1>10 DEF SaveCoins
    <2>4. /\ ListInv(wallet', chain, Len(sigs)) /\ Len(wallet') >= Len(L)
          /\ \A i \in 1..Len(L) : wallet'[i] = L[i]
      <3>1. LET B == L \o [m \in 1..Len(found) |-> Duplicate(L, found, m)]
            IN /\ ListInv(B, chain, Len(sigs)) /\ Len(B) >= Len(L)
               /\ \A i \in 1..Len(L) : B[i] = L[i]
        <4> HIDE DEF L
        <4> QED BY <1>0, <2>2, SaveKeepsList
      <3> QED BY <2>3, <3>1
    <2>5. Len(wallet') \in Nat BY <2>4, LenProperties DEF ListInv
    <2>6. cmd' = [cmd EXCEPT ![k] = Idle] /\ UNCHANGED <<shown, overlaps>>
      BY <1>10 DEF SaveCoins
    <2> HIDE DEF L
    <2>7. Len(L) <= Len(wallet') BY <2>2, <2>4, <2>5
    <2>8. Keeps(L, shown) => Keeps(wallet', shown)
      BY <1>0, <2>2, <2>4, <2>5, <2>7, KeepsLonger
    <2> QED BY <1>0, <2>1, <2>6, <2>8, SoloOne DEF L
  <1>11. ASSUME NEW k \in Commands, Work(k) PROVE Solo'
    <2>1. ASSUME NEW i \in DOMAIN cmd[k].copy, NoAddress(k, i) PROVE Solo'
      <3>1. cmd[k].pc # "idle" BY <2>1 DEF NoAddress, Reaches
      <3> QED BY <1>3, <2>1, <3>1 DEF NoAddress
    <2> QED BY <1>4, <1>5, <1>6, <1>7, <1>8, <1>9, <1>10, <1>11, <2>1 DEF Work
  <1>12. ASSUME NEW k \in Commands, NewDeposit(k) \/ update_coins(k) PROVE Solo'
    BY <1>2, <1>12 DEF NewDeposit, update_coins
  <1>13. ASSUME NEW k \in Commands, Stop(k) PROVE Solo'
    BY <1>3, <1>13 DEF Stop
  <1>14. ASSUME UNCHANGED <<wallet, cmd, shown, overlaps>> PROVE Solo'
    BY <1>14 DEF Solo, Alone
  <1> QED BY <1>1, <1>11, <1>12, <1>13, <1>14 DEF Next, Pay, Mine

\* Without overlapping commands an address the user was shown stays the
\* address of a stored coin: get_deposit_bitcoin_address saves it before it is
\* shown, and no later save of a whole wallet drops it.
THEOREM AddressesAreKept == Spec => []AddressKept
PROOF
  <1>1. Lists /\ Solo => AddressKept
    <2> SUFFICES ASSUME Lists, Solo, overlaps = 0, NEW sid \in shown
                 PROVE  \E c \in Range(wallet) : IsCoin(c, sid) /\ c.address
      BY DEF AddressKept
    <2>1. wallet \in Seq(ListCoin) BY DEF Lists, ListInv
    <2>2. DOMAIN wallet = 1..Len(wallet) BY <2>1, LenProperties
    <2>3. Has(wallet, sid) BY DEF Solo, Keeps
    <2> QED BY <2>2, <2>3 DEF Has, IsCoin, Range
  <1>2. Spec => []Solo BY SoloInit, SoloStep, ListsAlways, PTL DEF Spec
  <1> QED BY <1>1, <1>2, ListsAlways, PTL
=============================================================================
