---------------------------- MODULE LockboxProofs ----------------------------
(***************************************************************************)
(* What the key service guarantees for any number of calls.                *)
(***************************************************************************)
EXTENDS Lockbox, FiniteSetTheorems, TLAPS

Saving == {"new", "nonce", "sign", "keyupdate"}

\* The call that makes the row is past its statement.
Made == \E k \in Calls : op[k] = "new" /\ pc[k] \in {"saved", "ok", "error"}

\* One call makes the row, and calls that found a row come after it.
MakeOnce ==
  /\ \A j, k \in Calls : op[j] = "new" /\ op[k] = "new" => j = k
  /\ \A k \in Calls : pc[k] = "unsent" <=> op[k] = "none"
  /\ \A k \in Calls : pc[k] = "loaded" => op[k] \in Saving
  /\ row.exists => Made
  /\ \A k \in Calls :
       op[k] \in {"nonce", "sign", "keyupdate"} /\ pc[k] \in {"loaded", "saved", "ok"} => Made

\* TypeOK is not inductive by itself: Updated(k) is a row only for a call
\* that saves one.
TypeInv == TypeOK /\ MakeOnce

LEMMA UpdatedType ==
  ASSUME TypeOK, NEW k \in Calls, op[k] \in Saving
  PROVE  Updated(k) \in Row
<1> DEFINE Nonce == [set : BOOLEAN, key : SUBSET Calls]
<1>1. NoNonce \in Nonce /\ [set |-> TRUE, key |-> loaded[k].key] \in Nonce
  BY DEF TypeOK, Row, NoNonce, Store!NoNonce
<1>2. Missing = [exists |-> FALSE, key |-> {}, nonce |-> NoNonce, sig_count |-> 0]
  BY DEF Missing, NoNonce, Store!Missing
<1>3. row \in [exists : BOOLEAN, key : SUBSET Calls, sig_count : Nat, nonce : Nonce]
  BY DEF TypeOK, Row
<1>4. loaded[k].key \cup {k} \in SUBSET Calls /\ {} \in SUBSET Calls
  BY DEF TypeOK, Row
<1>5. Row = [exists : BOOLEAN, key : SUBSET Calls, sig_count : Nat, nonce : Nonce]
  BY DEF Row
<1> HIDE DEF Nonce
<1>6. CASE op[k] = "new"
  BY <1>1, <1>2, <1>4, <1>5, <1>6 DEF Updated
<1>7. CASE op[k] = "nonce"
  BY <1>1, <1>3, <1>5, <1>7 DEF Updated
<1>8. CASE op[k] = "sign"
  BY <1>3, <1>5, <1>8 DEF Updated
<1>9. CASE op[k] = "keyupdate"
  BY <1>1, <1>3, <1>4, <1>5, <1>9 DEF Updated
<1>10. QED BY <1>6, <1>7, <1>8, <1>9 DEF Saving

LEMMA MissingType == Missing \in Row
BY DEF Row, Missing, NoNonce, Store!Missing, Store!NoNonce

LEMMA TypeInvInit == Init => TypeInv
BY DEF Init, TypeInv, TypeOK, MakeOnce, Made, Row, Missing, NoNonce, Store!Missing,
       Store!NoNonce, Store!Ops

LEMMA TypeInvStep == TypeInv /\ [Next]_vars => TypeInv'
<1> SUFFICES ASSUME TypeInv, [Next]_vars PROVE TypeInv'
  OBVIOUS
<1> USE DEF TypeInv, TypeOK, MakeOnce, Made, Saving
<1>1. ASSUME NEW k \in Calls, NEW o \in Store!Ops, Arrive(k, o) PROVE TypeInv'
  BY <1>1 DEF Arrive, Store!Ops
<1>2. ASSUME NEW k \in Calls, Load(k) PROVE TypeInv'
  BY <1>2, MissingType DEF Load, Lock
<1>3. ASSUME NEW k \in Calls, LoadRefused(k) PROVE TypeInv'
  BY <1>3 DEF LoadRefused
<1>4. ASSUME NEW k \in Calls, Save(k) PROVE TypeInv'
  <2>1. row' \in Row
    BY <1>4, UpdatedType DEF Save
  <2>2. TypeOK'
    BY <1>4, <2>1, MissingType DEF Save
  <2>3. MakeOnce'
    BY <1>4 DEF Save
  <2>4. QED BY <2>2, <2>3
<1>5. ASSUME NEW k \in Calls, Reply(k) PROVE TypeInv'
  BY <1>5 DEF Reply, Unlock
<1>6. ASSUME NEW k \in Calls, Delete(k) PROVE TypeInv'
  BY <1>6 DEF Delete, Row, Missing, NoNonce, Store!Missing, Store!NoNonce
<1>7. ASSUME NEW k \in Calls, Fail(k) PROVE TypeInv'
  BY <1>7, MissingType DEF Fail, Unlock
<1>8. CASE UNCHANGED vars
  BY <1>8 DEF vars
<1>9. QED
  BY <1>1, <1>2, <1>3, <1>4, <1>5, <1>6, <1>7, <1>8 DEF Next, Handle

\* The type invariant of the key service, with or without the mutex.
THEOREM LockboxTypes == Spec => []TypeOK
<1>1. TypeInv => TypeOK
  BY DEF TypeInv
<1>2. QED BY <1>1, TypeInvInit, TypeInvStep, PTL DEF Spec

-----------------------------------------------------------------------------
(* Counting. *)

Counted == {k \in Calls : op[k] = "sign" /\ pc[k] \in {"saved", "ok"}}

CountInv == row.exists => Cardinality(Counted) <= row.sig_count

LEMMA CountedFinite == IsFiniteSet(Counted) /\ Cardinality(Counted) \in Nat
<1>1. IsFiniteSet(Counted)
  BY FiniteAssumption, FS_Subset DEF Counted
<1>2. QED BY <1>1, FS_CardinalityType

LEMMA CountStep == TypeInv /\ CountInv /\ [Next]_vars => CountInv'
<1> SUFFICES ASSUME TypeInv, CountInv, [Next]_vars, row'.exists
             PROVE  Cardinality(Counted') <= row'.sig_count
  BY DEF CountInv
<1>0. row.sig_count \in Nat
  BY DEF TypeInv, TypeOK, Row
<1>1. ASSUME Counted' \subseteq Counted, row.exists, row'.sig_count = row.sig_count
      PROVE  Cardinality(Counted') <= row'.sig_count
  <2>1. Cardinality(Counted') <= Cardinality(Counted) /\ Cardinality(Counted') \in Nat
    BY <1>1, CountedFinite, FS_Subset, FS_CardinalityType
  <2>2. QED BY <2>1, <1>0, <1>1, CountedFinite DEF CountInv
<1>2. ASSUME NEW k \in Calls, Save(k) PROVE Cardinality(Counted') <= row'.sig_count
  <2>1. CASE op[k] = "new"
    <3>1. ~Made
      BY <1>2, <2>1 DEF Save, Made, TypeInv, MakeOnce
    <3>2. Counted' = {}
      BY <1>2, <2>1, <3>1 DEF Save, Counted, TypeInv, TypeOK, MakeOnce
    <3>3. row'.sig_count = 0
      BY <1>2, <2>1 DEF Save, Updated, Missing, Store!Missing
    <3>4. QED BY <3>2, <3>3, FS_EmptySet
  <2>2. CASE op[k] = "sign"
    <3>1. row.exists /\ row'.sig_count = row.sig_count + 1
      BY <1>2, <2>2 DEF Save, Updated, TypeInv, TypeOK, Row
    <3>2. Counted' = Counted \cup {k} /\ k \notin Counted
      BY <1>2, <2>2 DEF Save, Counted, TypeInv, TypeOK
    <3>3. Cardinality(Counted') = Cardinality(Counted) + 1
      BY <3>2, CountedFinite, FS_AddElement
    <3>4. QED BY <3>1, <3>3, <1>0, CountedFinite DEF CountInv
  <2>3. CASE op[k] \in {"nonce", "keyupdate"}
    <3>1. row.exists /\ row'.sig_count = row.sig_count
      BY <1>2, <2>3 DEF Save, Updated, TypeInv, TypeOK, Row
    <3>2. Counted' \subseteq Counted
      BY <1>2, <2>3 DEF Save, Counted, TypeInv, TypeOK
    <3>3. QED BY <1>1, <3>1, <3>2
  <2>4. QED
    BY <1>2, <2>1, <2>2, <2>3 DEF Save, TypeInv, MakeOnce, Saving
<1>3. ASSUME NEW k \in Calls,
             \/ \E o \in Store!Ops : Arrive(k, o)
             \/ Load(k) \/ LoadRefused(k) \/ Reply(k) \/ Fail(k)
      PROVE  Cardinality(Counted') <= row'.sig_count
  <2>1. row' = row
    BY <1>3 DEF Arrive, Load, LoadRefused, Reply, Fail
  <2>2. Counted' \subseteq Counted
    BY <1>3 DEF Arrive, Load, LoadRefused, Reply, Fail, Counted, TypeInv, TypeOK, MakeOnce
  <2>3. QED BY <1>1, <2>1, <2>2
<1>4. ASSUME NEW k \in Calls, Delete(k) PROVE FALSE
  BY <1>4 DEF Delete, Missing, Store!Missing
<1>5. CASE UNCHANGED vars
  <2>1. row' = row /\ Counted' = Counted
    BY <1>5 DEF vars, Counted
  <2>2. QED BY <1>1, <2>1
<1>6. QED
  BY <1>2, <1>3, <1>4, <1>5 DEF Next, Handle

\* No partial signature is answered before it is counted, whatever the
\* handlers' interleaving and wherever they fail, mutex or not.
THEOREM SignaturesAlwaysCounted == Spec => []SignaturesCounted
<1>1. Init => CountInv
  BY DEF Init, CountInv, Missing, Store!Missing
<1>2. TypeInv /\ CountInv => SignaturesCounted
  <2> SUFFICES ASSUME TypeInv, CountInv, row.exists
               PROVE  Cardinality({k \in Calls : op[k] = "sign" /\ pc[k] = "ok"}) <= row.sig_count
    BY DEF SignaturesCounted
  <2> DEFINE Answered == {k \in Calls : op[k] = "sign" /\ pc[k] = "ok"}
  <2>1. Answered \subseteq Counted
    BY DEF Counted
  <2>2. Cardinality(Answered) <= Cardinality(Counted) /\ Cardinality(Answered) \in Nat
    BY <2>1, CountedFinite, FS_Subset, FS_CardinalityType
  <2>3. QED BY <2>2, CountedFinite DEF CountInv, TypeInv, TypeOK, Row
<1>3. QED BY <1>1, <1>2, TypeInvInit, TypeInvStep, CountStep, PTL DEF Spec

-----------------------------------------------------------------------------
(* Under the mutex. *)

\* The handler between its two statements holds the mutex, so that the key it
\* loaded is still the row's.
HeldInv ==
  /\ \A k \in Calls : op[k] # "delete" /\ pc[k] \in {"loaded", "saved"} => mutex = k
  /\ \A k \in Calls :
       pc[k] = "loaded" /\ op[k] # "new" /\ row.exists => loaded[k].key = row.key
  /\ row.nonce.set => row.nonce.key = row.key
  /\ \A k \in Calls :
       op[k] = "keyupdate" /\ pc[k] \in {"saved", "ok"} /\ row.exists => k \in row.key

MutexInv == Serialised => HeldInv

LEMMA MutexInvInit == Init => MutexInv
BY DEF Init, MutexInv, HeldInv, Missing, NoNonce, Store!Missing, Store!NoNonce

\* No step brings the mutex in or removes it.
LEMMA ModeKept ==
  ASSUME TypeInv, [Next]_vars
  PROVE  Serialised' = Serialised
BY CallAssumption
DEF TypeInv, TypeOK, Next, Handle, Arrive, Load, Lock, LoadRefused, Save, Reply, Delete, Fail,
    Unlock, vars, Serialised

LEMMA HeldStep == TypeInv /\ Serialised /\ HeldInv /\ [Next]_vars => HeldInv'
<1> SUFFICES ASSUME TypeInv, Serialised, HeldInv, [Next]_vars PROVE HeldInv'
  OBVIOUS
<1> USE DEF TypeInv, TypeOK, MakeOnce, HeldInv
<1>1. ASSUME NEW k \in Calls, NEW o \in Store!Ops, Arrive(k, o) PROVE HeldInv'
  BY <1>1 DEF Arrive
<1>2. ASSUME NEW k \in Calls, Load(k) PROVE HeldInv'
  BY <1>2, CallAssumption DEF Load, Lock
<1>3. ASSUME NEW k \in Calls, LoadRefused(k) PROVE HeldInv'
  BY <1>3 DEF LoadRefused
<1>4. ASSUME NEW k \in Calls, Save(k) PROVE HeldInv'
  <2>1. \A j \in Calls : j # k /\ op[j] # "delete" => pc[j] \notin {"loaded", "saved"}
    BY <1>4 DEF Save, Saving
  <2>2. CASE op[k] = "new"
    <3>1. row' = [Missing EXCEPT !.exists = TRUE]
      BY <1>4, <2>2 DEF Save, Updated
    <3>2. ~Made
      BY <1>4, <2>2 DEF Save, Made
    <3>3. QED
      BY <1>4, <2>1, <2>2, <3>1, <3>2
      DEF Save, Saving, Missing, NoNonce, Store!Missing, Store!NoNonce
  <2>3. CASE op[k] # "new" /\ ~row.exists
    BY <1>4, <2>1, <2>3 DEF Save
  <2>4. CASE op[k] = "nonce" /\ row.exists
    <3>1. row' = [row EXCEPT !.nonce = [set |-> TRUE, key |-> row.key]]
      BY <1>4, <2>4 DEF Save, Updated
    <3>2. row'.key = row.key /\ row'.nonce.key = row.key /\ row'.exists
      BY <2>4, <3>1 DEF Row
    <3>3. QED BY <1>4, <2>1, <2>4, <3>2 DEF Save
  <2>5. CASE op[k] = "sign" /\ row.exists
    <3>1. row' = [row EXCEPT !.sig_count = @ + 1]
      BY <1>4, <2>5 DEF Save, Updated
    <3>2. row'.key = row.key /\ row'.nonce = row.nonce /\ row'.exists
      BY <2>5, <3>1 DEF Row
    <3>3. QED BY <1>4, <2>1, <2>5, <3>2 DEF Save
  <2>6. CASE op[k] = "keyupdate" /\ row.exists
    <3>1. row' = [row EXCEPT !.key = row.key \cup {k}, !.nonce = NoNonce]
      BY <1>4, <2>6 DEF Save, Updated
    <3>2. row'.key = row.key \cup {k} /\ ~row'.nonce.set
      BY <2>6, <3>1 DEF Row, NoNonce, Store!NoNonce
    <3>3. op' = op /\ mutex' = mutex /\ pc' = [pc EXCEPT ![k] = "saved"]
      BY <1>4 DEF Save
    <3>4. \A j \in Calls :
            op[j] = "keyupdate" /\ pc'[j] \in {"saved", "ok"} => j \in row'.key
      <4>1. \A j \in Calls : j # k => pc'[j] = pc[j]
        BY <3>3
      <4>2. QED BY <2>6, <3>2, <4>1
    <3>5. \A j \in Calls : op'[j] # "delete" => pc'[j] # "loaded"
      BY <2>1, <3>3
    <3>6. \A j \in Calls : op'[j] # "delete" /\ pc'[j] \in {"loaded", "saved"} => mutex' = j
      BY <1>4, <2>1, <3>3 DEF Save, Saving
    <3>7. (row.nonce.set => row.nonce.key = row.key)'
      BY <3>2
    <3>8. \A j \in Calls : pc'[j] = "loaded" => op'[j] # "delete"
      BY <3>3 DEF Saving
    <3>9. QED BY <3>3, <3>4, <3>5, <3>6, <3>7, <3>8
  <2>7. QED
    BY <1>4, <2>2, <2>3, <2>4, <2>5, <2>6 DEF Save, Saving
<1>5. ASSUME NEW k \in Calls, Reply(k) PROVE HeldInv'
  BY <1>5 DEF Reply, Unlock
<1>6. ASSUME NEW k \in Calls, Delete(k) PROVE HeldInv'
  BY <1>6 DEF Delete, Missing, NoNonce, Store!Missing, Store!NoNonce
<1>7. ASSUME NEW k \in Calls, Fail(k) PROVE HeldInv'
  BY <1>7 DEF Fail, Unlock
<1>8. CASE UNCHANGED vars
  BY <1>8 DEF vars
<1>9. QED
  BY <1>1, <1>2, <1>3, <1>4, <1>5, <1>6, <1>7, <1>8 DEF Next, Handle

LEMMA MutexStep == TypeInv /\ MutexInv /\ [Next]_vars => MutexInv'
BY ModeKept, HeldStep DEF MutexInv

\* Under the mutex the sealed nonce always fits the sealed key pair.
THEOREM NonceFitsKey == Spec => []NonceOfCurrentKey
<1>1. MutexInv => NonceOfCurrentKey
  BY DEF MutexInv, HeldInv, NonceOfCurrentKey
<1>2. QED BY <1>1, TypeInvInit, TypeInvStep, MutexInvInit, MutexStep, PTL DEF Spec

\* Under the mutex no answered key update is lost.
THEOREM NoUpdateLost == Spec => []UpdatesKept
<1>1. MutexInv => UpdatesKept
  BY DEF MutexInv, HeldInv, UpdatesKept
<1>2. QED BY <1>1, TypeInvInit, TypeInvStep, MutexInvInit, MutexStep, PTL DEF Spec

-----------------------------------------------------------------------------
(* Calls act at one instant. *)

\* The saved row is the one KeyStore computes at that instant.
LEMMA SaveEffect ==
  ASSUME TypeInv, HeldInv, NEW k \in Calls, Save(k)
  PROVE  row' = Store!Effect(k, op[k], row)
<1> USE DEF Store!Effect
<1>0. op[k] \in Saving /\ row.exists \in BOOLEAN
  BY DEF Save, TypeInv, MakeOnce, TypeOK, Row
<1>1. CASE op[k] = "new"
  BY <1>1 DEF Save, Updated, Missing
<1>2. CASE op[k] # "new" /\ ~row.exists
  BY <1>0, <1>2 DEF Save, Saving
<1>3. CASE op[k] # "new" /\ row.exists
  <2>1. loaded[k].key = row.key
    BY <1>3 DEF Save, HeldInv
  <2>2. CASE op[k] = "nonce"
    BY <1>3, <2>1, <2>2 DEF Save, Updated
  <2>3. CASE op[k] = "sign"
    BY <1>3, <2>3 DEF Save, Updated
  <2>4. CASE op[k] = "keyupdate"
    BY <1>3, <2>1, <2>4 DEF Save, Updated, NoNonce
  <2>5. QED BY <1>0, <1>3, <2>2, <2>3, <2>4 DEF Saving
<1>4. QED BY <1>1, <1>2, <1>3

LEMMA AtomicStep ==
  TypeInv /\ MutexInv /\ [Next]_vars => [Serialised => Store!Next]_<<row, op, State>>
<1> SUFFICES ASSUME TypeInv, HeldInv, [Next]_vars
             PROVE  Store!Next \/ UNCHANGED <<row, op, State>>
  BY DEF MutexInv
<1>0. TypeOK /\ \A k \in Calls : State[k] = CASE pc[k] \in {"ready", "loaded"} -> "asked"
                                             [] pc[k] = "saved" -> "done"
                                             [] OTHER -> pc[k]
  BY DEF State, TypeInv
<1> USE DEF State
<1>1. ASSUME NEW k \in Calls, NEW o \in Store!Ops, Arrive(k, o) PROVE Store!Ask(k, o)
  <2>1. State' = [State EXCEPT ![k] = "asked"]
    BY <1>0, <1>1 DEF Arrive, TypeOK
  <2>2. QED BY <1>0, <1>1, <2>1 DEF Arrive, Store!Ask
<1>2. ASSUME NEW k \in Calls, Load(k) PROVE UNCHANGED <<row, op, State>>
  BY <1>0, <1>2 DEF Load, TypeOK
<1>3. ASSUME NEW k \in Calls, LoadRefused(k) PROVE Store!Answer(k, "asked", "error")
  <2>1. State' = [State EXCEPT ![k] = "error"]
    BY <1>0, <1>3 DEF LoadRefused, TypeOK
  <2>2. QED BY <1>0, <1>3, <2>1 DEF LoadRefused, Store!Answer
<1>4. ASSUME NEW k \in Calls, Save(k) PROVE Store!Do(k)
  <2>1. State' = [State EXCEPT ![k] = "done"]
    BY <1>0, <1>4 DEF Save, TypeOK
  <2>2. QED BY <1>0, <1>4, <2>1, SaveEffect DEF Save, Store!Do
<1>5. ASSUME NEW k \in Calls, Reply(k) PROVE Store!Answer(k, "done", "ok")
  <2>1. State' = [State EXCEPT ![k] = "ok"]
    BY <1>0, <1>5 DEF Reply, TypeOK
  <2>2. QED BY <1>0, <1>5, <2>1 DEF Reply, Store!Answer
<1>6. ASSUME NEW k \in Calls, Delete(k) PROVE Store!Do(k)
  <2>1. State' = [State EXCEPT ![k] = "done"]
    BY <1>0, <1>6 DEF Delete, TypeOK
  <2>2. row' = Store!Effect(k, op[k], row)
    BY <1>6 DEF Delete, Missing, Store!Effect
  <2>3. QED BY <1>0, <1>6, <2>1, <2>2 DEF Delete, Store!Do
<1>7. ASSUME NEW k \in Calls, Fail(k)
      PROVE  \E s \in {"asked", "done"} : Store!Answer(k, s, "error")
  <2>1. State' = [State EXCEPT ![k] = "error"]
    BY <1>0, <1>7 DEF Fail, TypeOK
  <2>2. QED BY <1>0, <1>7, <2>1 DEF Fail, Store!Answer
<1>8. CASE UNCHANGED vars
  BY <1>8 DEF vars
<1>9. QED
  BY <1>1, <1>2, <1>3, <1>4, <1>5, <1>6, <1>7, <1>8 DEF Next, Handle, Store!Next

\* Under the mutex the handlers implement KeyStore: every call acts on the
\* row at one instant or not at all.
THEOREM LockboxAtomic == Spec => Atomic
<1>1. Init => Store!Init
  BY DEF Init, Store!Init, Missing, State
<1>2. QED
  BY <1>1, AtomicStep, TypeInvInit, TypeInvStep, MutexInvInit, MutexStep, PTL DEF Spec, Atomic
=============================================================================
