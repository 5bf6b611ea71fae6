------------------------------ MODULE Lockbox -------------------------------
(***************************************************************************)
(* The key service for one statechain: get_public_key, get_public_nonce,   *)
(* get_partial_signature, keyupdate and delete_statechain as its worker    *)
(* threads run them.  A handler loads the row with one statement, computes,*)
(* and saves with another; between the two other handlers run.  The SGX    *)
(* application holds mutex_enclave_id around both (Serialised), the plain  *)
(* lockbox does not: the initial state says which of the two services runs.*)
(***************************************************************************)
EXTENDS Integers, FiniteSets

CONSTANTS Calls,       \* the calls the server makes for one statechain
          NoCall,      \* the mutex is free
          NoMutex      \* there is no mutex: the plain lockbox

ASSUME CallAssumption == {NoCall, NoMutex} \cap Calls = {} /\ NoCall # NoMutex
ASSUME FiniteAssumption == IsFiniteSet(Calls)

VARIABLES row,     \* the statechain's row of generated_public_key
          op,      \* what each call asks for
          pc,      \* where its handler is
          loaded,  \* the row as the handler loaded it, until it saves
          mutex    \* the call that holds mutex_enclave_id, NoCall or NoMutex

vars == <<row, op, pc, loaded, mutex>>

State == [k \in Calls |-> CASE pc[k] \in {"ready", "loaded"} -> "asked"
                            [] pc[k] = "saved" -> "done"
                            [] OTHER -> pc[k]]

Store == INSTANCE KeyStore WITH state <- State

Missing == Store!Missing
NoNonce == Store!NoNonce

Init ==
  /\ row = Missing
  /\ op = [k \in Calls |-> "none"] /\ pc = [k \in Calls |-> "unsent"]
  /\ loaded = [k \in Calls |-> Missing]
  /\ mutex \in {NoCall, NoMutex}

\* Handlers hold mutex_enclave_id.
Serialised == mutex # NoMutex

\* A request arrives.
Arrive(k, o) ==
  /\ pc[k] = "unsent"
  /\ o = "new" => ~ \E j \in Calls : op[j] = "new"
  /\ op' = [op EXCEPT ![k] = o]
  /\ pc' = [pc EXCEPT ![k] = "ready"]
  /\ UNCHANGED <<row, loaded, mutex>>

\* Mutant: the guard is taken on a local mutex.
Lock_Local(k) == UNCHANGED mutex

\* Mutant: the mutex is left locked.
Unlock_Never(k) == UNCHANGED mutex

Lock(k) == IF Serialised THEN mutex = NoCall /\ mutex' = k ELSE UNCHANGED mutex
Unlock(k) == mutex' = IF mutex = k THEN NoCall ELSE mutex

\* load_generated_key_data; a new key pair is generated without loading.
Load(k) ==
  /\ pc[k] = "ready"
  /\ \/ op[k] = "new"
     \/ op[k] \in {"nonce", "keyupdate"} /\ row.exists
     \/ op[k] = "sign" /\ row.exists /\ row.nonce.set
  /\ Lock(k)
  /\ loaded' = [loaded EXCEPT ![k] = IF op[k] = "new" THEN Missing ELSE row]
  /\ pc' = [pc EXCEPT ![k] = "loaded"]
  /\ UNCHANGED <<row, op>>

\* No row, or nothing to sign with: 500 or 400.
LoadRefused(k) ==
  /\ pc[k] = "ready"
  /\ \/ op[k] \in {"nonce", "sign", "keyupdate"} /\ ~row.exists
     \/ op[k] = "sign" /\ ~row.nonce.set
  /\ mutex \in {NoCall, NoMutex}
  /\ pc' = [pc EXCEPT ![k] = "error"]
  /\ UNCHANGED <<row, op, loaded, mutex>>

\* Mutant: the count is only raised while the loaded nonce is in place.
Updated_CountIfSameNonce(k) ==
  CASE op[k] = "new"       -> [Missing EXCEPT !.exists = TRUE]
    [] op[k] = "nonce"     -> [row EXCEPT !.nonce = [set |-> TRUE, key |-> loaded[k].key]]
    [] op[k] = "sign"      -> IF row.nonce = loaded[k].nonce
                              THEN [row EXCEPT !.sig_count = @ + 1] ELSE row
    [] op[k] = "keyupdate" -> [row EXCEPT !.key = loaded[k].key \cup {k}, !.nonce = NoNonce]

\* Mutant: the key update leaves the nonce in place.
Updated_KeepNonce(k) ==
  CASE op[k] = "new"       -> [Missing EXCEPT !.exists = TRUE]
    [] op[k] = "nonce"     -> [row EXCEPT !.nonce = [set |-> TRUE, key |-> loaded[k].key]]
    [] op[k] = "sign"      -> [row EXCEPT !.sig_count = @ + 1]
    [] op[k] = "keyupdate" -> [row EXCEPT !.key = loaded[k].key \cup {k}]

\* What the handler's statement writes: save_generated_public_key,
\* update_sealed_secnonce, update_sig_count or update_sealed_keypair, computed
\* from the loaded key.
Updated(k) ==
  CASE op[k] = "new"       -> [Missing EXCEPT !.exists = TRUE]
    [] op[k] = "nonce"     -> [row EXCEPT !.nonce = [set |-> TRUE, key |-> loaded[k].key]]
    [] op[k] = "sign"      -> [row EXCEPT !.sig_count = @ + 1]
    [] op[k] = "keyupdate" -> [row EXCEPT !.key = loaded[k].key \cup {k}, !.nonce = NoNonce]

\* An UPDATE of a row that has been deleted changes nothing and succeeds.
Save(k) ==
  /\ pc[k] = "loaded"
  /\ row' = IF op[k] = "new" \/ row.exists THEN Updated(k) ELSE row
  /\ pc' = [pc EXCEPT ![k] = "saved"]
  /\ loaded' = [loaded EXCEPT ![k] = Missing]
  /\ UNCHANGED <<op, mutex>>

Reply(k) ==
  /\ pc[k] = "saved"
  /\ Unlock(k)
  /\ pc' = [pc EXCEPT ![k] = "ok"]
  /\ UNCHANGED <<row, op, loaded>>

\* Mutant: the row is kept with a marker.
Delete_Marker(k) ==
  /\ pc[k] = "ready" /\ op[k] = "delete"
  /\ row' = [Missing EXCEPT !.sig_count = -1]
  /\ pc' = [pc EXCEPT ![k] = "saved"]
  /\ UNCHANGED <<op, loaded, mutex>>

\* delete_statechain: one statement, outside the mutex.
Delete(k) ==
  /\ pc[k] = "ready" /\ op[k] = "delete"
  /\ row' = Missing
  /\ pc' = [pc EXCEPT ![k] = "saved"]
  /\ UNCHANGED <<op, loaded, mutex>>

\* The database or the enclave fails, the connection drops before the answer,
\* or the process restarts: the caller sees an error, whether or not the
\* statement was committed, and the mutex is released.
Fail(k) ==
  /\ pc[k] \in {"ready", "loaded", "saved"}
  /\ pc' = [pc EXCEPT ![k] = "error"]
  /\ loaded' = [loaded EXCEPT ![k] = Missing]
  /\ Unlock(k)
  /\ UNCHANGED <<row, op>>

Handle(k) == Load(k) \/ LoadRefused(k) \/ Save(k) \/ Reply(k) \/ Delete(k)

Next ==
  \E k \in Calls : \/ \E o \in Store!Ops : Arrive(k, o)
                   \/ Handle(k) \/ Fail(k)

Spec == Init /\ [][Next]_vars

\* Worker threads run; a waiting thread gets the mutex once it stays free.
LiveSpec == Spec /\ \A k \in Calls : WF_vars(Handle(k))

-----------------------------------------------------------------------------
(* Properties *)

Row == [exists : BOOLEAN, key : SUBSET Calls, sig_count : Nat,
        nonce : [set : BOOLEAN, key : SUBSET Calls]]

\* The type of every variable.
TypeOK ==
  /\ row \in Row /\ loaded \in [Calls -> Row] /\ mutex \in Calls \cup {NoCall, NoMutex}
  /\ op \in [Calls -> Store!Ops \cup {"none"}]
  /\ pc \in [Calls -> {"unsent", "ready", "loaded", "saved", "ok", "error"}]

\* No signature is handed out before it is counted: as long as the statechain
\* exists, sig_count covers every partial signature that was answered, with
\* and without the mutex.  (generate_partial_signature, update_sig_count)
SignaturesCounted ==
  row.exists => Cardinality({k \in Calls : op[k] = "sign" /\ pc[k] = "ok"}) <= row.sig_count

\* Under the mutex the sealed nonce was made with the key pair it is sealed
\* beside, so that the pair can sign.  (generate_public_nonce, keyupdate)
NonceOfCurrentKey == Serialised /\ row.nonce.set => row.nonce.key = row.key

\* Under the mutex a key update that was answered stays in the key share.
\* (keyupdate)
UpdatesKept ==
  Serialised /\ row.exists =>
    \A k \in Calls : op[k] = "keyupdate" /\ pc[k] = "ok" => k \in row.key

\* Under the mutex every call acts on the row at one instant or not at all: the
\* handlers implement KeyStore.  (lock_guard in the SGX handlers)
Atomic == Store!Init /\ [][Serialised => Store!Next]_<<row, op, State>>

\* Every request is answered, with and without the mutex.  (lock_guard, the
\* handlers of both services)
EveryCallAnswered == \A k \in Calls : pc[k] = "ready" ~> pc[k] \in {"ok", "error"}
=============================================================================
