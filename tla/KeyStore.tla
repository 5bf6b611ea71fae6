------------------------------ MODULE KeyStore ------------------------------
(***************************************************************************)
(* What the statechain entity may rely on from its lockbox: every call     *)
(* acts on the statechain's row at one instant, whatever else is going on, *)
(* or not at all, and is then answered once.                               *)
(*                                                                         *)
(* The key share is the set of key updates added into it: t2 - x1 is added *)
(* by each, and addition does not depend on the order.                     *)
(***************************************************************************)
EXTENDS Integers

CONSTANT Calls   \* the calls the server makes for one statechain

VARIABLES row,   \* the statechain's row of generated_public_key
          op,    \* what each call asks for
          state  \* how far each call is

Ops == {"new", "nonce", "sign", "keyupdate", "delete"}

NoNonce == [set |-> FALSE, key |-> {}]
Missing == [exists |-> FALSE, key |-> {}, nonce |-> NoNonce, sig_count |-> 0]

Init ==
  /\ row = Missing
  /\ op = [k \in Calls |-> "none"]
  /\ state = [k \in Calls |-> "unsent"]

\* The server generates a statechain_id for one new key only (post_deposit).
Ask(k, o) ==
  /\ state[k] = "unsent"
  /\ o = "new" => ~ \E j \in Calls : op[j] = "new"
  /\ op' = [op EXCEPT ![k] = o]
  /\ state' = [state EXCEPT ![k] = "asked"]
  /\ UNCHANGED row

\* The row after a call that finds it as r.
Effect(k, o, r) ==
  CASE o = "new"                   -> [Missing EXCEPT !.exists = TRUE]
    [] o = "delete"                -> Missing
    [] o = "nonce" /\ r.exists     -> [r EXCEPT !.nonce = [set |-> TRUE, key |-> r.key]]
    [] o = "sign" /\ r.exists      -> [r EXCEPT !.sig_count = @ + 1]
    [] o = "keyupdate" /\ r.exists -> [r EXCEPT !.key = @ \cup {k}, !.nonce = NoNonce]
    [] OTHER                       -> r

Do(k) ==
  /\ state[k] = "asked"
  /\ row' = Effect(k, op[k], row)
  /\ state' = [state EXCEPT ![k] = "done"]
  /\ UNCHANGED op

Answer(k, s, a) ==
  /\ state[k] = s
  /\ state' = [state EXCEPT ![k] = a]
  /\ UNCHANGED <<row, op>>

\* Only a call that took effect is answered ok; one that is answered with an
\* error may have taken effect.
Next ==
  \E k \in Calls : \/ \E o \in Ops : Ask(k, o)
                   \/ Do(k)
                   \/ Answer(k, "done", "ok")
                   \/ \E s \in {"asked", "done"} : Answer(k, s, "error")

Spec == Init /\ [][Next]_<<row, op, state>>
=============================================================================
