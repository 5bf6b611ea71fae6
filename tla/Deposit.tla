------------------------------- MODULE Deposit -------------------------------
(***************************************************************************)
(* Deposit tokens: the token server, /deposit/init/pod with one action per *)
(* statement or remote call, and /withdraw/complete, which takes a coin's  *)
(* row and with it the UNIQUE entry of its token out of statechain_data.   *)
(* A request stands for the statechain it asks for: its statechain_id and  *)
(* its auth key are new.                                                   *)
(***************************************************************************)
EXTENDS FiniteSets

CONSTANTS Tokens,    \* token_ids
          Requests,  \* calls of /deposit/init/pod
          Nothing,   \* no token
          Free,      \* no token_server_url is configured
          MayStop    \* may a handler stop between two of its steps?

ASSUME TokenAssumption == Nothing \notin Tokens
ASSUME ModeAssumption == {Free, MayStop} \subseteq BOOLEAN

VARIABLES token,  \* the tokens table
          paid,   \* the tokens whose fee is confirmed in the chain
          req,    \* the requests
          keys,   \* the statechains with a key in the enclave
          data,   \* the statechains with a row of statechain_data
          made,   \* all statechains that ever had one
          late    \* the requests under way when a coin of their token was withdrawn

vars == <<token, paid, req, keys, data, made, late>>

NoToken == [known |-> FALSE, confirmed |-> FALSE, spent |-> FALSE]
Unsent == [pc |-> "unsent", token |-> Nothing]

\* Where a deposit handler has read the token and not yet answered.
Running == {"verify", "key", "insert", "spend", "reply"}

Init ==
  /\ token = [t \in Tokens |-> NoToken] /\ paid = {}
  /\ req = [r \in Requests |-> Unsent]
  /\ keys = {} /\ data = {} /\ made = {} /\ late = {}

Goto(r, pc) == req' = [req EXCEPT ![r].pc = pc]

-----------------------------------------------------------------------------
(* The token server *)

\* Without a token server the token is born confirmed.
get_token(t) ==
  /\ ~token[t].known
  /\ token' = [token EXCEPT ![t] = [known |-> TRUE, confirmed |-> Free, spent |-> FALSE]]
  /\ UNCHANGED <<paid, req, keys, data, made, late>>

Pay(t) ==
  /\ token[t].known /\ t \notin paid
  /\ paid' = paid \cup {t}
  /\ UNCHANGED <<token, req, keys, data, made, late>>

\* token_verify looks for the payment of a token that is neither spent nor
\* confirmed, and confirms it.
Verified(t) == ~token[t].spent /\ (token[t].confirmed \/ t \in paid)
Confirm(t) == token' = [token EXCEPT ![t].confirmed = @ \/ (~token[t].spent /\ t \in paid)]

token_verify(t) ==
  /\ token[t].known
  /\ Confirm(t)
  /\ UNCHANGED <<paid, req, keys, data, made, late>>

-----------------------------------------------------------------------------
(* /deposit/init/pod *)

\* A wallet asks with any token it has, again after an error.
Post(r, t) ==
  /\ req[r] = Unsent /\ token[t].known
  /\ req' = [req EXCEPT ![r] = [pc |-> "sent", token |-> t]]
  /\ UNCHANGED <<token, paid, keys, data, made, late>>

\* Mutant: the token is only asked whether it is confirmed.
ReadToken_NoSpent(r) ==
  /\ req[r].pc = "sent"
  /\ Goto(r, IF token[req[r].token].confirmed THEN "key" ELSE "verify")
  /\ UNCHANGED <<token, paid, keys, data, made, late>>

\* get_token_info
ReadToken(r) ==
  LET t == token[req[r].token] IN
  /\ req[r].pc = "sent"
  /\ Goto(r, IF t.spent THEN "error" ELSE IF t.confirmed THEN "key" ELSE "verify")
  /\ UNCHANGED <<token, paid, keys, data, made, late>>

\* Mutant: the answer of the token server is not examined.
CheckTokenStatus_Any(r) ==
  /\ req[r].pc = "verify"
  /\ Confirm(req[r].token)
  /\ Goto(r, "key")
  /\ UNCHANGED <<paid, keys, data, made, late>>

\* check_token_status asks the token server.
CheckTokenStatus(r) ==
  /\ req[r].pc = "verify"
  /\ Confirm(req[r].token)
  /\ Goto(r, IF Verified(req[r].token) THEN "key" ELSE "error")
  /\ UNCHANGED <<paid, keys, data, made, late>>

\* POST get_public_key
NewKey(r) ==
  /\ req[r].pc = "key"
  /\ keys' = keys \cup {r}
  /\ Goto(r, "insert")
  /\ UNCHANGED <<token, paid, data, made, late>>

\* Mutant: a refused INSERT is not noticed.
InsertDeposit_Unnoticed(r) ==
  LET taken == \E s \in data : req[s].token = req[r].token IN
  /\ req[r].pc = "insert"
  /\ data' = IF taken THEN data ELSE data \cup {r}
  /\ made' = IF taken THEN made ELSE made \cup {r}
  /\ Goto(r, "spend")
  /\ UNCHANGED <<token, paid, keys, late>>

\* insert_new_deposit; statechain_data.token_id is UNIQUE.
InsertDeposit(r) ==
  LET taken == \E s \in data : req[s].token = req[r].token IN
  /\ req[r].pc = "insert"
  /\ data' = IF taken THEN data ELSE data \cup {r}
  /\ made' = IF taken THEN made ELSE made \cup {r}
  /\ Goto(r, IF taken THEN "error" ELSE "spend")
  /\ UNCHANGED <<token, paid, keys, late>>

\* Mutant: the row of the token is removed.
SetTokenSpent_Removed(r) ==
  /\ req[r].pc = "spend"
  /\ token' = [t \in Tokens \ {req[r].token} |-> token[t]]
  /\ Goto(r, "reply")
  /\ UNCHANGED <<paid, keys, data, made, late>>

SetTokenSpent(r) ==
  /\ req[r].pc = "spend"
  /\ token' = [token EXCEPT ![req[r].token].spent = TRUE]
  /\ Goto(r, "reply")
  /\ UNCHANGED <<paid, keys, data, made, late>>

Reply(r) ==
  /\ req[r].pc = "reply"
  /\ Goto(r, "ok")
  /\ UNCHANGED <<token, paid, keys, data, made, late>>

-----------------------------------------------------------------------------
(* /withdraw/complete *)

\* DELETE delete_statechain at the enclave.  An answer other than 200 leaves
\* the key and is not told from success.  A wallet may call again until the
\* rows are gone.
Withdraw(r) ==
  /\ req[r].pc \in {"ok", "closing"}
  /\ keys' \in {keys, keys \ {r}}
  /\ Goto(r, "closing")
  /\ UNCHANGED <<token, paid, data, made, late>>

delete_statechain_db(r) ==
  /\ req[r].pc = "closing"
  /\ data' = data \ {r}
  /\ late' = late \cup {s \in Requests : req[s].token = req[r].token /\ req[s].pc \in Running}
  /\ Goto(r, "closed")
  /\ UNCHANGED <<token, paid, keys, made>>

\* A deposit request or its reply is lost, a call fails, or the server goes down.
Stop(r) ==
  /\ MayStop /\ req[r].pc \in Running \cup {"sent"}
  /\ Goto(r, "error")
  /\ UNCHANGED <<token, paid, keys, data, made, late>>

Next ==
  \/ \E t \in Tokens : get_token(t) \/ Pay(t) \/ token_verify(t)
  \/ \E r \in Requests :
       \/ \E t \in Tokens : Post(r, t)
       \/ ReadToken(r) \/ CheckTokenStatus(r) \/ NewKey(r) \/ InsertDeposit(r)
       \/ SetTokenSpent(r) \/ Reply(r)
       \/ Withdraw(r) \/ delete_statechain_db(r) \/ Stop(r)

Spec == Init /\ [][Next]_vars

-----------------------------------------------------------------------------
(* Properties *)

Pcs == Running \cup {"unsent", "sent", "ok", "error", "closing", "closed"}

\* The type of every variable.
TypeOK ==
  /\ token \in [Tokens -> [known : BOOLEAN, confirmed : BOOLEAN, spent : BOOLEAN]]
  /\ paid \subseteq Tokens
  /\ req \in [Requests -> [pc : Pcs, token : Tokens \cup {Nothing}]]
  /\ keys \subseteq Requests /\ data \subseteq Requests
  /\ made \subseteq Requests /\ late \subseteq Requests

\* "a valid (i.e. confirmed and unspent) token": a token pays for one
\* statechain.  (docs/tokens.md, post_deposit)
TokenUsedOnce == \A r, s \in made : req[r].token = req[s].token => r = s

\* A token pays for a second statechain only through a handler that was under
\* way when the first coin was withdrawn: although the token is checked at the
\* beginning of a handler and marked at its end, the UNIQUE entry stops every
\* other request that overlaps, and the mark every later one.  (post_deposit)
OnlyLateReuse ==
  \A r, s \in made : req[r].token = req[s].token /\ r # s => r \in late \/ s \in late

\* With a token server configured, no statechain is made before the fee of its
\* token is confirmed in the chain.  (check_token_status, token_verify)
FeePaid == ~Free => \A r \in made : req[r].token \in paid

\* A wallet that has been answered has a statechain with a row, a key and a
\* token marked spent, until it withdraws, whatever other requests with the
\* token do.  (post_deposit)
CoinBacked ==
  \A r \in Requests : req[r].pc = "ok" => r \in data \cap keys /\ token[req[r].token].spent
=============================================================================
