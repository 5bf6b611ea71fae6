---------------------------- MODULE DepositProofs ----------------------------
(***************************************************************************)
(* What a deposit promises, for any tokens and requests.                   *)
(***************************************************************************)
EXTENDS Deposit, TLAPS

\* A request past its arrival has a known token; the row exists from the INSERT until
\* the end of the withdrawal; an answered request has its token spent.
StageInv ==
  /\ \A r \in Requests : req[r].pc # "unsent" =>
       req[r].token \in Tokens /\ token[req[r].token].known
  /\ \A r \in Requests : req[r].pc \in {"unsent", "sent", "verify", "key", "insert"} => r \notin made
  /\ \A r \in Requests : req[r].pc \in {"spend", "reply", "ok", "closing"} => r \in data
  /\ \A r \in Requests : req[r].pc \in {"insert", "spend", "reply", "ok"} => r \in keys
  /\ \A r \in Requests : req[r].pc \in {"reply", "ok", "closing", "closed"} => token[req[r].token].spent
  /\ data \subseteq made
  /\ \A r \in made : r \notin data => req[r].pc = "closed"

\* After a withdrawal the only handlers that read the token as unspent are
\* those it found under way: the spent flag excludes all later ones.
ClosedInv ==
  \A r, s \in Requests :
    /\ req[r].pc = "closed" /\ req[s].token = req[r].token
    /\ req[s].pc \in {"verify", "key", "insert"}
    => s \in late

\* What UNIQUE gives for the rows that exist.
UniqueInv == \A r, s \in data : req[r].token = req[s].token => r = s

IInv == TypeOK /\ StageInv /\ ClosedInv /\ UniqueInv /\ OnlyLateReuse

LEMMA TypeInit == Init => TypeOK
BY DEF Init, TypeOK, NoToken, Unsent, Pcs, Running

LEMMA InvInit == Init => IInv
<1> SUFFICES ASSUME Init PROVE IInv
  OBVIOUS
<1>1. TypeOK
  BY TypeInit
<1>2. QED
  BY <1>1 DEF Init, IInv, StageInv, ClosedInv, UniqueInv, OnlyLateReuse, Unsent, NoToken

LEMMA ConfirmType ==
  ASSUME TypeOK, NEW t, Confirm(t)
  PROVE  token' \in [Tokens -> [known : BOOLEAN, confirmed : BOOLEAN, spent : BOOLEAN]]
<1> DEFINE c == token[t].confirmed \/ (~token[t].spent /\ t \in paid)
<1>1. token' = [token EXCEPT ![t] = [@ EXCEPT !.confirmed = c]]
  BY DEF Confirm
<1>2. c \in BOOLEAN
  OBVIOUS
<1> HIDE DEF c
<1>3. QED BY <1>1, <1>2 DEF TypeOK

LEMMA TypeStep == TypeOK /\ [Next]_vars => TypeOK'
<1> SUFFICES ASSUME TypeOK, [Next]_vars PROVE TypeOK'
  OBVIOUS
<1> USE DEF TypeOK, Pcs, Running
<1>1. ASSUME NEW t \in Tokens, get_token(t) PROVE TypeOK'
  BY <1>1, ModeAssumption DEF get_token, NoToken
<1>2. ASSUME NEW t \in Tokens, Pay(t) PROVE TypeOK'
  BY <1>2 DEF Pay
<1>3. ASSUME NEW t \in Tokens, token_verify(t) PROVE TypeOK'
  BY <1>3, ConfirmType DEF token_verify
<1>4. ASSUME NEW r \in Requests, NEW t \in Tokens, Post(r, t) PROVE TypeOK'
  BY <1>4 DEF Post, Unsent
<1>5. ASSUME NEW r \in Requests, ReadToken(r) PROVE TypeOK'
  BY <1>5 DEF ReadToken, Goto
<1>6. ASSUME NEW r \in Requests, CheckTokenStatus(r) PROVE TypeOK'
  <2>1. token' \in [Tokens -> [known : BOOLEAN, confirmed : BOOLEAN, spent : BOOLEAN]]
    BY <1>6, ConfirmType DEF CheckTokenStatus
  <2>2. req' \in [Requests -> [pc : Pcs, token : Tokens \cup {Nothing}]]
    BY <1>6 DEF CheckTokenStatus, Goto
  <2>3. QED BY <1>6, <2>1, <2>2 DEF CheckTokenStatus
<1>7. ASSUME NEW r \in Requests, NewKey(r) PROVE TypeOK'
  BY <1>7 DEF NewKey, Goto
<1>8. ASSUME NEW r \in Requests, InsertDeposit(r) PROVE TypeOK'
  BY <1>8 DEF InsertDeposit, Goto
<1>9. ASSUME NEW r \in Requests, SetTokenSpent(r) PROVE TypeOK'
  <2>1. token' \in [Tokens -> [known : BOOLEAN, confirmed : BOOLEAN, spent : BOOLEAN]]
    BY <1>9 DEF SetTokenSpent
  <2>2. req' \in [Requests -> [pc : Pcs, token : Tokens \cup {Nothing}]]
    BY <1>9 DEF SetTokenSpent, Goto
  <2>3. QED BY <1>9, <2>1, <2>2 DEF SetTokenSpent
<1>10. ASSUME NEW r \in Requests, Reply(r) PROVE TypeOK'
  BY <1>10 DEF Reply, Goto
<1>11. ASSUME NEW r \in Requests, Withdraw(r) PROVE TypeOK'
  BY <1>11 DEF Withdraw, Goto, Running
<1>12. ASSUME NEW r \in Requests, delete_statechain_db(r) PROVE TypeOK'
  BY <1>12 DEF delete_statechain_db, Goto
<1>13. ASSUME NEW r \in Requests, Stop(r) PROVE TypeOK'
  BY <1>13 DEF Stop, Goto, Running
<1>14. CASE UNCHANGED vars
  BY <1>14 DEF vars
<1>15. QED
  BY <1>1, <1>2, <1>3, <1>4, <1>5, <1>6, <1>7, <1>8, <1>9, <1>10, <1>11, <1>12, <1>13, <1>14 DEF Next

\* Every variable keeps its type, however requests overlap and stop.
THEOREM DepositTypes == Spec => []TypeOK
<1>1. QED BY TypeInit, TypeStep, PTL DEF Spec

LEMMA InvStep ==
  ASSUME IInv, [Next]_vars PROVE IInv'
<1> USE DEF IInv, StageInv, ClosedInv, UniqueInv, OnlyLateReuse, TypeOK
<1> DEFINE Inv == StageInv /\ ClosedInv /\ UniqueInv /\ OnlyLateReuse
<1>1. ASSUME NEW t \in Tokens, get_token(t) PROVE Inv'
  BY <1>1 DEF get_token, NoToken
<1>2. ASSUME NEW t \in Tokens, Pay(t) PROVE Inv'
  BY <1>2 DEF Pay
<1>3. ASSUME NEW t \in Tokens, token_verify(t) PROVE Inv'
  BY <1>3 DEF token_verify, Confirm
<1>4. ASSUME NEW r \in Requests, NEW t \in Tokens, Post(r, t) PROVE Inv'
  BY <1>4 DEF Post, Unsent
<1>5. ASSUME NEW r \in Requests, ReadToken(r) PROVE Inv'
  BY <1>5 DEF ReadToken, Goto
<1>6. ASSUME NEW r \in Requests, CheckTokenStatus(r) PROVE Inv'
  <2>1. \A t \in Tokens : token'[t].known = token[t].known /\ token'[t].spent = token[t].spent
    BY <1>6 DEF CheckTokenStatus, Confirm
  <2>2. /\ \A s \in Requests : req'[s].token = req[s].token /\ (s # r => req'[s] = req[s])
        /\ req[r].pc = "verify" /\ req'[r].pc \in {"key", "error"}
        /\ UNCHANGED <<data, keys, made, late>>
    BY <1>6 DEF CheckTokenStatus, Goto
  <2>3. StageInv'
    BY <2>1, <2>2
  <2>4. QED BY <2>2, <2>3
<1>7. ASSUME NEW r \in Requests, NewKey(r) PROVE Inv'
  BY <1>7 DEF NewKey, Goto
<1>8. ASSUME NEW r \in Requests, InsertDeposit(r) PROVE Inv'
  BY <1>8 DEF InsertDeposit, Goto
<1>9. ASSUME NEW r \in Requests, SetTokenSpent(r) PROVE Inv'
  BY <1>9 DEF SetTokenSpent, Goto
<1>10. ASSUME NEW r \in Requests, Reply(r) PROVE Inv'
  BY <1>10 DEF Reply, Goto
<1>11. ASSUME NEW r \in Requests, Withdraw(r) PROVE Inv'
  BY <1>11 DEF Withdraw, Goto, Running
<1>12. ASSUME NEW r \in Requests, delete_statechain_db(r) PROVE Inv'
  <2>1. /\ \A s \in Requests : req'[s].token = req[s].token /\ (s # r => req'[s] = req[s])
        /\ req[r].pc = "closing" /\ req'[r].pc = "closed"
        /\ data' = data \ {r} /\ UNCHANGED <<token, keys, made>> /\ late \subseteq late'
    BY <1>12 DEF delete_statechain_db, Goto
  <2>2. \A s \in Requests :
          req[s].token = req[r].token /\ req[s].pc \in {"verify", "key", "insert"} => s \in late'
    BY <1>12 DEF delete_statechain_db, Running
  <2>3. StageInv' /\ UniqueInv' /\ OnlyLateReuse'
    BY <2>1
  <2>4. ClosedInv'
    BY <2>1, <2>2
  <2>5. QED BY <2>3, <2>4
<1>13. ASSUME NEW r \in Requests, Stop(r) PROVE Inv'
  BY <1>13 DEF Stop, Goto, Running
<1>14. ASSUME UNCHANGED vars PROVE Inv'
  BY <1>14 DEF vars
<1>15. TypeOK'
  BY TypeStep
<1>16. QED
  BY <1>15, <1>1, <1>2, <1>3, <1>4, <1>5, <1>6, <1>7, <1>8, <1>9, <1>10, <1>11, <1>12, <1>13, <1>14 DEF Next

\* A token pays for a second statechain only through a handler that a
\* withdrawal overtook: the UNIQUE token_id excludes a second row while the
\* first one exists, and the spent flag a request read after it is gone.
THEOREM ReuseIsLate == Spec => []OnlyLateReuse
<1>1. IInv /\ [Next]_vars => IInv'
  BY InvStep
<1>2. QED BY <1>1, InvInit, PTL DEF Spec, IInv

\* An answered wallet has a row, a key and a spent token until it withdraws.
THEOREM AnswerBacked == Spec => []CoinBacked
<1>1. IInv /\ [Next]_vars => IInv'
  BY InvStep
<1>2. IInv => CoinBacked
  BY DEF IInv, StageInv, CoinBacked
<1>3. QED BY <1>1, <1>2, InvInit, PTL DEF Spec
-----------------------------------------------------------------------------
\* With a token server a token is confirmed only once it is paid, and past the
\* checks a request has such a token.
FeeInv ==
  ~Free =>
    /\ \A t \in Tokens : token[t].confirmed => t \in paid
    /\ \A r \in Requests :
         /\ req[r].pc \in {"key", "insert"} \/ r \in made => req[r].token \in paid
         /\ r \in made => req[r].pc # "unsent"
         /\ req[r].pc # "unsent" => req[r].token \in Tokens

LEMMA FeeStep == TypeOK /\ FeeInv /\ [Next]_vars => FeeInv'
<1> SUFFICES ASSUME TypeOK, FeeInv, [Next]_vars, ~Free PROVE FeeInv'
  BY DEF FeeInv
<1> USE DEF TypeOK, FeeInv
<1>1. ASSUME NEW t \in Tokens, get_token(t) PROVE FeeInv'
  BY <1>1 DEF get_token
<1>2. ASSUME NEW t \in Tokens, Pay(t) PROVE FeeInv'
  BY <1>2 DEF Pay
<1>3. ASSUME NEW t \in Tokens, token_verify(t) PROVE FeeInv'
  BY <1>3 DEF token_verify, Confirm
<1>4. ASSUME NEW r \in Requests, NEW t \in Tokens, Post(r, t) PROVE FeeInv'
  BY <1>4 DEF Post, Unsent
<1>5. ASSUME NEW r \in Requests, ReadToken(r) PROVE FeeInv'
  BY <1>5 DEF ReadToken, Goto
<1>6. ASSUME NEW r \in Requests, CheckTokenStatus(r) PROVE FeeInv'
  BY <1>6 DEF CheckTokenStatus, Confirm, Verified, Goto
<1>7. ASSUME NEW r \in Requests, NewKey(r) PROVE FeeInv'
  BY <1>7 DEF NewKey, Goto
<1>8. ASSUME NEW r \in Requests, InsertDeposit(r) PROVE FeeInv'
  BY <1>8 DEF InsertDeposit, Goto
<1>9. ASSUME NEW r \in Requests, SetTokenSpent(r) PROVE FeeInv'
  BY <1>9 DEF SetTokenSpent, Goto
<1>10. ASSUME NEW r \in Requests, Reply(r) PROVE FeeInv'
  BY <1>10 DEF Reply, Goto
<1>11. ASSUME NEW r \in Requests, Withdraw(r) PROVE FeeInv'
  BY <1>11 DEF Withdraw, Goto
<1>12. ASSUME NEW r \in Requests, delete_statechain_db(r) PROVE FeeInv'
  BY <1>12 DEF delete_statechain_db, Goto
<1>13. ASSUME NEW r \in Requests, Stop(r) PROVE FeeInv'
  BY <1>13 DEF Stop, Running, Goto
<1>14. CASE UNCHANGED vars
  BY <1>14 DEF vars
<1>15. QED
  BY <1>1, <1>2, <1>3, <1>4, <1>5, <1>6, <1>7, <1>8, <1>9, <1>10, <1>11, <1>12, <1>13, <1>14 DEF Next

\* No statechain is made before its fee is confirmed; this needs no assumption
\* on how long handlers take.
THEOREM FeeAlwaysPaid == Spec => []FeePaid
<1>1. Init => FeeInv
  BY DEF Init, FeeInv, NoToken, Unsent
<1>2. TypeOK /\ FeeInv => FeePaid
  BY DEF TypeOK, FeeInv, FeePaid
<1>3. QED BY <1>1, <1>2, TypeInit, TypeStep, FeeStep, PTL DEF Spec
=============================================================================
