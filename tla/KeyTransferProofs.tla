-------------------------- MODULE KeyTransferProofs --------------------------
(***************************************************************************)
(* For every set of addresses, shares and requests: the coin's key         *)
(* survives whatever the handlers do but the four mishaps of KeyIntact,    *)
(* and the coin goes only where its owner sends it but for the two of      *)
(* OwnerObeyed.                                                            *)
(***************************************************************************)
EXTENDS KeyTransfer, TLAPS

Receiving == {"posted", "read", "fresh", "updated"}

\* What a request has recorded by the time it is where it is.
ReqInv ==
  \A k \in Requests :
    /\ req[k].pc \in Receiving \cup {"offering", "offered", "replied"} =>
         req[k].by \in Users
    /\ req[k].pc \in {"offering", "offered"} => req[k].to \in Users
    /\ req[k].pc \in Receiving => row.to \in Users

\* Until a row is replaced under a handler: from its first read on a handler
\* knows the transfer row there is, and a used row has made its address the owner.
HandInv ==
  "replaced" \notin mishap =>
    /\ \A k \in Requests : req[k].pc \in PastRead => row.to = req[k].by /\ req[k].x1 = row.x1
    /\ row.to \in Users /\ row.key_updated => data.auth = row.to

\* Until an offer is entered late as well: an unused row is the owner's.
OwnInv ==
  mishap \cap {"late", "replaced"} = {} =>
    (row.to \in Users /\ ~row.key_updated => row.by = data.auth)

\* Until one of KeyIntact's mishaps: one handler at a time is past the
\* key_updated check, of an unused row; the published share fits the owner's;
\* and so does the t2 of every request that can still be applied.
KeyInv ==
  mishap \subseteq {"late"} =>
    /\ \A j, k \in Requests : req[j].pc \in PastCheck /\ req[k].pc \in PastCheck => j = k
    /\ \A k \in Requests : req[k].pc \in PastCheck => ~row.key_updated
    /\ data.pub + Share[data.auth] = Key
    /\ (\A k \in Requests : req[k].pc # "updated") => share = data.pub
    /\ \A k \in Requests :
         req[k].pc = "updated" => req[k].pub = share /\ share + Share[req[k].by] = Key
    /\ \A k \in Requests :
         req[k].pc \in {"posted", "read", "fresh"} /\ row.to = req[k].by /\ ~row.key_updated
           => req[k].t2 = Share[data.auth] + row.x1 - Share[req[k].by]

IInv == TypeOK /\ ReqInv /\ HandInv /\ OwnInv /\ KeyInv

-----------------------------------------------------------------------------
(* Types *)

ReqType == [pc : Pcs, by : Users \cup {NoUser}, to : Users \cup {NoUser},
            x1 : Int, t2 : Int, pub : Int]
RowType == [by : Users, to : Users, x1 : Int, key_updated : BOOLEAN, msg : Msg]

\* A row for an address is not the absent row.
LEMMA RowFields ==
  ASSUME TypeOK, row.to \in Users
  PROVE  row \in RowType
BY UserAssumption DEF TypeOK, NoRow, RowType

\* The fields of a changed request.
LEMMA ReqFields ==
  ASSUME NEW q \in ReqType, NEW p \in Pcs, NEW x \in Int
  PROVE  /\ [q EXCEPT !.pc = p] \in ReqType
         /\ [q EXCEPT !.pc = p, !.x1 = x] \in ReqType
         /\ [q EXCEPT !.pc = p, !.pub = x] \in ReqType
         /\ \A v \in Users : [q EXCEPT !.pc = p, !.by = v, !.t2 = x] \in ReqType
BY DEF ReqType

LEMMA TypeInit == Init => TypeOK /\ ReqInv
<1> SUFFICES ASSUME Init PROVE TypeOK /\ ReqInv
  OBVIOUS
<1>1. Unsent \in ReqType
  BY DEF Unsent, ReqType, Pcs, Running
<1>2. req \in [Requests -> ReqType]
  BY <1>1 DEF Init
<1>3. share \in Int /\ data \in [auth : Users, pub : Int]
  BY UserAssumption, ShareAssumption DEF Init
<1>4. held \subseteq Users /\ mishap \subseteq Mishaps /\ row = NoRow
  BY UserAssumption DEF Init
<1>5. ReqInv
  BY DEF Init, ReqInv, Unsent, Receiving
<1>6. QED BY <1>2, <1>3, <1>4, <1>5 DEF TypeOK, ReqType

LEMMA TypeStep == TypeOK /\ ReqInv /\ [Next]_vars => TypeOK' /\ ReqInv'
<1> SUFFICES ASSUME TypeOK, ReqInv, [Next]_vars PROVE TypeOK' /\ ReqInv'
  OBVIOUS
<1> USE UserAssumption, ShareAssumption
<1>0. req \in [Requests -> ReqType]
  BY DEF TypeOK, ReqType
<1>a. ASSUME req' \in [Requests -> ReqType],
             share' \in Int, data' \in [auth : Users, pub : Int],
             row' \in RowType \cup {NoRow},
             held' \subseteq Users, mishap' \subseteq Mishaps
      PROVE  TypeOK'
  BY <1>a DEF TypeOK, ReqType, RowType
<1>b. /\ share \in Int /\ data \in [auth : Users, pub : Int]
      /\ row \in RowType \cup {NoRow} /\ held \subseteq Users /\ mishap \subseteq Mishaps
  BY DEF TypeOK, RowType
<1>c. Unsent \in ReqType
  BY DEF Unsent, ReqType, Pcs, Running
<1>1. ASSUME NEW k \in Requests, NEW u \in Users, NEW v \in Users, Offer(k, u, v)
      PROVE  TypeOK' /\ ReqInv'
  <2> DEFINE r == [Unsent EXCEPT !.pc = "offering", !.by = u, !.to = v]
  <2>1. r \in ReqType /\ r.pc = "offering" /\ r.by = u /\ r.to = v
    BY <1>c DEF ReqType, Pcs, Running, Unsent
  <2>2. req' = [req EXCEPT ![k] = r]
    BY <1>1 DEF Offer
  <2> HIDE DEF r
  <2>3. req' \in [Requests -> ReqType]
    BY <1>0, <2>1, <2>2
  <2>4. TypeOK'
    BY <1>1, <1>a, <1>b, <2>3 DEF Offer
  <2>5. ReqInv'
    BY <1>0, <1>1, <2>1, <2>2 DEF Offer, ReqInv, Receiving
  <2>6. QED BY <2>4, <2>5
<1>2. ASSUME NEW k \in Requests, NEW x \in X1s, InsertTransfer(k, x) PROVE TypeOK' /\ ReqInv'
  <2>1. req[k].by \in Users /\ req[k].to \in Users
    BY <1>2 DEF InsertTransfer, ReqInv
  <2>2. req' \in [Requests -> ReqType]
    BY <1>0, <1>2, <2>1, ReqFields DEF InsertTransfer, Pcs
  <2>3. row' \in RowType
    BY <1>2, <2>1 DEF InsertTransfer, RowType, Msg
  <2>4. TypeOK'
    <3>1. mishap' \subseteq Mishaps
      BY <1>2, <1>b DEF InsertTransfer, OfferMishaps, Mishaps
    <3>2. QED BY <1>2, <1>a, <1>b, <2>2, <2>3, <3>1 DEF InsertTransfer
  <2>5. ReqInv'
    <3>1. row'.to \in Users
      BY <1>2, <2>1 DEF InsertTransfer
    <3>2. QED BY <1>0, <1>2, <2>1, <3>1 DEF InsertTransfer, ReqInv, ReqType, Receiving
  <2>6. QED BY <2>4, <2>5
<1>3. ASSUME NEW k \in Requests, UpdateMsg(k) PROVE TypeOK' /\ ReqInv'
  <2>1. req[k].by \in Users /\ req[k].to \in Users /\ req[k].x1 \in Int
    BY <1>0, <1>3 DEF UpdateMsg, ReqInv, ReqType
  <2>2. req' \in [Requests -> ReqType]
    BY <1>0, <1>3 DEF UpdateMsg, Goto, ReqType, Pcs
  <2> DEFINE m == [from |-> req[k].by, t1 |-> Share[req[k].by] + req[k].x1]
  <2>3. m \in Msg
    BY <2>1 DEF Msg
  <2>4. row' = IF row.to = req[k].to THEN [row EXCEPT !.msg = m] ELSE row
    BY <1>3 DEF UpdateMsg
  <2> HIDE DEF m
  <2>5. CASE row.to = req[k].to
    <3>1. row \in RowType
      BY <2>1, <2>5, RowFields
    <3>2. row' \in RowType
      BY <2>3, <2>4, <2>5, <3>1 DEF RowType
    <3>3. row'.to = row.to
      BY <2>4, <2>5, <3>1 DEF RowType
    <3>4. QED BY <1>3, <1>a, <1>b, <1>0, <2>2, <3>2, <3>3
          DEF UpdateMsg, ReqInv, Goto, ReqType, Receiving
  <2>6. CASE row.to # req[k].to
    BY <1>3, <1>a, <1>b, <1>0, <2>2, <2>4, <2>6
    DEF UpdateMsg, ReqInv, Goto, ReqType, Receiving
  <2>7. QED BY <2>5, <2>6
<1>4. ASSUME NEW k \in Requests, NEW v \in Users, Post(k, v) PROVE TypeOK' /\ ReqInv'
  <2> DEFINE r == [Unsent EXCEPT !.pc = "posted", !.by = v, !.t2 = row.msg.t1 - Share[v]]
  <2>1. row.msg.t1 \in Int
    BY <1>4, RowFields DEF Post, RowType, Msg, NoMsg
  <2>2. r \in ReqType /\ r.pc = "posted" /\ r.by = v
    <3>1. "posted" \in Pcs /\ row.msg.t1 - Share[v] \in Int
      BY <2>1 DEF Pcs
    <3>2. r \in ReqType
      BY <1>c, <3>1, ReqFields
    <3>3. QED BY <3>2 DEF Unsent
  <2>3. req' = [req EXCEPT ![k] = r]
    BY <1>4 DEF Post
  <2> HIDE DEF r
  <2>4. req' \in [Requests -> ReqType]
    BY <1>0, <2>2, <2>3
  <2>5. ReqInv'
    BY <1>0, <1>4, <2>2, <2>3 DEF Post, ReqInv, Receiving
  <2>6. QED BY <1>4, <1>a, <1>b, <2>4, <2>5 DEF Post
<1>5. ASSUME NEW k \in Requests, ReadRow(k) PROVE TypeOK' /\ ReqInv'
  <2>1. row.to = req[k].by => row.x1 \in Int
    BY <1>5, RowFields DEF ReadRow, ReqInv, Receiving, RowType
  <2>2. req' \in [Requests -> ReqType]
    BY <1>0, <1>5, <2>1, ReqFields DEF ReadRow, Pcs, Running
  <2>3. ReqInv'
    BY <1>0, <1>5 DEF ReadRow, ReqInv, Receiving, ReqType
  <2>4. QED BY <1>5, <1>a, <1>b, <2>2, <2>3 DEF ReadRow
<1>6. ASSUME NEW k \in Requests, CheckUpdated(k) PROVE TypeOK' /\ ReqInv'
  <2>1. req' \in [Requests -> ReqType]
    BY <1>0, <1>6, <1>b, ReqFields DEF CheckUpdated, Pcs, Running
  <2>2. ReqInv'
    BY <1>0, <1>6 DEF CheckUpdated, ReqInv, Receiving, ReqType
  <2>3. mishap' \subseteq Mishaps
    BY <1>6, <1>b DEF CheckUpdated, Overlap, Mishaps
  <2>4. QED BY <1>6, <1>a, <1>b, <2>1, <2>2, <2>3 DEF CheckUpdated
<1>7. ASSUME NEW k \in Requests, KeyUpdate(k) PROVE TypeOK' /\ ReqInv'
  <2>1. share' \in Int
    BY <1>0, <1>7, <1>b DEF KeyUpdate, ReqType
  <2>2. req' \in [Requests -> ReqType]
    BY <1>0, <1>7, <2>1, ReqFields DEF KeyUpdate, Pcs, Running
  <2>3. ReqInv'
    BY <1>0, <1>7 DEF KeyUpdate, ReqInv, Receiving, ReqType
  <2>4. QED BY <1>7, <1>a, <1>b, <2>1, <2>2, <2>3 DEF KeyUpdate
<1>8. ASSUME NEW k \in Requests, UpdateStatechain(k) PROVE TypeOK' /\ ReqInv'
  <2>1. req[k].by \in Users /\ req[k].pub \in Int /\ row.to \in Users
    BY <1>0, <1>8 DEF UpdateStatechain, ReqInv, Receiving, ReqType
  <2>2. row' \in RowType /\ row'.to = row.to
    BY <1>8, <2>1, RowFields DEF UpdateStatechain, RowType
  <2>3. req' \in [Requests -> ReqType]
    BY <1>0, <1>8 DEF UpdateStatechain, Goto, ReqType, Pcs
  <2>4. ReqInv'
    BY <1>0, <1>8, <2>1, <2>2 DEF UpdateStatechain, Goto, ReqInv, Receiving, ReqType
  <2>5. QED BY <1>8, <1>a, <1>b, <2>1, <2>2, <2>3, <2>4 DEF UpdateStatechain
<1>9. ASSUME NEW k \in Requests, Receive(k) PROVE TypeOK' /\ ReqInv'
  <2>1. req[k].by \in Users
    BY <1>9 DEF Receive, ReqInv
  <2>2. req' \in [Requests -> ReqType]
    BY <1>0, <1>9 DEF Receive, Goto, ReqType, Pcs
  <2>3. held' \subseteq Users
    BY <1>9, <1>b, <2>1 DEF Receive
  <2>4. ReqInv'
    BY <1>0, <1>9 DEF Receive, Goto, ReqInv, Receiving, ReqType
  <2>5. QED BY <1>9, <1>a, <1>b, <2>2, <2>3, <2>4 DEF Receive
<1>10. ASSUME NEW k \in Requests, Refused(k) \/ Stop(k) PROVE TypeOK' /\ ReqInv'
  <2>1. req' \in [Requests -> ReqType]
    BY <1>0, <1>10 DEF Refused, Stop, Goto, ReqType, Pcs
  <2>2. ReqInv'
    BY <1>0, <1>10 DEF Refused, Stop, Goto, ReqInv, Receiving, ReqType
  <2>3. mishap' \subseteq Mishaps
    BY <1>10, <1>b DEF Refused, Stop, Mishaps
  <2>4. QED BY <1>10, <1>a, <1>b, <2>1, <2>2, <2>3 DEF Refused, Stop
<1>11. CASE UNCHANGED vars
  BY <1>11 DEF vars, TypeOK, ReqInv, Msg
<1>12. QED
  BY <1>1, <1>2, <1>3, <1>4, <1>5, <1>6, <1>7, <1>8, <1>9, <1>10, <1>11 DEF Next

\* Type correctness, however the handlers overlap and stop.
THEOREM KeyTransferTypes == Spec => []TypeOK
BY TypeInit, TypeStep, PTL DEF Spec

-----------------------------------------------------------------------------
(* The invariant *)

LEMMA InvInit == Init => IInv
<1> SUFFICES ASSUME Init PROVE IInv
  OBVIOUS
<1>1. TypeOK /\ ReqInv
  BY TypeInit
<1>2. \A k \in Requests : req[k].pc = "unsent"
  BY DEF Init, Unsent
<1>3. HandInv /\ OwnInv /\ KeyInv
  BY <1>2, UserAssumption, ShareAssumption
  DEF Init, NoRow, HandInv, OwnInv, KeyInv, PastRead, PastCheck, Receiving
<1>4. QED BY <1>1, <1>3 DEF IInv

LEMMA InvStep == IInv /\ [Next]_vars => IInv'
<1> SUFFICES ASSUME IInv, [Next]_vars PROVE IInv'
  OBVIOUS
<1> USE UserAssumption
<1>i. TypeOK /\ ReqInv /\ HandInv /\ OwnInv /\ KeyInv
  BY DEF IInv
<1> USE <1>i
<1>ty. TypeOK' /\ ReqInv'
  BY TypeStep
<1>0. req \in [Requests -> ReqType]
  BY DEF TypeOK, ReqType
<1>t. /\ share \in Int /\ data.pub \in Int /\ data.auth \in Users /\ Key \in Int
      /\ \A u \in Users : Share[u] \in Int
      /\ \A k \in Requests : req[k].t2 \in Int /\ req[k].x1 \in Int /\ req[k].pub \in Int
  BY <1>0, ShareAssumption DEF TypeOK, ReqType
<1>r. row.to \in Users => row \in RowType
  BY RowFields
<1>1. ASSUME NEW k \in Requests, NEW u \in Users, NEW v \in Users, Offer(k, u, v) PROVE HandInv' /\ OwnInv' /\ KeyInv'
  <2>1. \A j \in Requests : j # k => req'[j] = req[j]
    BY <1>0, <1>1 DEF Offer
  <2>2. req[k].pc = "unsent" /\ req'[k].pc = "offering" /\ req'[k].by = u /\ req'[k].to = v
    BY <1>0, <1>1 DEF Offer, ReqType, Unsent
  <2>7. HandInv'
    BY <1>1, <2>1, <2>2 DEF Offer, HandInv, ReqInv, Receiving, PastRead, PastCheck
  <2>8. OwnInv'
    BY <1>1, <2>1, <2>2 DEF Offer, OwnInv, HandInv, ReqInv, Receiving, PastRead, PastCheck
  <2>9. KeyInv'
    BY <1>1, <1>t, <2>1, <2>2 DEF Offer, KeyInv, HandInv, OwnInv, ReqInv, Receiving, PastRead, PastCheck
  <2>10. QED BY <2>7, <2>8, <2>9
<1>2. ASSUME NEW k \in Requests, NEW x \in X1s, InsertTransfer(k, x) PROVE HandInv' /\ OwnInv' /\ KeyInv'
  <2>1. \A j \in Requests : j # k => req'[j] = req[j]
    BY <1>0, <1>2 DEF InsertTransfer
  <2>2. req'[k].pc = "offered" /\ req'[k].by = req[k].by /\ req'[k].to = req[k].to
    BY <1>0, <1>2 DEF InsertTransfer, ReqType, Unsent
  <2>3. /\ row'.by = req[k].by /\ row'.to = req[k].to /\ row'.x1 = x
        /\ row'.key_updated = FALSE /\ req[k].to \in Users
    BY <1>2 DEF InsertTransfer, ReqInv
  <2>4. /\ "late" \notin mishap' => data.auth = req[k].by
        /\ "reoffered" \notin mishap' =>
             \A j \in Requests : ~(req[j].pc = "posted" /\ req[j].by = req[k].to)
        /\ "replaced" \notin mishap' => \A j \in Requests : req[j].pc \notin PastRead
        /\ mishap \subseteq mishap'
    BY <1>2 DEF InsertTransfer, OfferMishaps
  <2>7. HandInv'
    BY <1>2, <2>1, <2>2, <2>3, <2>4 DEF InsertTransfer, HandInv, ReqInv, Receiving, PastRead, PastCheck
  <2>8. OwnInv'
    BY <1>2, <2>1, <2>2, <2>3, <2>4 DEF InsertTransfer, OwnInv, HandInv, ReqInv, Receiving, PastRead, PastCheck
  <2>9. KeyInv'
    BY <1>2, <1>t, <2>1, <2>2, <2>3, <2>4 DEF InsertTransfer, KeyInv, HandInv, OwnInv, ReqInv, Receiving, PastRead, PastCheck
  <2>10. QED BY <2>7, <2>8, <2>9
<1>3. ASSUME NEW k \in Requests, UpdateMsg(k) PROVE HandInv' /\ OwnInv' /\ KeyInv'
  <2>1. \A j \in Requests : j # k => req'[j] = req[j]
    BY <1>0, <1>3 DEF UpdateMsg, Goto
  <2>2. req'[k].pc = "ok"
    BY <1>0, <1>3 DEF UpdateMsg, Goto, ReqType, Unsent
  <2>3. /\ row'.by = row.by /\ row'.to = row.to /\ row'.x1 = row.x1
        /\ row'.key_updated = row.key_updated
    BY <1>3, <1>r DEF UpdateMsg, ReqInv, RowType
  <2>7. HandInv'
    BY <1>3, <2>1, <2>2, <2>3 DEF UpdateMsg, Goto, HandInv, ReqInv, Receiving, PastRead, PastCheck
  <2>8. OwnInv'
    BY <1>3, <2>1, <2>2, <2>3 DEF UpdateMsg, Goto, OwnInv, HandInv, ReqInv, Receiving, PastRead, PastCheck
  <2>9. KeyInv'
    BY <1>3, <1>t, <2>1, <2>2, <2>3 DEF UpdateMsg, Goto, KeyInv, HandInv, OwnInv, ReqInv, Receiving, PastRead, PastCheck
  <2>10. QED BY <2>7, <2>8, <2>9
<1>4. ASSUME NEW k \in Requests, NEW v \in Users, Post(k, v) PROVE HandInv' /\ OwnInv' /\ KeyInv'
  <2>1. \A j \in Requests : j # k => req'[j] = req[j]
    BY <1>0, <1>4 DEF Post
  <2>2. req[k].pc = "unsent" /\ req'[k].pc = "posted" /\ req'[k].by = v /\ req'[k].t2 = row.msg.t1 - Share[v]
    BY <1>0, <1>4 DEF Post, ReqType, Unsent
  <2>3. row.msg.from \in Users /\ row.msg.t1 \in Int /\ row.msg.t1 = Share[row.msg.from] + row.x1
    BY <1>4, <1>r DEF Post, RowType, Msg
  <2>7. HandInv'
    BY <1>4, <2>1, <2>2, <2>3 DEF Post, HandInv, ReqInv, Receiving, PastRead, PastCheck
  <2>8. OwnInv'
    BY <1>4, <2>1, <2>2, <2>3 DEF Post, OwnInv, HandInv, ReqInv, Receiving, PastRead, PastCheck
  <2>9. KeyInv'
    <3>1. row.x1 \in Int /\ UNCHANGED <<share, data, row, mishap>>
      BY <1>4, <1>r DEF Post, RowType
    <3>2. data.pub + Share[row.msg.from] = Key
      BY <1>4 DEF Post
    <3>3. mishap \subseteq {"late"} => req'[k].t2 = Share[data.auth] + row.x1 - Share[req'[k].by]
      BY <1>t, <2>2, <2>3, <3>1, <3>2 DEF KeyInv
    <3>4. QED BY <2>1, <2>2, <3>1, <3>3 DEF KeyInv, PastCheck
  <2>10. QED BY <2>7, <2>8, <2>9
<1>5. ASSUME NEW k \in Requests, ReadRow(k) PROVE HandInv' /\ OwnInv' /\ KeyInv'
  <2>1. \A j \in Requests : j # k => req'[j] = req[j]
    BY <1>0, <1>5 DEF ReadRow
  <2>2. /\ req'[k].by = req[k].by /\ req'[k].to = req[k].to /\ req'[k].t2 = req[k].t2
        /\ IF row.to = req[k].by THEN req'[k].pc = "read" /\ req'[k].x1 = row.x1
                                ELSE req'[k].pc = "error"
    BY <1>0, <1>5 DEF ReadRow, ReqType, Unsent
  <2>7. HandInv'
    BY <1>5, <2>1, <2>2 DEF ReadRow, HandInv, ReqInv, Receiving, PastRead, PastCheck
  <2>8. OwnInv'
    BY <1>5, <2>1, <2>2 DEF ReadRow, OwnInv, HandInv, ReqInv, Receiving, PastRead, PastCheck
  <2>9. KeyInv'
    BY <1>5, <1>t, <2>1, <2>2 DEF ReadRow, KeyInv, HandInv, OwnInv, ReqInv, Receiving, PastRead, PastCheck
  <2>10. QED BY <2>7, <2>8, <2>9
<1>6. ASSUME NEW k \in Requests, CheckUpdated(k) PROVE HandInv' /\ OwnInv' /\ KeyInv'
  <2>1. \A j \in Requests : j # k => req'[j] = req[j]
    BY <1>0, <1>6 DEF CheckUpdated
  <2>2. /\ req'[k].by = req[k].by /\ req'[k].to = req[k].to /\ req'[k].t2 = req[k].t2
        /\ req'[k].x1 = req[k].x1
        /\ req'[k].pc = IF row.key_updated THEN "replied" ELSE "fresh"
    BY <1>0, <1>6 DEF CheckUpdated, ReqType, Unsent
  <2>3. /\ mishap \subseteq mishap'
        /\ "overlap" \notin mishap' /\ ~row.key_updated =>
             \A j \in Requests \ {k} : req[j].pc \notin PastCheck
    BY <1>6 DEF CheckUpdated, Overlap
  <2>7. HandInv'
    BY <1>6, <2>1, <2>2, <2>3 DEF CheckUpdated, HandInv, ReqInv, Receiving, PastRead, PastCheck
  <2>8. OwnInv'
    BY <1>6, <2>1, <2>2, <2>3 DEF CheckUpdated, OwnInv, HandInv, ReqInv, Receiving, PastRead, PastCheck
  <2>9. KeyInv'
    BY <1>6, <1>t, <2>1, <2>2, <2>3 DEF CheckUpdated, KeyInv, HandInv, OwnInv, ReqInv, Receiving, PastRead, PastCheck
  <2>10. QED BY <2>7, <2>8, <2>9
<1>7. ASSUME NEW k \in Requests, KeyUpdate(k) PROVE HandInv' /\ OwnInv' /\ KeyInv'
  <2>1. \A j \in Requests : j # k => req'[j] = req[j]
    BY <1>0, <1>7 DEF KeyUpdate
  <2>2. /\ req'[k].by = req[k].by /\ req'[k].to = req[k].to /\ req'[k].t2 = req[k].t2
        /\ req'[k].x1 = req[k].x1 /\ req'[k].pc = "updated" /\ req'[k].pub = share'
    BY <1>0, <1>7 DEF KeyUpdate, ReqType, Unsent
  <2>7. HandInv'
    BY <1>7, <2>1, <2>2 DEF KeyUpdate, HandInv, ReqInv, Receiving, PastRead, PastCheck
  <2>8. OwnInv'
    BY <1>7, <2>1, <2>2 DEF KeyUpdate, OwnInv, HandInv, ReqInv, Receiving, PastRead, PastCheck
  <2>9. KeyInv'
    BY <1>7, <1>t, <2>1, <2>2 DEF KeyUpdate, KeyInv, HandInv, OwnInv, ReqInv, Receiving, PastRead, PastCheck
  <2>10. QED BY <2>7, <2>8, <2>9
<1>8. ASSUME NEW k \in Requests, UpdateStatechain(k) PROVE HandInv' /\ OwnInv' /\ KeyInv'
  <2>1. \A j \in Requests : j # k => req'[j] = req[j]
    BY <1>0, <1>8 DEF UpdateStatechain, Goto
  <2>2. /\ req'[k].by = req[k].by /\ req'[k].to = req[k].to /\ req'[k].t2 = req[k].t2
        /\ req'[k].pc = "replied"
    BY <1>0, <1>8 DEF UpdateStatechain, Goto, ReqType, Unsent
  <2>3. /\ row'.by = row.by /\ row'.to = row.to /\ row'.x1 = row.x1
        /\ row'.key_updated = TRUE
        /\ data'.auth = req[k].by /\ data'.pub = req[k].pub /\ req[k].by \in Users
    BY <1>8, <1>r DEF UpdateStatechain, ReqInv, RowType, Receiving
  <2>7. HandInv'
    BY <1>8, <2>1, <2>2, <2>3 DEF UpdateStatechain, Goto, HandInv, ReqInv, Receiving, PastRead, PastCheck
  <2>8. OwnInv'
    BY <1>8, <2>1, <2>2, <2>3 DEF UpdateStatechain, Goto, OwnInv, HandInv, ReqInv, Receiving, PastRead, PastCheck
  <2>9. KeyInv'
    BY <1>8, <1>t, <2>1, <2>2, <2>3 DEF UpdateStatechain, Goto, KeyInv, HandInv, OwnInv, ReqInv, Receiving, PastRead, PastCheck
  <2>10. QED BY <2>7, <2>8, <2>9
<1>9. ASSUME NEW k \in Requests, Receive(k) PROVE HandInv' /\ OwnInv' /\ KeyInv'
  <2>1. \A j \in Requests : j # k => req'[j] = req[j]
    BY <1>0, <1>9 DEF Receive, Goto
  <2>2. req'[k].pc \in {"ok", "error"}
    BY <1>0, <1>9 DEF Receive, Goto, ReqType, Unsent
  <2>7. HandInv'
    BY <1>9, <2>1, <2>2 DEF Receive, Goto, HandInv, ReqInv, Receiving, PastRead, PastCheck
  <2>8. OwnInv'
    BY <1>9, <2>1, <2>2 DEF Receive, Goto, OwnInv, HandInv, ReqInv, Receiving, PastRead, PastCheck
  <2>9. KeyInv'
    BY <1>9, <1>t, <2>1, <2>2 DEF Receive, Goto, KeyInv, HandInv, OwnInv, ReqInv, Receiving, PastRead, PastCheck
  <2>10. QED BY <2>7, <2>8, <2>9
<1>10. ASSUME NEW k \in Requests, Refused(k) \/ Stop(k) PROVE HandInv' /\ OwnInv' /\ KeyInv'
  <2>1. \A j \in Requests : j # k => req'[j] = req[j]
    BY <1>0, <1>10 DEF Refused, Stop, Goto
  <2>2. /\ req'[k].pc = "error"
        /\ mishap \subseteq mishap'
        /\ req[k].pc = "updated" => "torn" \in mishap'
    BY <1>0, <1>10 DEF Refused, Stop, Goto, ReqType, Unsent
  <2>7. HandInv'
    BY <1>10, <2>1, <2>2 DEF Refused, Stop, Goto, HandInv, ReqInv, Receiving, PastRead, PastCheck
  <2>8. OwnInv'
    BY <1>10, <2>1, <2>2 DEF Refused, Stop, Goto, OwnInv, HandInv, ReqInv, Receiving, PastRead, PastCheck
  <2>9. KeyInv'
    BY <1>10, <1>t, <2>1, <2>2 DEF Refused, Stop, Goto, KeyInv, HandInv, OwnInv, ReqInv, Receiving, PastRead, PastCheck
  <2>10. QED BY <2>7, <2>8, <2>9
<1>11. ASSUME UNCHANGED vars PROVE HandInv' /\ OwnInv' /\ KeyInv'
  <2>1. HandInv'
    BY <1>11 DEF vars, HandInv, PastRead, PastCheck
  <2>2. OwnInv'
    BY <1>11 DEF vars, OwnInv
  <2>3. KeyInv'
    BY <1>11 DEF vars, KeyInv, PastRead, PastCheck
  <2>4. QED BY <2>1, <2>2, <2>3
<1>12. HandInv' /\ OwnInv' /\ KeyInv'
  BY <1>1, <1>2, <1>3, <1>4, <1>5, <1>6, <1>7, <1>8, <1>9, <1>10, <1>11 DEF Next
<1>13. QED BY <1>ty, <1>12 DEF IInv

\* Share, published key and owner fit together outside a key update, unless
\* one of KeyIntact's mishaps has happened.
THEOREM KeyStaysIntact == Spec => []KeyIntact
<1>1. IInv => KeyIntact
  BY DEF IInv, KeyInv, KeyIntact
<1>2. QED BY <1>1, InvInit, InvStep, PTL DEF Spec

LEMMA OwnershipStep ==
  IInv /\ [Next]_vars =>
    [mishap' \cap {"late", "replaced"} = {} => Promised!Next]_<<data.auth, Standing>>
<1> SUFFICES ASSUME IInv, [Next]_vars, mishap' \cap {"late", "replaced"} = {}
             PROVE  Promised!Next \/ (data.auth' = data.auth /\ Standing' = Standing)
  OBVIOUS
<1>i. TypeOK /\ ReqInv /\ HandInv /\ OwnInv
  BY DEF IInv
<1>r. row.to \in Users => row \in RowType
  BY <1>i, RowFields
<1>1. ASSUME NEW k \in Requests, NEW x \in X1s, InsertTransfer(k, x)
      PROVE  Promised!Offer(req[k].by, req[k].to) /\ req[k].by \in Users /\ req[k].to \in Users
  <2>1. data.auth = req[k].by
    BY <1>1 DEF InsertTransfer, OfferMishaps
  <2>2. QED BY <1>1, <1>i, <2>1 DEF InsertTransfer, Standing, Promised!Offer, ReqInv
<1>2. ASSUME NEW k \in Requests, UpdateStatechain(k)
      PROVE  Promised!Take \/ (data.auth' = data.auth /\ Standing' = Standing)
  <2>1. /\ row.to = req[k].by /\ req[k].by \in Users /\ row \in RowType
        /\ row.key_updated => data.auth = row.to
    BY <1>2, <1>i, <1>r DEF UpdateStatechain, HandInv, ReqInv, Receiving, PastRead
  <2>2. data'.auth = row.to /\ row'.key_updated
    BY <1>2, <2>1 DEF UpdateStatechain, RowType
  <2>3. QED BY <2>1, <2>2, UserAssumption DEF Standing, Promised!Take, Promised!NoOffer
<1>3. ASSUME NEW k \in Requests, UpdateMsg(k) PROVE data.auth' = data.auth /\ Standing' = Standing
  BY <1>3, <1>i, <1>r DEF UpdateMsg, ReqInv, RowType, Standing
<1>4. ASSUME NEW k \in Requests,
             \/ \E u, v \in Users : Offer(k, u, v)
             \/ \E v \in Users : Post(k, v)
             \/ ReadRow(k) \/ CheckUpdated(k) \/ KeyUpdate(k)
             \/ Receive(k) \/ Refused(k) \/ Stop(k)
      PROVE  data.auth' = data.auth /\ Standing' = Standing
  BY <1>4 DEF Offer, Post, ReadRow, CheckUpdated, KeyUpdate, Receive, Refused, Stop, Standing
<1>5. CASE UNCHANGED vars
  BY <1>5 DEF vars, Standing
<1>6. QED
  BY <1>1, <1>2, <1>3, <1>4, <1>5 DEF Next, Promised!Next

\* The handlers implement Ownership, step by step, until an offer is entered
\* late or over a row that a handler has read.
THEOREM OwnerIsObeyed == Spec => OwnerObeyed
<1>1. Init => Promised!Init
  BY DEF Init, Promised!Init, NoRow, Promised!NoOffer, Standing
<1>2. QED
  BY <1>1, OwnershipStep, InvInit, InvStep, PTL DEF Spec, OwnerObeyed
=============================================================================
