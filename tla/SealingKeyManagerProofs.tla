----------------------- MODULE SealingKeyManagerProofs -----------------------
(***************************************************************************)
(* No seed is lost, for any nodes, peers, shares and thresholds.           *)
(***************************************************************************)
EXTENDS SealingKeyManager, FiniteSetTheorems, TLAPS

\* Each leaf is given to Zenon and then to SMT, for so many seconds.
USE ZenonT(10), SMTT(20)

\* A seed that survives any stop: operators can enter it or it is in some file.
Kept(s) == s \in Mnemonics \/ \E m \in Nodes : file[m] = s

\* A process that is down has no state; main works with what its own file
\* holds until it serves.
ProcInv(n) ==
  /\ proc[n].pc = "down" => proc[n] = Down
  /\ proc[n].pc \in {"replicate", "post", "wait"} => work[n] = Free
  /\ proc[n].pc \in {"generate", "replicate", "post", "wait"} /\ work[n] = Free =>
       proc[n].seed = NoSeed \/ file[n] = proc[n].seed
  /\ proc[n].pc \in {"post", "wait"} => proc[n].seed \in Seeds
  /\ proc[n].checked => proc[n].pc = "serve"

\* The file is empty only from the opening to the closing of the one write,
\* or after a stop in between; before it nothing has been stored.
FileInv(n) ==
  /\ file[n] \in Seeds =>
       /\ proc[n].pc # "down" => proc[n].seed = file[n]
       /\ stored[n] \subseteq {file[n], NoSeed}
  /\ file[n] = Absent => proc[n].seed = NoSeed /\ stored[n] \subseteq {NoSeed}

\* What the holder of the mutex is about to set, and for whom.
WorkInv(n) ==
  /\ work[n].at = "free" => work[n] = Free
  /\ work[n].at # "free" => proc[n].pc \in {"generate", "serve"}
  /\ work[n].at = "alloc" => proc[n].seed = NoSeed /\ work[n].result # NoSeed
  /\ work[n].at = "open" =>
       /\ file[n] = Blank /\ stored[n] \subseteq {NoSeed}
       /\ work[n].result \in Seeds /\ proc[n].seed = work[n].result
  /\ work[n].at # "free" /\ work[n].by = Operator =>
       work[n].result \in Mnemonics \cup {Aborts}
  /\ \A m \in Nodes : m # n /\ work[n].by = m =>
       Peer[m] = n /\ (work[n].result \in Seeds => file[m] = work[n].result)
  /\ work[n].by = n <=> proc[n].pc = "generate" /\ work[n].at # "free"

\* A seed in use is kept, unless main is still writing the one it generated.
SeedInv(n) ==
  proc[n].seed \in Seeds => Kept(proc[n].seed) \/ (work[n].at = "open" /\ work[n].by = n)

\* The shares of process p were completed, none of them with a threshold of 0.
Full(p) ==
  /\ p.threshold # 0 /\ ~p.zero /\ p.enclave
  /\ Cardinality(p.right \cup p.wrong) >= p.threshold

\* s is the seed that the shares of process p share out.
Fits(p, s) ==
  IF p.threshold = 1
  THEN \A i \in p.right \cup p.wrong : s = <<Operator, i, i \in p.right>>
  ELSE s = Shared

\* With fewer shares than the threshold there is nothing to recover yet.
ShareInv(n) ==
  LET p == proc[n] IN
  /\ IsFiniteSet(p.right \cup p.wrong)
  /\ p.threshold = 0 /\ ~p.zero => p.right \cup p.wrong = {}
  /\ Full(p) => IF work[n].at = "free" THEN Fits(p, p.seed)
                ELSE Fits(p, work[n].result) \/ work[n].result = Aborts

Local(n) == ProcInv(n) /\ FileInv(n) /\ WorkInv(n) /\ SeedInv(n) /\ ShareInv(n)

IInv == TypeOK /\ (\A n \in Nodes : Local(n)) /\ NoSeedLost /\ ReplicaDurable

USE DEF Serving

-----------------------------------------------------------------------------
(* Types *)

LEMMA Values ==
  /\ NoSeed \notin Seeds /\ Absent \notin Seeds /\ Blank \notin Seeds
  /\ Fails \notin Seeds /\ Aborts \notin Seeds
  /\ NoSeed # Absent /\ NoSeed # Blank /\ NoSeed # Fails /\ NoSeed # Aborts
  /\ Absent # Blank /\ Fails # Aborts
  /\ Mnemonics \subseteq Seeds
BY SeedAssumption DEF NotSeeds, Seeds

LEMMA DownType == Down \in Proc /\ Free \in Work
BY DEF Down, Free, Proc, Work, Pcs

LEMMA TypeInit == Init => TypeOK
BY DownType DEF Init, TypeOK

LEMMA AnswerType ==
  ASSUME TypeOK, NEW n \in Nodes, NEW p \in Proc, NEW ok \in BOOLEAN, Answer(n, p, ok)
  PROVE  proc' \in [Nodes -> Proc] /\ work' \in [Nodes -> Work] /\ replicated' \subseteq Nodes
<1>1. \A m \in Nodes : proc[m] \in Proc
  BY DEF TypeOK
<1>2. Told(p, ok, AfterGenerate(p.replicate)) \in Proc
  BY DownType DEF Told, AfterGenerate, Proc, Pcs
<1>3. \A m \in Nodes : Told(proc[m], ok, "serve") \in Proc
  BY <1>1, DownType DEF Told, Proc, Pcs
<1>4. proc' \in [Nodes -> Proc]
  BY <1>1, <1>2, <1>3 DEF Answer
<1>5. work' \in [Nodes -> Work] /\ replicated' \subseteq Nodes
  BY DownType DEF Answer, TypeOK, Sender
<1>6. QED BY <1>4, <1>5

LEMMA TypeStep == IInv /\ [Next]_vars => TypeOK'
<1> SUFFICES ASSUME IInv, TypeOK, [Next]_vars PROVE TypeOK'
  BY DEF IInv
<1>0. /\ \A n \in Nodes : proc[n] \in Proc /\ work[n] \in Work
      /\ Down \in Proc /\ Free \in Work
  BY DownType DEF TypeOK
<1>e. ASSUME NEW n \in Nodes, Exit(n) PROVE proc' \in [Nodes -> Proc]
  BY <1>e, <1>0 DEF Exit, TypeOK
<1>b. ASSUME NEW n \in Nodes, NEW r \in Seeds \cup {Fails, Aborts}, NEW by \in Nodes \cup {Operator},
             Begin(n, r, by)
      PROVE  work' \in [Nodes -> Work]
  <2>1. [at |-> "alloc", result |-> r, by |-> by] \in Work
    BY DEF Work
  <2>2. QED BY <1>b, <2>1 DEF Begin, TypeOK
<1>1. ASSUME NEW n \in Nodes, NEW g \in BOOLEAN, NEW r \in BOOLEAN, Start(n, g, r) PROVE TypeOK'
  <2>1. readSeedFromFile(n) \in Seeds \cup {NoSeed}
    BY DEF readSeedFromFile
  <2>2. [Down EXCEPT !.pc = IF g THEN "generate" ELSE AfterGenerate(r),
                     !.replicate = r, !.seed = readSeedFromFile(n), !.enclave = TRUE] \in Proc
    BY <2>1 DEF Down, Proc, Pcs, AfterGenerate
  <2>3. QED BY <1>1, <2>2 DEF Start, TypeOK
<1>2. ASSUME NEW n \in Nodes, generateSecret(n) PROVE TypeOK'
  <2>1. CASE proc[n].seed # NoSeed
    <3>1. AfterGenerate(proc[n].replicate) \in Pcs
      BY DEF AfterGenerate, Pcs
    <3>a. [proc[n] EXCEPT !.pc = AfterGenerate(proc[n].replicate)] \in Proc
      BY <1>0, <3>1 DEF Proc
    <3>2. proc' \in [Nodes -> Proc]
      BY <1>2, <2>1, <3>a DEF generateSecret, TypeOK
    <3>3. QED BY <1>2, <2>1, <3>2 DEF generateSecret, TypeOK
  <2>2. CASE proc[n].seed = NoSeed
    <3>1. <<n, starts[n]>> \in Seeds
      BY DEF TypeOK, Seeds
    <3>2. work' \in [Nodes -> Work]
      BY <1>2, <1>b, <2>2, <3>1 DEF generateSecret
    <3>3. QED BY <1>2, <2>2, <3>2 DEF generateSecret, TypeOK
  <2>3. QED BY <2>1, <2>2
<1>3. ASSUME NEW n \in Nodes, getEphemeralPublicKey(n) PROVE TypeOK'
  <2>1. Peer[n] \in Nodes /\ starts[Peer[n]] \in Nat
    BY PeerAssumption DEF TypeOK
  <2>a. [proc[n] EXCEPT !.pc = "serve"] \in Proc
    BY <1>0 DEF Proc, Pcs
  <2>b. [proc[n] EXCEPT !.pc = "post", !.key = starts[Peer[n]]] \in Proc
    BY <1>0, <2>1 DEF Proc, Pcs
  <2>2. proc' \in [Nodes -> Proc]
    BY <1>3, <1>0, <1>e, <2>a, <2>b DEF getEphemeralPublicKey, TypeOK
  <2>3. QED BY <1>3, <2>2 DEF getEphemeralPublicKey, TypeOK
<1>4. ASSUME NEW n \in Nodes, addSecret(n) PROVE TypeOK'
  <2>1. Peer[n] \in Nodes /\ proc[n].seed \in Seeds
    BY <1>4, PeerAssumption DEF addSecret, IInv, Local, ProcInv
  <2>a. [proc[n] EXCEPT !.pc = "wait"] \in Proc
    BY <1>0 DEF Proc, Pcs
  <2>2. proc' \in [Nodes -> Proc]
    BY <1>4, <1>e, <2>a DEF addSecret, TypeOK
  <2>3. work' \in [Nodes -> Work]
    BY <1>4, <1>b, <2>1 DEF addSecret, TypeOK
  <2>4. QED BY <1>4, <2>2, <2>3 DEF addSecret, TypeOK
<1>5. ASSUME NEW n \in Nodes, PeerLost(n) PROVE TypeOK'
  BY <1>5, <1>e DEF PeerLost, TypeOK
<1>6. ASSUME NEW n \in Nodes, NEW i \in Indexes, NEW x \in BOOLEAN, NEW t \in Thresholds,
             addMnemonic(n, i, x, t)
      PROVE  TypeOK'
  <2> DEFINE right == IF x THEN proc[n].right \cup {i} ELSE proc[n].right
             wrong == IF x THEN proc[n].wrong ELSE proc[n].wrong \cup {i}
             zero == proc[n].zero \/ t = 0
  <2>1. right \in SUBSET Indexes /\ wrong \in SUBSET Indexes /\ t \in Nat /\ zero \in BOOLEAN
    BY <1>0, ThresholdAssumption DEF Proc
  <2>2. \/ proc' = [proc EXCEPT ![n] = [@ EXCEPT !.threshold = t]]
        \/ proc' = [proc EXCEPT ![n] = [@ EXCEPT !.threshold = t, !.right = right, !.wrong = wrong,
                                                 !.zero = zero]]
    BY <1>6 DEF addMnemonic
  <2>3. recoverSeed(wrong, t, i, x) \in Seeds \cup {Fails, Aborts}
    BY Values DEF recoverSeed, Mnemonics
  <2>4. work' \in [Nodes -> Work]
    BY <1>6, <1>b, <2>3 DEF addMnemonic, TypeOK
  <2> HIDE DEF right, wrong, zero
  <2>5. /\ [proc[n] EXCEPT !.threshold = t] \in Proc
        /\ [proc[n] EXCEPT !.threshold = t, !.right = right, !.wrong = wrong, !.zero = zero] \in Proc
    BY <1>0, <2>1 DEF Proc
  <2>6. proc' \in [Nodes -> Proc]
    BY <2>2, <2>5 DEF TypeOK
  <2>7. QED BY <1>6, <2>4, <2>6 DEF addMnemonic, TypeOK
<1>7. ASSUME NEW n \in Nodes, NoSeedSet(n) PROVE TypeOK'
  BY <1>7, <1>0, AnswerType DEF NoSeedSet, Answer, TypeOK
<1>8. ASSUME NEW n \in Nodes, EnclaveAborts(n) PROVE TypeOK'
  <2>1. [proc[n] EXCEPT !.enclave = FALSE] \in Proc
    BY <1>0 DEF Proc
  <2>2. proc' \in [Nodes -> Proc] /\ work' \in [Nodes -> Work] /\ replicated' \subseteq Nodes
    BY <1>8, <2>1, AnswerType DEF EnclaveAborts
  <2>3. QED BY <1>8, <2>2 DEF EnclaveAborts, Answer, TypeOK
<1>9. ASSUME NEW n \in Nodes, SetSeed(n) PROVE TypeOK'
  <2> DEFINE p == [proc[n] EXCEPT !.seed = work[n].result]
  <2>1. p \in Proc
    BY <1>9, <1>0 DEF SetSeed, Proc
  <2>2. CASE Answer(n, p, FALSE) /\ UNCHANGED file
    <3>1. proc' \in [Nodes -> Proc] /\ work' \in [Nodes -> Work] /\ replicated' \subseteq Nodes
      BY <2>1, <2>2, AnswerType
    <3>2. QED BY <2>2, <3>1 DEF Answer, TypeOK
  <2>3. CASE /\ file' = [file EXCEPT ![n] = Blank]
             /\ proc' = [proc EXCEPT ![n] = p]
             /\ work' = [work EXCEPT ![n].at = "open"]
             /\ UNCHANGED <<starts, stored, replicated>>
    <3>1. [work[n] EXCEPT !.at = "open"] \in Work
      BY <1>0 DEF Work
    <3>2. QED BY <2>1, <2>3, <3>1 DEF TypeOK
  <2>4. QED BY <1>9, <2>2, <2>3 DEF SetSeed
<1>10. ASSUME NEW n \in Nodes, writeSeedToFile(n) PROVE TypeOK'
  <2>1. proc[n].seed \in Seeds
    BY <1>10 DEF writeSeedToFile, IInv, Local, WorkInv
  <2>2. proc' \in [Nodes -> Proc] /\ work' \in [Nodes -> Work] /\ replicated' \subseteq Nodes
    BY <1>10, <1>0, AnswerType DEF writeSeedToFile
  <2>3. QED BY <1>10, <2>1, <2>2 DEF writeSeedToFile, Answer, TypeOK
<1>11. ASSUME NEW n \in Nodes, CheckSeed(n) PROVE TypeOK'
  <2>1. [proc[n] EXCEPT !.checked = TRUE] \in Proc
    BY <1>0 DEF Proc
  <2>2. QED BY <1>11, <2>1 DEF CheckSeed, TypeOK
<1>12. ASSUME NEW n \in Nodes, StoreKey(n) PROVE TypeOK'
  <2>1. [proc[n] EXCEPT !.checked = FALSE] \in Proc /\ proc[n].seed \in Seeds \cup {NoSeed}
    BY <1>0 DEF Proc
  <2>2. stored' \in [Nodes -> SUBSET (Seeds \cup {NoSeed})]
    BY <1>12, <2>1 DEF StoreKey, TypeOK
  <2>3. QED BY <1>12, <2>1, <2>2 DEF StoreKey, TypeOK
<1>13. ASSUME NEW n \in Nodes, Crash(n) PROVE TypeOK'
  BY <1>13, <1>0, <1>e DEF Crash, TypeOK
<1>14. CASE UNCHANGED vars
  BY <1>14 DEF vars, TypeOK
<1>15. QED
  BY <1>1, <1>2, <1>3, <1>4, <1>5, <1>6, <1>7, <1>8, <1>9, <1>10, <1>11, <1>12, <1>13, <1>14
     DEF Next

-----------------------------------------------------------------------------
(* Complete shares *)

LEMMA FullFits ==
  ASSUME NEW p \in Proc, IsFiniteSet(p.right \cup p.wrong), Full(p), NEW s, Fits(p, s)
  PROVE  s \in Mnemonics
<1>1. CASE p.threshold = 1
  <2>1. p.right \cup p.wrong # {}
    BY <1>1, FS_EmptySet DEF Full
  <2>2. PICK i \in p.right \cup p.wrong : s = <<Operator, i, i \in p.right>>
    BY <1>1, <2>1 DEF Fits
  <2>3. i \in Indexes
    BY <2>2 DEF Proc
  <2>4. \A g \in BOOLEAN : <<Operator, i, g>> \in Mnemonics
    BY <2>3 DEF Mnemonics
  <2>5. (i \in p.right) \in BOOLEAN
    OBVIOUS
  <2>6. QED BY <2>2, <2>4, <2>5
<1>2. CASE p.threshold # 1
  BY <1>2 DEF Fits, Mnemonics
<1>3. QED BY <1>1, <1>2

\* A node that has no seed and none coming does not have its shares complete.
LEMMA NotFull ==
  ASSUME IInv, NEW n \in Nodes,
         IF work[n].at = "free" THEN proc[n].seed = NoSeed ELSE work[n].result = Fails
  PROVE  ~Full(proc[n])
<1>1. proc[n] \in Proc /\ ShareInv(n)
  BY DEF IInv, TypeOK, Local
<1>2. NoSeed \notin Mnemonics /\ Fails \notin Mnemonics /\ Fails # Aborts
  BY Values
<1>3. SUFFICES ASSUME Full(proc[n]) PROVE FALSE
  OBVIOUS
<1>4. IsFiniteSet(proc[n].right \cup proc[n].wrong)
  BY <1>1 DEF ShareInv
<1>5. CASE work[n].at = "free"
  <2>1. Fits(proc[n], NoSeed)
    BY <1>1, <1>3, <1>5 DEF ShareInv
  <2>2. QED BY <1>1, <1>2, <1>3, <1>4, <2>1, FullFits
<1>6. CASE work[n].at # "free"
  <2>1. Fits(proc[n], Fails)
    BY <1>1, <1>2, <1>3, <1>6 DEF ShareInv
  <2>2. QED BY <1>1, <1>2, <1>3, <1>4, <2>1, FullFits
<1>7. QED BY <1>5, <1>6

\* A step that takes no share has to show what it does with complete ones.
LEMMA ShareFrame ==
  ASSUME NEW n \in Nodes, ShareInv(n),
         proc'[n].threshold = proc[n].threshold, proc'[n].zero = proc[n].zero,
         proc'[n].right = proc[n].right, proc'[n].wrong = proc[n].wrong,
         proc'[n].enclave => proc[n].enclave,
         Full(proc[n]) /\ proc'[n].enclave =>
           IF work'[n].at = "free" THEN Fits(proc[n], proc'[n].seed)
           ELSE Fits(proc[n], work'[n].result) \/ work'[n].result = Aborts
  PROVE  ShareInv(n)'
<1> DEFINE p == proc[n]
           q == proc'[n]
<1>1. Full(q) => Full(p) /\ q.enclave
  BY DEF Full
<1>2. \A s : Fits(q, s) <=> Fits(p, s)
  BY DEF Fits
<1>3. IsFiniteSet(q.right \cup q.wrong) /\ (q.threshold = 0 /\ ~q.zero => q.right \cup q.wrong = {})
  BY DEF ShareInv
<1>4. Full(q) => IF work'[n].at = "free" THEN Fits(q, q.seed)
                 ELSE Fits(q, work'[n].result) \/ work'[n].result = Aborts
  BY <1>1, <1>2
<1>5. QED BY <1>3, <1>4 DEF ShareInv

-----------------------------------------------------------------------------
(* Nodes that a step leaves alone, ends, or lets go on *)

FileGrows == \A k \in Nodes : file[k] \in Seeds => file'[k] = file[k]

LEMMA KeptStays ==
  ASSUME FileGrows, NEW s \in Seeds, Kept(s)
  PROVE  Kept(s)'
BY DEF FileGrows, Kept

LEMMA Untouched ==
  ASSUME IInv, FileGrows, NEW m \in Nodes,
         proc'[m] = proc[m], work'[m] = work[m], file'[m] = file[m], stored'[m] = stored[m]
  PROVE  Local(m)'
<1>1. Local(m)
  BY DEF IInv
<1>2. ProcInv(m)' /\ FileInv(m)'
  BY <1>1 DEF Local, ProcInv, FileInv
<1>3. WorkInv(m)'
  BY <1>1 DEF Local, WorkInv, FileGrows
<1>4. SeedInv(m)'
  BY <1>1, KeptStays DEF Local, SeedInv
<1>5. ShareInv(m)'
  BY <1>1 DEF Local, ShareInv
<1>6. QED BY <1>2, <1>3, <1>4, <1>5 DEF Local

LEMMA Ended ==
  ASSUME IInv, NEW m \in Nodes,
         proc'[m] = Down, work'[m] = Free, file'[m] = file[m], stored'[m] = stored[m]
  PROVE  Local(m)'
<1>1. Local(m)
  BY DEF IInv
<1>2. ProcInv(m)'
  BY DEF ProcInv, Down
<1>3. FileInv(m)'
  BY <1>1 DEF Local, FileInv, Down
<1>4. WorkInv(m)'
  BY PeerAssumption DEF WorkInv, Free, Down
<1>5. SeedInv(m)'
  BY Values DEF SeedInv, Down
<1>6. ShareInv(m)'
  BY FS_EmptySet DEF ShareInv, Full, Down
<1>7. QED BY <1>2, <1>3, <1>4, <1>5, <1>6 DEF Local

LEMMA GoesOn ==
  ASSUME IInv, FileGrows, NEW m \in Nodes, NEW x \in {"serve", "replicate"},
         proc[m].pc \in {"generate", "replicate", "wait"}, work[m] = Free,
         x = "replicate" => proc[m].pc = "generate" /\ proc[m].seed = file[m],
         proc'[m] = [proc[m] EXCEPT !.pc = x],
         work'[m] = work[m], file'[m] = file[m], stored'[m] = stored[m]
  PROVE  Local(m)'
<1>1. Local(m) /\ proc[m] \in Proc
  BY DEF IInv, TypeOK
<1>2. /\ proc'[m].pc = x /\ proc'[m].seed = proc[m].seed /\ proc'[m].checked = proc[m].checked
      /\ proc'[m].threshold = proc[m].threshold /\ proc'[m].enclave = proc[m].enclave
      /\ proc'[m].right = proc[m].right /\ proc'[m].wrong = proc[m].wrong
      /\ proc'[m].zero = proc[m].zero
  BY <1>1 DEF Proc
<1>3. ProcInv(m)'
  BY <1>1, <1>2 DEF Local, ProcInv
<1>4. FileInv(m)'
  BY <1>1, <1>2 DEF Local, FileInv
<1>5. WorkInv(m)'
  BY <1>1, <1>2, PeerAssumption DEF Local, WorkInv, Free
<1>6. SeedInv(m)'
  BY <1>1, <1>2, KeptStays DEF Local, SeedInv, Free
<1>7. ShareInv(m)'
  BY <1>1, <1>2, ShareFrame DEF Local, ShareInv
<1>8. QED BY <1>3, <1>4, <1>5, <1>6, <1>7 DEF Local

LEMMA AnswerOthers ==
  ASSUME IInv, FileGrows, NEW n \in Nodes, NEW p \in Proc, NEW ok \in BOOLEAN, Answer(n, p, ok),
         \A k \in Nodes \ {n} : file'[k] = file[k]
  PROVE  /\ \A m \in Nodes \ {n} : Local(m)'
         /\ work'[n] = Free /\ stored' = stored
         /\ proc'[n] = IF work[n].by = n THEN Told(p, ok, AfterGenerate(p.replicate)) ELSE p
<1>0. work \in [Nodes -> Work] /\ stored' = stored
  BY DEF IInv, TypeOK, Answer
<1>1. ASSUME NEW m \in Nodes \ {n} PROVE Local(m)'
  <2>1. work'[m] = work[m] /\ stored'[m] = stored[m] /\ file'[m] = file[m]
    BY <1>0, <1>1 DEF Answer
  <2>2. CASE m \in Sender(n)
    <3>1. proc[m].pc = "wait" /\ work[m] = Free
      BY <2>2 DEF Sender, IInv, Local, ProcInv
    <3>2. proc'[m] = Told(proc[m], ok, "serve")
      BY <1>1, <2>2 DEF Answer
    <3>3. CASE ok
      BY <1>1, <2>1, <3>1, <3>2, <3>3, GoesOn DEF Told
    <3>4. CASE ~ok
      BY <1>1, <2>1, <3>1, <3>2, <3>4, Ended DEF Told
    <3>5. QED BY <3>3, <3>4
  <2>3. CASE m \notin Sender(n)
    <3>1. proc'[m] = proc[m]
      BY <1>1, <2>3 DEF Answer
    <3>2. QED BY <1>1, <2>1, <3>1, Untouched
  <2>4. QED BY <2>2, <2>3
<1>2. work'[n] = Free
  BY <1>0 DEF Answer
<1>3. CASE work[n].by = n
  <2>1. proc'[n] = Told(p, ok, AfterGenerate(p.replicate))
    BY <1>3 DEF Answer, Sender
  <2>2. QED BY <1>0, <1>1, <1>2, <1>3, <2>1
<1>4. CASE work[n].by # n
  <2>1. proc'[n] = p
    BY <1>4 DEF Answer, Sender
  <2>2. QED BY <1>0, <1>1, <1>2, <1>4, <2>1
<1>5. QED BY <1>3, <1>4

-----------------------------------------------------------------------------
(* One lemma per action *)

\* What a step has to show besides its types.
Good == (\A n \in Nodes : Local(n)) /\ NoSeedLost /\ ReplicaDurable

LEMMA Unstored ==
  ASSUME IInv, FileGrows, stored' = stored, replicated' = replicated
  PROVE  NoSeedLost' /\ ReplicaDurable'
<1>1. NoSeedLost'
  BY DEF IInv, NoSeedLost, FileGrows, TypeOK
<1>2. ReplicaDurable'
  <2>1. \A n \in replicated : n \in Nodes /\ Peer[n] \in Nodes
    BY PeerAssumption DEF IInv, TypeOK
  <2>2. QED BY <2>1 DEF IInv, ReplicaDurable, FileGrows
<1>3. QED BY <1>1, <1>2

LEMMA StartStep ==
  ASSUME IInv, NEW n \in Nodes, NEW g \in BOOLEAN, NEW r \in BOOLEAN, Start(n, g, r)
  PROVE  Good'
<1>0. TypeOK /\ Local(n) /\ FileGrows
  BY DEF IInv, Start, FileGrows
<1>1. /\ proc[n] = Down /\ proc'[n].seed = readSeedFromFile(n)
      /\ proc'[n].pc \in {"generate", "replicate", "serve"} /\ proc'[n].checked = FALSE
      /\ proc'[n].right = {} /\ proc'[n].wrong = {} /\ proc'[n].threshold = 0
  BY <1>0 DEF Start, TypeOK, Down, AfterGenerate
<1>2. work[n] = Free /\ work' = work /\ file' = file /\ stored' = stored /\ replicated' = replicated
  BY <1>0, <1>1 DEF Start, Local, WorkInv, Down
<1>3. ProcInv(n)' /\ FileInv(n)'
  BY <1>0, <1>1, <1>2, Values DEF ProcInv, FileInv, Local, readSeedFromFile
<1>4. WorkInv(n)'
  BY <1>1, <1>2, PeerAssumption DEF WorkInv, Free
<1>5. SeedInv(n)' /\ ShareInv(n)'
  BY <1>1, <1>2, Values, FS_EmptySet DEF SeedInv, ShareInv, Full, Kept, readSeedFromFile
<1>6. ASSUME NEW m \in Nodes \ {n} PROVE Local(m)'
  <2>1. proc'[m] = proc[m]
    BY <1>0, <1>6 DEF Start, TypeOK
  <2>2. QED BY <1>0, <1>2, <1>6, <2>1, Untouched
<1>7. QED BY <1>0, <1>2, <1>3, <1>4, <1>5, <1>6, Unstored DEF Good, Local

LEMMA GenerateStep ==
  ASSUME IInv, NEW n \in Nodes, generateSecret(n)
  PROVE  Good'
<1>0. /\ TypeOK /\ Local(n) /\ FileGrows /\ work[n] = Free /\ proc[n].pc = "generate"
      /\ file' = file /\ stored' = stored /\ replicated' = replicated
  BY DEF IInv, generateSecret, FileGrows
<1>1. CASE proc[n].seed # NoSeed
  <2>1. /\ proc' = [proc EXCEPT ![n].pc = AfterGenerate(proc[n].replicate)]
        /\ work' = work
    BY <1>1 DEF generateSecret
  <2>2. file[n] = proc[n].seed
    BY <1>0, <1>1 DEF Local, ProcInv
  <2>3. Local(n)'
    BY <1>0, <2>1, <2>2, GoesOn DEF AfterGenerate, TypeOK
  <2>4. \A m \in Nodes \ {n} : Local(m)'
    BY <1>0, <2>1, Untouched DEF TypeOK
  <2>5. QED BY <1>0, <2>3, <2>4, Unstored DEF Good
<1>2. CASE proc[n].seed = NoSeed
  <2>1. /\ work' = [work EXCEPT ![n] = [at |-> "alloc", result |-> <<n, starts[n]>>, by |-> n]]
        /\ proc' = proc
    BY <1>2 DEF generateSecret, Begin
  <2>2. work'[n] = [at |-> "alloc", result |-> <<n, starts[n]>>, by |-> n]
    BY <1>0, <2>1 DEF TypeOK
  <2>3. ProcInv(n)' /\ FileInv(n)'
    BY <1>0, <1>2, <2>1, <2>2 DEF Local, ProcInv, FileInv
  <2>4. WorkInv(n)'
    BY <1>0, <1>2, <2>1, <2>2, Values, PeerAssumption DEF WorkInv, TypeOK, Seeds
  <2>a. SeedInv(n)'
    BY <1>2, <2>1, Values DEF SeedInv
  <2>b. ~Full(proc[n])
    BY <1>0, <1>2, NotFull DEF Free
  <2>5. ShareInv(n)'
    BY <1>0, <2>1, <2>b, ShareFrame DEF Local
  <2>6. \A m \in Nodes \ {n} : Local(m)'
    BY <1>0, <2>1, Untouched DEF TypeOK
  <2>7. QED BY <1>0, <2>3, <2>4, <2>a, <2>5, <2>6, Unstored DEF Good, Local
<1>3. QED BY <1>1, <1>2

LEMMA EphemeralStep ==
  ASSUME IInv, NEW n \in Nodes, getEphemeralPublicKey(n)
  PROVE  Good'
<1>0. /\ TypeOK /\ Local(n) /\ FileGrows /\ proc[n].pc = "replicate" /\ work[n] = Free
      /\ work' = work /\ file' = file /\ stored' = stored /\ replicated' = replicated
  BY DEF IInv, getEphemeralPublicKey, FileGrows, Local, ProcInv
<1>1. \A m \in Nodes \ {n} : proc'[m] = proc[m]
  BY <1>0 DEF getEphemeralPublicKey, Exit, TypeOK
<1>2. \A m \in Nodes \ {n} : Local(m)'
  BY <1>0, <1>1, Untouched
<1>3. CASE Exit(n)
  <2>1. proc'[n] = Down
    BY <1>0, <1>3 DEF Exit, TypeOK
  <2>2. QED BY <1>0, <1>2, <2>1, Ended, Unstored DEF Good
<1>4. CASE proc' = [proc EXCEPT ![n].pc = "serve"]
  <2>1. proc'[n] = [proc[n] EXCEPT !.pc = "serve"]
    BY <1>0, <1>4 DEF TypeOK
  <2>2. QED BY <1>0, <1>2, <2>1, GoesOn, Unstored DEF Good
<1>5. CASE /\ proc[n].seed # NoSeed
           /\ proc' = [proc EXCEPT ![n].pc = "post", ![n].key = starts[Peer[n]]]
  <2>1. proc'[n] = [proc[n] EXCEPT !.pc = "post", !.key = starts[Peer[n]]] /\ proc[n] \in Proc
    BY <1>0, <1>5 DEF TypeOK
  <2>2. /\ proc'[n].pc = "post" /\ proc'[n].seed = proc[n].seed /\ proc'[n].checked = proc[n].checked
        /\ proc'[n].threshold = proc[n].threshold /\ proc'[n].enclave = proc[n].enclave
        /\ proc'[n].right = proc[n].right /\ proc'[n].wrong = proc[n].wrong
        /\ proc'[n].zero = proc[n].zero
    BY <2>1 DEF Proc
  <2>a. proc[n].seed \in Seeds
    BY <1>5, <2>1 DEF Proc
  <2>3. ProcInv(n)' /\ FileInv(n)'
    BY <1>0, <2>2, <2>a DEF Local, ProcInv, FileInv
  <2>4. WorkInv(n)'
    BY <1>0, <2>2, PeerAssumption DEF WorkInv, Free
  <2>b. SeedInv(n)'
    BY <1>0, <2>2 DEF Local, SeedInv, Kept
  <2>5. ShareInv(n)'
    BY <1>0, <2>2, ShareFrame DEF Local, ShareInv
  <2>6. QED BY <1>0, <1>2, <2>3, <2>4, <2>b, <2>5, Unstored DEF Good, Local
<1>6. QED BY <1>3, <1>4, <1>5 DEF getEphemeralPublicKey

LEMMA AddSecretStep ==
  ASSUME IInv, NEW n \in Nodes, addSecret(n)
  PROVE  Good'
<1> DEFINE p == Peer[n]
<1>0. /\ TypeOK /\ Local(n) /\ FileGrows /\ proc[n].pc = "post" /\ work[n] = Free
      /\ file[n] = proc[n].seed /\ proc[n].seed \in Seeds
      /\ file' = file /\ stored' = stored /\ replicated' = replicated
  BY Values DEF IInv, addSecret, FileGrows, Local, ProcInv
<1>1. CASE Exit(n) /\ UNCHANGED work
  <2>1. proc'[n] = Down /\ \A m \in Nodes \ {n} : proc'[m] = proc[m]
    BY <1>0, <1>1 DEF Exit, TypeOK
  <2>2. QED BY <1>0, <1>1, <2>1, Untouched, Ended, Unstored DEF Good
<1>2. ASSUME Serving(p), work[p] = Free, proc[p].seed = NoSeed, proc' = [proc EXCEPT ![n].pc = "wait"],
             NEW r \in {proc[n].seed, Fails}, r # Fails => proc[p].enclave, Begin(p, r, n)
      PROVE  Good'
  <2>0. p \in Nodes /\ p # n
    BY PeerAssumption
  <2>1. proc'[n] = [proc[n] EXCEPT !.pc = "wait"] /\ proc[n] \in Proc /\ proc[p] \in Proc
    BY <1>0, <1>2, <2>0 DEF TypeOK
  <2>2. /\ proc'[n].pc = "wait" /\ proc'[n].seed = proc[n].seed /\ proc'[n].checked = proc[n].checked
        /\ proc'[n].threshold = proc[n].threshold /\ proc'[n].enclave = proc[n].enclave
        /\ proc'[n].right = proc[n].right /\ proc'[n].wrong = proc[n].wrong
        /\ proc'[n].zero = proc[n].zero
    BY <2>1 DEF Proc
  <2>3. /\ work'[p] = [at |-> "alloc", result |-> r, by |-> n] /\ proc'[p] = proc[p]
        /\ \A m \in Nodes \ {p} : work'[m] = work[m]
        /\ \A m \in Nodes \ {n} : proc'[m] = proc[m]
    BY <1>0, <1>2, <2>0 DEF Begin, TypeOK
  <2>4. Local(n)'
    <3>1. ProcInv(n)' /\ FileInv(n)'
      BY <1>0, <2>0, <2>2, <2>3 DEF Local, ProcInv, FileInv
    <3>2. WorkInv(n)'
      BY <1>0, <2>0, <2>2, <2>3, PeerAssumption DEF WorkInv, Free
    <3>3. SeedInv(n)'
      BY <1>0, <2>0, <2>2, <2>3 DEF Local, SeedInv, Kept
    <3>4. ShareInv(n)'
      BY <1>0, <2>0, <2>2, <2>3, ShareFrame DEF Local, ShareInv
    <3>5. QED BY <3>1, <3>2, <3>3, <3>4 DEF Local
  <2>5. Local(p)'
    <3>0. Local(p) /\ proc[p].pc = "serve"
      BY <1>2, <2>0 DEF IInv
    <3>1. ProcInv(p)' /\ FileInv(p)'
      BY <1>0, <2>0, <2>3, <3>0 DEF Local, ProcInv, FileInv
    <3>2. WorkInv(p)'
      BY <1>0, <1>2, <2>0, <2>3, <3>0, PeerAssumption, Values DEF WorkInv
    <3>3. SeedInv(p)'
      BY <1>2, <2>3, Values DEF SeedInv
    <3>a. ~Full(proc[p])
      BY <1>2, <2>0, NotFull DEF Free
    <3>4. ShareInv(p)'
      BY <2>0, <2>3, <3>0, <3>a, ShareFrame DEF Local
    <3>5. QED BY <3>1, <3>2, <3>3, <3>4 DEF Local
  <2>6. \A m \in Nodes \ {n, p} : Local(m)'
    BY <1>0, <2>3, Untouched
  <2>7. QED BY <1>0, <2>4, <2>5, <2>6, Unstored DEF Good
<1>3. QED
  <2>1. CASE Serving(p) /\ work[p] = Free /\ proc[p].seed = NoSeed
    <3> DEFINE r == IF proc[p].enclave /\ starts[p] = proc[n].key THEN proc[n].seed ELSE Fails
    <3>1. CASE Exit(n) /\ UNCHANGED work
      BY <3>1, <1>1
    <3>2. CASE Begin(p, r, n) /\ proc' = [proc EXCEPT ![n].pc = "wait"]
      BY <1>2, <2>1, <3>2
    <3>3. QED BY <3>1, <3>2 DEF addSecret
  <2>2. CASE ~(Serving(p) /\ work[p] = Free /\ proc[p].seed = NoSeed)
    BY <1>1, <2>2 DEF addSecret
  <2>3. QED BY <2>1, <2>2

\* An index that is used already leaves the shares as they are; if it sets the
\* threshold, they were taken with a threshold of 0.
LEMMA RefusedStep ==
  ASSUME IInv, NEW n \in Nodes, NEW i \in Indexes, NEW x \in BOOLEAN, NEW t \in Thresholds,
         addMnemonic(n, i, x, t), i \in proc[n].right \cup proc[n].wrong
  PROVE  Good'
<1> DEFINE p == proc[n]
<1>0. /\ TypeOK /\ Local(n) /\ FileGrows /\ p \in Proc
      /\ file' = file /\ stored' = stored /\ replicated' = replicated /\ work' = work
      /\ p.pc = "serve" /\ work[n] = Free /\ p.seed = NoSeed
      /\ p.threshold \in {0, t}
  BY DEF IInv, addMnemonic, FileGrows, TakesShares, TypeOK
<1>1. proc' = [proc EXCEPT ![n] = [p EXCEPT !.threshold = t]]
  BY DEF addMnemonic
<1>2. /\ proc'[n] = [p EXCEPT !.threshold = t]
      /\ \A m \in Nodes \ {n} : proc'[m] = proc[m]
  BY <1>0, <1>1 DEF TypeOK
<1>3. /\ proc'[n].threshold = t /\ proc'[n].right = p.right /\ proc'[n].wrong = p.wrong
      /\ proc'[n].zero = p.zero /\ proc'[n].enclave = p.enclave
      /\ proc'[n].pc = p.pc /\ proc'[n].seed = p.seed /\ proc'[n].checked = p.checked
  BY <1>0, <1>2 DEF Proc
<1>4. ~Full(p)
  BY <1>0, NotFull DEF Free
<1>5. ShareInv(n)'
  <2>1. CASE p.threshold = t
    BY <1>0, <1>3, <1>4, <2>1, ShareFrame DEF Local
  <2>2. CASE p.threshold = 0
    <3>1. IsFiniteSet(p.right \cup p.wrong) /\ p.zero
      BY <1>0, <2>2 DEF Local, ShareInv
    <3>2. QED BY <1>3, <3>1 DEF ShareInv, Full
  <2>3. QED BY <1>0, <2>1, <2>2
<1>6. ProcInv(n)' /\ FileInv(n)'
  BY <1>0, <1>3 DEF Local, ProcInv, FileInv
<1>7. WorkInv(n)'
  BY <1>0, <1>3, PeerAssumption DEF WorkInv, Free
<1>8. SeedInv(n)'
  BY <1>0, <1>3, Values DEF SeedInv
<1>9. \A m \in Nodes \ {n} : Local(m)'
  BY <1>0, <1>2, Untouched
<1>10. QED BY <1>0, <1>5, <1>6, <1>7, <1>8, <1>9, Unstored DEF Good, Local

\* Cardinality only grows by the new index, so the threshold is not skipped.
LEMMA MnemonicStep ==
  ASSUME IInv, NEW n \in Nodes, NEW i \in Indexes, NEW x \in BOOLEAN, NEW t \in Thresholds,
         addMnemonic(n, i, x, t), i \notin proc[n].right \cup proc[n].wrong
  PROVE  Good'
<1> DEFINE p == proc[n]
           q == proc'[n]
           right == IF x THEN p.right \cup {i} ELSE p.right
           wrong == IF x THEN p.wrong ELSE p.wrong \cup {i}
           zero == p.zero \/ t = 0
           result == recoverSeed(wrong, t, i, x)
<1>0. /\ TypeOK /\ Local(n) /\ FileGrows /\ p \in Proc
      /\ file' = file /\ stored' = stored /\ replicated' = replicated
      /\ p.pc = "serve" /\ work[n] = Free /\ p.seed = NoSeed /\ p.enclave
      /\ p.threshold \in {0, t}
  BY DEF IInv, addMnemonic, FileGrows, TakesShares, TypeOK
<1>1. proc' = [proc EXCEPT ![n] = [p EXCEPT !.threshold = t, !.right = right, !.wrong = wrong,
                                            !.zero = zero]]
  BY DEF addMnemonic
<1>2. right \cup wrong = (p.right \cup p.wrong) \cup {i}
  OBVIOUS
<1>3. work' = IF Complete(right \cup wrong, t)
              THEN [work EXCEPT ![n] = [at |-> "alloc", result |-> result, by |-> Operator]]
              ELSE work
  BY DEF addMnemonic, Begin
<1>a. result \in Mnemonics \cup {Aborts}
  BY DEF recoverSeed, Mnemonics
\* Of a single share the threshold of 1 makes the seed.
<1>b. p.right \cup p.wrong = {} /\ t = 1 =>
        \A j \in right \cup wrong : result = <<Operator, j, j \in right>>
  <2> SUFFICES ASSUME p.right \cup p.wrong = {}, t = 1, NEW j \in right \cup wrong
               PROVE  result = <<Operator, j, j \in right>>
    OBVIOUS
  <2>1. j = i /\ result = <<Operator, i, x>>
    BY DEF recoverSeed
  <2>2. x = (i \in right)
    OBVIOUS
  <2>3. QED BY <2>1, <2>2
<1>c. t # 1 => result \in {Shared, Aborts}
  BY DEF recoverSeed
<1> HIDE DEF right, wrong, zero, result
<1>4. /\ q.threshold = t /\ q.right = right /\ q.wrong = wrong /\ q.zero = zero
      /\ q.pc = p.pc /\ q.seed = p.seed /\ q.checked = p.checked /\ q.enclave = p.enclave
  <2>1. p \in Proc /\ q = [p EXCEPT !.threshold = t, !.right = right, !.wrong = wrong, !.zero = zero]
    BY <1>0, <1>1 DEF TypeOK
  <2>2. q.threshold = t /\ q.right = right /\ q.wrong = wrong /\ q.zero = zero
    BY <2>1 DEF Proc
  <2>3. q.pc = p.pc /\ q.seed = p.seed /\ q.checked = p.checked /\ q.enclave = p.enclave
    BY <2>1 DEF Proc
  <2>4. QED BY <2>2, <2>3
<1>5. \A m \in Nodes \ {n} : proc'[m] = proc[m] /\ work'[m] = work[m]
  BY <1>0, <1>1, <1>3 DEF TypeOK
<1>6. \A m \in Nodes \ {n} : Local(m)'
  BY <1>0, <1>5, Untouched
<1>7. t \in Nat
  BY ThresholdAssumption
<1>8. /\ IsFiniteSet(p.right \cup p.wrong) /\ IsFiniteSet(right \cup wrong)
      /\ Cardinality(p.right \cup p.wrong) \in Nat
      /\ Cardinality(right \cup wrong) = Cardinality(p.right \cup p.wrong) + 1
  <2>1. IsFiniteSet(p.right \cup p.wrong)
    BY <1>0 DEF Local, ShareInv
  <2>2. QED BY <1>0, <1>2, <2>1, FS_AddElement, FS_CardinalityType
<1>9. ~zero => t # 0 /\ Cardinality(p.right \cup p.wrong) < t
  <2> SUFFICES ASSUME ~zero PROVE t # 0 /\ Cardinality(p.right \cup p.wrong) < t
    OBVIOUS
  <2>0. t # 0 /\ ~p.zero
    BY DEF zero
  <2>1. CASE p.threshold = 0
    <3>1. p.right \cup p.wrong = {}
      BY <1>0, <2>0, <2>1 DEF Local, ShareInv
    <3>2. QED BY <1>7, <2>0, <3>1, FS_EmptySet
  <2>2. CASE p.threshold = t
    <3>1. ~Full(p)
      BY <1>0, NotFull DEF Free
    <3>2. QED BY <1>0, <1>7, <1>8, <2>0, <2>2, <3>1 DEF Full
  <2>3. QED BY <1>0, <2>1, <2>2
<1>10. ProcInv(n)' /\ FileInv(n)'
  <2>1. work'[n] = Free \/ q.pc = "serve"
    BY <1>0, <1>4
  <2>2. QED BY <1>0, <1>4, <2>1 DEF Local, ProcInv, FileInv
<1>11. SeedInv(n)'
  BY <1>0, <1>4, Values DEF SeedInv
<1>12. IsFiniteSet(q.right \cup q.wrong) /\ (q.threshold = 0 => q.zero)
  BY <1>4, <1>8 DEF zero
<1>13. CASE Complete(right \cup wrong, t)
  <2>1. work'[n] = [at |-> "alloc", result |-> result, by |-> Operator]
    BY <1>0, <1>3, <1>13 DEF TypeOK
  <2>2. WorkInv(n)'
    BY <1>0, <1>4, <1>a, <2>1, PeerAssumption, Values DEF WorkInv
  <2>3. Full(q) => Fits(q, result) \/ result = Aborts
    <3> SUFFICES ASSUME Full(q) PROVE Fits(q, result) \/ result = Aborts
      OBVIOUS
    <3>1. Cardinality(p.right \cup p.wrong) < t /\ Cardinality(right \cup wrong) = t
      BY <1>4, <1>9, <1>13 DEF Full, Complete
    <3>2. CASE t = 1
      <4>1. p.right \cup p.wrong = {}
        BY <1>8, <3>1, <3>2, FS_EmptySet
      <4>2. QED BY <1>4, <1>b, <3>2, <4>1 DEF Fits
    <3>3. CASE t # 1
      BY <1>4, <1>c, <3>3 DEF Fits
    <3>4. QED BY <3>2, <3>3
  <2>4. ShareInv(n)'
    BY <1>12, <2>1, <2>3 DEF ShareInv
  <2>5. QED BY <1>0, <1>6, <1>10, <1>11, <2>2, <2>4, Unstored DEF Good, Local
<1>14. CASE ~Complete(right \cup wrong, t)
  <2>1. work'[n] = work[n]
    BY <1>3, <1>14
  <2>2. WorkInv(n)'
    BY <1>0, <1>4, <2>1, PeerAssumption DEF WorkInv, Free
  <2>3. ~Full(q)
    <3>1. CASE zero
      BY <1>4, <3>1 DEF Full
    <3>2. CASE ~zero
      <4>1. Cardinality(right \cup wrong) < t
        BY <1>7, <1>8, <1>9, <1>14, <3>2 DEF Complete
      <4>2. QED BY <1>4, <1>7, <1>8, <4>1 DEF Full
    <3>3. QED BY <3>1, <3>2
  <2>4. ShareInv(n)'
    BY <1>12, <2>3 DEF ShareInv
  <2>5. QED BY <1>0, <1>6, <1>10, <1>11, <2>2, <2>4, Unstored DEF Good, Local
<1>15. QED BY <1>13, <1>14

LEMMA NoSeedStep ==
  ASSUME IInv, NEW n \in Nodes, NoSeedSet(n) \/ EnclaveAborts(n)
  PROVE  Good'
<1> DEFINE p == IF work[n].result = Aborts THEN [proc[n] EXCEPT !.enclave = FALSE] ELSE proc[n]
<1>0. /\ TypeOK /\ Local(n) /\ FileGrows /\ proc[n] \in Proc /\ work[n].at = "alloc"
      /\ work[n].result \in {Fails, Aborts} /\ proc[n].seed = NoSeed
      /\ file' = file /\ stored' = stored
  BY ZenonT(40) DEF IInv, NoSeedSet, EnclaveAborts, Answer, FileGrows, TypeOK, Local, WorkInv
<1>1. Answer(n, p, FALSE)
  BY SeedAssumption DEF NoSeedSet, EnclaveAborts
<1>2. p \in Proc /\ p.pc = proc[n].pc /\ p.seed = NoSeed /\ p.checked = proc[n].checked
      /\ p.threshold = proc[n].threshold /\ p.right = proc[n].right /\ p.wrong = proc[n].wrong
      /\ p.zero = proc[n].zero
      /\ (p.enclave => proc[n].enclave /\ work[n].result = Fails)
  BY <1>0 DEF Proc
<1> HIDE DEF p
<1>3. /\ \A m \in Nodes \ {n} : Local(m)'
      /\ work'[n] = Free /\ replicated' = replicated
      /\ proc'[n] = IF work[n].by = n THEN Told(p, FALSE, AfterGenerate(p.replicate)) ELSE p
  BY <1>0, <1>1, <1>2, AnswerOthers, ZenonT(30), SMTT(20) DEF Answer
<1>4. CASE work[n].by = n
  <2>1. proc'[n] = Down
    BY <1>3, <1>4 DEF Told
  <2>2. QED BY <1>0, <1>3, <2>1, Ended, Unstored DEF Good
<1>5. CASE work[n].by # n
  <2>1. proc'[n] = p /\ p.pc = "serve"
    BY <1>0, <1>2, <1>3, <1>5 DEF Local, WorkInv
  <2>2. ProcInv(n)' /\ FileInv(n)'
    BY <1>0, <1>2, <2>1 DEF Local, ProcInv, FileInv
  <2>3. WorkInv(n)'
    BY <1>3, <2>1, PeerAssumption DEF WorkInv, Free
  <2>4. SeedInv(n)'
    BY <1>2, <2>1, Values DEF SeedInv
  <2>a. p.enclave => ~Full(proc[n])
    BY <1>0, <1>2, NotFull
  <2>5. ShareInv(n)'
    BY <1>0, <1>2, <2>1, <2>a, ShareFrame DEF Local
  <2>6. QED BY <1>0, <1>3, <2>2, <2>3, <2>4, <2>5, Unstored DEF Good, Local
<1>6. QED BY <1>4, <1>5

LEMMA SetSeedStep ==
  ASSUME IInv, NEW n \in Nodes, SetSeed(n)
  PROVE  Good'
<1> DEFINE s == work[n].result
           p == [proc[n] EXCEPT !.seed = s]
<1>0. /\ TypeOK /\ Local(n) /\ proc[n] \in Proc /\ work[n] \in Work /\ work[n].at = "alloc"
      /\ s \in Seeds /\ proc[n].seed = NoSeed /\ proc[n].pc \in {"generate", "serve"}
      /\ stored' = stored
  BY ZenonT(40) DEF IInv, SetSeed, Answer, TypeOK, Local, WorkInv
<1>1. file[n] \notin Seeds /\ FileGrows
  BY <1>0, Values DEF SetSeed, FileGrows, Local, FileInv, TypeOK
<1>2. /\ p \in Proc /\ p.pc = proc[n].pc /\ p.seed = s /\ p.checked = proc[n].checked
      /\ p.threshold = proc[n].threshold /\ p.right = proc[n].right /\ p.wrong = proc[n].wrong
      /\ p.zero = proc[n].zero
      /\ p.enclave = proc[n].enclave
  BY <1>0 DEF Proc
<1> HIDE DEF p
\* Unless main has generated it, the seed is the operators' or in the sender's file.
<1>3. work[n].by # n => s \in Mnemonics \/ \E m \in Nodes : file'[m] = s
  <2>1. work[n].by = Operator => s \in Mnemonics
    BY <1>0, Values DEF Local, WorkInv
  <2>2. \A m \in Nodes : m # n /\ work[n].by = m => file[m] = s
    BY <1>0 DEF Local, WorkInv
  <2>3. work[n].by # n => Kept(s)
    BY <1>0, <2>1, <2>2 DEF Kept, Work
  <2>4. QED BY <1>0, <1>1, <2>3 DEF Kept, FileGrows
<1>a. Full(proc[n]) => Fits(proc[n], s)
  BY <1>0, Values DEF Local, ShareInv
<1>4. CASE file[n] # Absent
  <2>0. Answer(n, p, FALSE) /\ file' = file
    BY <1>4 DEF SetSeed, p
  <2>1. /\ \A m \in Nodes \ {n} : Local(m)'
        /\ work'[n] = Free /\ replicated' = replicated
        /\ proc'[n] = IF work[n].by = n THEN Told(p, FALSE, AfterGenerate(p.replicate)) ELSE p
    BY <1>1, <1>2, <2>0, AnswerOthers, ZenonT(40) DEF Answer
  <2>2. CASE work[n].by = n
    <3>1. proc'[n] = Down
      BY <2>1, <2>2 DEF Told
    <3>2. QED BY <1>0, <1>1, <2>0, <2>1, <3>1, Ended, Unstored DEF Good
  <2>3. CASE work[n].by # n
    <3>1. proc'[n] = p /\ p.pc = "serve"
      BY <1>0, <1>2, <2>1, <2>3 DEF Local, WorkInv
    <3>2. ProcInv(n)' /\ FileInv(n)'
      BY <1>0, <1>1, <1>2, <1>4, <2>0, <3>1 DEF Local, ProcInv, FileInv
    <3>3. WorkInv(n)'
      BY <2>1, <3>1, PeerAssumption DEF WorkInv, Free
    <3>4. SeedInv(n)'
      BY <1>2, <1>3, <2>3, <3>1 DEF SeedInv, Kept
    <3>5. work'[n].at = "free"
      BY <2>1 DEF Free
    <3>6. ShareInv(n)'
      BY <1>0, <1>2, <1>a, <3>1, <3>5, ShareFrame DEF Local
    <3>7. QED BY <1>0, <1>1, <2>1, <3>2, <3>3, <3>4, <3>6, Unstored DEF Good, Local
  <2>4. QED BY <2>2, <2>3
<1>5. CASE file[n] = Absent
  <2>1. /\ file' = [file EXCEPT ![n] = Blank] /\ proc' = [proc EXCEPT ![n] = p]
        /\ work' = [work EXCEPT ![n].at = "open"] /\ replicated' = replicated
    BY <1>5 DEF SetSeed, p
  <2>2. /\ file'[n] = Blank /\ proc'[n] = p
        /\ work'[n].at = "open" /\ work'[n].result = s /\ work'[n].by = work[n].by
    BY <1>0, <2>1 DEF TypeOK, Work
  <2>3. \A m \in Nodes \ {n} : file'[m] = file[m] /\ proc'[m] = proc[m] /\ work'[m] = work[m]
    BY <1>0, <2>1 DEF TypeOK
  <2>4. \A m \in Nodes \ {n} : Local(m)'
    BY <1>0, <1>1, <2>3, Untouched
  <2>5. ProcInv(n)' /\ FileInv(n)'
    BY <1>0, <1>2, <2>2, Values DEF Local, ProcInv, FileInv, Free
  <2>6. stored[n] \subseteq {NoSeed}
    BY <1>0, <1>5 DEF Local, FileInv
  <2>7. WorkInv(n)'
    BY <1>0, <1>2, <2>2, <2>3, <2>6 DEF Local, WorkInv
  <2>8. SeedInv(n)'
    BY <1>2, <1>3, <2>2 DEF SeedInv, Kept
  <2>9. ShareInv(n)'
    BY <1>0, <1>2, <1>a, <2>2, ShareFrame DEF Local
  <2>10. QED BY <1>0, <1>1, <2>1, <2>4, <2>5, <2>7, <2>8, <2>9, Unstored DEF Good, Local
<1>6. QED BY <1>4, <1>5

\* The write keeps the seed, and is what the sender is told of.
LEMMA WriteStep ==
  ASSUME IInv, NEW n \in Nodes, writeSeedToFile(n)
  PROVE  Good'
<1> DEFINE s == proc[n].seed
<1>0. /\ TypeOK /\ Local(n) /\ proc[n] \in Proc /\ work[n].at = "open"
      /\ s \in Seeds /\ work[n].result = s /\ file[n] = Blank /\ stored[n] \subseteq {NoSeed}
      /\ proc[n].pc \in {"generate", "serve"}
      /\ stored' = stored /\ Answer(n, proc[n], TRUE)
  BY ZenonT(40) DEF IInv, writeSeedToFile, Answer, TypeOK, Local, WorkInv
<1>1. file'[n] = s /\ \A m \in Nodes \ {n} : file'[m] = file[m]
  BY <1>0 DEF writeSeedToFile, TypeOK
<1>2. FileGrows
  BY <1>0, <1>1, Values DEF FileGrows
<1>3. /\ \A m \in Nodes \ {n} : Local(m)'
      /\ work'[n] = Free
      /\ proc'[n] = IF work[n].by = n THEN Told(proc[n], TRUE, AfterGenerate(proc[n].replicate))
                    ELSE proc[n]
  BY <1>0, <1>1, <1>2, AnswerOthers, ZenonT(30), SMTT(20)
<1>4. /\ proc'[n].pc \in {"replicate", "serve"} /\ proc'[n].seed = s
      /\ proc'[n].checked = proc[n].checked
      /\ proc'[n].threshold = proc[n].threshold /\ proc'[n].enclave = proc[n].enclave
      /\ proc'[n].right = proc[n].right /\ proc'[n].wrong = proc[n].wrong
      /\ proc'[n].zero = proc[n].zero
  <2>1. CASE work[n].by = n
    <3>1. proc'[n] = [proc[n] EXCEPT !.pc = AfterGenerate(proc[n].replicate)]
      BY <1>3, <2>1 DEF Told
    <3>2. AfterGenerate(proc[n].replicate) \in {"replicate", "serve"}
      BY DEF AfterGenerate
    <3>3. QED BY <1>0, <3>1, <3>2 DEF Proc
  <2>2. CASE work[n].by # n
    BY <1>0, <1>3, <2>2 DEF Local, WorkInv
  <2>3. QED BY <2>1, <2>2
<1>5. ProcInv(n)' /\ FileInv(n)'
  <2>1. proc[n].checked => work[n].by # n
    BY <1>0 DEF Local, ProcInv, WorkInv
  <2>2. proc'[n].checked => proc'[n].pc = "serve"
    BY <1>0, <1>3, <1>4, <2>1 DEF Local, ProcInv
  <2>3. QED BY <1>0, <1>1, <1>3, <1>4, <2>2, Values DEF ProcInv, FileInv
<1>6. WorkInv(n)'
  BY <1>3, <1>4, PeerAssumption DEF WorkInv, Free
<1>7. SeedInv(n)'
  BY <1>1, <1>4 DEF SeedInv, Kept
<1>8. ShareInv(n)'
  <2>1. work'[n].at = "free" /\ Aborts # s
    BY <1>0, <1>3, Values DEF Free
  <2>2. Full(proc[n]) => Fits(proc[n], s)
    BY <1>0, <2>1 DEF Local, ShareInv
  <2>3. QED BY <1>0, <1>4, <2>1, <2>2, ShareFrame DEF Local
<1>9. NoSeedLost'
  BY <1>0, <1>2, ZenonT(40) DEF IInv, NoSeedLost, FileGrows, TypeOK
<1>10. ReplicaDurable'
  <2>1. \A m \in replicated : m \in Nodes /\ Peer[m] \in Nodes /\ file[m] \in Seeds /\ file[Peer[m]] = file[m]
    BY PeerAssumption DEF IInv, TypeOK, ReplicaDurable
  <2>2. \A m \in Sender(n) : m \in Nodes \ {n} /\ Peer[m] = n /\ file[m] = s
    BY <1>0 DEF Sender, Local, WorkInv
  <2>3. replicated' = replicated \cup Sender(n)
    BY <1>0 DEF Answer
  <2>4. QED BY <1>0, <1>1, <1>2, <2>1, <2>2, <2>3 DEF ReplicaDurable, FileGrows
<1>11. QED BY <1>3, <1>5, <1>6, <1>7, <1>8, <1>9, <1>10 DEF Good, Local

LEMMA CheckStep ==
  ASSUME IInv, NEW n \in Nodes, CheckSeed(n)
  PROVE  Good'
<1>0. /\ TypeOK /\ Local(n) /\ FileGrows /\ proc[n] \in Proc /\ proc[n].pc = "serve"
      /\ work' = work /\ file' = file /\ stored' = stored /\ replicated' = replicated
  BY DEF IInv, CheckSeed, FileGrows, TypeOK
<1>1. /\ proc'[n] = [proc[n] EXCEPT !.checked = TRUE]
      /\ \A m \in Nodes \ {n} : proc'[m] = proc[m]
  BY <1>0 DEF CheckSeed, TypeOK
<1>2. /\ proc'[n].pc = "serve" /\ proc'[n].seed = proc[n].seed
      /\ proc'[n].threshold = proc[n].threshold /\ proc'[n].enclave = proc[n].enclave
      /\ proc'[n].right = proc[n].right /\ proc'[n].wrong = proc[n].wrong
      /\ proc'[n].zero = proc[n].zero
  BY <1>0, <1>1 DEF Proc
<1>3. ProcInv(n)' /\ FileInv(n)' /\ WorkInv(n)' /\ SeedInv(n)'
  BY <1>0, <1>2 DEF Local, ProcInv, FileInv, WorkInv, SeedInv, Kept
<1>a. ShareInv(n)'
  BY <1>0, <1>2, ShareFrame DEF Local, ShareInv
<1>4. QED BY <1>0, <1>1, <1>3, <1>a, Untouched, Unstored DEF Good, Local

\* A key is stored only when no seed is being set, and then the seed is kept.
LEMMA StoreStep ==
  ASSUME IInv, NEW n \in Nodes, StoreKey(n)
  PROVE  Good'
<1>0. /\ TypeOK /\ Local(n) /\ FileGrows /\ proc[n] \in Proc /\ proc[n].pc = "serve" /\ work[n] = Free
      /\ work' = work /\ file' = file /\ replicated' = replicated
  BY DEF IInv, StoreKey, FileGrows, TypeOK, Local, ProcInv
<1>1. /\ proc'[n] = [proc[n] EXCEPT !.checked = FALSE]
      /\ \A m \in Nodes \ {n} : proc'[m] = proc[m] /\ stored'[m] = stored[m]
      /\ stored'[n] \subseteq stored[n] \cup {proc[n].seed}
  BY <1>0 DEF StoreKey, TypeOK
<1>2. /\ proc'[n].pc = "serve" /\ proc'[n].seed = proc[n].seed /\ proc'[n].checked = FALSE
      /\ proc'[n].threshold = proc[n].threshold /\ proc'[n].enclave = proc[n].enclave
      /\ proc'[n].right = proc[n].right /\ proc'[n].wrong = proc[n].wrong
      /\ proc'[n].zero = proc[n].zero
  BY <1>0, <1>1 DEF Proc
<1>3. ProcInv(n)' /\ SeedInv(n)'
  BY <1>0, <1>2 DEF Local, ProcInv, SeedInv, Kept
<1>a. ShareInv(n)'
  BY <1>0, <1>2, ShareFrame DEF Local, ShareInv
<1>4. FileInv(n)' /\ WorkInv(n)'
  BY <1>0, <1>1, <1>2, PeerAssumption DEF Local, FileInv, WorkInv, Free
<1>5. proc[n].seed \in Seeds => Kept(proc[n].seed)
  BY <1>0 DEF Local, SeedInv, Free
<1>6. NoSeedLost'
  BY <1>0, <1>1, <1>5 DEF IInv, NoSeedLost, Kept, Proc
<1>7. ReplicaDurable'
  BY <1>0 DEF IInv, ReplicaDurable
<1>8. QED BY <1>0, <1>1, <1>3, <1>a, <1>4, <1>6, <1>7, Untouched DEF Good, Local

LEMMA EndStep ==
  ASSUME IInv, NEW n \in Nodes, Crash(n) \/ PeerLost(n)
  PROVE  Good'
<1>0. /\ TypeOK /\ Local(n) /\ FileGrows
      /\ file' = file /\ stored' = stored /\ replicated' = replicated
  BY DEF IInv, Crash, PeerLost, FileGrows
<1>1. /\ proc'[n] = Down /\ work'[n] = Free
      /\ \A m \in Nodes \ {n} : proc'[m] = proc[m] /\ work'[m] = work[m]
  BY <1>0 DEF Crash, PeerLost, Exit, TypeOK, Local, ProcInv
<1>2. QED BY <1>0, <1>1, Untouched, Ended, Unstored DEF Good

-----------------------------------------------------------------------------
LEMMA InvInit == Init => IInv
<1> SUFFICES ASSUME Init PROVE IInv
  OBVIOUS
<1>1. TypeOK
  BY TypeInit
<1>2. ASSUME NEW n \in Nodes PROVE Local(n)
  <2>1. proc[n] = Down /\ work[n] = Free /\ file[n] = Absent /\ stored[n] = {}
    BY <1>2 DEF Init
  <2>2. ProcInv(n) /\ FileInv(n)
    BY <2>1, Values DEF ProcInv, FileInv, Down
  <2>3. WorkInv(n)
    BY <2>1, PeerAssumption DEF WorkInv, Down, Free
  <2>4. SeedInv(n) /\ ShareInv(n)
    BY <2>1, Values, FS_EmptySet DEF SeedInv, ShareInv, Full, Down
  <2>5. QED BY <2>2, <2>3, <2>4 DEF Local
<1>3. QED BY <1>1, <1>2 DEF IInv, Init, NoSeedLost, ReplicaDurable

LEMMA InvStep == IInv /\ [Next]_vars => IInv'
<1> SUFFICES ASSUME IInv, [Next]_vars PROVE IInv'
  OBVIOUS
<1>1. TypeOK'
  BY TypeStep
<1>2. CASE UNCHANGED vars
  <2>1. FileGrows /\ proc' = proc /\ work' = work /\ file' = file /\ stored' = stored
        /\ replicated' = replicated
    BY <1>2 DEF vars, FileGrows
  <2>2. QED BY <1>1, <2>1, Untouched, Unstored DEF IInv
<1>3. CASE Next
  <2>1. Good'
    BY <1>3, StartStep, GenerateStep, EphemeralStep, AddSecretStep, RefusedStep, MnemonicStep, NoSeedStep,
       SetSeedStep, WriteStep, CheckStep, StoreStep, EndStep DEF Next
  <2>2. QED BY <1>1, <2>1 DEF IInv, Good
<1>4. QED BY <1>2, <1>3

LEMMA InvAlways == Spec => []IInv
BY InvInit, InvStep, PTL DEF Spec

LEMMA InvReadable == IInv => KeysReadable
BY DEF IInv, Local, FileInv, KeysReadable

LEMMA InvRecovered == IInv => Recovered
BY DEF IInv, Local, ShareInv, Full, Fits, Recovered, HasShared

\* Every variable keeps its type.  (SealingKeyManager's fields and files)
THEOREM TypesHold == Spec => []TypeOK
<1>1. IInv => TypeOK
  BY DEF IInv
<1>2. QED BY <1>1, InvAlways, PTL

\* No stop, restart, peer or operator loses a seed that keys are stored under.
\* (generateSecret, addSecret, writeSeedToFile)
THEOREM SeedsKept == Spec => []NoSeedLost
<1>1. IInv => NoSeedLost
  BY DEF IInv
<1>2. QED BY <1>1, InvAlways, PTL

\* A node's file opens every key the node has stored, and what it works with is
\* what it will read back.  (readSeedFromFile, addMnemonic, addSecret)
THEOREM FileOpensKeys == Spec => []KeysReadable
BY InvAlways, InvReadable, PTL

\* A replication that was reported is in the peer's file for good.
\* (replicateSecret, addSecret)
THEOREM ReplicasDurable == Spec => []ReplicaDurable
<1>1. IInv => ReplicaDurable
  BY DEF IInv
<1>2. QED BY <1>1, InvAlways, PTL

\* A threshold of shares yields their seed or an enclave that refuses to work,
\* whatever the threshold, the order and the number of shares, unless a share
\* was taken with a threshold of 0.  (addKeyShare, recoverSeed)
THEOREM SharesRecover == Spec => []Recovered
BY InvAlways, InvRecovered, PTL
=============================================================================
