-------------------------- MODULE SealingKeyManager --------------------------
(***************************************************************************)
(* How the enclave application of each node comes by its sealing seed and  *)
(* keeps it: main reads the seed file, generates a seed (-g), replicates   *)
(* its seed to a peer (-r), then serves; a served node takes a seed from   *)
(* operators' mnemonics or from a peer.  Handlers that use the enclave     *)
(* hold its mutex, so at most one of them is inside a node: work.  A node  *)
(* may stop anywhere; the file is all that it keeps.                       *)
(*                                                                         *)
(* A seed is the one the operators' mnemonics share out; <<n, k>>: the one *)
(* node n generated in its k-th process; or <<Operator, i, g>>: the share  *)
(* with index i itself, genuine or not.                                    *)
(***************************************************************************)
EXTENDS Naturals, FiniteSets

CONSTANTS Nodes,
          Peer,        \* each node's replication server
          Indexes,     \* the indexes of the operators' shares
          Quorum,      \* how many of the shares determine their seed
          Thresholds,  \* the thresholds operators give to /add_mnemonic
          Shared,      \* the seed the mnemonics share out
          NoSeed,      \* sealed_seed missing or all zero
          Absent, Blank,  \* no seed file, an empty one
          Fails,       \* the enclave's call for a seed returns an error
          Aborts,      \* an assertion stops the enclave in it
          Operator,    \* the origin of /add_mnemonic
          MaxStarts    \* bound on the processes of a node

\* Seeds that operators can enter again, and all seeds.
Mnemonics == {Shared} \cup ({Operator} \X Indexes \X BOOLEAN)
Seeds == (Nodes \X Nat) \cup Mnemonics
NotSeeds == {NoSeed, Absent, Blank, Fails, Aborts}

ASSUME PeerAssumption ==
  Peer \in [Nodes -> Nodes] /\ (\A n \in Nodes : Peer[n] # n) /\ Operator \notin Nodes
ASSUME SeedAssumption ==
  /\ NotSeeds \cap Seeds = {}
  /\ NoSeed \notin {Absent, Blank, Fails, Aborts} /\ Absent # Blank /\ Fails # Aborts
ASSUME ThresholdAssumption ==
  Thresholds \subseteq Nat /\ Quorum \in Nat \ {0, 1} /\ MaxStarts \in Nat

VARIABLES
  file,       \* node.sealed_seed of each node
  starts,     \* processes started so far; the ephemeral key is known by it
  proc,       \* each node's process: where main is, SealingKeyManager's fields
  work,       \* the holder of mutex_enclave_id that is setting sealed_seed
  stored,     \* the seeds under which each node has stored private keys
  replicated  \* the nodes that reported their seed replicated

vars == <<file, starts, proc, work, stored, replicated>>

\* checked: a request has passed isSeedEmpty and waits for the mutex.
\* zero, history: a share was taken with the threshold still 0.
Down == [pc |-> "down", replicate |-> FALSE, seed |-> NoSeed, enclave |-> FALSE,
         threshold |-> 0, right |-> {}, wrong |-> {}, zero |-> FALSE,
         key |-> 0, checked |-> FALSE]
Free == [at |-> "free", result |-> NoSeed, by |-> Operator]

Init ==
  /\ file = [n \in Nodes |-> Absent]
  /\ starts = [n \in Nodes |-> 0]
  /\ proc = [n \in Nodes |-> Down]
  /\ work = [n \in Nodes |-> Free]
  /\ stored = [n \in Nodes |-> {}]
  /\ replicated = {}

Serving(n) == proc[n].pc = "serve"

-----------------------------------------------------------------------------
(* main *)

\* Mutant: the file is not looked at before it is read.
readSeedFromFile_Raw(n) == file[n]

readSeedFromFile(n) == IF file[n] \in Seeds THEN file[n] ELSE NoSeed

\* The step of main after the seed is generated.
AfterGenerate(r) == IF r THEN "replicate" ELSE "serve"

Start(n, g, r) ==
  /\ proc[n] = Down /\ starts[n] < MaxStarts
  /\ starts' = [starts EXCEPT ![n] = @ + 1]
  /\ proc' = [proc EXCEPT ![n] =
       [Down EXCEPT !.pc = IF g THEN "generate" ELSE AfterGenerate(r),
                    !.replicate = r, !.seed = readSeedFromFile(n), !.enclave = TRUE]]
  /\ UNCHANGED <<file, work, stored, replicated>>

\* sealed_seed of n is given a new buffer, which the enclave is to fill.
Begin(n, result, by) == work' = [work EXCEPT ![n] = [at |-> "alloc", result |-> result, by |-> by]]

generateSecret(n) ==
  /\ proc[n].pc = "generate" /\ work[n] = Free
  /\ \/ /\ proc[n].seed # NoSeed
        /\ proc' = [proc EXCEPT ![n].pc = AfterGenerate(proc[n].replicate)]
        /\ UNCHANGED work
     \/ /\ proc[n].seed = NoSeed
        /\ Begin(n, <<n, starts[n]>>, n)
        /\ UNCHANGED proc
  /\ UNCHANGED <<file, starts, stored, replicated>>

Exit(n) == proc' = [proc EXCEPT ![n] = Down]

\* replicateSecret, first request.  isSeedEmpty is read without the mutex: it
\* may find a buffer that is not zeroed yet.
getEphemeralPublicKey(n) ==
  LET p == Peer[n] IN
  /\ proc[n].pc = "replicate"
  /\ \/ ~Serving(p) /\ Exit(n)
     \/ /\ Serving(p) /\ (proc[p].seed # NoSeed \/ work[p].at = "alloc")
        /\ proc' = [proc EXCEPT ![n].pc = "serve"]
     \/ Serving(p) /\ proc[p].seed = NoSeed /\ proc[n].seed = NoSeed /\ Exit(n)
     \/ /\ Serving(p) /\ proc[p].seed = NoSeed /\ proc[n].seed # NoSeed
        /\ proc' = [proc EXCEPT ![n].pc = "post", ![n].key = starts[p]]
  /\ UNCHANGED <<file, starts, work, stored, replicated>>

\* Mutant: a node that already has a seed answers 200.
addSecret_AnySeed(n) ==
  LET p == Peer[n] IN
  /\ proc[n].pc = "post"
  /\ \/ ~Serving(p) /\ Exit(n) /\ UNCHANGED <<work, replicated>>
     \/ /\ Serving(p) /\ work[p] = Free /\ proc[p].seed # NoSeed
        /\ proc' = [proc EXCEPT ![n].pc = "serve"]
        /\ replicated' = replicated \cup {n}
        /\ UNCHANGED work
     \/ /\ Serving(p) /\ work[p] = Free /\ proc[p].seed = NoSeed
        /\ Begin(p, IF proc[p].enclave /\ starts[p] = proc[n].key THEN proc[n].seed ELSE Fails, n)
        /\ proc' = [proc EXCEPT ![n].pc = "wait"]
        /\ UNCHANGED replicated
  /\ UNCHANGED <<file, starts, stored>>

\* Mutant: the peer does not look at its seed again.
addSecret_Unchecked(n) ==
  LET p == Peer[n] IN
  /\ proc[n].pc = "post"
  /\ \/ ~Serving(p) /\ Exit(n) /\ UNCHANGED work
     \/ /\ Serving(p) /\ work[p] = Free
        /\ Begin(p, IF proc[p].enclave /\ starts[p] = proc[n].key THEN proc[n].seed ELSE Fails, n)
        /\ proc' = [proc EXCEPT ![n].pc = "wait"]
  /\ UNCHANGED <<file, starts, stored, replicated>>

\* replicateSecret, second request: addSecret at the peer.  The seed is
\* encrypted for the ephemeral key of the process that was asked for it.
addSecret(n) ==
  LET p == Peer[n] IN
  /\ proc[n].pc = "post"
  /\ \/ ~Serving(p) /\ Exit(n) /\ UNCHANGED work
     \/ Serving(p) /\ work[p] = Free /\ proc[p].seed # NoSeed /\ Exit(n) /\ UNCHANGED work
     \/ /\ Serving(p) /\ work[p] = Free /\ proc[p].seed = NoSeed
        /\ Begin(p, IF proc[p].enclave /\ starts[p] = proc[n].key THEN proc[n].seed ELSE Fails, n)
        /\ proc' = [proc EXCEPT ![n].pc = "wait"]
  /\ UNCHANGED <<file, starts, stored, replicated>>

-----------------------------------------------------------------------------
(* /add_mnemonic *)

\* recover_seed asserts that the shares have a secret, external: recover_secret
\* checks a digest that only enough genuine shares reproduce, and for a
\* threshold of 1 returns the one share, here the one just added.
recoverSeed(wrong, t, i, genuine) ==
  IF t = 1 THEN <<Operator, i, genuine>>
  ELSE IF wrong = {} /\ t >= Quorum THEN Shared ELSE Aborts

\* Mutant: the shares are used once there are more than threshold of them.
Complete_Above(shares, t) == Cardinality(shares) > t

Complete(shares, t) == Cardinality(shares) = t

TakesShares(p) == p.seed = NoSeed /\ p.enclave

\* addMnemonic and addKeyShare: a mnemonic is kept under its index, and the
\* one that completes the threshold recovers the seed.  The threshold is set
\* while it is 0, even by a call whose index is then refused.
addMnemonic(n, i, genuine, t) ==
  LET p == proc[n]
      right == IF genuine THEN p.right \cup {i} ELSE p.right
      wrong == IF genuine THEN p.wrong ELSE p.wrong \cup {i} IN
  /\ Serving(n) /\ work[n] = Free
  /\ TakesShares(p) /\ p.threshold \in {0, t}
  /\ \/ /\ i \in p.right \cup p.wrong
        /\ proc' = [proc EXCEPT ![n].threshold = t]
        /\ UNCHANGED work
     \/ /\ i \notin p.right \cup p.wrong
        /\ proc' = [proc EXCEPT ![n].threshold = t, ![n].right = right, ![n].wrong = wrong,
                                ![n].zero = @ \/ t = 0]
        /\ IF Complete(right \cup wrong, t)
           THEN Begin(n, recoverSeed(wrong, t, i, genuine), Operator)
           ELSE UNCHANGED work
  /\ UNCHANGED <<file, starts, stored, replicated>>

-----------------------------------------------------------------------------
(* Setting the seed, for main, a peer or an operator *)

\* The sender that waits for the answer of n.
Sender(n) == {m \in Nodes \ {n} : work[n].by = m /\ proc[m].pc = "wait"}

\* main goes on with a seed and ends without one.
Told(p, ok, next) == IF ok THEN [p EXCEPT !.pc = next] ELSE Down

\* n, whose process is now p, frees the mutex; main there or the sender learns
\* whether the seed was set and written.
Answer(n, p, ok) ==
  /\ work' = [work EXCEPT ![n] = Free]
  /\ proc' = [m \in Nodes |->
       CASE m = n /\ work[n].by = n -> Told(p, ok, AfterGenerate(p.replicate))
         [] m = n /\ work[n].by # n -> p
         [] m \in Sender(n) -> Told(proc[m], ok, "serve")
         [] OTHER -> proc[m]]
  /\ replicated' = IF ok THEN replicated \cup Sender(n) ELSE replicated
  /\ UNCHANGED <<starts, stored>>

\* The enclave returns an error: the buffer stays zero.
NoSeedSet(n) ==
  /\ work[n].at = "alloc" /\ work[n].result = Fails
  /\ Answer(n, proc[n], FALSE)
  /\ UNCHANGED file

\* An assertion fails in the enclave, which serves no further call.
EnclaveAborts(n) ==
  /\ work[n].at = "alloc" /\ work[n].result = Aborts
  /\ Answer(n, [proc[n] EXCEPT !.enclave = FALSE], FALSE)
  /\ UNCHANGED file

\* Mutant: what writeSeedToFile returns is ignored.
SetSeed_Unwritten(n) ==
  LET p == [proc[n] EXCEPT !.seed = work[n].result] IN
  /\ work[n].at = "alloc" /\ work[n].result \in Seeds
  /\ \/ file[n] # Absent /\ Answer(n, p, TRUE) /\ UNCHANGED file
     \/ /\ file[n] = Absent
        /\ file' = [file EXCEPT ![n] = Blank]
        /\ proc' = [proc EXCEPT ![n] = p]
        /\ work' = [work EXCEPT ![n].at = "open"]
        /\ UNCHANGED <<starts, stored, replicated>>

\* sealed_seed is set and writeSeedToFile opens the file, unless there is one:
\* then the seed stays in memory, and the caller is told that it failed.
SetSeed(n) ==
  LET p == [proc[n] EXCEPT !.seed = work[n].result] IN
  /\ work[n].at = "alloc" /\ work[n].result \in Seeds
  /\ \/ file[n] # Absent /\ Answer(n, p, FALSE) /\ UNCHANGED file
     \/ /\ file[n] = Absent
        /\ file' = [file EXCEPT ![n] = Blank]
        /\ proc' = [proc EXCEPT ![n] = p]
        /\ work' = [work EXCEPT ![n].at = "open"]
        /\ UNCHANGED <<starts, stored, replicated>>

\* The bytes reach the file when it is closed.
writeSeedToFile(n) ==
  /\ work[n].at = "open"
  /\ file' = [file EXCEPT ![n] = proc[n].seed]
  /\ Answer(n, proc[n], TRUE)

-----------------------------------------------------------------------------
(* /get_public_key *)

\* isSeedEmpty is read before the mutex is taken.
CheckSeed(n) ==
  /\ Serving(n) /\ ~proc[n].checked
  /\ proc[n].seed # NoSeed \/ work[n].at = "alloc"
  /\ proc' = [proc EXCEPT ![n].checked = TRUE]
  /\ UNCHANGED <<file, starts, work, stored, replicated>>

\* A new private key is stored encrypted under the seed, whatever it is.
StoreKey(n) ==
  /\ proc[n].checked /\ work[n] = Free
  /\ proc' = [proc EXCEPT ![n].checked = FALSE]
  /\ stored' = IF proc[n].enclave THEN [stored EXCEPT ![n] = @ \cup {proc[n].seed}] ELSE stored
  /\ UNCHANGED <<file, starts, work, replicated>>

-----------------------------------------------------------------------------
\* A process stops, on its own or because a request of main failed.
Crash(n) ==
  /\ proc[n] # Down
  /\ Exit(n)
  /\ work' = [work EXCEPT ![n] = Free]
  /\ UNCHANGED <<file, starts, stored, replicated>>

\* The peer stopped before it answered.
PeerLost(n) ==
  /\ proc[n].pc = "wait" /\ work[Peer[n]].by # n
  /\ Exit(n)
  /\ UNCHANGED <<file, starts, work, stored, replicated>>

Next ==
  \E n \in Nodes :
    \/ \E g, r \in BOOLEAN : Start(n, g, r)
    \/ generateSecret(n) \/ getEphemeralPublicKey(n) \/ addSecret(n) \/ PeerLost(n)
    \/ \E i \in Indexes, genuine \in BOOLEAN, t \in Thresholds : addMnemonic(n, i, genuine, t)
    \/ NoSeedSet(n) \/ EnclaveAborts(n) \/ SetSeed(n) \/ writeSeedToFile(n)
    \/ CheckSeed(n) \/ StoreKey(n) \/ Crash(n)

Spec == Init /\ [][Next]_vars

-----------------------------------------------------------------------------
(* Properties *)

Pcs == {"down", "generate", "replicate", "post", "wait", "serve"}
Proc == [pc : Pcs, replicate : BOOLEAN, seed : Seeds \cup {NoSeed}, enclave : BOOLEAN,
         threshold : Nat, right : SUBSET Indexes, wrong : SUBSET Indexes, zero : BOOLEAN,
         key : Nat, checked : BOOLEAN]
Work == [at : {"free", "alloc", "open"}, result : Seeds \cup {NoSeed, Fails, Aborts},
         by : Nodes \cup {Operator}]

\* The type of every variable.
TypeOK ==
  /\ file \in [Nodes -> Seeds \cup {Absent, Blank}]
  /\ starts \in [Nodes -> Nat]
  /\ proc \in [Nodes -> Proc]
  /\ work \in [Nodes -> Work]
  /\ stored \in [Nodes -> SUBSET (Seeds \cup {NoSeed})]
  /\ replicated \subseteq Nodes

\* Wherever processes stop and whatever operators and peers send, a seed under
\* which some node has stored keys is still in some node's file, or is one the
\* operators can enter again.  (generateSecret, addSecret, writeSeedToFile)
NoSeedLost ==
  \A n \in Nodes : \A s \in stored[n] \ {NoSeed} :
    s \in Mnemonics \/ \E m \in Nodes : file[m] = s

\* The seed that a node will read back at its next start is the one it works
\* with, and opens every key it has stored, save one stored while isSeedEmpty
\* raced with a new buffer.  (readSeedFromFile, addMnemonic, addSecret)
KeysReadable ==
  \A n \in Nodes : file[n] \in Seeds =>
    /\ proc[n].pc # "down" => proc[n].seed = file[n]
    /\ stored[n] \subseteq {file[n], NoSeed}

\* A node that has reported its seed replicated has it in its peer's file, for
\* good: the peer answers 200 only after the write.  (replicateSecret, addSecret)
ReplicaDurable ==
  \A n \in replicated : file[n] \in Seeds /\ file[Peer[n]] = file[n]

\* p has the seed its shares share out; for a threshold of 1 that is the share.
HasShared(p) ==
  IF p.threshold = 1
  THEN \A i \in p.right \cup p.wrong : p.seed = <<Operator, i, i \in p.right>>
  ELSE p.seed = Shared

\* Once as many shares as the threshold asks for are in, the enclave has
\* refused them for good or the node has the seed they share out, never one
\* made with a wrong share; for a threshold of 1 the share itself is the seed.
\* Shares taken with a threshold of 0 spoil this: they may outnumber the
\* threshold given later.  (addKeyShare, recoverSeed)
Recovered ==
  \A n \in Nodes : LET p == proc[n] IN
    ( /\ p.threshold # 0 /\ ~p.zero /\ p.enclave /\ work[n].at = "free"
      /\ Cardinality(p.right \cup p.wrong) >= p.threshold )
    => HasShared(p)
=============================================================================
