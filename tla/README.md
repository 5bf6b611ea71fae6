# Mercury Layer in TLA+

Mercury Layer passes the ownership of a Bitcoin output ("statecoin") from
wallet to wallet without a chain transaction. The coin's key `P` is shared: the
enclave (lockbox) holds `s`, the owner holds `o`, and `s + o` is the secret of
`P`. A transfer moves the share (`t1 = o1 + x1`, `t2 = t1 - o2`,
`s2 = s1 + t2 - x1`) and gives the new owner a backup transaction that becomes
final earlier than those of all former owners. The modules here describe the
protocol as the code runs it.

## The system and its hard parts

| part | state | operations | what makes it hard |
|---|---|---|---|
| Server, `src/server` (Rocket, Postgres) | `statechain_data`, `statechain_transfer`, `statechain_signature_data`, `lightning_latch`, `tokens` | deposit, sign first/second, transfer sender/update_msg/get_msg_addr/unlock/receiver, paymenthash/preimage, withdraw | requests run concurrently; only single statements or transactions are atomic; the enclave is called between them |
| Lockbox, `src/lockbox`, and SGX application, `src/enclave/App` | `generated_public_key`: sealed key, sealed nonce, `sig_count` | get_public_key, get_public_nonce, get_partial_signature, keyupdate, signature_count, delete | load, compute, save; one mutex in the SGX application, none in the lockbox |
| Wallet library, `src/clients/libs/rust`, `src/lib` | the wallet record, the backup transactions | deposit, transfer-send, transfer-receive, withdraw, broadcast-backup, status refresh | a command is a row of requests and several saves of the whole wallet; it may stop anywhere, and other commands and the other party act in between |
| Sealing key manager, `src/enclave/App/sealing_key_manager` | key shares, seed, seed file | addMnemonic, addSecret, generateSecret, replicateSecret | the file is all that survives a stop; two nodes talk while operators add shares |
| Token servers, `src/token-server*` | token rows | init, verify | the payment is checked by polling |

What should hold: the shares add up to the key for the recorded owner; the coin
goes only where its owner last offered it; the owner's backup transaction is the
first to become final and the owner knows all of them; every signature is
counted; a coin of a batch passes only when every coin of it was agreed to, and
no batch holds a coin for ever; the lightning preimage is released only when it
is earned; a deposit token is paid for and pays for one coin; a seed that
protects stored keys is never lost; a wallet keeps its addresses and a backup
transaction for every coin it shows, and holds no output twice. The `hazards` of
`PROJECT.json` list, line by line, where the code could lose these.

## Modules

**Statecoin** – one coin and all its wallets. Server requests are atomic here;
wallet commands are not: one action per request (`Offer`, `SendFirst`,
`SendSecond`, `PostMsg`, `Fetch`, `Validate`, `Prepare`, `Accept`, ...) and per
saved record (`SaveSentTxs`, `SaveSent`, ...). `Fail` ends a command anywhere, so
requests and replies are lost. `rows` is `statechain_signature_data`, `sigs` the
enclave's `sig_count`, `holder` the address whose share completes the enclave's.
A backup transaction is a record `[n, to, by, s]`. Two history variables:
`signed`, all transactions co-signed so far, and `resent`, whether an address was
offered the coin again after a transaction was signed for it.

**KeyTransfer** – the transfer handlers of the server opened up: one action per
SQL statement or transaction and per enclave call, with integer shares. Handlers
interleave freely and may stop. `mishap` is a history variable, read by no
action: which races and stops have happened so far (an offer entered `late`,
`reoffered` to an address whose request was on its way, a row `replaced` under a
handler, two handlers past the `key_updated` check (`overlap`), a key update
`torn` by a stop). `Ownership` is the abstract specification it implements
(`OwnerObeyed`).

**Lockbox** – the handlers of the key service on one row, load and save apart.
The initial state chooses the service: the SGX application with its mutex
(`Serialised`) or the plain lockbox without. `KeyStore` is the abstract
specification, in which every call acts at one instant (`Atomic`). The key share
is the set of updates added into it.

**BatchTransfer** – several coins under one `batch_id`: offers, the three
statements of `update_unlock_transfer`, the two reads of `validate_batch`,
expiry, and the lightning latch. The clock runs whatever the handlers do. An
unlock is a call with the owner's key (`unlock_s`) or any other (`unlock_r`), as
`transfer_unlock` tells them apart; it is accepted at any time. History
variables: the kinds of unlock written and finished for each coin, and `seen`,
the coins that were in the batch when a coin's locks were checked.

**Deposit** – tokens and deposits: `get_token`, `token_verify` of the second
token server, the statements and remote calls of `post_deposit` one by one
(`ReadToken`, `CheckTokenStatus`, `NewKey`, `InsertDeposit`, `SetTokenSpent`,
`Reply`), and the two deletions of `withdraw_complete`, at any time. A request
stands for the statechain it asks for. History variables: `made`, all statechains
that ever had a row, and `late`, the requests that were under way when a coin of
their token was withdrawn.

**SealingKeyManager** – the sealing seed of each enclave node: `main` (`Start`,
`generateSecret`, the two requests of `replicateSecret`), `/add_mnemonic`, the
setting of the seed in its two observable steps (`SetSeed` opens the file,
`writeSeedToFile` closes it), and `/get_public_key`, which reads `isSeedEmpty`
before it takes the mutex (`CheckSeed`, `StoreKey`). `Crash` stops a node
anywhere; only `file` survives. Operators give any threshold: 0 is taken and
overwritten by the next call, 1 makes the share itself the seed; `zero` is the
history of a share taken with a threshold of 0. A buffer read while it is being
replaced may look like a seed, so a key may be stored under the zero key
(`NoSeed`).

**WalletStore** – one wallet's sqlite store under several commands: the three
saves of new-deposit-address (`PushCoin`, `SaveStatechainId`,
`get_deposit_bitcoin_address`) and the refresh `update_coins` (`check_deposit`
signs, `StoreBackup` inserts the row, `SaveCoins` adds duplicates and saves).
Every command works on its `copy`. Its coins are deposits not yet sent.

`MC*` modules give the constants their values; `*Proofs` modules hold the
theorems. Definitions named `X_Something` after a
definition `X`, marked "Mutant", are faulty versions of `X`: with one of them in
place of `X` the property it is listed with in `PROJECT.json` fails.

## Runs

| run | checks | bounds |
|---|---|---|
| `statecoin` | `TypeOK`, `OwnerFirst`, `BackupsDisclosed`, `SharesAddUp`, `TransferredIsGone`, `OwnerHadItsTurn` | 3 addresses, 3 offers, 4 sessions, heights 0..3; failures, withdrawals and resends |
| `statecoin_live` | `TransferCompletes` | heights 0..4, no failures, no withdrawals |
| `lockbox` | `TypeOK`, `SignaturesCounted`, `NonceOfCurrentKey`, `UpdatesKept`, `Atomic`, `EveryCallAnswered` | 4 calls, with and without the mutex |
| `keytransfer` | `TypeOK`, `KeyIntact`, `OwnerObeyed` | 3 addresses, 4 requests, 2 values of x1, stops anywhere |
| `keytransfer_shares` | `SharesAddUp` is violated | the same, without stops |
| `keytransfer_replaced` | `OwnerDecides` is violated | the same, without stops |
| `batch` | `TypeOK`, `TakenTogether`, `LatchOpens`, `PreimageEarned`, `LockHeld`, `Settles` | 2 coins, one latched, 2 clock values, unlocks that stop |
| `batch_atomic` | `AllOrNone` is violated | 2 coins, none latched |
| `deposit` | `TypeOK`, `OnlyLateReuse`, `FeePaid`, `CoinBacked` | 2 tokens, 4 requests, a token server, stops anywhere |
| `deposit_reuse` | `TokenUsedOnce` is violated | the same, without stops |
| `sealing` | `TypeOK`, `NoSeedLost`, `KeysReadable`, `ReplicaDurable`, `Recovered` | 2 nodes that replicate to each other, 3 shares of which 2 suffice, thresholds 0, 1 and 2, 2 processes per node |
| `wallet` | `TypeOK`, `BackupKept`, `Sendable`, `OutputHeldOnce`, `AddressKept`, `DepositConfirmed` | 2 commands, 2 deposits, 2 outputs, 2 signatures per statechain, 1 stop, 1 overlap |

Why the bounds are enough to be of interest: three addresses allow a chain of
two transfers, a change of receiver and a former owner; four sessions allow an
abandoned session besides those of the chain; the heights cross the locktimes of
the later transactions (`Initlock = 5`, `Interval = 2`). Four requests are two
offers and two receipts, or an offer and three, hence a repeated receipt, a late
one and one whose offer is replaced; each mishap is reached. The shares and x1
are chosen so that no two sums coincide. Two coins are the smallest batch, and
with a timeout of 0 the clock value after the offer is already past expiry. Four
requests and two tokens let three requests contend for one token while another
coin comes and goes. Two processes per node allow a stop while the seed is
written, a restart, and a replication to a process that has been replaced; the
three shares are interchangeable, can be complete, outnumber the threshold, and
be wrong. Two outputs allow a deposit and its
duplicate, or one for each of two coins; one stop and one overlap are enough to
tear any command and to lose any update. The
runs stop at their bounds, which TLC would report as deadlock; the wallets and
servers have no such end, so deadlock is not checked.

### Where code and documents differ

Four runs find violations; each states a sentence of `src/docs`, which the
`findings` quote. In short:

- `keytransfer_shares`, `docs/protocol.md:97` ("remains unchanged"): repeating
  `/transfer/sender` for the same receiver replaces `x1` under a receiver that has
  prepared its request, because outside a batch the duplicate check compares
  `batch_id` with NULL; and two overlapping `/transfer/receiver` requests move the
  enclave's share twice. For the first reason `SharesAddUp` of `Statecoin` speaks
  of coins that were not `resent`.
- `keytransfer_replaced`, `docs/test_cases.md:94`: an offer to another address does
  not stop a receiver whose handler has read the former one.
- `deposit_reuse`, `docs/tokens.md:19`: a request that read its token before a coin
  made with it came and went makes a second statechain with the spent token.
- `batch_atomic`, `docs/atomic_transfer.md:5`: a coin whose batch is unlocked, or
  has expired between two receipts, may still be sent elsewhere after another coin
  of the batch has passed.

`KeyIntact`, `OwnerObeyed` and `OnlyLateReuse` of the passing runs say that these
ways, named by the history variables, are the only ones. Other disagreements met
on the way have no run of their own:

- `docs/atomic_transfer.md:35` says that after the timeout `/transfer/unlock` "should
  not unlock and instead return an error"; `transfer_unlock` does not look at the
  time and answers a late call like any other. It also compares the key of the
  call with the owner's only: any other call counts as the receiver's.
- `docs/atomic_transfer.md:29` says that within the timeout `/transfer/sender`
  returns an error; `validate_batch_transfer` lets a coin go once all coins of its
  batch are unlocked, and so is `LockHeld` stated.
- `docs/client_guide.md:124` says that a CONFIRMED coin can be transferred. If the
  refresh that signed the first backup transaction failed before its save, the
  next one signs again and inserts a second row; `get_backup_txs` reads the first,
  and the receiver finds more signatures than transactions. `Sendable` leaves
  these statechains (`cut`) out.
- A deposit command that stops between its last two saves leaves a coin without
  address, at whose `unwrap` (`coin_status.rs:29`) every later refresh of the
  wallet ends; `DepositConfirmed` leaves such wallets (`Blocked`) out.
- Overlapping commands of one wallet overwrite each other's saves. `BackupKept` and
  `OutputHeldOnce` hold all the same; `AddressKept` and `Sendable` do not, and are
  stated for wallets on which no commands have overlapped.
- In the plain lockbox, which has no mutex, a key update can be lost between the
  two statements of another and a nonce stored beside a key it was not made for;
  no document of the repository says otherwise, so `NonceOfCurrentKey`,
  `UpdatesKept` and `Atomic` are stated for the SGX application.
- A share added with a threshold of 0 is kept; if the shares then outnumber the
  threshold given later, they are never used. `Recovered` leaves these nodes out.

### Fairness

`Statecoin`: a command that has begun goes on and receivers poll (`execute` of
the wallets). `Lockbox`: a worker thread that can run does. `BatchTransfer`: the
clock advances, senders go on with what they send and send a coin back once they
may, and the wallets at a row's address go on receiving; nobody has to unlock.
`WalletStore`: some running command goes on, or a user with none running comes
back to look (most commands of the client begin with `update_coins`); outputs
need not be mined. A wallet that is never started again, or a server that stays
down, is outside these; senders never have to confirm a payment.

## Proofs

`LockboxProofs`, for any finite set of calls:

- `LockboxTypes`, `SignaturesAlwaysCounted` need no mutex. `TypeOK` is
  strengthened by `MakeOnce` (one call makes the row; calls that found a row come
  after it). For the count, the calls whose statement has run but which are not
  answered are counted too (`CountInv`): the statement raises both sides.
- `NonceFitsKey`, `NoUpdateLost`, `LockboxAtomic` speak of the service with the
  mutex. `MutexInv` says that there a handler from load to reply owns the mutex
  and that the key it loaded is still the row's, unless the row was deleted, which
  takes no mutex.

`KeyTransferProofs`, for any addresses, integer shares and requests:

- `KeyTransferTypes`, `KeyStaysIntact`, `OwnerIsObeyed`, for handlers that overlap
  and stop in any way. The inductive invariant `IInv` adds to `TypeOK` what a
  request carries at each step (`ReqInv`), and three parts that hold until the
  mishaps they name. Until a row is `replaced` under a handler, every handler past
  its read knows the row there is (`HandInv`). Until an offer is `late` as well, an
  unused row is the owner's (`OwnInv`). Until one of the four mishaps of
  `KeyIntact`, one handler at a time is past the `key_updated` check and a request
  still to be applied has `t2 - x1` equal to the difference between the shares of
  owner and receiver (`KeyInv`). The step that matters: what makes any of these
  false is recorded in `mishap` by the action that does it.

`DepositProofs`, for any tokens and requests and handlers that take any time:

- `DepositTypes` and `FeeAlwaysPaid`. `FeeInv` adds that a confirmed token is paid
  and that a request past the checks has one.
- `ReuseIsLate` (`OnlyLateReuse`) and `AnswerBacked`. `IInv` adds to `TypeOK` what
  is in the tables at each step of a request (`StageInv`), that once a coin is
  withdrawn only requests it found under way can still enter one with its token
  (`ClosedInv`), and that the rows present have different tokens (`UniqueInv`).

`StatecoinProofs`, for any users, offers, sessions, heights and locktimes:

- `TypesHold`, `SharesStayTogether`, `EarlierBackupsKnown`, `OwnerIsFirst`. The
  inductive invariant `IInv` adds to `TypeOK`: each signed transaction is the
  challenge of its own session and `sigs` is their number (`Sessions`); every list
  a wallet stores or sends has signed transactions with `n` equal to their place
  (`ListOK`); what a sender has built (`Sender`), what a receiver knows
  (`Receiver`), and that while the owner has a backup signed nobody holds a
  message of the current offer (`Unposted`). The step that matters: a message
  that passes the comparison with `num_sigs` lists as many different signed
  transactions as there are, hence all (`Disclosed`). From then on a further
  backup needs a new offer, which changes `x1`, and a receiver whose `x1` is old
  ends with a key it refuses. What the owner's list has to be (`Cover`) gives
  both `OwnerFirst` and `BackupsDisclosed`; `LocktimeFalls` turns places in the
  list into locktimes.
- `EarlierOwnersWait` (the action property `OwnerHadItsTurn`) carries this to the
  chain. A wallet broadcasts the latest stored backup that pays to it, so it
  remains to show that the current owner did not have it signed itself. `Past`
  says so: an address that had a backup signed is no longer `INITIALISED` and so
  never accepts the coin again, and whoever stores a backup that pays to itself
  owned the coin at that time. Withdrawals are excepted: one that is signed while
  a receiver is past its checks has no locktime to hold it back.
- `WrittenOffIsGone` (`TransferredIsGone`) from `Gone`: only an owner that has not
  stored the coin yet may lack the key (`holder = NoUser`), and the row goes only
  after the owner's own withdrawal. So an owner that refreshes an `IN_TRANSFER`
  coin always finds its own key in use.

`BatchTransferProofs`, for any coins, latched or not, and any timeout:

- `TypesHold`, `CoinsTakenTogether`, `LatchHasOpened`, `PreimageIsEarned` and the
  action property `BatchIsHeld`, for handlers that take any time. `IInv` says for
  each coin what its row, its handlers and its latch have in common (`RowOK`,
  `LockOK`, `LatchOK`), that a sender taking its coin back found the batch expired
  or the coin unlocked, neither of which is ever undone (`SendOK`), and that a
  receiver past the checks has seen its own coin in the batch and every coin it
  saw there unlocked (`TakeOK`).

`SealingKeyManagerProofs`, for any nodes, peers, shares and thresholds:

- `TypesHold`, `SeedsKept`, `FileOpensKeys`, `ReplicasDurable`, `SharesRecover`.
  `IInv` adds to the types, for each node: main works with what its file holds
  until it serves (`ProcInv`), what the file says of the seed in use (`FileInv`),
  what is about to be set, and for whom (`WorkInv`), that a seed in use is in some
  file unless main is just writing it (`SeedInv`), and that complete shares, none
  of them taken with a threshold of 0, have their seed set or about to be set
  (`ShareInv`): the number of shares grows by one, so it does not pass the
  threshold unnoticed.

`WalletStoreProofs`, for any commands, deposits and outputs:

- `BackupsAreKept` and `OutputsHeldOnce` for commands that overlap in any way.
  `Lists` says the same of the stored wallet and of the copy of every command:
  distinct outputs and indices (`Distinct`), and a row for every funded coin
  (`Backed`) but the one a command has signed for and not stored yet. The lemmas
  on `MaxIndex`, `Extra` and `Duplicate` are about the operators of
  `check_for_duplicated`.
- `AddressesAreKept` from `Lists` and `Solo`: without overlaps the running command
  is alone, and its copy has every address the user was shown.

`WalletSendProofs`, about the same module, on top of these. Each action is first
reduced to what it does to the copy of the command that takes it (`Begins`,
`Pushes`, ..., `Rests`; lemma `Shapes`):

- `StoreTypes` (`TypeOK`) for commands that overlap in any way. `Bounds` counts
  the deposit commands that have yet to ask the server beside the statechains
  there are, `Known` says that every statechain and output anyone names exists,
  and `Counted` that no `duplicate_index` is above the number of coins that hold
  an output, which `max_duplicated_index + 1` keeps.
- `ConfirmedIsSendable` (`Sendable`) from `Lists`, `Solo` and `Once`: while a
  command runs alone, each coin of its copy that left INITIALISED has one
  signature and rows of its own output only, and so has each stored coin the
  command has not had signed (`Fits`).

No theorem assumes anything of the schedule. Where a property is conditional, the
condition is a history variable that its own module sets, and the run that
violates the unconditional claim shows that it is needed. The theorems use
integers where the code computes modulo the group order: only sums and
differences occur. Every inductive invariant was also checked with TLC on the
instance of its run.

Every invariant, action property and refinement of the passing runs has a theorem.
Only model-checked: the liveness properties `EveryCallAnswered`,
`TransferCompletes`, `Settles` and `DepositConfirmed`, which are
outside what the prover handles.

## Assumptions and what is left out

- An address takes part in one transfer of the coin; wallets use a new address
  each time.
- Sending duplicated deposits and the CPFP transaction are left out of the wallet.
- `Statecoin` has one command at a time per wallet, and its saves concern one
  coin; `WalletStore` has commands that overlap, for coins not yet sent.
- `WalletStore`: the Electrum server may list outputs in any order; a reorganised
  chain is left out. A deposit is paid only to an address that was shown.
- `SealingKeyManager`: a seed file that was closed is complete (the code does not
  notice a failing flush), enough genuine shares recover the seed, and wrong ones
  fail the digest check of `recover_secret`, which it makes for thresholds of 2 and
  more; two shares or more determine the seed (`Quorum`). The failed
  length assertion of a malformed mnemonic is a `Crash`.
- `Deposit`: auth keys are new, so `check_existing_key` never refuses, and the
  addresses of tokens are different. `CheckTokenStatus` is the token server's
  verification and the reading of its answer in one step.
- `BatchTransfer`: a wallet asks for the payment hash before it joins the batch with
  a latched coin, as the client does. Only unlocks stop half way, and once its
  locks are checked a receipt reads the row's address, updates the key and writes
  the new owner in one step; what may come between these is in `KeyTransfer`.
- A sender that has taken a coin back from a batch does not rejoin it under the
  same `batch_id`. Latches are not deleted (the code does so after 25 hours).
- Cryptography is taken to be correct: a signature check is a comparison of
  addresses, a public key is known by its secret.
- `withdraw_complete` is one step in `Statecoin`; `Deposit` has its two deletions.
  The broadcast of a backup or a withdrawal and the wallet's save after it are one
  step too; a stop between the two, which leaves the wallet's status of the coin
  as it was, is left out.
- Not modelled: the first token server, the MuSig2 and sealing computations
  inside the enclave, info endpoints, the JavaScript, WASM and Kotlin wallets,
  explorer, key list cron, deployment. Vendored libraries (`secp256k1-zkp`,
  `monocypher`, `crow`, `toml.hpp`, `CLI11`, the bip39 and shamir code) make up
  most of the C and C++ lines of the repository; they appear only through the
  results the code above them uses.

## Plan

1. The receiver's retry after a lost reply (`transfer_receiver.rs:318`), and the
   token server of version 1.
2. The blinded MuSig2 equations of `lib/src/transaction.rs` and the enclave.
