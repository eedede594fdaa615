# A TLA+ development for `us`

`us` is a Go library for renting storage on the Sia network. This directory holds
TLA+ models of its core, TLC configurations that check them on small instances,
and TLAPS proofs of the main results for all values of the constants.
`PROJECT.json` lists components, runs, theorems, hazards, and, definition by
definition, the source lines each one models. Paths below are relative to the
repository root; `.tla` and `.cfg` names are files here.

## 1. Inventory

| Component | State it keeps | Operations | Interacts with | What is hard |
|---|---|---|---|---|
| `renter/proto/session.go`, over `renterhost/session.go`, against `ghost/session.go` | on both sides the contract's revision and its two signatures; on the host the sectors and the lock; the place in an RPC | Lock, Unlock, SectorRoots, Read, Write | messages on an encrypted connection | connections that break between any two messages; several sessions on one contract; deadlines |
| `renter/proto/formcontract.go`, `renew.go` | the transaction under construction; the old and the new contract | FormContract, RenewContract, SubmitContractRevision | wallet, transaction pool, host | the last message can be lost; rounding of the tax; two sides deriving one revision |
| `renterhost/encoding.go`, frames of `renterhost/session.go` | none | size, write and read of every message | all RPCs | three hand-written methods per type that must agree; bounds on lists; padding |
| `merkle` | stacks of subtree roots | roots, range and diff proofs | Read, Write, SectorRoots | recursion over ranges, trees that are not perfect, indices that move |
| `renter/renterutil/hostset.go` | per host a session and a one-token lock | acquire, tryAcquire, release, reconnect, Close | all strategies share it | goroutines waiting on each other, connections that die unnoticed |
| `renter/renterutil/strategies.go` | requests, responses, worker pools, a circular buffer | upload, download and update of chunks and blobs | HostSet, MetaDB | answers in any order, busy and failing hosts, cancellation |
| `renter/renterutil/kv.go`, `metadb.go` | blobs, chunks, shards, reference counts | Put, Resume, Get, Update, Delete, Migrate, GC | strategies, hosts | overlapping calls, failure half way, garbage collection beside uploads |
| `renter/renterutil/filesystem.go`, `fileops.go`, `renter/upload.go`, `download.go`, `meta.go` | open files, pending writes, shared sector buffers, metafiles | Open, Read, Write, Truncate, Rename, Remove, Free, Sync, Close, GC | HostSet, disk | a flush that fails half way, crashes, rename and removal of open files, merging slices |
| `wallet` | chain state, addresses, outputs, transactions in limbo | consensus changes, limbo, new addresses, Reset, coin selection | consensus set | reorganisations; two stores that must agree; two locks in NextAddress |
| `renter/renterutil/migrate.go`, `hostdb`, `wallet/seed.go`, `bip39.go`, clients, `ed25519hash`, `internal/reedsolomon` | none of their own | copying files, parsing, derivation, HTTP, arithmetic | | nothing that a state machine shows |

What makes each of them correct: a contract's revision is doubly signed, paid for
and in agreement with the stored sectors on whatever side one looks; a renewal
leaves the data in exactly one contract; what one side writes the other reads; a
proof is accepted if and only if it is of the tree; a host's session has one user;
an upload that says it is complete is, on distinct hosts; a download delivers what
was asked for, in order, and returns; a stored value survives everything but
Delete; a file reads as the writes to it, and what was saved survives a crash; the
wallet's outputs and history are those of the chain, however it was reorganised.

## 2. Modules

| Module | Models | EXTENDS / instantiates |
|---|---|---|
| `Revisions` | revisions, payout arithmetic, edits of a Write | |
| `ContractLedger` | what the protocol promises of a contract: atomic, paid steps | `Revisions` |
| `RenterHost` | `proto.Session` and ghost's handlers, message by message | `Revisions`, instantiates `ContractLedger` |
| `RenterHostProofs` | proofs | `RenterHost` |
| `Payouts` | payouts of a new contract, siafund tax, `fundSiacoins` | |
| `ContractRenewal` | `FormContract`, `RenewContract` and their handlers | `Payouts`, instantiates `Revisions` |
| `ContractRenewalProofs` | proofs | `ContractRenewal` |
| `Steps` | folds that evaluate their argument once | |
| `Encoding` | every protocol object, frames, streamed responses, key exchange | `Steps` |
| `Merkle` | append and proof stacks, roots, range and diff proofs, `DeleteSectors` | `Steps` |
| `Coins` | `FundTransaction`, `DistributeFunds` | `Steps` |
| `MCAlgorithms` | one behaviour per input of those three modules | `Encoding`, `Merkle`, `Coins` |
| `HostLocks` | what a HostSet promises: a host is lent to one goroutine | |
| `HostSet` | `hostset.go` | instantiates `HostLocks` |
| `HostSetProofs` | proofs | `HostSet` |
| `ChunkUpload`, `ChunkDownload` | the three chunk uploaders, the two chunk downloaders | instantiate `HostLocks` for the hosts they share |
| `ChunkUploadProofs`, `ChunkDownloadProofs` | proofs | `ChunkUpload`, `ChunkDownload` |
| `BlobRange` | how a range of a blob is cut into requests | |
| `ParallelDownload` | `ParallelBlobDownloader` | `BlobRange` |
| `ParallelDownloadProofs` | proofs | `ParallelDownload` |
| `KVStore` | `PseudoKV` over `EphemeralMetaDB` or `BoltMetaDB`, GC | |
| `KVStoreProofs` | proofs | `KVStore` |
| `FileOps` | the arithmetic of an open file: pending writes, packing, slices, reads | `Steps` |
| `PseudoFS` | `filesystem.go`: calls, flushes step by step, failures, crashes, GC | `FileOps` |
| `Wallet` | `FilterConsensusChange`, both stores, limbo, `HotWallet` | |
| `WalletProofs` | proofs | `Wallet` |
| other `MC...` | symmetry sets and constant values for TLC | the module they are named after |

`HostLocks` is where the components meet: `HostSet` is shown to implement it, and
the strategies are checked on top of it. `KVStore` uses of `UploadChunk` only what
`ChunkUpload` shows about it.

An operator whose comment begins `Mutant:` is a wrong version of the definition
that follows; it is part of no specification. Every property checked by a passing
run is violated when such a version takes the place of the original.

### RenterHost

`rst`, `rlocked`, `rrev`, `rhsig`, `pc` and `pend` are a `Session` and the RPC it is
in; `hst`, `hlocked` and `hpend` a connection's handler in `handleConn`; `hrev`, the
signatures, `hroots` and `hdata` ghost's `hostContract`; `req` and `resp` what is on
the wire. A call of an RPC, the handler's reaction and the renter's reading of the
answer are three actions, five for Write, which has two rounds. Either side can
lose the connection at any point. A signature is the revision it covers, a Merkle
root is the sequence of sector roots, a proof verifies exactly when it should (that
it does is the subject of `Merkle`). `ExclusiveLock` says whether the host locks a
contract for one connection at a time, as siad does; ghost itself does not
(`ghost/session.go:275`), and without it the revisions of two sessions part.
`RenterAbandon` is an RPC that gives up at its deadline and leaves the session open
(`renterhost/session.go:75`); it belongs to `SpecAbandoning` only.

### ContractRenewal

A call is one of the package's functions, with a connection of its own. Settings,
payout, duration and the wallet's outputs are chosen from small sets; `Payouts` is
arithmetic on them, with the tax's 3.9 percent as they are and the siafund count a
constant. `HostAdditions` and `HostStore` are the two halves of both handlers. The
host keeps its own version of the final revision, as ghost does: it differs from
the renter's in the void output. `lost` remembers the exchanges that failed after
the renter had signed; `Reachable` says that nothing else makes a contract unknown
to the renter. Writes by other sessions are steps of `ContractLedger`.

### Encoding, Merkle, Coins

Pure functions. A message type is a record of what its three methods say: the
constant part of `marshalledSize`, the fields as `marshalBuffer` writes them and as
`unmarshalBuffer` reads them, with the element size that `readPrefix` holds against
the bytes left. A buffer is a sequence of fields with their lengths; every field's
contents are its path, so a field read in another's place shows. The cipher is left
out; its nonce, its tag, which `readMessage` leaves in the buffer, and the padded
tail that a streamed response is verified over are in. That tail is too long when
the ciphertext is a multiple of 16 bytes long (`tailSize`, `VerifyTag`): `RoundTrips`
leaves refusals of such a length out (`RefusalsArrive` does not; section 5). A hash is the term it is the
hash of. `Merkle` follows the two stacks and the four enumerations of subtrees of
the code, the root's four-at-a-time layout included, and checks them against one
reference tree.

### HostSet, ChunkUpload, ChunkDownload

`mu` is the token channel of a `tryLock`, `pc` a goroutine's place in `acquire`,
`reconnect` and `release`. In the strategies a worker is the shard it serves, and
everything else that uses the same HostSet is one more goroutine, `Outsider`, which
takes any free host at any moment and gives it back. One call under such an
outsider stands for several calls at once, as calls share nothing but the hosts.
`uploader` and `parallel` say which of the package's strategies a call is of: the
serial ones do a worker's steps themselves, one shard at a time, wait for every
host, and have no context that could cancel them.

### ParallelDownload

The main goroutine's three loops (request, wait, deferred drain) with `consumeResp`
split at the writes; a response is taken from `inflight` in any order, and one for a
slot that is taken leads to `loop = "panic"`. `Ask` says which calls `Init` has: Get
(`"whole"`), ranges that begin in the first chunk, or any range of the value, as in
the run `download`. The code is wrong for three kinds of ranges, which the
specification has and the properties name where they exclude them: more than `P`
chunks, which come out of order (`Len(sent) <= P`); a number of skipped chunks that
is not a multiple of `P`, where nothing is written (`BeginsInPlace`); and ranges from
the middle of a chunk into the next (`StartsCleanly`). `DeliversRange` is what
`kv.go:88` says, without these exclusions; section 5 tells how each of them breaks it.

### KVStore

Database operations are atomic, as the databases' locks make them. An upload stores
its shards one by one and may stop anywhere. `Init` chooses the database: over
`BoltMetaDB`, `refs` is `NoRefs` and a chunk that is read is a copy; over
`EphemeralMetaDB` it shares its slice with the database. `Exclusive` says that
callers do not overlap operations on one key; without it GC can delete a sector of
a value that is being overwritten. A host that replaces another starts without
sectors.

### FileOps, PseudoFS

A byte is the number of the call that wrote it. All hosts' shards of a file have
the same slices, so one sequence stands for them, and a sector is the sequence of
chunks whose pieces it holds. `FileOps` has the functions of `fileops.go` with their
aliasing: `mergePendingWrites` and `commitPendingSlices` append to a prefix of the
array they still read. `PseudoFS` runs one call at a time inside `fs.mu` (`call`),
with a flush as steps: pack and upload, which any host may fail; commit and write
the metafile of one file after the other, each of which may fail; and the rest of
the call. Rename moves the metafile after it has given `fs.mu` back, so this is a
step of its own (`Move`, of a pair in `moving`), with other calls in between. GC holds
`fs.mu` and is one step: a move falls before its walk over the metafiles or after it,
never into it. `SyncNothing` is the Sync
that finds nothing pending and returns. `SegmentCounts` is the number of values of
the `uint32` that counts a slice's segments, which wraps when a slice is trimmed by
more than it has. `ref` is what the caller has written, `saved` what it may count on after a
crash. `loose`, `failed`, `freed` and `swept` mark what the properties do not hold
the code to: open files whose name was renamed or removed under them, files with a
write that failed half-way, sectors deleted by Free or by GC.

### Wallet

`log` is what the consensus set delivers: blocks applied, and how many were
reverted first. `Deliver` runs `FilterConsensusChange` on the next change and
applies the result to both stores, `mem` (`EphemeralStore`) and `db` (`BoltDBStore`),
which otherwise get the same calls. `NextBegin` and `NextEnd` are the two locked
sections of `HotWallet.NextAddress`. `since` and `tainted` say which addresses the
wallet has tracked from the first change on and which it has not, or no longer;
`removed` and `reset` say whether those calls were ever made. `dbApply` stores an
address' transactions as Bolt does, `Aliased`: the values are slices of one loop
variable, read at the commit. `smeared` remembers the addresses that got two
transactions from one change, whose lists are wrong since; `StoresAgree` and
`HistoryMatchesChain` leave those lists out (section 5).
`dbList` and `memList` are the stores' listings, from the newest and from the
oldest. Of the chain the module
assumes what consensus enforces and naming gives: genesis spends nothing, a
transaction makes a revision of a contract once, and no transaction is named
`"payout"`, which names the outputs of blocks.

## 3. Runs

| Run | Configuration | Shows |
|---|---|---|
| `renterhost` | 2 sessions, 2 sectors, revision numbers to 4 | both signatures cover the host's revision; an idle session that holds the lock knows the newest revision; coins are kept; refinement of `ContractLedger`; every RPC returns; a closed connection's lock is released |
| `renterhost_abandon` (violation) | the same | a timed-out RPC leaves an open session with a stale revision |
| `renewal` | 2 calls, 3 contracts, 1 sector, 2 payouts, 2 durations | one home for the data of a returned contract; a renewal carries current data; only a lost last message hides a contract; transactions balance; clearing is fair to the host |
| `algorithms` | every message type, lists of 0 to 2; sectors of 8 segments; up to 10 sectors; edits of up to 4 sectors by 3 actions; deletions from up to 7; up to 4 coins | messages round-trip and short ones are refused; honest proofs are accepted, forged ones are not; exactly the sectors given are deleted; coins suffice and are the fewest |
| `hostset` | 2 hosts, 2 goroutines | a session is there while it is used; refinement of `HostLocks` (one user per host); acquire and Close return |
| `upload` | 2 shards of which 1 suffices, 3 hosts, 1 replaced host, 3 uploaders | distinct hosts, complete on success, nothing left behind, returns |
| `chunkdl` | 2 of 3 shards, 3 hosts, 2 downloaders | enough shards on success, real failures on failure; returns with no worker and no host |
| `download` | up to 4 chunks of at most 2 bytes, 3 workers, every range | complete; up to 3 chunks in order, and the bytes written are the range asked for; returns |
| `kv` | 2 calls, 1 key, 3 hosts, 2 shards of which 1 suffices, both databases | uploaded values survive; GC spares them |
| `fs` | 2 files, 2 hosts, 5 calls, 1 fault, sectors of 4 segments | open files read back what was written; what was saved survives; no panic |
| `fs_overwrite` (violation) | the same without faults, writes anywhere | a write before a pending one loses it |
| `wallet` | 2 addresses, 5 transactions, 4 changes, reorganisations of 1 block, 3 calls | outputs and history are the chain's; the stores hold the same, in opposite directions; nothing is spent twice from limbo; new addresses are new |

**Why the bounds suffice.** Two sessions, calls or goroutines are the fewest that
can interfere, and beyond the one that acts, a third adds only more of the second
(`ImplementsLedger` and `ImplementsLocks` hold for any number). Two sectors give
every edit an effect. Two paid RPCs leave a contract without money for a third; the
bound on revision numbers is not reached before that, and revisions that cannot be
revised any more, which only a renewal makes, are the subject of `ContractRenewal`.
Three
contracts are a formation and two renewals of it that compete; the wallet suffices
for a formation without the output in limbo and for an extension only with it; the
longer duration is one the host's own settings make impossible. Lists of two
elements show an element size that is wrong, and byte strings of 5000 a message
longer than the smallest frame. Sectors of eight segments use both kinds of level of
the stack; ten sectors are more than a sector's segments, where `MetaRoot` splits.
Of four chunks and three workers, one slot is used twice. Descriptions of 4029 to 4045 bytes lie around the
smallest frame, with ciphertexts that fill their last block and others. Three hosts for
two shards leave one to fail over to. The ids of `KVStore` allow every chunk one
more upload. A file of nine bytes is larger than a sector, so that a Write flushes
in its middle; two files share sectors; five calls suffice to write, flush, change,
fail and read. Three changes after the first revert a block, apply another in its
place and revert that.

**Symmetry** is used in runs without liveness properties only, over sessions and
sectors, calls, hosts, file names and threads, which no definition tells apart.

**Deadlock** is checked in `RenterHost`, the chunk strategies and `KVStore`. It is
switched off where the program may rightly stop: a download that has returned, a
HostSet that is closed, a renter that forms no more contracts, an input that has
been dealt with, and bounds on calls (`PseudoFS`, `Wallet`).

**Fairness.** `RenterHost`: a handler handles what it has read, a renter reads what
has arrived, each notices that the other is gone; the code reads in loops under
deadlines. Nobody has to call another RPC. `HostSet` and the strategies: goroutines
run, RPCs end (every one has a deadline), and waiting for a host is strongly fair
because the locks are channels, which serve receivers in order. The outsider gives
hosts back, as every strategy does. `ParallelDownload`: the main goroutine runs and
workers answer. `AcquireReturns` holds until Close is called: Close keeps the tokens
of the hosts it removes, and who waits for one then waits for ever.

## 4. Proofs

All theorems hold for every value of the constants that satisfies the modules'
named assumptions.

* `RenterHostProofs!TypeCorrect`: type correctness, whatever the lock does.
* `RenterHostProofs`, under `ExclusiveLock`: `SignaturesCorrect`, `RevisionCorrect`,
  `HostSignatureHeld`, `SectorsCorrect`, `PayoutsCorrect`, `ReserveCorrect` and the
  refinement `ImplementsLedger`. None of the invariants is inductive: what the host
  will commit is in a message or in `hpend` by then. `IInv` adds that one handler at
  most has the contract (`LockInv`), that a request to that handler was built from
  the host's current revision (`RequestInv`: legal edit, sufficient funds, moved
  outputs), and what a renter knows at each place of an RPC (`RenterInv`). The
  argument is that only the session with the lock can have a request that counts,
  and that each handler step empties that request as it changes the revision.
* `ContractRenewalProofs`: `DataHasOneHome` (`OneHome`), `RenewalsAreCurrent`
  (`RenewsCurrent`), `ContractsReachable` (`Reachable`), `TransactionsBalance`
  (`Balanced`), the action property `ClearingIsFair` (`ClearedFairly`), and
  `RenewalTypes`. `TaxAdjusted` says of the arithmetic under them that
  `taxAdjustedPayout` inverts the siafund tax, roundings included. `OneHome` alone is
  not inductive, since what a handler stores was agreed two messages before. `IInv`
  keeps the host's books (`Books`: one contract for the data of every contract that was
  returned, with the roots its revision commits to), who may still use a contract id
  (`Ids`), and per connection what the handler has prepared (`Handler`), which proposals
  can be on their way (`Proposals`), and what the call that sent them knows (`Opened`,
  `Negotiated`). The lock carries the argument: between the revision a renewal reads and
  the step that replaces it, only the connection with the lock can write.
* `HostSetProofs`: `Exclusion`, `SessionKept`, `ImplementsLocks`, from `TokenInv`: the
  token is in the channel exactly while nobody holds the host, and never again after
  Close has taken it.
* `ChunkUploadProofs`: `ShardsSpread` (`OneShardPerHost`), `SuccessIsComplete`
  (`CompleteOnSuccess`), `ReturnsClean` (`NothingLeftBehind`), `UploadTypes`, for the
  three uploaders and any number of calls at once. Two shards end on two hosts because
  the hosts that have a shard, those asked to store one and those that may still be
  chosen are disjoint all along (`HostsApart`); a nil result is right because `rem` is
  the number of shards the chunk lacks (`Counted`), which needs that no shard has two
  requests (`ShardsApart`) and, for the serial uploaders, that there is one request at
  a time (`Requests`). `Lent` ties each borrowed host to the request that borrowed it.
* `ChunkDownloadProofs`: `DownloadResult` (`ResultIsRight`) and `DownloadReturnsClean`,
  for both downloaders. A shard is queued, in flight, counted as good or counted as
  failed, and never two of these (`Apart`), what is counted was earned (`Deserved`),
  and good shards and requests in flight are at most `MinShards` (`InBounds`); so the
  call can neither run out of requests early nor return with one under way.
* `KVStoreProofs`, if callers do not overlap operations on one key (`Exclusive`):
  `UploadedSurvives` (`ValueSurvives`), `GCIsSafe` (`GCSparesValues`), `StoreTypes`.
  `IInv` has four themes. Ids: no shard is recorded twice, and a shard that is stored
  but not recorded is known to its upload alone (`Recorded`, `Unrecorded`). Counts: a
  shard of a live chunk is counted, and the shards GC has deleted or is about to
  delete have a count of zero or less, which nothing raises again (`Counted`); that is
  why the snapshot GC works from may be old. Blobs: their chunks are in order and
  shared with no other blob (`BlobsApart`). Calls: the chunks a call is done with are
  complete, or their upload is still to be waited for, and nobody else uploads them
  (`UploadInv`, `CallInv`). `IInv` also shows that the count of the pseudo-id 0 (an
  unset shard) is negative once it exists, so GC never takes it for a sector.
* `ParallelDownloadProofs`, of `Spec` with every blob and range, panics included:
  `InOrder` (`OutputInOrder`), `Complete` (`CompleteOnSuccess`) and `Serves`
  (`ServesRange`); what the code gets wrong is excluded by the properties, which name
  it, and by no assumption. The invariant places every requested chunk in exactly one
  of flight, slot and output, and says that the chunks written have taken the slots in
  turn. `Complete` holds when the buffer wraps, too: every slot has as many chunks
  written as the turns have come by, so a chunk left behind in a slot would have been
  due. Without wrapping a slot has one chunk, hence `InOrder`. For `Serves`, each turn of
  the request loop takes the next piece of the range, so what was requested is always a
  prefix of the range that ends with a chunk. That no chunk meets one in its slot is not
  claimed: the panic is reachable (section 5).
* `WalletProofs`, for any number of threads, addresses and changes, and reorganisations
  of any depth:
  * `AddressesFresh` (`FreshAddress`), from `IndexInv` (the seed index is past every
    address that was ever tracked, removed ones included) and `HotInv` (the index that a
    thread has read is past every address tracked when it was called).
  * `Stores` (`StoresAgree`): the two stores remove differently, one the first entry,
    the other the last or all. `StoresInv` says why that makes no difference: the lists
    hold nothing twice (`RecentInv`, `AddrIndexInv`, `RewardsInv`, `ContractsInv`),
    because their entries are of the chain that the store was told of, those of a
    reverted block go with it, and those of an applied one are new. Of an address that
    is not in `smeared`, a change adds one transaction at most, and `Aliased` stores that
    one as it is. Under it is `LogInv`:
    every chain of the log is mined block by block, and blocks are named for their change.
  * `Outputs` (`OutputsMatchChain`), from `TrackedInv` and `HeldInv`. The filter looks at
    a change's diffs as a whole: an output with an odd number of diffs changes, in the
    direction of the first. `Explains` states when that is right; it holds for the diffs
    of a block, for the inverted ones of a block taken back, and for one list after
    another, hence for a change.
  * `SpendsOnce` (`LimboSpendsOnce`), from `LimboInv`: while no address was removed, every
    transaction in limbo concerns the wallet, so its inputs are not offered and it
    leaves limbo with the change that confirms it.
  * `History` (`HistoryMatchesChain`), from `CompleteInv` (of addresses that were tracked
    all along, nothing in the chain is missing) and `HeightsInv` (what height is recorded
    by which change: the block's, if the change reverted none and is not the first).

  All but the first rest on one view of a change (`Replaces`: the chain after it has
  another tail) and on what the folds of the model make of a concatenation.

Where a result needs what a recursive function computes, the induction is done by
hand: `LeastNat` gives a least counterexample in a set of numbers, and the step refutes
it. That replaces the library's induction theorems, which the provers cannot apply.

The constants are free but for the modules' assumptions. Two of them deserve a word.
`ValueAssumption` of `ContractRenewal` says that outputs of a wallet add up to a
natural number, as they do in every finite wallet; it is assumed, and TLC evaluates
it. `Exclusive` is the callers' discipline that `PseudoKV`
relies on and nowhere enforces: a `Delete` of a key beside a `Put` of it can leave
shards of the new value with a count of zero.

`TypeCorrect`, `HostSignatureHeld`, `SectorsCorrect`, `ReserveCorrect`, `Exclusion`,
`DownloadReturnsClean` and the theorems on types state invariants that
no run checks, since they hold for every instance. `HostSetProofs` and
`ParallelDownloadProofs` prove the type correctness of their modules as a part of
`IInv`.

Only model-checked: the liveness properties (fairness and `ENABLED` are outside what
the proof system does here); and the `algorithms` and the file system, `ReadsBack`,
`Durable` and `NoPanic`. `Encoding`, `Merkle`, `Coins` and `FileOps` declare `RECURSIVE`
operators, and the proof system has no usable backend in a module that reaches one.

## 5. Disagreements between the code and what it says

Two have a violation run, and their quoted lines are under `findings` in
`PROJECT.json`: a timed-out RPC and the session's revision (`renterhost_abandon`,
`renterhost/session.go:75`), and a write before a pending one, which `mergePendingWrites`
loses (`fs_overwrite`, `fileops.go:65`).

The next ones are in the models as the code has them. What the documentation says is a
definition at the end of the module, which no run checks because it is false; TLC
refutes it in seconds on the instance given here.

| What is said | Refuted by | Where | How |
|---|---|---|---|
| `DeliversRange`: `kv.go:88`, "GetRange downloads a range of bytes within the value associated with key and writes it to w"; `kv_test.go:469-474` gets 4 chunks with `P = 3` | `ParallelDownload`, `Spec`, `Capacity = 1`, `MaxChunks = 4`, `P = 3`, `Ask = "whole"` | `strategies.go:901` | Nothing holds the request loop back from the chunk `P` after the one that is due. Chunk 3 is answered before chunk 0, has its slot, and is written in its place. |
| the same | `MaxChunks = 2`, `Ask = "any"` | `strategies.go:901` | A range that begins in chunk 1: it waits in slot 1, `pos` is 0, and the download returns nil with nothing written. So with every number of skipped chunks that is not a multiple of `P`. |
| the same | `Capacity = 3`, `MaxChunks = 3`, `Ask = "first"` | `strategies.go:931`; `818` in the serial downloader | `reqLen` is cut to the chunk's length, not to what it holds after `off`: a range into the next chunk reads past the end of the first. |
| `NeverOverwrites`: `strategies.go:898`, "refusing to overwrite chunk" | `Capacity = 1`, `MaxChunks = 5`, `Ask = "whole"` | `strategies.go:897` | As in the first line, with chunk 3 or 4 in a slot for which another chunk arrives. |
| `RefusalsArrive`: `renterhost/session.go:284`, "If the response was an RPCError, it is authenticated and returned immediately" | `MCAlgorithms`, `Algorithms.cfg` | `renterhost/session.go:269` | The tail is 32 bytes when the ciphertext is a multiple of 16 long, and 16 are due. A refusal with a description of 4031 bytes and no data fails its authentication. The sections that Read streams are not affected: their ciphertexts have 12 bytes modulo 16 in the smallest frame and 9 above it. |
| `NoPanic`: `fileops.go:156`, "developer error: cannot make progress" | `MCPseudoFS`, `PseudoFS_Overwrite.cfg` with `WriteLens = {1, 3, 8}`, `MaxCalls = 4` | `fileops.go:240` | A pending chunk's length is in bytes where segments are meant: after one overwrite the offset is past the next pending chunk. |
| `Durable`: `filesystem.go:798`, "the metafile will be atomically updated to match the current state of the file" | `PseudoFS_Overwrite.cfg` with `TruncateLens = {}`, `MaxCalls = 4` | `fileops.go:240` | For the same reason one overwrite and a Sync save slices that no longer cover the file. |
| `SyncCommits`: `filesystem.go:797`, "Sync commits the current contents of the file to stable storage" | `PseudoFS.cfg` | `fileops.go:639` | Sync returns at once when nothing is pending, although Free, Chmod or a truncation whose flush failed have left the metafile behind. |
| `GCSparesOpenFiles`: `filesystem.go:341`, sectors of files in memory "have not been flushed to hosts yet" | `PseudoFS.cfg` | `fileops.go:535`, `165` | A long Write flushes before it sets ModTime, so no metafile names its sectors before the next flush, and GC deletes them. |
| `SmearedListsMatchChain`: `seedwallet.go:210`, "the n most recent transactions in the blockchain that are relevant to the specified wallet-owned address" | `MCWallet`, `Wallet.cfg` | `dbstore.go:178` | Bolt is given slices of the loop variable (`go.mod`: go 1.13) and reads them at the commit: an address with two transactions in one change lists the later one twice. |
| `OldestFirst`: `seedwallet.go:202`, "ordered from oldest to newest" | `Wallet.cfg` | `dbstore.go:288` | BoltDBStore lists the newest first. |
| `HeightsMatchChain`: `seedwallet_test.go:262`, "transaction height should be 1" | `Wallet.cfg` | `wallet.go:513` | Applied blocks are numbered from the height before the change: too large by the blocks reverted in the same change (and by one in the first block). |

The following were met on the way; where a property would fail because of one, its
comment names it.

Storage:

* `kv.go:59`: over `BoltMetaDB`, Resume uploads a chunk with two unset shards twice.
* `strategies.go:386`, `474`: after `MinimumChunkUploader` some shards have id 0. The
  serial downloader fails when it comes to one, whatever the others hold; the parallel
  one tries others; over `EphemeralMetaDB` both meet a panic.
* `strategies.go:30`: `SerialChunkUploader.UploadChunk` has no context parameter, so it
  does not implement `ChunkUploader`, as its comment says it does.
* `hostset.go:219`: AddHost for a host in use replaces its lock.
* `metadb.go:168`: deleting a key while it is being put again lets GC delete sectors of
  the new value (`Exclusive = FALSE`).
* `metadb.go:205`, `342`: a sector with an id that no chunk records is never collected;
  BoltMetaDB.AddChunkAndShards, which has no caller, drops an error.
* `filesystem.go:408`: Rename returns with `fs.mu` locked when the flush fails.
* `fileops.go:305`: a flush commits file by file; a Write that fails after a flush does
  not set ModTime, and a later Sync does not save its slices.

Protocol:

* `merkle/proof.go:29`: ProofSize counts too few hashes for some ranges that end before
  the last of a number of sectors that is not a power of two (7 sectors, range [0,1): 3
  instead of 4). SectorRoots then refuses the honest proof, and with it DeleteSectors
  (`proto/session.go:700`) and GC (`filesystem.go:322`), which ask for the roots of a
  large contract in pages. DeleteSectors deletes one copy of a root that is stored twice.
* `ghost/session.go:197`: the final revision ghost stores has the old void output, the
  renter's signature covers one without it.
* `formcontract.go:288`: outputs that are not siacoin outputs are skipped by the sum and
  subtracted when inputs are discarded (the repository's wallet returns none).
* `session.go:565`: the duration a Write pays for is unsigned, and wraps after the end of
  the contract.
* `proto.go:133`: SubmitContractRevision submits its transaction without the parents of
  unconfirmed inputs.

Wallet:

* `dbstore.go:449`: Reset keeps block rewards and file contracts, which the rescan then
  lists twice.
* `seedwallet.go:123`, `128`: ValuedInputs leaves limbo out, and panics for an address
  that was removed.
* `seedwallet.go:248`: SeedWallet.AddAddress of the index that NextAddress has read
  succeeds between its two steps; both callers have that address.
* `ephemeralstore.go:54`, `dbstore.go:128`: a transaction that is reverted while its
  address is not tracked stays listed; when the address is added again and the
  transaction applied again it is listed twice, and a later revert takes the first entry
  from one store and the last, or all, from the other. `StoresAgree` leaves such lists out.
* `wallet.go:305`: what a transaction in limbo spends from an address that was removed is
  offered again; a second transaction may spend it, and both are in limbo when the
  address is added again. `LimboSpendsOnce` holds until an address is removed.
* `builder.go:140`: DistributeFunds bisects on a predicate that is not monotone.

## 6. Not modelled, and the plan

Out of reach or without control of their own: hashing, signatures and erasure-code
arithmetic (`ed25519hash`, `internal/reedsolomon`, about a third of the repository's
lines, most of them tables), host settings data, key derivation, HTTP clients, the
test wallet. The Migrator packs chunks as PseudoFS does, and otherwise is a loop over
files without state that another call could see. The Settings RPC is in `Encoding`
only. `PROJECT.json` says of each partly modelled component what is left out.

Left, in this order:

1. Session.RenewContract on a session that goes on; SubmitContractRevision.
2. Directories and RemoveAll, and files on different hosts, in `PseudoFS`; ValuedInputs,
   UnconfirmedParents and SetSeedIndex in `Wallet`.
3. Theorems about `PseudoFS` and the algorithms, for which the `RECURSIVE` operators of
   their modules would have to be written as recursive functions.
