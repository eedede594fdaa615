------------------------------- MODULE Wallet -------------------------------
(* The wallet: wallet/seedwallet.go and wallet.go over its two stores,         *)
(* ephemeralstore.go and dbstore.go.                                           *)
(*                                                                             *)
(* The consensus set is external: a log of changes, each of which takes blocks *)
(* off the chain and puts others on.  The wallet is told of one change at a    *)
(* time, whenever it comes to it, and keeps only what concerns its addresses.  *)
(* Both stores are fed the same calls.                                         *)
(*                                                                             *)
(* The address of key index i is i.  A transaction is named; Txn says what it  *)
(* spends (outputs with their addresses), creates (addresses, in order) and    *)
(* which contract it forms or revises.  Siafunds, memos and the contents of    *)
(* contracts are left out.                                                     *)
EXTENDS Naturals, Sequences, SequencesExt, FiniteSets, FiniteSetsExt

CONSTANTS Txn,            \* transaction name -> [ins, outs, contracts]
          Genesis,        \* the transaction of the first block
          MaxAddr,        \* addresses 0 .. MaxAddr - 1 can be the wallet's
          Threads,        \* callers of HotWallet.NextAddress
          Nobody,         \* no thread
          Delay,          \* blocks before a miner's payout can be spent
          MaxLog, MaxReorg, MaxCalls

ASSUME WalletAssumption ==
  /\ Genesis \in DOMAIN Txn /\ Txn[Genesis].ins = {}
  /\ {MaxAddr, Delay, MaxLog, MaxReorg, MaxCalls} \subseteq Nat
  /\ Nobody \notin Threads

(* A transaction revises a contract once.  The outputs of a transaction are    *)
(* named for it, those of a block "payout".                                    *)
ASSUME TxnAssumption ==
  \A t \in DOMAIN Txn:
    /\ t # "payout"
    /\ IsFiniteSet(Txn[t].ins)
    /\ Txn[t].outs \in Seq(0 .. MaxAddr)
    /\ Txn[t].contracts \in Seq(Range(Txn[t].contracts))
    /\ \A c, d \in Range(Txn[t].contracts): c.id = d.id /\ c.rev = d.rev => c = d
    /\ IsInjective(Txn[t].contracts)

VARIABLES log,     \* consensus: [revert, blocks], in the order they happened
          mem, db, \* the EphemeralStore and the BoltDBStore
          hot,     \* the thread inside NextAddress, the index it read, and known then
          calls,   \* the calls so far that change addresses or limbo
          since,   \* address -> the last change before it was tracked
          known,   \* the addresses ever tracked
          given,   \* the addresses that NextAddress returned
          tainted, \* the addresses ever removed, but for those before a Reset
          smeared, \* the addresses of which some change applied two transactions
          removed, \* whether RemoveAddress was ever called
          reset    \* whether Reset was ever called

history == <<calls, since, known, given, tainted, smeared, removed, reset>>
vars == <<log, mem, db, hot, history>>

Addr == 0 .. MaxAddr - 1
Foreign == MaxAddr      \* somebody else's address

(* the elements of a sequence that are in a set *)
Keep(s, S) == FlattenSeq([i \in DOMAIN s |-> IF s[i] \in S THEN <<s[i]>> ELSE <<>>])

-----------------------------------------------------------------------------
(* The consensus set *)

Block(id, txns, payout) == [id |-> id, txns |-> txns, payout |-> payout]

Extend(chain, cc) == SubSeq(chain, 1, Len(chain) - cc.revert) \o cc.blocks

ChainOf(changes) ==
  LET chain[n \in 0 .. Len(changes)] ==
        IF n = 0 THEN <<>> ELSE Extend(chain[n - 1], changes[n])
  IN  chain[Len(changes)]

(* the chain once n changes have happened *)
Chain(n) == ChainOf(SubSeq(log, 1, n))

Output(id, addr) == [id |-> id, addr |-> addr]
OutputsOf(t) == [i \in DOMAIN Txn[t].outs |-> Output(<<t, i>>, Txn[t].outs[i])]
Payout(b) == Output(<<"payout", b.id>>, b.payout)

TxnsOf(chain) == FlattenSeq([h \in DOMAIN chain |-> chain[h].txns])

(* the outputs that can be spent, of a chain *)
Unspent(chain) ==
  ({Payout(chain[h]): h \in {i \in DOMAIN chain: i + Delay <= Len(chain)}}
     \cup UNION {Range(OutputsOf(t)): t \in Range(TxnsOf(chain))})
  \ UNION {Txn[t].ins: t \in Range(TxnsOf(chain))}

(* what block h of a chain does to the set of outputs *)
Diff(dir, o) == [dir |-> dir, out |-> o]

DiffsOf(chain, h) ==
  LET of(t) == [i \in 1 .. Cardinality(Txn[t].ins) |-> Diff("revert", SetToSeq(Txn[t].ins)[i])]
               \o [i \in DOMAIN OutputsOf(t) |-> Diff("apply", OutputsOf(t)[i])]
  IN  FlattenSeq([i \in DOMAIN chain[h].txns |-> of(chain[h].txns[i])])
      \o (IF h > Delay THEN <<Diff("apply", Payout(chain[h - Delay]))>> ELSE <<>>)

Inverted(diffs) ==
  [i \in DOMAIN diffs |->
     Diff(IF Reverse(diffs)[i].dir = "apply" THEN "revert" ELSE "apply", Reverse(diffs)[i].out)]

(* modules.ConsensusChange: change n of the log *)
ConsensusChange(n) ==
  LET old == Chain(n - 1)
      new == Chain(n)
      kept == Len(old) - log[n].revert
  IN  [reverted |-> Reverse(SubSeq(old, kept + 1, Len(old))),
       applied  |-> log[n].blocks,
       diffs    |-> FlattenSeq([i \in 1 .. log[n].revert |->
                                  Inverted(DiffsOf(old, Len(old) - i + 1))])
                    \o FlattenSeq([i \in DOMAIN log[n].blocks |-> DiffsOf(new, kept + i)]),
       id       |-> n]

-----------------------------------------------------------------------------
(* FilterConsensusChange *)

AddrsOf(t) ==
  {o.addr: o \in Txn[t].ins} \cup Range(Txn[t].outs)
    \cup UNION {Txn[t].contracts[i].addrs: i \in DOMAIN Txn[t].contracts}

RelevantTransaction(owned, t) == AddrsOf(t) \cap owned # {}

(* Mutant: outputs created and spent in the same change are not ignored. *)
survivingOutputsAll(diffs) == {diffs[i].out: i \in DOMAIN diffs}

(* the outputs of an odd number of diffs *)
survivingOutputs(diffs) ==
  {o \in {diffs[i].out: i \in DOMAIN diffs}:
     Cardinality({i \in DOMAIN diffs: diffs[i].out = o}) % 2 = 1}

(* of those, the owned ones whose first diff has this direction *)
processOutputs(diffs, owned, dir) ==
  {o \in survivingOutputs(diffs):
     /\ o.addr \in owned
     /\ diffs[SelectInSeq(diffs, LAMBDA d: d.out = o)].dir = dir}

Revision(c) == [id |-> c.id, rev |-> c.rev]

(* the contracts of a transaction with an owned address among their outputs *)
relevantFileContract(t, owned) ==
  LET cs == Keep(Txn[t].contracts, {c \in Range(Txn[t].contracts): c.addrs \cap owned # {}})
  IN  [i \in DOMAIN cs |-> Revision(cs[i])]

processMinerPayouts(blocks, owned) ==
  LET mined == Keep(blocks, {b \in Range(blocks): b.payout \in owned})
  IN  [i \in DOMAIN mined |-> Payout(mined[i])]

(* ProcessedConsensusChange; the first block gets the height next.  No store   *)
(* keeps the heights of the reverted transactions.                             *)
processBlocks(blocks, owned, next, outputs) ==
  LET relevant == {t \in DOMAIN Txn: RelevantTransaction(owned, t)}
      all      == Keep(TxnsOf(blocks), relevant)
  IN  [outputs   |-> outputs,
       txns      |-> all,
       heights   |-> FlattenSeq([i \in DOMAIN blocks |->
                       [j \in DOMAIN Keep(blocks[i].txns, relevant) |-> next + i - 1]]),
       addrTxns  |-> [a \in owned |-> Keep(all, {t \in DOMAIN Txn: a \in AddrsOf(t)})],
       rewards   |-> processMinerPayouts(blocks, owned),
       contracts |-> FlattenSeq([i \in DOMAIN all |-> relevantFileContract(all[i], owned)]),
       count     |-> Len(blocks)]

FilterConsensusChange(cc, owned, currentHeight) ==
  [reverted |-> processBlocks(cc.reverted, owned, 0, processOutputs(cc.diffs, owned, "revert")),
   applied  |-> processBlocks(cc.applied, owned, currentHeight + 1,
                              processOutputs(cc.diffs, owned, "apply")),
   id       |-> cc.id]

-----------------------------------------------------------------------------
(* The stores *)

NewStore ==
  [addrs |-> {}, outputs |-> {}, rewards |-> <<>>, contracts |-> <<>>,
   txns |-> <<>>, limbo |-> {}, addrIndex |-> [a \in Addr |-> <<>>], recent |-> <<>>,
   seedIndex |-> 0, height |-> 0, ccid |-> 0]

(* adjusted for the genesis block *)
ChainHeight(s) == IF s.height > 0 THEN s.height - 1 ELSE 0

RemoveFirsts(s, xs) ==
  LET left[i \in 0 .. Len(xs)] == IF i = 0 THEN s ELSE RemoveFirst(left[i - 1], xs[i])
  IN  left[Len(xs)]

RemoveLasts(s, xs) == Reverse(RemoveFirsts(Reverse(s), xs))

Without(s, xs) == Keep(s, Range(s) \ Range(xs))

(* txns maps the transactions of recent to their heights: the entries without  *)
(* the reverted transactions, and with the applied ones                        *)
Recorded(txns, reverted, applied) ==
  [t \in (DOMAIN txns \ Range(reverted.txns)) \cup Range(applied.txns) |->
     IF t \in Range(applied.txns)
     THEN applied.heights[SelectLastInSeq(applied.txns, LAMBDA u: u = t)] ELSE txns[t]]

(* what ApplyConsensusChange does to either store, but for the way it finds    *)
(* what it removes, one entry for each element of a list, or those of an       *)
(* address' transactions, and for what it stores of the applied ones           *)
Applied(s, f, removeEach(_, _), removeTxns(_, _), stored(_)) ==
  LET rev == f.reverted
      app == f.applied
  IN  [s EXCEPT
        !.outputs   = (@ \ rev.outputs) \cup app.outputs,
        !.rewards   = removeEach(@, rev.rewards) \o app.rewards,
        !.contracts = removeEach(@, rev.contracts) \o app.contracts,
        !.txns      = Recorded(@, rev, app),
        !.limbo     = @ \ (Range(rev.txns) \cup Range(app.txns)),
        !.recent    = removeEach(@, rev.txns) \o app.txns,
        !.addrIndex = [a \in Addr |-> IF a \in s.addrs
                                      THEN removeTxns(@[a], rev.addrTxns[a])
                                             \o stored(app.addrTxns[a])
                                      ELSE @[a]],
        !.height    = (@ + app.count) - rev.count,
        !.ccid      = f.id]

Verbatim(txids) == txids

memApply(s, f) == Applied(s, f, RemoveFirsts, RemoveFirsts, Verbatim)

(* The values given to Bolt are slices of the one loop variable, and Bolt      *)
(* reads them when the transaction commits: all of them are then the last.     *)
Aliased(txids) == [i \in DOMAIN txids |-> txids[Len(txids)]]

(* Mutant: the index of the transactions is left as it was. *)
dbApplyKeepsRecent(s, f) ==
  [Applied(s, f, RemoveLasts, Without, Aliased) EXCEPT !.recent = s.recent \o f.applied.txns]

(* Bolt's lists are searched from the end; of an address' transactions every   *)
(* one that is named goes.                                                     *)
dbApply(s, f) == Applied(s, f, RemoveLasts, Without, Aliased)

(* Mutant: the first n. *)
memListOldest(s, n) == SubSeq(s, 1, Min({n, Len(s)}))

(* Transactions(n), TransactionsByAddress, BlockRewards, FileContracts: the    *)
(* last n.  Bolt lists them from the newest.                                   *)
memList(s, n) == SubSeq(s, Len(s) - Min({n, Len(s)}) + 1, Len(s))
dbList(s, n) == SubSeq(Reverse(s), 1, Min({n, Len(s)}))

(* Mutant: the index follows the last address added. *)
AddAddressLast(s, i) == [s EXCEPT !.addrs = @ \cup {i}, !.seedIndex = i + 1]

AddAddressTo(s, i) ==
  [s EXCEPT !.addrs = @ \cup {i}, !.seedIndex = IF @ < i + 1 THEN i + 1 ELSE @]

Owned(owned, outputs) == {o \in outputs: o.addr \in owned}

(* what the wallet holds, and what the transactions in limbo make for it *)
WithLimbo(owned, limbo, outputs) ==
  SetToSeq(outputs)
    \o FlattenSeq([i \in DOMAIN limbo |->
         Keep(OutputsOf(limbo[i]), Owned(owned, Range(OutputsOf(limbo[i]))))])

(* Mutant: what the transactions in limbo spend is still offered. *)
CalculateLimboOutputsUnspent(owned, limbo, outputs) == WithLimbo(owned, limbo, outputs)

(* a sequence, in which an output could appear twice *)
CalculateLimboOutputs(owned, limbo, outputs) ==
  RemoveFirsts(WithLimbo(owned, limbo, outputs),
               FlattenSeq([i \in DOMAIN limbo |-> SetToSeq(Owned(owned, Txn[limbo[i]].ins))]))

UnspentOutputs(s) == CalculateLimboOutputs(s.addrs, SetToSeq(s.limbo), s.outputs)

-----------------------------------------------------------------------------
(* Init and actions *)

Free == [by |-> Nobody, index |-> 0, before |-> {}]

Init ==
  /\ log = <<[revert |-> 0, blocks |-> <<Block(<<1, 1>>, <<Genesis>>, Foreign)>>]>>
  /\ mem = NewStore /\ db = NewStore
  /\ hot = Free
  /\ calls = 0 /\ since = [a \in Addr |-> 0]
  /\ known = {} /\ given = {} /\ tainted = {} /\ smeared = {}
  /\ removed = FALSE /\ reset = FALSE

(* A contract is formed or revised only on what it needs, and each revision of  *)
(* it is made once.                                                             *)
Revises(chain, t) ==
  \A c \in Range(Txn[t].contracts):
    /\ c.needs \subseteq Range(TxnsOf(chain))
    /\ \A u \in Range(TxnsOf(chain)): \A d \in Range(Txn[u].contracts): Revision(c) # Revision(d)

(* A block on a chain: one transaction, whose inputs are unspent and which is   *)
(* not on the chain; or none, and a payout to address 0.                        *)
Minable(chain, id) ==
  {Block(id, <<>>, 0)}
    \cup {Block(id, <<t>>, Foreign):
            t \in {u \in DOMAIN Txn: /\ u \notin Range(TxnsOf(chain))
                                     /\ Txn[u].ins \subseteq Unspent(chain)
                                     /\ Revises(chain, u)}}

(* The chains that n more blocks make of a chain. *)
Branches(chain, n) ==
  LET grown[i \in 0 .. n] ==
        IF i = 0 THEN {chain}
        ELSE UNION {{Append(c, b): b \in Minable(c, <<Len(log) + 1, i>>)}: c \in grown[i - 1]}
  IN  grown[n]

(* Blocks are taken off the chain, and one more is put on.  Nothing but the    *)
(* delivery looks at the log, so it is enough that a change happens when the   *)
(* ones before it were delivered.                                              *)
Mine(revert) ==
  /\ Len(log) < MaxLog /\ db.ccid = Len(log)
  /\ \E chain \in {Chain(Len(log))}:
       LET kept == Len(chain) - revert
       IN  /\ kept > 0
           /\ \E new \in Branches(SubSeq(chain, 1, kept), revert + 1):
                log' = Append(log, [revert |-> revert, blocks |-> SubSeq(new, kept + 1, Len(new))])
  /\ UNCHANGED <<mem, db, hot, history>>

Smears(f, owned) == {a \in owned: Len(f.applied.addrTxns[a]) > 1}

(* ProcessConsensusChange: the next change, if there is one *)
Deliver ==
  /\ db.ccid < Len(log)
  /\ \E cc \in {ConsensusChange(db.ccid + 1)}:
       /\ mem' = memApply(mem, FilterConsensusChange(cc, mem.addrs, ChainHeight(mem)))
       /\ db' = dbApply(db, FilterConsensusChange(cc, db.addrs, ChainHeight(db)))
       /\ smeared' = smeared \cup Smears(FilterConsensusChange(cc, db.addrs, ChainHeight(db)), db.addrs)
  /\ UNCHANGED <<log, hot, calls, since, known, given, tainted, removed, reset>>

Call == calls < MaxCalls /\ calls' = calls + 1

(* A transaction is put in limbo when it is broadcast.  The wallet takes any;  *)
(* its caller is assumed to spend only outputs that the wallet offers.         *)
AddToLimbo(t) ==
  /\ Call
  /\ Txn[t].ins # {} /\ Txn[t].ins \subseteq Range(UnspentOutputs(db))
  /\ mem' = [mem EXCEPT !.limbo = @ \cup {t}]
  /\ db' = [db EXCEPT !.limbo = @ \cup {t}]
  /\ UNCHANGED <<log, hot, since, known, given, tainted, smeared, removed, reset>>

RemoveFromLimbo(t) ==
  /\ Call
  /\ t \in db.limbo
  /\ mem' = [mem EXCEPT !.limbo = @ \ {t}]
  /\ db' = [db EXCEPT !.limbo = @ \ {t}]
  /\ UNCHANGED <<log, hot, since, known, given, tainted, smeared, removed, reset>>

(* An address is tracked from the next change on. *)
Track(i) ==
  /\ mem' = AddAddressTo(mem, i)
  /\ db' = AddAddressTo(db, i)
  /\ since' = [since EXCEPT ![i] = IF i \in known THEN @ ELSE db.ccid]
  /\ known' = known \cup {i}
  /\ UNCHANGED <<log, tainted, smeared, removed, reset>>

AddAddress(i) == Call /\ Track(i) /\ UNCHANGED <<hot, given>>

(* HotWallet.NextAddress reads the index and adds the address in two calls of  *)
(* the SeedWallet, whose own lock it does not hold in between.                 *)
NextBegin(th) ==
  /\ Call
  /\ hot.by = Nobody
  /\ db.seedIndex < MaxAddr
  /\ hot' = [by |-> th, index |-> db.seedIndex, before |-> known]
  /\ UNCHANGED <<log, mem, db, since, known, given, tainted, smeared, removed, reset>>

NextEnd(th) ==
  /\ hot.by = th
  /\ Track(hot.index)
  /\ given' = given \cup {hot.index}
  /\ hot' = Free
  /\ UNCHANGED calls

(* What the address has stays. *)
RemoveAddress(i) ==
  /\ Call
  /\ i \in db.addrs
  /\ mem' = [mem EXCEPT !.addrs = @ \ {i}]
  /\ db' = [db EXCEPT !.addrs = @ \ {i}]
  /\ tainted' = tainted \cup {i}
  /\ removed' = TRUE
  /\ UNCHANGED <<log, hot, since, known, given, smeared, reset>>

(* Bolt's Reset, after which the wallet is subscribed from the first change    *)
(* on.  For the EphemeralStore: a new one, with what Reset preserves.          *)
Reset ==
  /\ Call
  /\ db' = [db EXCEPT !.outputs = {}, !.txns = <<>>, !.addrIndex = NewStore.addrIndex,
                      !.recent = <<>>, !.height = 0, !.ccid = 0]
  /\ mem' = [NewStore EXCEPT !.addrs = db.addrs, !.seedIndex = db.seedIndex, !.limbo = db.limbo]
  /\ since' = [a \in Addr |-> 0]
  /\ tainted' = known \ db.addrs
  /\ smeared' = {}
  /\ reset' = TRUE
  /\ UNCHANGED <<log, hot, known, given, removed>>

Next ==
  \/ \E revert \in 0 .. MaxReorg: Mine(revert)
  \/ Deliver
  \/ \E t \in DOMAIN Txn: AddToLimbo(t) \/ RemoveFromLimbo(t)
  \/ \E i \in Addr: AddAddress(i) \/ RemoveAddress(i)
  \/ \E th \in Threads: NextBegin(th) \/ NextEnd(th)
  \/ Reset

Spec == Init /\ [][Next]_vars

-----------------------------------------------------------------------------
(* Properties *)

(* the addresses that have been tracked since the first change *)
Whole == {a \in db.addrs \ tainted: since[a] = 0}

(* However the chain was reorganised, and whatever was delivered in one        *)
(* change, the outputs that the store holds for an address that was never      *)
(* removed are unspent on the chain it was told of, and all of those for an    *)
(* address it has always tracked (FilterConsensusChange's survivingOutputs).   *)
OutputsMatchChain ==
  LET unspent == Unspent(Chain(db.ccid))
      held(a) == {o \in db.outputs: o.addr = a}
      due(a)  == {o \in unspent: o.addr = a}
  IN  /\ \A a \in known \ tainted: held(a) \subseteq due(a)
      /\ \A a \in Whole: held(a) = due(a)

(* The changes that put a transaction on the chain, the last of them. *)
ChangeOf(t) == Max({n \in 1 .. db.ccid: \E i \in DOMAIN log[n].blocks: t \in Range(log[n].blocks[i].txns)})

HeightOf(t, chain) == SelectInSeq(chain, LAMBDA b: t \in Range(b.txns)) - 1

(* What the store lists are the relevant transactions, rewards and contracts   *)
(* of the chain it was told of, in the chain's order: reverted ones are gone,  *)
(* none is listed twice, none is missing for an address it has always tracked. *)
(* Left out are the list of an address of which one change applied two         *)
(* transactions (dbstore.go:178, SmearedListsMatchChain), the height of a      *)
(* transaction whose change also reverted blocks (wallet.go:513,               *)
(* HeightsMatchChain) and that of the first block, which gets 1.  The height   *)
(* of any other is that of its block.                                          *)
HistoryMatchesChain ==
  LET chain     == Chain(db.ccid)
      txns      == TxnsOf(chain)
      listed(s) == Keep(txns, Range(s))
      all       == known = Whole
  IN  /\ \A a \in known \ (tainted \cup smeared): db.addrIndex[a] = listed(db.addrIndex[a])
      /\ \A a \in Whole \ smeared:
           db.addrIndex[a] = Keep(txns, {t \in DOMAIN Txn: a \in AddrsOf(t)})
      /\ tainted = {} => db.recent = listed(db.recent)
      /\ all => db.recent = Keep(txns, {t \in DOMAIN Txn: RelevantTransaction(known, t)})
      /\ all => Range(db.recent) = DOMAIN db.txns
      /\ tainted = {} => \A t \in DOMAIN db.txns:
           ChangeOf(t) # 1 /\ log[ChangeOf(t)].revert = 0 => db.txns[t] = HeightOf(t, chain)
      /\ all /\ ~reset => /\ db.rewards = processMinerPayouts(chain, known)
                          /\ db.contracts = processBlocks(chain, known, 0, {}).contracts

(* The two stores, fed the same calls, hold the same: Bolt's lists are those   *)
(* of the EphemeralStore for every length asked for, but from the newest,      *)
(* where seedwallet.go:202 and :213 say from the oldest (OldestFirst).  Left   *)
(* out are the list of an address of which one change applied two transactions *)
(* (dbstore.go:178, SmearedListsMatchChain), and what an address that was      *)
(* removed and added again lists: twice what was reverted in between, of which *)
(* the stores remove different entries later.  Rewards and contracts survive   *)
(* Bolt's Reset (dbstore.go:449).                                              *)
StoresAgree ==
  LET agree(m, d) == \A n \in 0 .. Len(m) + 1: dbList(d, n) = Reverse(memList(m, n))
  IN  /\ tainted = {} => agree(mem.recent, db.recent)
      /\ \A a \in Addr \ (tainted \cup smeared): agree(mem.addrIndex[a], db.addrIndex[a])
      /\ ~reset => agree(mem.rewards, db.rewards)
      /\ ~reset /\ tainted = {} => agree(mem.contracts, db.contracts)
      /\ \A f \in {"addrs", "outputs", "txns", "limbo", "seedIndex", "height", "ccid"}: mem[f] = db[f]
      /\ db.height = Len(Chain(db.ccid))

(* A caller who spends what UnspentOutputs offers never signs two transactions *)
(* in limbo that spend the same output; what is offered is held or made in     *)
(* limbo, spent by nothing in limbo, and offered once; and a transaction       *)
(* leaves limbo when it is confirmed.  (An address that is removed takes what  *)
(* was spent from it in limbo out of the account.)                             *)
LimboSpendsOnce ==
  LET offered == UnspentOutputs(db)
      spent   == UNION {Txn[t].ins: t \in db.limbo}
      made    == UNION {Range(OutputsOf(t)): t \in db.limbo}
  IN  ~removed =>
        /\ \A t, u \in db.limbo: t # u => Txn[t].ins \cap Txn[u].ins = {}
        /\ db.limbo \cap Range(TxnsOf(Chain(db.ccid))) = {}
        /\ IsInjective(offered)
        /\ Range(offered) = (db.outputs \cup Owned(db.addrs, made)) \ spent

(* NextAddress never returns an address that it returned before, nor one that  *)
(* was ever tracked when it was called, even if that was removed since.        *)
FreshAddress ==
  [][hot.by # Nobody /\ hot'.by = Nobody => hot.index \notin given \cup hot.before]_vars

-----------------------------------------------------------------------------
(* What the documentation and the tests say, and the code does not do: TLC     *)
(* refutes all three on the instance of the run wallet (README, section 5); no *)
(* run checks them.                                                            *)

(* TransactionsByAddress lists the transactions of the chain that are relevant *)
(* to the address, for every address tracked from the first change on.         *)
SmearedListsMatchChain ==
  \A a \in Whole:
    db.addrIndex[a] = Keep(TxnsOf(Chain(db.ccid)), {t \in DOMAIN Txn: a \in AddrsOf(t)})

(* Transactions(n) of a wallet over the BoltDBStore goes from the oldest to    *)
(* the newest.                                                                 *)
OldestFirst ==
  known = Whole => \A n \in 0 .. Len(db.recent):
    dbList(db.recent, n) = Keep(TxnsOf(Chain(db.ccid)), Range(dbList(db.recent, n)))

(* The height of a transaction, in any block after the first, is that of its   *)
(* block.                                                                      *)
HeightsMatchChain ==
  tainted = {} => \A t \in DOMAIN db.txns:
    ChangeOf(t) # 1 => db.txns[t] = HeightOf(t, Chain(db.ccid))

=============================================================================
