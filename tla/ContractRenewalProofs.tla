------------------------ MODULE ContractRenewalProofs ------------------------
(***************************************************************************)
(* For every number of calls, contracts and wallets, and for all amounts:  *)
(* wherever the exchange of a renewal breaks off, the data of a contract   *)
(* keeps exactly one home at the host, which the renter knows or knows to  *)
(* have lost; the transactions balance; and a contract that is cleared is  *)
(* cleared fairly.                                                         *)
(***************************************************************************)
EXTENDS ContractRenewal, SequenceTheorems, TLAPS

Msg ==
  [type : {"none", "form", "renew", "additions", "signatures", "error"},
   id : Nat, rev : Revision, final : Revision]
Txn ==
  [inputs : SUBSET UNION Wallets, total : Nat, collateral : Nat, change : Int]
Negotiation ==
  [old : Nat, id : Nat, rev : Revision, final : Revision, txn : Txn]
Contract ==
  [rev : Revision, rsig : Revision, hsig : Revision, roots : Seq(Sectors)]

TypeOK ==
  /\ made \in Nat
  /\ family \in [1 .. made -> 1 .. made]
  /\ contracts \in [DOMAIN contracts -> Contract] /\ DOMAIN contracts \subseteq 1 .. made
  /\ held \subseteq 1 .. made
  /\ lost \subseteq 1 .. made
  /\ pc \in [Calls -> {"idle", "open", "additions", "signatures"}]
  /\ local \in [Calls -> Negotiation]
  /\ hst \in [Calls -> {"done", "loop", "sigs"}]
  /\ locked \in [Calls -> held \cup {0}]
  /\ hpend \in [Calls -> Msg]
  /\ req \in [Calls -> Msg]
  /\ resp \in [Calls -> Msg]

(* The messages that propose a contract, and the calls that negotiate one. *)
Proposal(m) == m.type \in {"form", "renew"}
Negotiating(c) == pc[c] \in {"additions", "signatures"}

(* The host's contracts are what their revisions say, no two of them are   *)
(* of the same family, and every contract a call has returned still has a  *)
(* relative among them.                                                    *)
Books ==
  /\ \A id \in DOMAIN contracts :
       /\ contracts[id].roots = contracts[id].rev.root
       /\ contracts[id].rev.size = Len(contracts[id].rev.root)
       /\ contracts[id].rev.num < MaxNum
  /\ \A id, k \in DOMAIN contracts : family[id] = family[k] => id = k
  /\ \A id \in held : \E k \in DOMAIN contracts : family[k] = family[id]

(* A proposal that has reached the host, or will.  A new contract has no   *)
(* relatives; a renewal starts from what the contract it locked holds.     *)
Sound(c, m) ==
  /\ m.rev.num < MaxNum
  /\ m.rev.size = Len(m.rev.root)
  /\ m.type = "form" =>
       /\ locked[c] = 0
       /\ m.rev.root = << >>
       /\ family[m.id] = m.id
       /\ \A k \in DOMAIN contracts : family[k] # m.id
  /\ m.type = "renew" /\ hst[c] # "done" =>
       /\ locked[c] \in DOMAIN contracts
       /\ m.rev.root = contracts[locked[c]].roots
       /\ family[m.id] = family[locked[c]]

(* A handler has a contract locked only while it runs, and has prepared    *)
(* something only while it waits for signatures.                           *)
Handler(c) ==
  /\ hst[c] = "done" => locked[c] = 0
  /\ hst[c] = "sigs" => Proposal(hpend[c]) /\ ~Proposal(req[c])
  /\ hst[c] # "sigs" => hpend[c].type = "none"
  /\ req[c].type = "form" => hst[c] = "loop"

(* The proposals on a connection are sound; a renewal comes with the final *)
(* revision of the contract that the handler has locked.                   *)
Proposals(c) ==
  /\ Proposal(req[c]) => Sound(c, req[c])
  /\ Proposal(hpend[c]) => Sound(c, hpend[c])
  /\ req[c].type = "renew" /\ hst[c] = "loop" =>
       req[c].final = FinalRevision(contracts[locked[c]].rev)
  /\ hpend[c].type = "renew" =>
       hpend[c].final = HostFinalRevision(contracts[locked[c]].rev,
                                          FinalRevision(contracts[locked[c]].rev))

(* What a call that has locked a contract knows is current for as long as  *)
(* the handler runs.                                                       *)
Opened(c) ==
  pc[c] = "open" =>
    /\ hst[c] # "sigs" /\ ~Proposal(req[c])
    /\ local[c].old \in held
    /\ local[c].rev.size = Len(local[c].rev.root)
    /\ hst[c] = "loop" =>
         /\ locked[c] = local[c].old
         /\ locked[c] \in DOMAIN contracts
         /\ local[c].rev = contracts[locked[c]].rev

(* A call and its handler negotiate the same contract; signatures that     *)
(* arrive after the call has failed are known to be lost; and the host has *)
(* the contract whose signatures the call has received.                    *)
Negotiated(c) ==
  /\ Negotiating(c) =>
       /\ Proposal(req[c]) => req[c].id = local[c].id
       /\ Proposal(hpend[c]) => hpend[c].id = local[c].id
  /\ hst[c] = "sigs" /\ req[c].type = "signatures" =>
       pc[c] = "signatures" \/ family[hpend[c].id] \in lost
  /\ pc[c] = "signatures" /\ resp[c].type = "signatures" =>
       /\ local[c].id \in DOMAIN contracts
       /\ hst[c] # "sigs" /\ ~Proposal(req[c])

Connection(c) == Handler(c) /\ Proposals(c) /\ Opened(c) /\ Negotiated(c)

(* A connection uses the id of the contract that is negotiated on it; it   *)
(* is nobody else's, and no call has returned it.                          *)
Uses(c, id) ==
  \/ Negotiating(c) /\ local[c].id = id
  \/ Proposal(req[c]) /\ req[c].id = id
  \/ Proposal(hpend[c]) /\ hpend[c].id = id

Ids ==
  /\ \A c \in Calls, id \in Nat : Uses(c, id) => id \in (1 .. made) \ held
  /\ \A c, d \in Calls, id \in Nat : Uses(c, id) /\ Uses(d, id) => c = d
  /\ \A c, d \in Calls : locked[c] = locked[d] /\ locked[c] # 0 => c = d

IInv ==
  /\ TypeOK /\ Books /\ Ids
  /\ \A c \in Calls : Connection(c)
  /\ Reachable
  /\ Balanced

-----------------------------------------------------------------------------
(* The arithmetic of the payouts. *)

(* Quotient and remainder. *)
LEMMA DivMod ==
  ASSUME NEW n \in Int, NEW F \in Int, F > 0
  PROVE  /\ n \div F \in Int
         /\ n % F \in Int /\ 0 <= n % F /\ n % F < F
         /\ n = F * (n \div F) + (n % F)
  <1>1. n = F * (n \div F) + (n % F) BY SMTT(20)
  <1> QED BY <1>1

(* A multiple of F that is less than F away from zero is zero. *)
LEMMA SmallMultiple ==
  ASSUME NEW k \in Int, NEW F \in Int, F > 0, F * k < F, F * k > -F
  PROVE  F * k = 0
  OBVIOUS

(* taxAdjustedPayout inverts types.Tax exactly, with the rounding of both  *)
(* and for every number of siafunds: the payout it returns leaves the      *)
(* target once the tax has been taken (formcontract.go).                   *)
THEOREM TaxAdjusted ==
  ASSUME NEW target \in Nat
  PROVE  /\ taxAdjustedPayout(target) \in Nat
         /\ taxAdjustedPayout(target) >= target
         /\ taxAdjustedPayout(target) - Tax(taxAdjustedPayout(target)) = target
  <1> DEFINE F     == SiafundCount
             guess == (target * 1000) \div 961
             tm    == target % F
             gm    == guess % F
             T     == taxAdjustedPayout(target)
             tax   == (T * 39) \div 1000
             tx    == tax % F
  <1>1. F \in Int /\ F > 0 BY PayoutsAssumption
  <1>2. /\ guess \in Int /\ guess >= target
        /\ 961 * guess <= 1000 * target /\ 1000 * target < 961 * guess + 961
    OBVIOUS
  <1> HIDE DEF F, guess
  <1>3. /\ tm \in Int /\ 0 <= tm /\ tm < F
        /\ gm \in Int /\ 0 <= gm /\ gm < F
    BY <1>1, <1>2, DivMod
  <1>4. PICK a \in Int : target = F * a + tm BY <1>1, DivMod
  <1>5. PICK b \in Int : guess = F * b + gm BY <1>1, <1>2, DivMod
  <1>6. PICK e \in {0, 1} : T = guess - gm + tm - F * e /\ T <= guess /\ T > guess - F
    <2>1. T = (IF gm < tm THEN guess - F ELSE guess) - gm + tm
      BY DEF taxAdjustedPayout, F, guess
    <2> HIDE DEF T, tm, gm
    <2>2. CASE gm < tm BY <1>1, <1>2, <1>3, <2>1, <2>2
    <2>3. CASE ~(gm < tm) BY <1>1, <1>2, <1>3, <2>1, <2>3
    <2> QED BY <2>2, <2>3
  <1> HIDE DEF T, tm, gm
  <1>7. T \in Int /\ e \in Int BY <1>1, <1>2, <1>3, <1>6
  <1>8. /\ tax \in Int /\ 1000 * tax <= 39 * T /\ 39 * T < 1000 * tax + 1000
    BY <1>7
  <1> HIDE DEF tax
  <1>9. /\ tx \in Int /\ 0 <= tx /\ tx < F
    BY <1>1, <1>8, DivMod
  <1>10. PICK c \in Int : tax = F * c + tx BY <1>1, <1>8, DivMod
  <1>11. Tax(T) = tax - tx BY DEF Tax, tax, tx, F
  <1> HIDE DEF tx
  <1>12. PICK k \in Int : T - target = F * k
    <2>1. T - target = F * b - F * e - F * a BY <1>1, <1>3, <1>4, <1>5, <1>6
    <2>2. b - e - a \in Int /\ F * b - F * e - F * a = F * (b - e - a) BY <1>1, <1>7
    <2> QED BY <2>1, <2>2
  <1>13. T >= target
    <2>1. CASE k >= 0
       BY <1>1, <1>7, <1>12, <2>1
    <2>2. CASE k < 0
      <3>1. F * k <= -F BY <1>1, <2>2
      <3> QED BY <1>1, <1>2, <1>6, <1>7, <1>12, <3>1
    <2> QED BY <2>1, <2>2
  <1>14. T - Tax(T) = target
    <2> DEFINE x == T - tax + tx
    <2>1. x \in Int /\ T - Tax(T) = x BY <1>7, <1>8, <1>9, <1>11
    <2>2. x - target = F * k - F * c BY <1>1, <1>7, <1>8, <1>9, <1>10, <1>12
    <2>3. x - target < F BY <1>1, <1>2, <1>6, <1>7, <1>8, <1>9
    <2>4. target - x < F BY <1>1, <1>2, <1>6, <1>7, <1>8, <1>9
    <2> HIDE DEF x
    <2>5. x = target
      <3>1. F * k - F * c = F * (k - c) /\ k - c \in Int BY <1>1
      <3>2. F * (k - c) = 0 BY <1>1, <2>1, <2>2, <2>3, <2>4, <3>1, SmallMultiple
      <3> QED BY <2>1, <2>2, <3>1, <3>2
    <2> QED BY <2>1, <2>5
  <1> QED BY <1>7, <1>13, <1>14 DEF T

(* What a call asks of the host's collateral is an amount. *)
LEMMA CappedType ==
  ASSUME NEW n \in Nat, NEW x \in Settings
  PROVE  Capped(n, x) \in Nat
  BY RenewalAssumption DEF Capped

LEMMA Product ==
  ASSUME NEW a \in Nat, NEW b \in Nat
  PROVE  a * b \in Nat
  OBVIOUS

LEMMA Quotient ==
  ASSUME NEW a \in Nat, NEW b \in Nat, b # 0
  PROVE  a \div b \in Nat
  <1>1. a \div b \in Int /\ a = b * (a \div b) + (a % b) /\ a % b < b BY DivMod
  <1> QED BY <1>1, SMTT(20)

LEMMA CollateralTypes ==
  ASSUME NEW x \in Settings, NEW payout \in Nat, NEW size \in Nat, NEW blocks \in Blocks
  PROVE  /\ FormCollateral(x, payout, blocks) \in Nat
         /\ RenewCollateral(x, payout, size, blocks) \in Nat
         /\ BasePrice(x, size, blocks) \in Nat
         /\ BaseCollateral(x, size, blocks) \in Nat
  <1>1. {x.price, x.storage, x.bytePrice, x.collateral, x.maxCollateral, blocks} \subseteq Nat
    BY RenewalAssumption
  <1>2. BasePrice(x, size, blocks) \in Nat BY <1>1, Product DEF BasePrice
  <1>3. BaseCollateral(x, size, blocks) \in Nat BY <1>1, Product DEF BaseCollateral
  <1>4. FormCollateral(x, payout, blocks) \in Nat
    <2> DEFINE b == x.bytePrice * blocks
    <2>1. b \in Nat BY <1>1, Product
    <2>2. FormCollateral(x, payout, blocks) =
            Capped(IF b = 0 THEN 0 ELSE x.collateral * (payout \div b) * blocks, x)
      BY DEF FormCollateral
    <2> HIDE DEF b
    <2>3. b # 0 => x.collateral * (payout \div b) * blocks \in Nat
      BY <1>1, <2>1, Quotient, Product
    <2> QED BY <2>1, <2>2, <2>3, CappedType
  <1>5. RenewCollateral(x, payout, size, blocks) \in Nat
    <2>1. x.bytePrice # 0 => x.collateral * (payout \div x.bytePrice) \in Nat
      BY <1>1, Quotient, Product
    <2>2. BaseCollateral(x, size, blocks)
            + (IF x.bytePrice = 0 THEN 0
               ELSE x.collateral * (payout \div x.bytePrice)) \in Nat
      BY <1>3, <2>1
    <2> QED BY <2>2, CappedType DEF RenewCollateral
  <1> QED BY <1>2, <1>3, <1>4, <1>5

(* fundSiacoins returns outputs of the wallet that are not spent, and that *)
(* are worth the amount.                                                   *)
LEMMA Funds ==
  ASSUME NEW wallet \in Wallets, NEW amount \in Int, amount >= 0,
         NEW inputs \in fundSiacoins(wallet, amount)
  PROVE  /\ inputs \in SUBSET UNION Wallets
         /\ Value(inputs) \in Nat
         /\ Value(inputs) >= amount
         /\ \A o \in inputs : o.at # "spent"
  <1>1. CASE amount = 0
    <2>1. inputs = {} BY <1>1 DEF fundSiacoins
    <2> QED BY <1>1, <2>1, ValueAssumption
  <1>2. CASE amount # 0
    <2>1. inputs \subseteq Candidates(wallet, amount) /\ Value(inputs) >= amount
      BY <1>2 DEF fundSiacoins, Trimmed
    <2>2. \A o \in Candidates(wallet, amount) : o \in wallet /\ o.at # "spent"
      BY DEF Candidates
    <2> QED BY <2>1, <2>2, ValueAssumption
  <1> QED BY <1>1, <1>2

(* The transactions and the revisions that calls propose. *)
LEMMA TransactionType ==
  ASSUME NEW inputs \in SUBSET UNION Wallets, NEW cost \in Int, NEW total \in Nat,
         NEW collateral \in Nat
  PROVE  Transaction(inputs, cost, total, collateral) \in Txn
  <1>1. Value(inputs) \in Nat BY ValueAssumption
  <1> QED BY <1>1 DEF Transaction, Txn

LEMMA FirstRevisionType ==
  ASSUME NEW size \in Nat, NEW root \in Seq(Sectors), NEW payout \in Nat,
         NEW host \in Nat, NEW void \in Nat, host >= void
  PROVE  FirstRevision(size, root, payout, host, void) \in Revision
  BY DEF FirstRevision, Revision

LEMMA NothingTypes ==
  /\ NoRevision \in Revision
  /\ NoLocal \in Negotiation
  /\ NoMessage \in Msg
  /\ Signal("additions") \in Msg /\ Signal("error") \in Msg
  /\ NoMessage.type = "none"
  /\ Signal("additions").type = "additions" /\ Signal("error").type = "error"
  <1>1. NoRevision \in Revision BY DEF NoRevision, Revision
  <1>2. NoTransaction \in Txn BY TransactionType DEF NoTransaction
  <1>3. NoLocal \in Negotiation BY <1>1, <1>2 DEF NoLocal, Negotiation
  <1> QED BY <1>1, <1>3 DEF NoMessage, Signal, Message, Msg

-----------------------------------------------------------------------------
(* Revisions. *)

(* The fields of a revision that a paid RPC proposes. *)
LEMMA OutputsAre ==
  ASSUME NEW rev \in Revision, NEW cost \in Nat, NEW col \in Nat
  PROVE  LET new == UpdateRevisionOutputs(rev, cost, col)
         IN  /\ new \in Revision
             /\ new.num = rev.num
             /\ new.vr = Sub(rev.vr, cost) /\ new.vh = rev.vh + cost
  <1> DEFINE r == [num |-> rev.num, size |-> rev.size, root |-> rev.root,
                   vr |-> Sub(rev.vr, cost), vh |-> rev.vh + cost,
                   mr |-> Sub(rev.mr, cost), mh |-> Sub(rev.mh, col),
                   mv |-> rev.mv + cost + col]
  <1>1. /\ {rev.num, rev.size, rev.vr, rev.vh, rev.mr, rev.mh, rev.mv} \subseteq Nat
        /\ rev.root \in Seq(Sectors)
    BY DEF Revision
  <1>2. /\ Sub(rev.vr, cost) \in Nat /\ rev.vh + cost \in Nat
        /\ Sub(rev.mr, cost) \in Nat /\ Sub(rev.mh, col) \in Nat
        /\ rev.mv + cost + col \in Nat
    BY <1>1 DEF Sub
  <1>3. r \in Revision BY <1>1, <1>2, Zenon DEF Revision
  <1>4. /\ r.num = rev.num /\ r.size = rev.size /\ r.root = rev.root
        /\ r.vr = Sub(rev.vr, cost) /\ r.vh = rev.vh + cost
        /\ r.mr = Sub(rev.mr, cost) /\ r.mh = Sub(rev.mh, col)
        /\ r.mv = rev.mv + cost + col
    OBVIOUS
  <1> HIDE DEF r
  <1>5. UpdateRevisionOutputs(rev, cost, col) = r
    BY <1>3, <1>4 DEF UpdateRevisionOutputs, Revision
  <1> QED BY <1>3, <1>4, <1>5

(* The revision that ends a contract keeps the sum of its valid outputs,   *)
(* takes nothing from the host, and is its last.                           *)
LEMMA FinalRevisionIs ==
  ASSUME NEW rev \in Revision
  PROVE  LET fin  == FinalRevision(rev)
             host == HostFinalRevision(rev, fin)
         IN  /\ fin \in Revision /\ host \in Revision
             /\ host.vr + host.vh = rev.vr + rev.vh
             /\ host.vh >= rev.vh
             /\ host.num = MaxNum
  <1> DEFINE pay  == FinalPayment(rev)
             paid == UpdateRevisionOutputs(rev, pay, 0)
             fin  == FinalRevision(rev)
             host == HostFinalRevision(rev, fin)
  <1>1. /\ pay \in Nat /\ pay <= rev.vr /\ MaxNum \in Nat
    BY RenewalAssumption DEF FinalPayment, Revision
  <1>2. /\ {rev.vr, rev.vh, rev.mv} \subseteq Nat /\ << >> \in Seq(Sectors)
    BY DEF Revision
  <1>3. fin = [paid EXCEPT !.mr = paid.vr, !.mh = paid.vh, !.mv = 0,
                           !.size = 0, !.root = << >>, !.num = MaxNum]
    BY DEF FinalRevision
  <1> HIDE DEF pay
  <1>4. /\ paid \in Revision
        /\ paid.vr = Sub(rev.vr, pay) /\ paid.vh = rev.vh + pay
    BY <1>1, OutputsAre
  <1>5. paid.vr = rev.vr - pay /\ {paid.vr, paid.vh} \subseteq Nat
    BY <1>1, <1>2, <1>4 DEF Sub
  <1> HIDE DEF paid, fin
  <1>6. fin \in Revision /\ fin.vr = paid.vr /\ fin.vh = paid.vh
                         /\ fin.mr = paid.vr /\ fin.mh = paid.vh
    <2> DEFINE r == [num |-> MaxNum, size |-> 0, root |-> << >>,
                     vr |-> paid.vr, vh |-> paid.vh,
                     mr |-> paid.vr, mh |-> paid.vh, mv |-> 0]
    <2>1. 0 \in Nat OBVIOUS
    <2>2. r \in Revision BY <1>1, <1>2, <1>5, <2>1, Zenon DEF Revision
    <2>3. /\ r.num = MaxNum /\ r.size = 0 /\ r.root = << >>
          /\ r.vr = paid.vr /\ r.vh = paid.vh
          /\ r.mr = paid.vr /\ r.mh = paid.vh /\ r.mv = 0
      OBVIOUS
    <2> HIDE DEF r
    <2>4. fin = r BY <1>3, <1>4, <2>2, <2>3 DEF Revision
    <2> QED BY <2>2, <2>3, <2>4
  <1>7. host \in Revision /\ host.vr = fin.vr /\ host.vh = fin.vh /\ host.num = MaxNum
    <2> DEFINE r == [num |-> MaxNum, size |-> 0, root |-> << >>,
                     vr |-> fin.vr, vh |-> fin.vh,
                     mr |-> fin.mr, mh |-> fin.mh, mv |-> rev.mv]
    <2>1. 0 \in Nat /\ rev.mv \in Nat BY <1>2
    <2>2. {fin.vr, fin.vh, fin.mr, fin.mh} \subseteq Nat BY <1>5, <1>6
    <2>3. r \in Revision BY <1>1, <1>2, <2>1, <2>2, Zenon DEF Revision
    <2>4. /\ r.num = MaxNum /\ r.size = 0 /\ r.root = << >>
          /\ r.vr = fin.vr /\ r.vh = fin.vh
          /\ r.mr = fin.mr /\ r.mh = fin.mh /\ r.mv = rev.mv
      OBVIOUS
    <2> HIDE DEF r
    <2>5. host = r BY <2>3, <2>4 DEF HostFinalRevision, Revision
    <2> QED BY <2>3, <2>4, <2>5
  <1> HIDE DEF host
  <1>8. host.vr + host.vh = rev.vr + rev.vh /\ host.vh >= rev.vh
    BY <1>1, <1>2, <1>4, <1>5, <1>6, <1>7
  <1> QED BY <1>6, <1>7, <1>8 DEF fin, host

(* A legal edit leaves a list of sectors. *)
LEMMA EditRootsType ==
  ASSUME NEW roots \in Seq(Sectors), NEW e \in Edit, EditIsLegal(roots, e)
  PROVE  EditRoots(roots, e) \in Seq(Sectors)
  <1>1. CASE e.op = "append" BY <1>1 DEF EditRoots, Edit
  <1>2. CASE e.op = "trim"
    BY <1>2, RenewalAssumption DEF EditRoots, Edit, EditIsLegal, Index
  <1>3. CASE e.op = "swap"
    BY <1>3, RenewalAssumption DEF EditRoots, Edit, EditIsLegal, Index
  <1> QED BY <1>1, <1>2, <1>3 DEF Edit

(* The revision that a Write stores is what its roots are. *)
Written(rev, e, price, col, roots) ==
  [Revise(rev, price, CollateralOf(rev, e, col)) EXCEPT !.size = Len(roots), !.root = roots]

LEMMA WriteRevision ==
  ASSUME NEW rev \in Revision, NEW e \in Edit, NEW price \in Prices,
         NEW col \in Collaterals, NEW roots \in Seq(Sectors)
  PROVE  LET new == Written(rev, e, price, col, roots)
         IN  /\ new \in Revision
             /\ new.root = roots /\ new.size = Len(roots) /\ new.num = rev.num + 1
  <1> DEFINE c    == CollateralOf(rev, e, col)
             paid == UpdateRevisionOutputs(rev, price, c)
             next == Revise(rev, price, c)
  <1>1. price \in Nat /\ col \in Nat BY RenewalAssumption
  <1>2. c \in Nat BY <1>1 DEF CollateralOf, Edit, Revision
  <1>3. next = [paid EXCEPT !.num = paid.num + 1] BY DEF Revise
  <1> HIDE DEF c
  <1>4. paid \in Revision /\ paid.num = rev.num BY <1>1, <1>2, OutputsAre
  <1> HIDE DEF paid, next
  <1> DEFINE new == [next EXCEPT !.size = Len(roots), !.root = roots]
             r   == [num |-> rev.num + 1, size |-> Len(roots), root |-> roots,
                     vr |-> paid.vr, vh |-> paid.vh,
                     mr |-> paid.mr, mh |-> paid.mh, mv |-> paid.mv]
  <1>5. {rev.num, paid.vr, paid.vh, paid.mr, paid.mh, paid.mv, Len(roots)} \subseteq Nat
    BY <1>4 DEF Revision
  <1>6. rev.num + 1 \in Nat BY <1>5
  <1>7. r \in Revision BY <1>5, <1>6, Zenon DEF Revision
  <1>8. /\ r.num = rev.num + 1 /\ r.size = Len(roots) /\ r.root = roots
        /\ r.vr = paid.vr /\ r.vh = paid.vh
        /\ r.mr = paid.mr /\ r.mh = paid.mh /\ r.mv = paid.mv
    OBVIOUS
  <1> HIDE DEF r
  <1>9. new = r BY <1>3, <1>4, <1>7, <1>8 DEF Revision
  <1> QED BY <1>7, <1>8, <1>9 DEF c, next, Written

-----------------------------------------------------------------------------
(* What a step leaves alone. *)

(* The two ends of a connection are not touched. *)
Idle(d) ==
  /\ pc'[d] = pc[d] /\ local'[d] = local[d]
  /\ hst'[d] = hst[d] /\ locked'[d] = locked[d] /\ hpend'[d] = hpend[d]
  /\ req'[d] = req[d] /\ resp'[d] = resp[d]

(* A connection that is not touched stays as it should be if its contract  *)
(* does, nobody stores a relative of the one that is to be formed on it,   *)
(* and what is lost and not returned stays lost.                           *)
LEMMA ConnectionKept ==
  ASSUME TypeOK, NEW d \in Calls, Connection(d), Idle(d),
         \A id \in 1 .. made : family'[id] = family[id],
         held \subseteq held',
         \A id \in Nat : Uses(d, id) => id \in 1 .. made,
         locked[d] \in DOMAIN contracts =>
           /\ locked[d] \in DOMAIN contracts'
           /\ contracts'[locked[d]] = contracts[locked[d]],
         \A id \in 1 .. made : Uses(d, id) /\ (\A k \in DOMAIN contracts : family[k] # id) =>
           \A k \in DOMAIN contracts' : family'[k] # id,
         hst[d] = "sigs" /\ family[hpend[d].id] \in lost => family[hpend[d].id] \in lost',
         \A id \in Nat : Uses(d, id) /\ id \in DOMAIN contracts => id \in DOMAIN contracts'
  PROVE  Connection(d)'
  <1>1. \A m \in {req[d], hpend[d]} : Proposal(m) => m.id \in 1 .. made /\ Uses(d, m.id)
    BY DEF TypeOK, Msg, Uses
  <1>2. locked[d] \in held \cup {0} /\ held \subseteq 1 .. made /\ DOMAIN contracts \subseteq 1 .. made
    BY DEF TypeOK
  <1>3. ASSUME NEW m \in {req[d], hpend[d]}, Proposal(m), Sound(d, m)
        PROVE  Sound(d, m)'
    <2>1. family'[m.id] = family[m.id] BY <1>1, <1>3
    <2>2. m.type = "form" => \A k \in DOMAIN contracts' : family'[k] # m.id
      BY <1>1, <1>3 DEF Sound
    <2>3. m.type = "renew" /\ hst[d] # "done" =>
            /\ locked[d] \in DOMAIN contracts
            /\ locked[d] \in DOMAIN contracts'
            /\ contracts'[locked[d]] = contracts[locked[d]]
            /\ family'[locked[d]] = family[locked[d]]
      BY <1>2, <1>3 DEF Sound
    <2> QED BY <1>3, <2>1, <2>2, <2>3 DEF Sound, Idle
  <1>4. /\ (Proposal(req[d]) => Sound(d, req[d]))'
        /\ (Proposal(hpend[d]) => Sound(d, hpend[d]))'
    BY <1>3 DEF Connection, Proposals, Idle, Proposal, Sound
  <1>5. Handler(d)' BY DEF Connection, Handler, Idle, Proposal
  <1>6. Proposals(d)'
    <2>1. (req[d].type = "renew" /\ hst[d] = "loop") \/ hpend[d].type = "renew" =>
            contracts'[locked[d]] = contracts[locked[d]]
      BY DEF Connection, Handler, Proposals, Proposal, Sound
    <2> QED BY <1>4, <2>1 DEF Connection, Proposals, Idle
  <1>7. Opened(d)' BY DEF Connection, Opened, Idle, Proposal
  <1>8. Negotiated(d)'
    <2>1. (Negotiating(d) => /\ Proposal(req[d]) => req[d].id = local[d].id
                             /\ Proposal(hpend[d]) => hpend[d].id = local[d].id)'
      BY DEF Connection, Negotiated, Idle, Proposal, Negotiating
    <2>2. (hst[d] = "sigs" /\ req[d].type = "signatures" =>
             pc[d] = "signatures" \/ family[hpend[d].id] \in lost)'
      BY <1>1 DEF Connection, Negotiated, Handler, Idle, TypeOK, Msg
    <2>3. (pc[d] = "signatures" /\ resp[d].type = "signatures" =>
             /\ local[d].id \in DOMAIN contracts
             /\ hst[d] # "sigs" /\ ~Proposal(req[d]))'
      <3>1. local[d].id \in Nat BY DEF TypeOK, Negotiation
      <3> QED BY <3>1 DEF Connection, Negotiated, Idle, Proposal, Negotiating, Uses
    <2> QED BY <2>1, <2>2, <2>3 DEF Negotiated
  <1> QED BY <1>5, <1>6, <1>7, <1>8 DEF Connection

(* Connections that take up no new id, and lock nothing that is locked. *)
LEMMA IdsKept ==
  ASSUME Ids, NEW c \in Calls,
         made' = made,
         \A d \in Calls : d # c => locked'[d] = locked[d],
         locked'[c] \in {0, locked[c]} \/ \A d \in Calls : locked[d] # locked'[c],
         \A d \in Calls, id \in Nat : Uses(d, id)' => Uses(d, id) /\ id \notin held'
  PROVE  Ids'
  <1>1. (\A d \in Calls, id \in Nat : Uses(d, id) => id \in (1 .. made) \ held)' BY DEF Ids
  <1>2. (\A b, d \in Calls, id \in Nat : Uses(b, id) /\ Uses(d, id) => b = d)' BY DEF Ids
  <1>3. (\A b, d \in Calls : locked[b] = locked[d] /\ locked[b] # 0 => b = d)' BY DEF Ids
  <1> QED BY <1>1, <1>2, <1>3 DEF Ids

LEMMA UsesIdle ==
  ASSUME NEW d \in Calls, Idle(d), NEW id \in Nat
  PROVE  Uses(d, id)' <=> Uses(d, id)
  BY DEF Uses, Idle, Negotiating, Proposal

LEMMA BalancedKept ==
  ASSUME Balanced,
         \A d \in Calls : Negotiating(d)' => Negotiating(d) /\ local'[d] = local[d]
  PROVE  Balanced'
  BY DEF Balanced, Negotiating

(* A step of one connection that leaves the host's books alone. *)
LEMMA Quiet ==
  ASSUME IInv, NEW c \in Calls, TypeOK', Connection(c)',
         UNCHANGED <<contracts, made, family, held>>, lost \subseteq lost',
         \A d \in Calls : d # c => Idle(d),
         locked'[c] \in {0, locked[c]} \/ \A d \in Calls : locked[d] # locked'[c],
         \A id \in Nat : Uses(c, id)' => Uses(c, id),
         Negotiating(c)' => Negotiating(c) /\ local'[c] = local[c],
         pc[c] = "signatures" =>
           (pc'[c] = "signatures" /\ local'[c] = local[c]) \/ family[local[c].id] \in lost'
  PROVE  IInv'
  <1>0. TypeOK /\ Books /\ Ids /\ (\A d \in Calls : Connection(d)) /\ Reachable /\ Balanced
    BY DEF IInv
  <1>1. Books' BY <1>0 DEF Books
  <1>2. Ids'
    <2>1. \A d \in Calls, id \in Nat : Uses(d, id)' => Uses(d, id) BY UsesIdle
    <2>2. \A d \in Calls, id \in Nat : Uses(d, id) => id \notin held' BY <1>0 DEF Ids
    <2>3. \A d \in Calls : d # c => locked'[d] = locked[d] BY DEF Idle
    <2> QED BY <1>0, <2>1, <2>2, <2>3, IdsKept
  <1>3. ASSUME NEW d \in Calls PROVE Connection(d)'
    <2>1. CASE d = c BY <2>1
    <2>2. CASE d # c
      <3>1. \A id \in Nat : Uses(d, id) => id \in 1 .. made BY <1>0 DEF Ids
      <3> QED BY <1>0, <2>2, <3>1, ConnectionKept
    <2> QED BY <2>1, <2>2
  <1>4. Reachable'
    <2> SUFFICES ASSUME NEW id \in DOMAIN contracts
                 PROVE  (\/ id \in held
                         \/ family[id] \in lost
                         \/ \E d \in Calls : pc[d] = "signatures" /\ local[d].id = id)'
      BY DEF Reachable
    <2>1. CASE id \in held \/ family[id] \in lost BY <2>1
    <2>2. ASSUME NEW d \in Calls, pc[d] = "signatures", local[d].id = id
          PROVE  family[id] \in lost' \/ (pc'[d] = "signatures" /\ local'[d].id = id)
      BY <2>2 DEF Idle
    <2> QED BY <1>0, <2>1, <2>2 DEF Reachable
  <1>5. Balanced'
    <2>1. \A d \in Calls : Negotiating(d)' => Negotiating(d) /\ local'[d] = local[d]
      BY DEF Negotiating, Idle
    <2> QED BY <1>0, <2>1, BalancedKept
  <1> QED BY <1>1, <1>2, <1>3, <1>4, <1>5 DEF IInv

-----------------------------------------------------------------------------
(* The steps that leave the host's books alone. *)

LEMMA MessageFields ==
  ASSUME NEW t, NEW id, NEW rev, NEW fin
  PROVE  LET m == Message(t, id, rev, fin)
         IN  m.type = t /\ m.id = id /\ m.rev = rev /\ m.final = fin
  BY DEF Message

LEMMA SignStep ==
  ASSUME IInv, NEW c \in Calls, Sign(c)
  PROVE  IInv'
  <1>0. TypeOK /\ Connection(c) BY DEF IInv
  <1>1. /\ pc[c] = "additions" /\ pc'[c] = "signatures"
        /\ req'[c] = Message("signatures", local[c].id, local[c].rev, local[c].final)
        /\ resp'[c] = NoMessage
        /\ UNCHANGED <<local, hst, locked, hpend, contracts, made, family, held, lost>>
        /\ \A d \in Calls : d # c => Idle(d)
    BY <1>0 DEF Sign, TypeOK, Idle, bookVars
  <1>2. /\ req'[c].type = "signatures" /\ resp'[c].type = "none"
    BY <1>1, MessageFields, NothingTypes
  <1>3. TypeOK'
    <2>1. req'[c] \in Msg BY <1>0, <1>1 DEF TypeOK, Message, Msg, Negotiation
    <2>2. req' \in [Calls -> Msg] BY <1>0, <2>1 DEF Sign, TypeOK
    <2>3. resp' \in [Calls -> Msg] BY <1>0, NothingTypes DEF Sign, TypeOK
    <2>4. pc' \in [Calls -> {"idle", "open", "additions", "signatures"}]
      BY <1>0 DEF Sign, TypeOK
    <2> QED BY <1>0, <1>1, <2>2, <2>3, <2>4 DEF TypeOK
  <1>4. Connection(c)'
    <2>1. Handler(c)' BY <1>0, <1>1, <1>2 DEF Connection, Handler, Proposal
    <2>2. Proposals(c)' BY <1>0, <1>1, <1>2 DEF Connection, Proposals, Proposal, Sound
    <2>3. Opened(c)' BY <1>1 DEF Opened
    <2>4. Negotiated(c)'
      BY <1>0, <1>1, <1>2 DEF Connection, Negotiated, Negotiating, Proposal
    <2> QED BY <2>1, <2>2, <2>3, <2>4 DEF Connection
  <1>5. \A id \in Nat : Uses(c, id)' => Uses(c, id)
    BY <1>1, <1>2 DEF Uses, Negotiating, Proposal
  <1> QED BY <1>1, <1>3, <1>4, <1>5, Quiet DEF Negotiating

LEMMA SignFailsStep ==
  ASSUME IInv, NEW c \in Calls, SignFails(c)
  PROVE  IInv'
  <1>0. TypeOK /\ Connection(c) BY DEF IInv
  <1>1. /\ pc[c] = "additions" /\ pc'[c] = "idle"
        /\ req'[c] = Signal("error") /\ resp'[c] = NoMessage
        /\ UNCHANGED <<hst, locked, hpend, contracts, made, family, held, lost>>
        /\ \A d \in Calls : d # c => Idle(d)
    BY <1>0 DEF SignFails, TypeOK, Idle, bookVars
  <1>2. req'[c].type = "error" /\ resp'[c].type = "none"
    BY <1>1, NothingTypes
  <1>3. TypeOK'
    <2>1. /\ req' \in [Calls -> Msg] /\ resp' \in [Calls -> Msg]
          /\ local' \in [Calls -> Negotiation]
          /\ pc' \in [Calls -> {"idle", "open", "additions", "signatures"}]
      BY <1>0, NothingTypes DEF SignFails, TypeOK
    <2> QED BY <1>0, <1>1, <2>1 DEF TypeOK
  <1>4. Connection(c)'
    <2>1. Handler(c)' BY <1>0, <1>1, <1>2 DEF Connection, Handler, Proposal
    <2>2. Proposals(c)' BY <1>0, <1>1, <1>2 DEF Connection, Proposals, Proposal, Sound
    <2>3. Opened(c)' BY <1>1 DEF Opened
    <2>4. Negotiated(c)'
      BY <1>0, <1>1, <1>2 DEF Connection, Negotiated, Negotiating, Proposal
    <2> QED BY <2>1, <2>2, <2>3, <2>4 DEF Connection
  <1>5. \A id \in Nat : Uses(c, id)' => Uses(c, id)
    BY <1>1, <1>2 DEF Uses, Negotiating, Proposal
  <1> QED BY <1>1, <1>3, <1>4, <1>5, Quiet DEF Negotiating

(* A call that fails once it has signed counts its contract as lost; its   *)
(* handler may store it later.                                             *)
LEMMA RenterFailStep ==
  ASSUME IInv, NEW c \in Calls, RenterFail(c)
  PROVE  IInv'
  <1>0. TypeOK /\ Connection(c) /\ Ids BY DEF IInv
  <1>1. /\ pc'[c] = "idle" /\ resp'[c] = NoMessage
        /\ UNCHANGED <<hst, locked, hpend, req, contracts, made, family, held>>
        /\ \A d \in Calls : d # c => Idle(d)
    BY <1>0 DEF RenterFail, TypeOK, Idle
  <1>2. resp'[c].type = "none" BY <1>1, NothingTypes
  <1>3. /\ lost \subseteq lost'
        /\ pc[c] = "signatures" => family[local[c].id] \in lost'
    BY DEF RenterFail
  <1>4. TypeOK'
    <2>1. /\ resp' \in [Calls -> Msg] /\ local' \in [Calls -> Negotiation]
          /\ pc' \in [Calls -> {"idle", "open", "additions", "signatures"}]
      BY <1>0, NothingTypes DEF RenterFail, TypeOK
    <2>2. pc[c] = "signatures" => local[c].id \in 1 .. made
      BY <1>0 DEF Ids, Uses, Negotiating, TypeOK, Negotiation
    <2>3. lost' \subseteq 1 .. made
      BY <1>0, <2>2 DEF RenterFail, TypeOK
    <2> QED BY <1>0, <1>1, <2>1, <2>3 DEF TypeOK
  <1>5. Connection(c)'
    <2>1. Handler(c)' BY <1>0, <1>1 DEF Connection, Handler, Proposal
    <2>2. Proposals(c)' BY <1>0, <1>1 DEF Connection, Proposals, Proposal, Sound
    <2>3. Opened(c)' BY <1>1 DEF Opened
    <2>4. Negotiated(c)'
      BY <1>0, <1>1, <1>2, <1>3 DEF Connection, Handler, Negotiated, Negotiating, Proposal
    <2> QED BY <2>1, <2>2, <2>3, <2>4 DEF Connection
  <1>6. \A id \in Nat : Uses(c, id)' => Uses(c, id)
    BY <1>1 DEF Uses, Negotiating, Proposal
  <1> QED BY <1>1, <1>3, <1>4, <1>5, <1>6, Quiet DEF Negotiating

(* The handler takes the proposal over as it is, and the final revision of *)
(* the contract that it has locked.                                        *)
LEMMA HostAdditionsStep ==
  ASSUME IInv, NEW c \in Calls, HostAdditions(c)
  PROVE  IInv'
  <1>0. TypeOK /\ Connection(c) BY DEF IInv
  <1> DEFINE new == IF req[c].type = "form" THEN req[c]
                    ELSE [req[c] EXCEPT !.final = HostFinalRevision(contracts[locked[c]].rev, @)]
  <1>1. /\ hst[c] = "loop" /\ Proposal(req[c])
        /\ hst'[c] = "sigs" /\ hpend'[c] = new
        /\ req'[c] = NoMessage /\ resp'[c] = Signal("additions")
        /\ UNCHANGED <<pc, local, locked, contracts, made, family, held, lost>>
        /\ \A d \in Calls : d # c => Idle(d)
    BY <1>0 DEF HostAdditions, Proposal, TypeOK, Idle, bookVars
  <1>2. req'[c].type = "none" /\ resp'[c].type = "additions"
    BY <1>1, NothingTypes
  <1>3. /\ new \in Msg /\ new.type = req[c].type /\ new.id = req[c].id /\ new.rev = req[c].rev
        /\ new.type = "renew" =>
             new.final = HostFinalRevision(contracts[locked[c]].rev,
                                           FinalRevision(contracts[locked[c]].rev))
    <2>1. req[c] \in Msg BY <1>0 DEF TypeOK
    <2>2. CASE req[c].type = "form" BY <2>1, <2>2
    <2>3. CASE req[c].type = "renew"
      <3>1. /\ req[c].final = FinalRevision(contracts[locked[c]].rev)
            /\ locked[c] \in DOMAIN contracts
        BY <1>0, <1>1, <2>3 DEF Connection, Proposals, Sound, Proposal
      <3>2. contracts[locked[c]].rev \in Revision
        BY <1>0, <3>1 DEF TypeOK, Contract
      <3> DEFINE host == HostFinalRevision(contracts[locked[c]].rev,
                                           FinalRevision(contracts[locked[c]].rev))
      <3>3. host \in Revision BY <3>2, FinalRevisionIs
      <3>4. new = [req[c] EXCEPT !.final = host] BY <2>3, <3>1
      <3> HIDE DEF host, new
      <3>5. new \in Msg /\ new.type = req[c].type /\ new.id = req[c].id
            /\ new.rev = req[c].rev /\ new.final = host
        BY <2>1, <3>3, <3>4 DEF Msg
      <3> QED BY <3>5 DEF host
    <2> QED BY <1>1, <2>2, <2>3 DEF Proposal
  <1> HIDE DEF new
  <1>4. TypeOK'
    <2>1. hpend' \in [Calls -> Msg] BY <1>0, <1>3 DEF HostAdditions, TypeOK, new
    <2>2. /\ req' \in [Calls -> Msg] /\ resp' \in [Calls -> Msg]
          /\ hst' \in [Calls -> {"done", "loop", "sigs"}]
      BY <1>0, NothingTypes DEF HostAdditions, TypeOK
    <2> QED BY <1>0, <1>1, <2>1, <2>2 DEF TypeOK
  <1>5. Connection(c)'
    <2>1. Handler(c)' BY <1>1, <1>2, <1>3 DEF Handler, Proposal
    <2>2. Sound(c, req[c]) /\ hst[c] # "done" BY <1>0, <1>1 DEF Connection, Proposals
    <2>3. Sound(c, hpend[c])' BY <1>1, <1>3, <2>2 DEF Sound
    <2>4. Proposals(c)' BY <1>1, <1>2, <1>3, <2>3 DEF Proposals, Proposal
    <2>5. Opened(c)' BY <1>0, <1>1 DEF Connection, Opened
    <2>6. Negotiated(c)'
      BY <1>0, <1>1, <1>2, <1>3 DEF Connection, Negotiated, Negotiating, Proposal
    <2> QED BY <2>1, <2>4, <2>5, <2>6 DEF Connection
  <1>6. \A id \in Nat : Uses(c, id)' => Uses(c, id)
    BY <1>1, <1>2, <1>3 DEF Uses, Negotiating, Proposal
  <1> QED BY <1>1, <1>4, <1>5, <1>6, Quiet DEF Negotiating

LEMMA HostDropStep ==
  ASSUME IInv, NEW c \in Calls, HostDrop(c)
  PROVE  IInv'
  <1>0. TypeOK /\ Connection(c) BY DEF IInv
  <1>1. /\ hst'[c] = "done" /\ locked'[c] = 0 /\ hpend'[c] = NoMessage /\ req'[c] = NoMessage
        /\ UNCHANGED <<pc, local, resp, contracts, made, family, held, lost>>
        /\ \A d \in Calls : d # c => Idle(d)
    BY <1>0 DEF HostDrop, TypeOK, Idle, bookVars
  <1>2. req'[c].type = "none" /\ hpend'[c].type = "none"
    BY <1>1, NothingTypes
  <1>3. TypeOK'
    <2>1. /\ req' \in [Calls -> Msg] /\ hpend' \in [Calls -> Msg]
          /\ hst' \in [Calls -> {"done", "loop", "sigs"}]
          /\ locked' \in [Calls -> held \cup {0}]
      BY <1>0, NothingTypes DEF HostDrop, TypeOK
    <2> QED BY <1>0, <1>1, <2>1 DEF TypeOK
  <1>4. Connection(c)'
    <2>1. Handler(c)' BY <1>1, <1>2 DEF Handler, Proposal
    <2>2. Proposals(c)' BY <1>1, <1>2 DEF Proposals, Proposal
    <2>3. Opened(c)' BY <1>0, <1>1, <1>2 DEF Connection, Opened, Proposal
    <2>4. Negotiated(c)'
      BY <1>0, <1>1, <1>2 DEF Connection, Negotiated, Negotiating, Proposal
    <2> QED BY <2>1, <2>2, <2>3, <2>4 DEF Connection
  <1>5. \A id \in Nat : Uses(c, id)' => Uses(c, id)
    BY <1>1, <1>2 DEF Uses, Negotiating, Proposal
  <1> QED BY <1>1, <1>3, <1>4, <1>5, Quiet DEF Negotiating

(* A call learns the revision of the contract that it locks. *)
LEMMA LockStep ==
  ASSUME IInv, NEW c \in Calls, NEW id \in held, Lock(c, id)
  PROVE  IInv'
  <1>0. TypeOK /\ Connection(c) /\ Books BY DEF IInv
  <1>1. /\ pc[c] = "idle" /\ hst[c] = "done" /\ id \in DOMAIN contracts
        /\ pc'[c] = "open" /\ hst'[c] = "loop" /\ locked'[c] = id
        /\ local'[c] = [NoLocal EXCEPT !.old = id, !.rev = contracts[id].rev]
        /\ req'[c] = NoMessage /\ resp'[c] = NoMessage
        /\ UNCHANGED <<hpend, contracts, made, family, held, lost>>
        /\ \A d \in Calls : d # c => Idle(d)
        /\ \A d \in Calls : locked[d] # id
    BY <1>0 DEF Lock, Dials, LockAvailable, TypeOK, Idle, bookVars
  <1>2. req'[c].type = "none" /\ resp'[c].type = "none"
    BY <1>1, NothingTypes
  <1>3. /\ contracts[id].rev \in Revision /\ id \in Nat
    BY <1>0, <1>1 DEF TypeOK, Contract
  <1>4. /\ local'[c] \in Negotiation
        /\ local'[c].old = id /\ local'[c].rev = contracts[id].rev
    BY <1>1, <1>3, NothingTypes DEF Negotiation
  <1>5. TypeOK'
    <2>1. /\ req' \in [Calls -> Msg] /\ resp' \in [Calls -> Msg]
          /\ hst' \in [Calls -> {"done", "loop", "sigs"}]
          /\ pc' \in [Calls -> {"idle", "open", "additions", "signatures"}]
          /\ locked' \in [Calls -> held \cup {0}]
      BY <1>0, NothingTypes DEF Lock, TypeOK
    <2>2. local' \in [Calls -> Negotiation] BY <1>0, <1>1, <1>4 DEF Lock, TypeOK
    <2> QED BY <1>0, <1>1, <2>1, <2>2 DEF TypeOK
  <1>6. Connection(c)'
    <2>0. hpend'[c].type = "none" BY <1>0, <1>1 DEF Connection, Handler
    <2>1. Handler(c)' BY <1>1, <1>2, <2>0 DEF Handler, Proposal
    <2>2. Proposals(c)' BY <1>1, <1>2, <2>0 DEF Proposals, Proposal
    <2>3. Opened(c)'
      <3>1. contracts[id].rev.size = Len(contracts[id].rev.root) BY <1>0, <1>1 DEF Books
      <3> QED BY <1>1, <1>2, <1>4, <3>1 DEF Opened, Proposal
    <2>4. Negotiated(c)' BY <1>1, <1>2 DEF Negotiated, Negotiating
    <2> QED BY <2>1, <2>2, <2>3, <2>4 DEF Connection
  <1>7. \A k \in Nat : Uses(c, k)' => Uses(c, k)
    BY <1>1, <1>2 DEF Uses, Negotiating, Proposal
  <1> QED BY <1>1, <1>5, <1>6, <1>7, Quiet DEF Negotiating

-----------------------------------------------------------------------------
(* The requests. *)

(* What Balanced says of a call's transaction and revision. *)
Pays(t, r) ==
  /\ \A o \in t.inputs : o.at # "spent"
  /\ t.change >= 0
  /\ Value(t.inputs) + t.collateral = t.total + Fee + t.change
  /\ r.vr + r.vh = t.total - Tax(t.total)
  /\ r.mr + r.mh + r.mv = t.total - Tax(t.total)
  /\ r.mh >= 0

(* The new contract joins its family, and nothing changes for the others.  *)
LEMMA FamilyGrows ==
  ASSUME TypeOK, NEW x \in 1 .. made + 1, family' = Append(family, x), made' = made + 1
  PROVE  /\ family' \in [1 .. made' -> 1 .. made']
         /\ \A id \in 1 .. made : family'[id] = family[id]
         /\ family'[made + 1] = x
  <1>1. made \in Nat /\ family \in [1 .. made -> 1 .. made] BY DEF TypeOK
  <1>2. family \in Seq(1 .. made) /\ Len(family) = made BY <1>1
  <1>3. family' \in Seq(1 .. made + 1) /\ Len(family') = made + 1
    <2>1. family \in Seq(1 .. made + 1) BY <1>1, <1>2
    <2> QED BY <1>2, <2>1
  <1>4. \A id \in 1 .. made + 1 : family'[id] = IF id = made + 1 THEN x ELSE family[id]
    BY <1>1, <1>2
  <1>5. family' \in [1 .. made' -> 1 .. made']
    <2> DEFINE f == family'
    <2>1. f \in Seq(1 .. made + 1) /\ Len(f) = made + 1 BY <1>3
    <2> HIDE DEF f
    <2>2. DOMAIN f = 1 .. made + 1 /\ f \in [1 .. made + 1 -> 1 .. made + 1] BY <1>1, <2>1, LenProperties
    <2> QED BY <2>2 DEF f
  <1> QED BY <1>1, <1>4, <1>5

LEMMA RequestStep ==
  ASSUME IInv, NEW c \in Calls,
         NEW type \in {"form", "renew"}, NEW old \in Nat, NEW rev \in Revision,
         NEW fin \in Revision, NEW txn \in Txn,
         Request(c, type, old, rev, fin, txn),
         pc[c] \in {"idle", "open"}, hst[c] # "sigs",
         hst' \in [Calls -> {"done", "loop", "sigs"}],
         hst'[c] # "sigs", hst'[c] = "done" => locked[c] = 0,
         \A d \in Calls : d # c => hst'[d] = hst[d],
         rev.num < MaxNum, rev.size = Len(rev.root),
         type = "form" =>
           old = 0 /\ locked[c] = 0 /\ rev.root = << >> /\ hst'[c] = "loop",
         type = "renew" =>
           /\ old \in held
           /\ hst'[c] = "loop" =>
                /\ locked[c] = old /\ old \in DOMAIN contracts
                /\ rev.root = contracts[old].roots
                /\ fin = FinalRevision(contracts[old].rev),
         Pays(txn, rev)
  PROVE  IInv'
  <1> DEFINE id  == made + 1
             msg == Message(type, id, rev, fin)
             new == [old |-> old, id |-> id, rev |-> rev, final |-> fin, txn |-> txn]
             x   == IF old = 0 THEN id ELSE family[old]
  <1>0. /\ TypeOK /\ Books /\ Ids /\ Reachable /\ Balanced
        /\ \A d \in Calls : Connection(d)
    BY DEF IInv
  <1>1. /\ made \in Nat /\ id \in Nat /\ held \subseteq 1 .. made /\ lost \subseteq 1 .. made
        /\ DOMAIN contracts \subseteq 1 .. made
        /\ family \in [1 .. made -> 1 .. made]
    BY <1>0 DEF TypeOK
  <1>2. /\ made' = id /\ family' = Append(family, x)
        /\ pc'[c] = "additions" /\ local'[c] = new /\ req'[c] = msg /\ resp'[c] = NoMessage
        /\ UNCHANGED <<contracts, held, lost, locked, hpend>>
        /\ \A d \in Calls : d # c => Idle(d)
    BY <1>0 DEF Request, TypeOK, Idle
  <1>3. new \in Negotiation /\ new.id = id /\ new.txn = txn /\ new.rev = rev
    BY <1>1 DEF Negotiation
  <1>4. /\ msg \in Msg /\ msg.type = type /\ msg.id = id /\ msg.rev = rev /\ msg.final = fin
    BY <1>1 DEF Message, Msg
  <1>5. old # 0 => type = "renew" /\ old \in held /\ old \in 1 .. made
    BY <1>1
  <1>6. x \in 1 .. made + 1 BY <1>1, <1>5
  <1> HIDE DEF msg, new, x
  <1>7. /\ family' \in [1 .. id -> 1 .. id]
        /\ \A k \in 1 .. made : family'[k] = family[k]
        /\ family'[id] = x
    BY <1>0, <1>2, <1>6, FamilyGrows
  <1>a. /\ UNCHANGED <<contracts, held, lost>> /\ DOMAIN contracts' = DOMAIN contracts
        /\ \A k \in DOMAIN contracts \cup held : family'[k] = family[k]
    BY <1>1, <1>2, <1>7
  <1>8. hpend[c].type = "none" /\ hpend'[c].type = "none"
    BY <1>0, <1>2 DEF Connection, Handler
  <1>9. TypeOK'
    <2>1. local' \in [Calls -> Negotiation] BY <1>0, <1>3 DEF Request, TypeOK, new
    <2>2. req' \in [Calls -> Msg] BY <1>0, <1>4 DEF Request, TypeOK, msg
    <2>3. /\ resp' \in [Calls -> Msg]
          /\ pc' \in [Calls -> {"idle", "open", "additions", "signatures"}]
      BY <1>0, NothingTypes DEF Request, TypeOK
    <2>4. held \subseteq 1 .. id /\ lost \subseteq 1 .. id /\ DOMAIN contracts \subseteq 1 .. id
      BY <1>1
    <2> QED BY <1>0, <1>1, <1>2, <1>7, <2>1, <2>2, <2>3, <2>4 DEF TypeOK
  <1>10. Books'
    <2>2. (\A k, l \in DOMAIN contracts : family[k] = family[l] => k = l)'
      BY <1>0, <1>a DEF Books
    <2>3. (\A k \in held : \E l \in DOMAIN contracts : family[l] = family[k])'
      BY <1>0, <1>a DEF Books
    <2> QED BY <1>0, <1>a, <2>2, <2>3 DEF Books
  <1>11. Ids'
    <2>1. \A k \in Nat : Uses(c, k)' => k = id
      BY <1>2, <1>3, <1>4, <1>8 DEF Uses, Proposal
    <2>2. \A d \in Calls, k \in Nat : d # c /\ Uses(d, k)' => Uses(d, k)
      BY <1>2, UsesIdle
    <2>3. \A d \in Calls, k \in Nat : Uses(d, k) => k \in (1 .. made) \ held
      BY <1>0 DEF Ids
    <2>4. id \in (1 .. id) \ held /\ id \notin 1 .. made BY <1>1
    <2>5. (\A d \in Calls, k \in Nat : Uses(d, k) => k \in (1 .. made) \ held)'
      <3> SUFFICES ASSUME NEW d \in Calls, NEW k \in Nat, Uses(d, k)'
                   PROVE  k \in (1 .. id) \ held
        BY <1>2
      <3> QED BY <1>1, <2>1, <2>2, <2>3, <2>4
    <2>6. (\A b, d \in Calls, k \in Nat : Uses(b, k) /\ Uses(d, k) => b = d)'
      <3> SUFFICES ASSUME NEW b \in Calls, NEW d \in Calls, NEW k \in Nat,
                          Uses(b, k)', Uses(d, k)'
                   PROVE  b = d
        OBVIOUS
      <3> QED BY <1>0, <2>1, <2>2, <2>3, <2>4 DEF Ids
    <2>7. (\A b, d \in Calls : locked[b] = locked[d] /\ locked[b] # 0 => b = d)'
      BY <1>0, <1>2 DEF Ids
    <2> QED BY <2>5, <2>6, <2>7 DEF Ids
  <1>12. ASSUME NEW d \in Calls PROVE Connection(d)'
    <2>1. CASE d = c
      <3>1. Handler(c)' BY <1>2, <1>4, <1>8 DEF Handler, Proposal
      <3>2. Sound(c, req[c])'
        <4>1. type = "form" =>
                family'[id] = id /\ \A k \in DOMAIN contracts : family'[k] # id
          BY <1>1, <1>7 DEF x
        <4>2. type = "renew" /\ hst'[c] # "done" =>
                family'[id] = family'[locked[c]] /\ old = locked[c]
          BY <1>1, <1>5, <1>7 DEF x
        <4> QED BY <1>2, <1>4, <4>1, <4>2 DEF Sound
      <3>3. Proposals(c)' BY <1>2, <1>4, <1>8, <3>2 DEF Proposals, Proposal
      <3>4. Opened(c)' BY <1>2 DEF Opened
      <3>5. Negotiated(c)'
        BY <1>2, <1>3, <1>4, <1>8 DEF Negotiated, Negotiating, Proposal
      <3> QED BY <2>1, <3>1, <3>3, <3>4, <3>5 DEF Connection
    <2>2. CASE d # c
      <3>1. \A k \in Nat : Uses(d, k) => k \in 1 .. made BY <1>0 DEF Ids
      <3> QED BY <1>0, <1>1, <1>2, <1>7, <2>2, <3>1, ConnectionKept
    <2> QED BY <2>1, <2>2
  <1>13. Reachable'
    <2>1. \A d \in Calls : pc[d] = "signatures" => pc'[d] = pc[d] /\ local'[d] = local[d]
      BY <1>2 DEF Idle
    <2> QED BY <1>0, <1>a, <2>1 DEF Reachable
  <1>14. Balanced'
    <2> SUFFICES ASSUME NEW d \in Calls, Negotiating(d)'
                 PROVE  Pays(local'[d].txn, local'[d].rev)
      BY DEF Balanced, Pays, Negotiating
    <2>1. CASE d = c BY <1>2, <1>3, <2>1
    <2>2. CASE d # c BY <1>0, <1>2, <2>2 DEF Balanced, Pays, Negotiating, Idle
    <2> QED BY <2>1, <2>2
  <1> QED BY <1>9, <1>10, <1>11, <1>12, <1>13, <1>14 DEF IInv

(* The two calls add up the cost of their transactions in different ways,  *)
(* and come to the same.                                                   *)
LEMMA PaysFor ==
  ASSUME NEW payout \in Nat, NEW host \in Nat, NEW void \in Nat, host >= void,
         NEW collateral \in Nat, collateral <= host,
         NEW size, NEW root, NEW cost, NEW wallet \in Wallets,
         LET total == taxAdjustedPayout(payout + host)
         IN  cost = total - collateral + Fee,
         NEW inputs \in fundSiacoins(wallet, cost)
  PROVE  LET txn == Transaction(inputs, cost, taxAdjustedPayout(payout + host), collateral)
         IN  /\ txn \in Txn
             /\ Pays(txn, FirstRevision(size, root, payout, host, void))
  <1> DEFINE total == taxAdjustedPayout(payout + host)
             tax   == Tax(total)
             txn   == Transaction(inputs, cost, total, collateral)
             rev   == FirstRevision(size, root, payout, host, void)
  <1>1. /\ total \in Nat /\ total >= payout + host /\ total - tax = payout + host
    BY TaxAdjusted
  <1>2. cost = total - collateral + Fee OBVIOUS
  <1> HIDE DEF total, tax
  <1>3. Fee \in Nat BY PayoutsAssumption
  <1>4. cost \in Int /\ cost >= 0 BY <1>1, <1>2, <1>3
  <1>5. /\ inputs \in SUBSET UNION Wallets
        /\ Value(inputs) \in Nat /\ Value(inputs) >= cost
        /\ \A o \in inputs : o.at # "spent"
    BY <1>4, Funds
  <1>6. txn \in Txn BY <1>1, <1>4, <1>5, TransactionType
  <1>7. /\ txn.inputs = inputs /\ txn.total = total /\ txn.collateral = collateral
        /\ txn.change = Value(inputs) - cost
    BY DEF Transaction
  <1>8. /\ rev.vr = payout /\ rev.vh = host
        /\ rev.mr = payout /\ rev.mh = host - void /\ rev.mv = void
    BY DEF FirstRevision
  <1> HIDE DEF txn, rev
  <1>9. /\ txn.change >= 0
        /\ Value(txn.inputs) + txn.collateral = txn.total + Fee + txn.change
    BY <1>1, <1>2, <1>3, <1>4, <1>5, <1>7
  <1>10. /\ rev.vr + rev.vh = txn.total - Tax(txn.total)
         /\ rev.mr + rev.mh + rev.mv = txn.total - Tax(txn.total)
         /\ rev.mh >= 0
    BY <1>1, <1>7, <1>8 DEF tax
  <1>11. Pays(txn, rev) BY <1>5, <1>7, <1>9, <1>10 DEF Pays
  <1> QED BY <1>6, <1>11 DEF txn, rev, total

LEMMA FormContractStep ==
  ASSUME IInv, NEW c \in Calls, FormContract(c)
  PROVE  IInv'
  <1>0. TypeOK /\ Connection(c) BY DEF IInv
  <1>1. PICK x \in Settings, payout \in RenterPayouts, blocks \in Blocks, wallet \in Wallets :
          LET collateral == FormCollateral(x, payout, blocks)
              host       == x.price + collateral
              total      == taxAdjustedPayout(payout + host)
              cost       == payout + x.price + Tax(total) + Fee
          IN  \E inputs \in fundSiacoins(wallet, cost) :
                /\ Request(c, "form", 0, FirstRevision(0, << >>, payout, host, 0), NoRevision,
                           Transaction(inputs, cost, total, collateral))
                /\ hst' = [hst EXCEPT ![c] = "loop"]
    BY DEF FormContract
  <1> DEFINE collateral == FormCollateral(x, payout, blocks)
             host       == x.price + collateral
             total      == taxAdjustedPayout(payout + host)
             cost       == payout + x.price + Tax(total) + Fee
  <1>2. PICK inputs \in fundSiacoins(wallet, cost) :
          /\ Request(c, "form", 0, FirstRevision(0, << >>, payout, host, 0), NoRevision,
                     Transaction(inputs, cost, total, collateral))
          /\ hst' = [hst EXCEPT ![c] = "loop"]
    BY <1>1
  <1> DEFINE rev == FirstRevision(0, << >>, payout, host, 0)
             txn == Transaction(inputs, cost, total, collateral)
  <1>3. x.price \in Nat /\ payout \in Nat BY RenewalAssumption
  <1>4. collateral \in Nat
    <2>1. 0 \in Nat OBVIOUS
    <2> QED BY <1>3, <2>1, CollateralTypes
  <1> HIDE DEF collateral
  <1>5. host \in Nat /\ collateral <= host BY <1>3, <1>4
  <1>6. cost = total - collateral + Fee
    <2>1. total \in Nat /\ total - Tax(total) = payout + host BY <1>3, <1>5, TaxAdjusted
    <2>2. Fee \in Nat BY PayoutsAssumption
    <2>3. Tax(total) \in Int
      <3> DEFINE tax == (total * 39) \div 1000
      <3>1. tax \in Int BY <2>1
      <3> HIDE DEF tax
      <3>2. tax % SiafundCount \in Int BY <3>1, PayoutsAssumption, DivMod
      <3> QED BY <3>1, <3>2 DEF Tax, tax
    <2> HIDE DEF total
    <2> QED BY <1>3, <1>4, <2>1, <2>2, <2>3
  <1>7. txn \in Txn /\ Pays(txn, rev)
    <2>1. 0 \in Nat /\ host >= 0 BY <1>5
    <2> QED BY <1>3, <1>4, <1>5, <1>6, <2>1, PaysFor
  <1>8. rev \in Revision
    <2>1. 0 \in Nat /\ host >= 0 /\ << >> \in Seq(Sectors) BY <1>5
    <2> QED BY <1>3, <1>5, <2>1, FirstRevisionType
  <1>9. rev.num < MaxNum /\ rev.size = Len(rev.root) /\ rev.root = << >>
    BY RenewalAssumption DEF FirstRevision
  <1>10. /\ pc[c] = "idle" /\ hst[c] = "done" /\ locked[c] = 0
    BY <1>0 DEF FormContract, Dials, Connection, Handler
  <1>11. /\ hst' \in [Calls -> {"done", "loop", "sigs"}] /\ hst'[c] = "loop"
         /\ \A d \in Calls : d # c => hst'[d] = hst[d]
    BY <1>0, <1>2 DEF TypeOK
  <1>12. Request(c, "form", 0, rev, NoRevision, txn) BY <1>2
  <1>13. NoRevision \in Revision /\ 0 \in Nat BY NothingTypes
  <1> HIDE DEF rev, txn
  <1> QED BY <1>7, <1>8, <1>9, <1>10, <1>11, <1>12, <1>13, RequestStep

LEMMA RenewContractStep ==
  ASSUME IInv, NEW c \in Calls, RenewContract(c)
  PROVE  IInv'
  <1>0. TypeOK /\ Connection(c) /\ Books BY DEF IInv
  <1> DEFINE old == local[c].rev
  <1>1. PICK x \in Settings, payout \in RenterPayouts, blocks \in Blocks, wallet \in Wallets :
          LET collateral == RenewCollateral(x, payout, old.size, blocks)
              host       == x.price + BasePrice(x, old.size, blocks) + collateral
              void       == BasePrice(x, old.size, blocks) + BaseCollateral(x, old.size, blocks)
              total      == taxAdjustedPayout(payout + host)
              cost       == total - collateral + Fee
          IN  \E inputs \in fundSiacoins(wallet, cost) :
                /\ host >= void
                /\ Request(c, "renew", local[c].old,
                           FirstRevision(old.size, old.root, payout, host, void),
                           FinalRevision(old), Transaction(inputs, cost, total, collateral))
                /\ UNCHANGED hst
    BY DEF RenewContract
  <1> DEFINE collateral == RenewCollateral(x, payout, old.size, blocks)
             host       == x.price + BasePrice(x, old.size, blocks) + collateral
             void       == BasePrice(x, old.size, blocks) + BaseCollateral(x, old.size, blocks)
             total      == taxAdjustedPayout(payout + host)
             cost       == total - collateral + Fee
  <1>2. PICK inputs \in fundSiacoins(wallet, cost) :
          /\ host >= void
          /\ Request(c, "renew", local[c].old,
                     FirstRevision(old.size, old.root, payout, host, void),
                     FinalRevision(old), Transaction(inputs, cost, total, collateral))
          /\ UNCHANGED hst
    BY <1>1
  <1> DEFINE rev == FirstRevision(old.size, old.root, payout, host, void)
             txn == Transaction(inputs, cost, total, collateral)
  <1>3. /\ x.price \in Nat /\ payout \in Nat BY RenewalAssumption
  <1>4. /\ old \in Revision /\ old.size \in Nat /\ old.root \in Seq(Sectors)
        /\ local[c].old \in Nat
    BY <1>0 DEF TypeOK, Negotiation, Revision
  <1>5. /\ collateral \in Nat /\ BasePrice(x, old.size, blocks) \in Nat
        /\ BaseCollateral(x, old.size, blocks) \in Nat
    BY <1>3, <1>4, CollateralTypes
  <1>6. /\ pc[c] = "open" /\ hst[c] # "sigs" /\ hst'[c] = hst[c]
        /\ hst' \in [Calls -> {"done", "loop", "sigs"}]
        /\ \A d \in Calls : d # c => hst'[d] = hst[d]
        /\ hst[c] = "done" => locked[c] = 0
    BY <1>0, <1>2 DEF RenewContract, Connection, Opened, Handler, TypeOK
  <1>7. /\ local[c].old \in held /\ old.size = Len(old.root)
        /\ hst[c] = "loop" =>
             /\ locked[c] = local[c].old /\ local[c].old \in DOMAIN contracts
             /\ old = contracts[local[c].old].rev
             /\ old.root = contracts[local[c].old].roots
    BY <1>0, <1>6 DEF Connection, Opened, Books
  <1> HIDE DEF collateral, old
  <1>8. host \in Nat /\ void \in Nat /\ collateral <= host BY <1>3, <1>5
  <1> HIDE DEF host, void
  <1>9. txn \in Txn /\ Pays(txn, rev)
    BY <1>2, <1>3, <1>5, <1>8, PaysFor
  <1>10. rev \in Revision BY <1>2, <1>3, <1>4, <1>8, FirstRevisionType
  <1>11. rev.num < MaxNum /\ rev.size = Len(rev.root) /\ rev.root = old.root
    BY <1>7, RenewalAssumption DEF FirstRevision
  <1>12. Request(c, "renew", local[c].old, rev, FinalRevision(old), txn) BY <1>2
  <1>13. FinalRevision(old) \in Revision BY <1>4, FinalRevisionIs
  <1> HIDE DEF rev, txn
  <1>14. hst'[c] = "loop" =>
           /\ locked[c] = local[c].old /\ local[c].old \in DOMAIN contracts
           /\ rev.root = contracts[local[c].old].roots
           /\ FinalRevision(old) = FinalRevision(contracts[local[c].old].rev)
    BY <1>6, <1>7, <1>11
  <1> QED BY <1>4, <1>6, <1>7, <1>9, <1>10, <1>11, <1>12, <1>13, <1>14, RequestStep

-----------------------------------------------------------------------------
(* The steps that change the host's books, or what calls know of them. *)

(* A call returns a contract that the host has and no call has returned.   *)
(* No handler is about to renew a relative of it: what handlers have       *)
(* locked has been returned before, and the family has one contract.       *)
LEMMA ReturnStep ==
  ASSUME IInv, NEW c \in Calls, Return(c)
  PROVE  IInv'
  <1>0. /\ TypeOK /\ Books /\ Ids /\ Reachable /\ Balanced
        /\ \A d \in Calls : Connection(d)
    BY DEF IInv
  <1> DEFINE n == local[c].id
  <1>1. /\ pc[c] = "signatures" /\ resp[c].type = "signatures"
        /\ pc'[c] = "idle" /\ resp'[c] = NoMessage
        /\ held' = held \cup {n} /\ lost' = lost \ {family[n]}
        /\ UNCHANGED <<hst, locked, hpend, req, contracts, made, family>>
        /\ \A d \in Calls : d # c => Idle(d)
    BY <1>0 DEF Return, TypeOK, Idle
  <1>2. /\ n \in DOMAIN contracts /\ hst[c] # "sigs" /\ ~Proposal(req[c])
        /\ ~Proposal(hpend[c])
    BY <1>0, <1>1 DEF Connection, Negotiated, Handler, Proposal
  <1>3. n \in (1 .. made) \ held /\ n \in Nat /\ Uses(c, n)
    <2>1. n \in Nat /\ Uses(c, n)
      BY <1>0, <1>1 DEF Uses, Negotiating, TypeOK, Negotiation
    <2> QED BY <1>0, <2>1 DEF Ids
  <1>4. resp'[c].type = "none" BY <1>1, NothingTypes
  <1> HIDE DEF n
  <1>5. TypeOK'
    <2>1. /\ resp' \in [Calls -> Msg] /\ local' \in [Calls -> Negotiation]
          /\ pc' \in [Calls -> {"idle", "open", "additions", "signatures"}]
      BY <1>0, NothingTypes DEF Return, TypeOK
    <2>2. held' \subseteq 1 .. made /\ lost' \subseteq 1 .. made
      BY <1>0, <1>1, <1>3 DEF TypeOK
    <2>3. locked \in [Calls -> held' \cup {0}] BY <1>0, <1>1 DEF TypeOK
    <2> QED BY <1>0, <1>1, <2>1, <2>2, <2>3 DEF TypeOK
  <1>6. Books' BY <1>0, <1>1, <1>2 DEF Books
  <1>7. Ids'
    <2>1. \A id \in Nat : ~Uses(c, id)'
      BY <1>1, <1>2 DEF Uses, Negotiating, Proposal
    <2>2. \A d \in Calls, id \in Nat : d # c /\ Uses(d, id) => id # n
      BY <1>0, <1>3 DEF Ids
    <2>3. \A d \in Calls, id \in Nat : Uses(d, id) => id \notin held
      BY <1>0 DEF Ids
    <2>4. \A d \in Calls, id \in Nat : Uses(d, id)' => Uses(d, id) /\ id \notin held'
      BY <1>1, <2>1, <2>2, <2>3, UsesIdle
    <2>5. locked'[c] = locked[c] /\ \A d \in Calls : d # c => locked'[d] = locked[d]
      BY <1>1
    <2> QED BY <1>0, <1>1, <2>4, <2>5, IdsKept
  <1>8. ASSUME NEW d \in Calls PROVE Connection(d)'
    <2>1. CASE d = c
      <3>1. Handler(c)' BY <1>0, <1>1 DEF Connection, Handler, Proposal
      <3>2. Proposals(c)' BY <1>1, <1>2 DEF Proposals, Proposal
      <3>3. Opened(c)' BY <1>1 DEF Opened
      <3>4. Negotiated(c)' BY <1>1, <1>2 DEF Negotiated, Negotiating
      <3> QED BY <2>1, <3>1, <3>2, <3>3, <3>4 DEF Connection
    <2>2. CASE d # c
      <3>1. \A id \in Nat : Uses(d, id) => id \in 1 .. made BY <1>0 DEF Ids
      <3>2. hst[d] = "sigs" => family[hpend[d].id] # family[n]
        <4> SUFFICES ASSUME hst[d] = "sigs" PROVE family[hpend[d].id] # family[n]
          OBVIOUS
        <4>1. Proposal(hpend[d]) /\ Sound(d, hpend[d])
          BY <1>0 DEF Connection, Handler, Proposals
        <4>2. CASE hpend[d].type = "form" BY <1>2, <4>1, <4>2 DEF Sound
        <4>3. CASE hpend[d].type = "renew"
          <5>1. /\ locked[d] \in DOMAIN contracts
                /\ family[hpend[d].id] = family[locked[d]]
            BY <4>1, <4>3 DEF Sound
          <5>2. locked[d] \in held
            <6>1. locked[d] \in held \cup {0} /\ DOMAIN contracts \subseteq 1 .. made
              BY <1>0 DEF TypeOK
            <6> QED BY <5>1, <6>1
          <5> QED BY <1>0, <1>2, <1>3, <5>1, <5>2 DEF Books
        <4> QED BY <4>1, <4>2, <4>3 DEF Proposal
      <3>3. Idle(d) /\ Connection(d) /\ TypeOK BY <1>0, <1>1, <2>2
      <3>4. hst[d] = "sigs" /\ family[hpend[d].id] \in lost => family[hpend[d].id] \in lost'
        BY <1>1, <3>2
      <3> QED BY <1>1, <3>1, <3>3, <3>4, ConnectionKept
    <2> QED BY <2>1, <2>2
  <1>9. Reachable'
    <2> SUFFICES ASSUME NEW id \in DOMAIN contracts
                 PROVE  (\/ id \in held
                         \/ family[id] \in lost
                         \/ \E d \in Calls : pc[d] = "signatures" /\ local[d].id = id)'
      BY <1>1 DEF Reachable
    <2>1. CASE id = n BY <1>1, <2>1
    <2>2. CASE id # n
      <3>1. family[id] # family[n] BY <1>0, <1>2, <2>2 DEF Books
      <3>2. \A d \in Calls : pc[d] = "signatures" /\ local[d].id = id =>
              pc'[d] = "signatures" /\ local'[d].id = id
        BY <1>1, <2>2 DEF Idle, n
      <3>3. CASE id \in held \/ family[id] \in lost BY <1>1, <3>1, <3>3
      <3>4. CASE \E d \in Calls : pc[d] = "signatures" /\ local[d].id = id
        BY <3>2, <3>4
      <3> QED BY <1>0, <3>3, <3>4 DEF Reachable
    <2> QED BY <2>1, <2>2
  <1>10. Balanced'
    <2>1. \A d \in Calls : Negotiating(d)' => Negotiating(d) /\ local'[d] = local[d]
      BY <1>1 DEF Negotiating, Idle
    <2> QED BY <1>0, <2>1, BalancedKept
  <1> QED BY <1>5, <1>6, <1>7, <1>8, <1>9, <1>10 DEF IInv

(* What is true when the renter's signatures arrive: the new contract is   *)
(* not among the host's; the locked one is, if this is a renewal, and is   *)
(* the only relative of the new one.                                       *)
LEMMA BeforeStore ==
  ASSUME IInv, NEW c \in Calls, HostStore(c)
  PROVE  LET n == hpend[c].id
             L == locked[c]
         IN  /\ Proposal(hpend[c]) /\ Sound(c, hpend[c]) /\ Uses(c, n)
             /\ n \in Nat /\ n \in (1 .. made) \ held /\ n # L
             /\ L \in held \cup {0}
             /\ hpend[c].type = "form" <=> L \notin DOMAIN contracts
             /\ L \in DOMAIN contracts => family[n] = family[L]
             /\ \A k \in DOMAIN contracts \ {L} : family[k] # family[n]
  <1> DEFINE n == hpend[c].id
             L == locked[c]
  <1>0. TypeOK /\ Books /\ Ids /\ Connection(c) BY DEF IInv
  <1>1. /\ Proposal(hpend[c]) /\ Sound(c, hpend[c]) /\ hst[c] = "sigs"
    BY <1>0 DEF HostStore, Connection, Handler, Proposals
  <1>2. n \in Nat /\ Uses(c, n) BY <1>0, <1>1 DEF Uses, TypeOK, Msg
  <1>3. n \in (1 .. made) \ held BY <1>0, <1>2 DEF Ids
  <1>4. L \in held \cup {0} /\ DOMAIN contracts \subseteq 1 .. made /\ made \in Nat
    BY <1>0 DEF TypeOK
  <1>5. n # L BY <1>3, <1>4
  <1> HIDE DEF n, L
  <1>6. CASE hpend[c].type = "form"
    <2>1. /\ L = 0 /\ family[n] = n /\ \A k \in DOMAIN contracts : family[k] # n
      BY <1>1, <1>6 DEF Sound, n, L
    <2>2. L \notin DOMAIN contracts BY <1>4, <2>1
    <2> QED BY <1>1, <1>2, <1>3, <1>4, <1>5, <1>6, <2>1, <2>2 DEF n, L
  <1>7. CASE hpend[c].type = "renew"
    <2>1. L \in DOMAIN contracts /\ family[n] = family[L]
      BY <1>1, <1>7 DEF Sound, n, L
    <2>2. \A k \in DOMAIN contracts \ {L} : family[k] # family[n]
      BY <1>0, <2>1 DEF Books
    <2> QED BY <1>1, <1>2, <1>3, <1>4, <1>5, <1>7, <2>1, <2>2 DEF n, L
  <1> QED BY <1>1, <1>6, <1>7 DEF Proposal

(* The new contract takes the place of the old one in its family. *)
LEMMA HostStoreStep ==
  ASSUME IInv, NEW c \in Calls, HostStore(c)
  PROVE  IInv'
  <1> DEFINE n   == hpend[c].id
             L   == locked[c]
             new == [rev |-> hpend[c].rev, rsig |-> req[c].rev, hsig |-> hpend[c].rev,
                     roots |-> IF hpend[c].type = "form" THEN << >> ELSE contracts[L].roots]
  <1>0. /\ TypeOK /\ Books /\ Ids /\ Reachable /\ Balanced
        /\ \A d \in Calls : Connection(d)
    BY DEF IInv
  <1>1. /\ hst[c] = "sigs" /\ req[c].type = "signatures"
        /\ contracts' = [id \in (DOMAIN contracts \ {L}) \cup {n} |->
                           IF id = n THEN new ELSE contracts[id]]
        /\ hst'[c] = "loop" /\ hpend'[c] = NoMessage /\ req'[c] = NoMessage
        /\ resp'[c] = Message("signatures", n, hpend[c].rev, hpend[c].final)
        /\ UNCHANGED <<pc, local, locked, made, family, held, lost>>
        /\ \A d \in Calls : d # c => Idle(d)
    BY <1>0 DEF HostStore, TypeOK, Idle
  <1>2. /\ Proposal(hpend[c]) /\ Sound(c, hpend[c]) /\ Uses(c, n)
        /\ n \in Nat /\ n \in (1 .. made) \ held /\ n # L
        /\ L \in held \cup {0}
        /\ hpend[c].type = "form" <=> L \notin DOMAIN contracts
        /\ L \in DOMAIN contracts => family[n] = family[L]
        /\ \A k \in DOMAIN contracts \ {L} : family[k] # family[n]
    BY BeforeStore
  <1>3. /\ hpend[c] \in Msg /\ req[c] \in Msg /\ made \in Nat
        /\ DOMAIN contracts \subseteq 1 .. made /\ held \subseteq 1 .. made
        /\ contracts \in [DOMAIN contracts -> Contract]
    BY <1>0 DEF TypeOK
  <1>4. /\ new \in Contract /\ new.roots = new.rev.root
        /\ new.rev.size = Len(new.rev.root) /\ new.rev.num < MaxNum
    <2>1. hpend[c].rev \in Revision /\ req[c].rev \in Revision BY <1>3 DEF Msg
    <2>2. /\ hpend[c].rev.num < MaxNum
          /\ hpend[c].rev.size = Len(hpend[c].rev.root)
          /\ new.roots = hpend[c].rev.root
      BY <1>1, <1>2 DEF Sound, Proposal
    <2>3. hpend[c].rev.root \in Seq(Sectors) BY <2>1 DEF Revision
    <2> QED BY <2>1, <2>2, <2>3 DEF Contract
  <1>5. /\ DOMAIN contracts' = (DOMAIN contracts \ {L}) \cup {n}
        /\ contracts'[n] = new
        /\ \A id \in DOMAIN contracts \ {L} : id # n => contracts'[id] = contracts[id]
    BY <1>1
  <1>6. req'[c].type = "none" /\ hpend'[c].type = "none" /\ resp'[c].type = "signatures"
    BY <1>1, NothingTypes, MessageFields
  <1>7. TypeOK'
    <2>1. /\ DOMAIN contracts' \subseteq 1 .. made
      BY <1>2, <1>3, <1>5
    <2>2. contracts' \in [DOMAIN contracts' -> Contract]
      <3> HIDE DEF new, n, L
      <3>1. \A id \in (DOMAIN contracts \ {L}) \cup {n} :
              (IF id = n THEN new ELSE contracts[id]) \in Contract
        BY <1>3, <1>4
      <3> QED BY <1>1, <3>1
    <2>3. /\ req' \in [Calls -> Msg] /\ hpend' \in [Calls -> Msg]
          /\ hst' \in [Calls -> {"done", "loop", "sigs"}]
      BY <1>0, NothingTypes DEF HostStore, TypeOK
    <2>4. resp' \in [Calls -> Msg]
      <3>1. Message("signatures", n, hpend[c].rev, hpend[c].final) \in Msg
        BY <1>3 DEF Message, Msg
      <3> QED BY <1>0, <3>1 DEF HostStore, TypeOK
    <2> QED BY <1>0, <1>1, <2>1, <2>2, <2>3, <2>4 DEF TypeOK
  <1> HIDE DEF new, n, L
  <1>8. Books'
    <2>1. (\A id \in DOMAIN contracts :
             /\ contracts[id].roots = contracts[id].rev.root
             /\ contracts[id].rev.size = Len(contracts[id].rev.root)
             /\ contracts[id].rev.num < MaxNum)'
      <3> SUFFICES ASSUME NEW id \in DOMAIN contracts'
                   PROVE  /\ contracts'[id].roots = contracts'[id].rev.root
                          /\ contracts'[id].rev.size = Len(contracts'[id].rev.root)
                          /\ contracts'[id].rev.num < MaxNum
        OBVIOUS
      <3>1. CASE id = n BY <1>4, <1>5, <3>1
      <3>2. CASE id # n BY <1>0, <1>5, <3>2 DEF Books
      <3> QED BY <3>1, <3>2
    <2>2. (\A id, k \in DOMAIN contracts : family[id] = family[k] => id = k)'
      BY <1>0, <1>1, <1>2, <1>5 DEF Books
    <2>3. (\A id \in held : \E k \in DOMAIN contracts : family[k] = family[id])'
      <3> SUFFICES ASSUME NEW id \in held
                   PROVE  \E k \in DOMAIN contracts' : family[k] = family[id]
        BY <1>1
      <3>1. PICK k \in DOMAIN contracts : family[k] = family[id] BY <1>0 DEF Books
      <3>2. CASE k = L BY <1>2, <1>5, <3>1, <3>2
      <3>3. CASE k # L BY <1>5, <3>1, <3>3
      <3> QED BY <3>2, <3>3
    <2> QED BY <2>1, <2>2, <2>3 DEF Books
  <1>9. Ids'
    <2>1. \A id \in Nat : Uses(c, id)' => Uses(c, id)
      BY <1>1, <1>6 DEF Uses, Negotiating, Proposal
    <2>2. \A d \in Calls, id \in Nat : Uses(d, id)' => Uses(d, id) BY <1>1, <2>1, UsesIdle
    <2>3. \A d \in Calls, id \in Nat : Uses(d, id) => id \notin held' BY <1>0, <1>1 DEF Ids
    <2>4. locked'[c] = locked[c] /\ \A d \in Calls : d # c => locked'[d] = locked[d]
      BY <1>1
    <2> QED BY <1>0, <1>1, <2>2, <2>3, <2>4, IdsKept
  <1>10. ASSUME NEW d \in Calls PROVE Connection(d)'
    <2>1. CASE d = c
      <3>1. Handler(c)' BY <1>1, <1>6 DEF Handler, Proposal
      <3>2. Proposals(c)' BY <1>1, <1>6 DEF Proposals, Proposal
      <3>3. Opened(c)' BY <1>0, <1>1 DEF Connection, Opened
      <3>4. Negotiated(c)'
        <4>1. pc[c] = "signatures" => local[c].id = n
          BY <1>0, <1>2 DEF Connection, Negotiated, Negotiating, n
        <4> QED BY <1>1, <1>5, <1>6, <4>1 DEF Negotiated, Proposal
      <3> QED BY <2>1, <3>1, <3>2, <3>3, <3>4 DEF Connection
    <2>2. CASE d # c
      <3>1. \A id \in Nat : Uses(d, id) => id \in (1 .. made) \ held /\ id # n
        BY <1>0, <1>2, <2>2 DEF Ids
      <3>2. locked[d] \in DOMAIN contracts =>
              /\ locked[d] \in DOMAIN contracts'
              /\ contracts'[locked[d]] = contracts[locked[d]]
        <4>1. locked[d] \in held \cup {0} BY <1>0 DEF TypeOK
        <4>2. locked[d] = L => L = 0 BY <1>0, <2>2 DEF Ids, L
        <4> QED BY <1>2, <1>3, <1>5, <4>1, <4>2
      <3>3. \A id \in 1 .. made : Uses(d, id) /\ (\A k \in DOMAIN contracts : family[k] # id) =>
              \A k \in DOMAIN contracts' : family'[k] # id
        <4> SUFFICES ASSUME NEW id \in 1 .. made, Uses(d, id),
                            \A k \in DOMAIN contracts : family[k] # id
                     PROVE  \A k \in DOMAIN contracts' : family[k] # id
          BY <1>1
        <4>1. family[n] # id
          <5>1. CASE hpend[c].type = "form"
            <6>1. family[n] = n BY <1>2, <5>1 DEF Sound, n
            <6>2. id \in Nat BY <1>3
            <6> QED BY <3>1, <6>1, <6>2
          <5>2. CASE hpend[c].type # "form" BY <1>2, <5>2
          <5> QED BY <5>1, <5>2
        <4> QED BY <1>5, <4>1
      <3>4. \A id \in Nat : Uses(d, id) /\ id \in DOMAIN contracts => id \in DOMAIN contracts'
        BY <1>2, <1>3, <1>5, <3>1
      <3>5. Idle(d) /\ Connection(d) /\ TypeOK BY <1>0, <1>1, <2>2
      <3> QED BY <1>1, <3>1, <3>2, <3>3, <3>4, <3>5, ConnectionKept
    <2> QED BY <2>1, <2>2
  <1>11. Reachable'
    <2> SUFFICES ASSUME NEW id \in DOMAIN contracts'
                 PROVE  \/ id \in held
                        \/ family[id] \in lost
                        \/ \E d \in Calls : pc[d] = "signatures" /\ local[d].id = id
      BY <1>1 DEF Reachable
    <2>1. CASE id = n
      <3>1. pc[c] = "signatures" \/ family[n] \in lost
        BY <1>0, <1>1 DEF Connection, Negotiated, n
      <3>2. pc[c] = "signatures" => local[c].id = n
        BY <1>0, <1>2 DEF Connection, Negotiated, Negotiating, n
      <3> QED BY <2>1, <3>1, <3>2
    <2>2. CASE id # n BY <1>0, <1>5, <2>2 DEF Reachable
    <2> QED BY <2>1, <2>2
  <1>12. Balanced'
    <2>1. \A d \in Calls : Negotiating(d)' => Negotiating(d) /\ local'[d] = local[d]
      BY <1>1 DEF Negotiating
    <2> QED BY <1>0, <2>1, BalancedKept
  <1> QED BY <1>7, <1>8, <1>9, <1>10, <1>11, <1>12 DEF IInv

(* A write changes a contract that no handler has locked. *)
LEMMA WriteStep ==
  ASSUME IInv, NEW id \in held, Write(id)
  PROVE  IInv'
  <1>0. /\ TypeOK /\ Books /\ Ids /\ Reachable /\ Balanced
        /\ \A d \in Calls : Connection(d)
    BY DEF IInv
  <1> DEFINE k == contracts[id]
  <1>1. PICK e \in Edit, price \in Prices, col \in Collaterals :
          LET roots == EditRoots(k.roots, e)
              rev   == [Revise(k.rev, price, CollateralOf(k.rev, e, col)) EXCEPT
                          !.size = Len(roots), !.root = roots]
          IN  /\ EditIsLegal(k.roots, e)
              /\ contracts' = [contracts EXCEPT ![id] =
                   [rev |-> rev, rsig |-> rev, hsig |-> rev, roots |-> roots]]
    BY DEF Write
  <1> DEFINE roots == EditRoots(k.roots, e)
             rev   == Written(k.rev, e, price, col, roots)
             new   == [rev |-> rev, rsig |-> rev, hsig |-> rev, roots |-> roots]
  <1>2. /\ contracts' = [contracts EXCEPT ![id] = new]
        /\ EditIsLegal(k.roots, e)
        /\ id \in DOMAIN contracts /\ k.rev.num + 1 < MaxNum
        /\ \A d \in Calls : locked[d] # id
        /\ UNCHANGED <<pc, local, hst, locked, hpend, req, resp, made, family, held, lost>>
    BY <1>1 DEF Write, Written, LockAvailable, callVars
  <1>3. /\ contracts \in [DOMAIN contracts -> Contract] /\ DOMAIN contracts \subseteq 1 .. made
    BY <1>0 DEF TypeOK
  <1>4. k.rev \in Revision /\ k.roots \in Seq(Sectors) BY <1>2, <1>3 DEF Contract
  <1> HIDE DEF k
  <1>5. roots \in Seq(Sectors) BY <1>2, <1>4, EditRootsType
  <1> HIDE DEF roots
  <1>6. rev \in Revision /\ rev.root = roots /\ rev.size = Len(roots) /\ rev.num = k.rev.num + 1
    BY <1>4, <1>5, WriteRevision
  <1> HIDE DEF rev
  <1>7. /\ new \in Contract /\ new.roots = new.rev.root
        /\ new.rev.size = Len(new.rev.root) /\ new.rev.num < MaxNum
    BY <1>2, <1>5, <1>6 DEF Contract
  <1> HIDE DEF new
  <1>8. /\ DOMAIN contracts' = DOMAIN contracts /\ contracts'[id] = new
        /\ \A i \in DOMAIN contracts : i # id => contracts'[i] = contracts[i]
        /\ contracts' \in [DOMAIN contracts -> Contract]
    BY <1>2, <1>3, <1>7
  <1>9. \A d \in Calls : Idle(d) BY <1>2 DEF Idle
  <1>10. TypeOK' BY <1>0, <1>2, <1>8 DEF TypeOK
  <1>11. Books'
    <2>1. (\A i \in DOMAIN contracts :
             /\ contracts[i].roots = contracts[i].rev.root
             /\ contracts[i].rev.size = Len(contracts[i].rev.root)
             /\ contracts[i].rev.num < MaxNum)'
      <3> SUFFICES ASSUME NEW i \in DOMAIN contracts
                   PROVE  /\ contracts'[i].roots = contracts'[i].rev.root
                          /\ contracts'[i].rev.size = Len(contracts'[i].rev.root)
                          /\ contracts'[i].rev.num < MaxNum
        BY <1>8
      <3>1. CASE i = id BY <1>7, <1>8, <3>1
      <3>2. CASE i # id BY <1>0, <1>8, <3>2 DEF Books
      <3> QED BY <3>1, <3>2
    <2> QED BY <1>0, <1>2, <1>8, <2>1 DEF Books
  <1>12. Ids'
    <2>1. \A d \in Calls, i \in Nat : Uses(d, i)' <=> Uses(d, i) BY <1>9, UsesIdle
    <2> QED BY <1>0, <1>2, <2>1 DEF Ids
  <1>13. ASSUME NEW d \in Calls PROVE Connection(d)'
    <2>1. \A i \in Nat : Uses(d, i) => i \in 1 .. made BY <1>0 DEF Ids
    <2> QED BY <1>0, <1>2, <1>8, <1>9, <2>1, ConnectionKept
  <1>14. Reachable' BY <1>0, <1>2, <1>8 DEF Reachable
  <1>15. Balanced' BY <1>0, <1>2, BalancedKept DEF Negotiating
  <1> QED BY <1>10, <1>11, <1>12, <1>13, <1>14, <1>15 DEF IInv

-----------------------------------------------------------------------------
(* The inductive invariant, and what follows from it. *)

LEMMA InitInv == Init => IInv
  <1> SUFFICES ASSUME Init PROVE IInv OBVIOUS
  <1>1. /\ made = 0 /\ held = {} /\ lost = {} /\ contracts = << >> /\ family = << >>
        /\ pc = [c \in Calls |-> "idle"] /\ hst = [c \in Calls |-> "done"]
        /\ locked = [c \in Calls |-> 0]
        /\ local = [c \in Calls |-> NoLocal]
        /\ hpend = [c \in Calls |-> NoMessage] /\ req = [c \in Calls |-> NoMessage]
        /\ resp = [c \in Calls |-> NoMessage]
    BY DEF Init
  <1>2. DOMAIN contracts = {} /\ contracts \in [{} -> Contract] BY <1>1
  <1>3. family \in [1 .. 0 -> 1 .. 0] BY <1>1
  <1>4. TypeOK
    <2>1. DOMAIN contracts \subseteq 1 .. made /\ contracts \in [DOMAIN contracts -> Contract]
      BY <1>2
    <2>2. /\ pc \in [Calls -> {"idle", "open", "additions", "signatures"}]
          /\ hst \in [Calls -> {"done", "loop", "sigs"}]
          /\ locked \in [Calls -> held \cup {0}]
      BY <1>1
    <2>3. /\ local \in [Calls -> Negotiation] /\ hpend \in [Calls -> Msg]
          /\ req \in [Calls -> Msg] /\ resp \in [Calls -> Msg]
      BY <1>1, NothingTypes
    <2> QED BY <1>1, <1>3, <2>1, <2>2, <2>3 DEF TypeOK
  <1>5. Books BY <1>1, <1>2 DEF Books
  <1>6. \A c \in Calls :
          /\ pc[c] = "idle" /\ hst[c] = "done" /\ locked[c] = 0
          /\ req[c].type = "none" /\ hpend[c].type = "none"
    BY <1>1, NothingTypes
  <1>7. Ids BY <1>6 DEF Ids, Uses, Negotiating, Proposal
  <1>8. \A c \in Calls : Connection(c)
    BY <1>6 DEF Connection, Handler, Proposals, Opened, Negotiated, Negotiating, Proposal
  <1>9. Reachable BY <1>2 DEF Reachable
  <1>10. Balanced BY <1>6 DEF Balanced
  <1> QED BY <1>4, <1>5, <1>7, <1>8, <1>9, <1>10 DEF IInv

LEMMA StutterInv == IInv /\ UNCHANGED vars => IInv'
  <1> SUFFICES ASSUME IInv, UNCHANGED vars PROVE IInv' OBVIOUS
  <1>1. UNCHANGED <<pc, local, hst, locked, hpend, req, resp,
                    contracts, cleared, made, family, held, lost>>
    BY DEF vars, callVars, bookVars
  <1>2. /\ TypeOK /\ Books /\ Ids /\ Reachable /\ Balanced
        /\ \A d \in Calls : Connection(d)
    BY DEF IInv
  <1>3. TypeOK' BY <1>1, <1>2 DEF TypeOK
  <1>4. Books' BY <1>1, <1>2 DEF Books
  <1>5. Ids' BY <1>1, <1>2 DEF Ids, Uses, Negotiating, Proposal
  <1>6. Reachable' BY <1>1, <1>2 DEF Reachable
  <1>7. Balanced' BY <1>1, <1>2 DEF Balanced
  <1>8. ASSUME NEW d \in Calls PROVE Connection(d)'
    <2>1. Idle(d) BY <1>1 DEF Idle
    <2>2. \A id \in Nat : Uses(d, id) => id \in 1 .. made BY <1>2 DEF Ids
    <2> QED BY <1>1, <1>2, <2>1, <2>2, ConnectionKept
  <1> QED BY <1>3, <1>4, <1>5, <1>6, <1>7, <1>8 DEF IInv

LEMMA NextInv == IInv /\ [Next]_vars => IInv'
  <1> SUFFICES ASSUME IInv, [Next]_vars PROVE IInv' OBVIOUS
  <1>1. ASSUME NEW c \in Calls, FormContract(c) PROVE IInv' BY <1>1, FormContractStep
  <1>2. ASSUME NEW c \in Calls, RenewContract(c) PROVE IInv' BY <1>2, RenewContractStep
  <1>3. ASSUME NEW c \in Calls, Sign(c) PROVE IInv' BY <1>3, SignStep
  <1>4. ASSUME NEW c \in Calls, SignFails(c) PROVE IInv' BY <1>4, SignFailsStep
  <1>5. ASSUME NEW c \in Calls, Return(c) PROVE IInv' BY <1>5, ReturnStep
  <1>6. ASSUME NEW c \in Calls, RenterFail(c) PROVE IInv' BY <1>6, RenterFailStep
  <1>7. ASSUME NEW c \in Calls, HostAdditions(c) PROVE IInv' BY <1>7, HostAdditionsStep
  <1>8. ASSUME NEW c \in Calls, HostStore(c) PROVE IInv' BY <1>8, HostStoreStep
  <1>9. ASSUME NEW c \in Calls, HostDrop(c) PROVE IInv' BY <1>9, HostDropStep
  <1>10. ASSUME NEW c \in Calls, NEW id \in held, Lock(c, id) PROVE IInv'
    BY <1>10, LockStep
  <1>11. ASSUME NEW id \in held, Write(id) PROVE IInv' BY <1>11, WriteStep
  <1>12. CASE UNCHANGED vars BY <1>12, StutterInv
  <1> QED BY <1>1, <1>2, <1>3, <1>4, <1>5, <1>6, <1>7, <1>8, <1>9, <1>10, <1>11, <1>12 DEF Next

LEMMA Inductive == Spec => []IInv
  BY InitInv, NextInv, PTL DEF Spec

(* The negotiations, the host's contracts and the messages keep their      *)
(* types, over every course of renewals: the outputs of every revision     *)
(* that is proposed, prepared or stored are amounts, never negative, and   *)
(* a handler has locked nothing but a contract that a call has returned.   *)
THEOREM RenewalTypes == Spec => []TypeOK
  <1>1. IInv => TypeOK BY DEF IInv
  <1> QED BY <1>1, Inductive, PTL

(* Wherever the exchange of a renewal breaks off, and however many of them *)
(* there are, the data of a contract that a call has returned has exactly  *)
(* one home: rpcRenewAndClearContract stores the new contract and deletes  *)
(* the old one in one step, and the lock keeps a second renewal away.      *)
THEOREM DataHasOneHome == Spec => []OneHome
  <1>1. IInv => OneHome
    <2> SUFFICES ASSUME IInv, NEW i \in held
                 PROVE  \E id \in DOMAIN contracts :
                          {k \in DOMAIN contracts : family[k] = family[i]} = {id}
      BY DEF OneHome
    <2>1. Books BY DEF IInv
    <2>2. PICK id \in DOMAIN contracts : family[id] = family[i] BY <2>1 DEF Books
    <2>3. {k \in DOMAIN contracts : family[k] = family[i]} = {id} BY <2>1, <2>2 DEF Books
    <2> QED BY <2>3
  <1> QED BY <1>1, Inductive, PTL

(* A renewal replaces the contract as it is: no write comes between the    *)
(* revision the renter read and the one the host is about to store.        *)
THEOREM RenewalsAreCurrent == Spec => []RenewsCurrent
  <1>1. IInv => RenewsCurrent
    <2> SUFFICES ASSUME IInv, NEW c \in Calls, hpend[c].type = "renew"
                 PROVE  /\ locked[c] \in DOMAIN contracts
                        /\ hpend[c].rev.root = contracts[locked[c]].roots
                        /\ hpend[c].rev.size = Len(hpend[c].rev.root)
      BY DEF RenewsCurrent
    <2>1. Connection(c) BY DEF IInv
    <2>2. hst[c] = "sigs" /\ Sound(c, hpend[c])
      BY <2>1 DEF Connection, Handler, Proposals, Proposal
    <2> QED BY <2>2 DEF Sound
  <1> QED BY <1>1, Inductive, PTL

(* The host keeps no contract that the renter does not know of, except     *)
(* where a call failed after it had sent its signatures.                   *)
THEOREM ContractsReachable == Spec => []Reachable
  <1>1. IInv => Reachable BY DEF IInv
  <1> QED BY <1>1, Inductive, PTL

(* The transactions of FormContract and RenewContract are valid for every  *)
(* wallet, host settings and payout: inputs and outputs add up, and the    *)
(* outputs of the contract add up to its payout after tax.                 *)
THEOREM TransactionsBalance == Spec => []Balanced
  <1>1. IInv => Balanced BY DEF IInv
  <1> QED BY <1>1, Inductive, PTL

(* What a step does when it adds to the cleared contracts. *)
Settles ==
  \A id \in DOMAIN cleared' \ DOMAIN cleared :
    LET old == contracts[id].rev
        fin == cleared'[id]
    IN  /\ fin.vr + fin.vh = old.vr + old.vh
        /\ fin.vh >= old.vh
        /\ fin.num > old.num /\ ~IsRevisable(fin)
        /\ id \notin DOMAIN contracts'

LEMMA StoreSettles ==
  ASSUME IInv, NEW c \in Calls, HostStore(c)
  PROVE  Settles
  <1> DEFINE L == locked[c]
             old == contracts[L].rev
             fin == cleared'[L]
  <1>1. TypeOK /\ Books /\ Connection(c) BY DEF IInv
  <1>2. /\ Proposal(hpend[c]) /\ hpend[c].id # L
        /\ hpend[c].type = "form" <=> L \notin DOMAIN contracts
    BY BeforeStore
  <1>3. CASE hpend[c].type = "form"
    <2>1. cleared' = cleared BY <1>3 DEF HostStore
    <2> QED BY <2>1 DEF Settles
  <1>4. CASE hpend[c].type = "renew"
    <2>1. /\ cleared' = [id \in DOMAIN cleared \cup {L} |->
                           IF id = L THEN hpend[c].final ELSE cleared[id]]
          /\ DOMAIN contracts' = (DOMAIN contracts \ {L}) \cup {hpend[c].id}
      BY <1>4 DEF HostStore
    <2>2. DOMAIN cleared' \ DOMAIN cleared \subseteq {L} /\ fin = hpend[c].final
      BY <2>1
    <2>3. L \notin DOMAIN contracts' BY <1>2, <2>1
    <2>4. old \in Revision /\ old.num < MaxNum
      BY <1>1, <1>2, <1>4 DEF TypeOK, Contract, Books
    <2>5. fin = HostFinalRevision(old, FinalRevision(old))
      BY <1>1, <1>4, <2>2 DEF Connection, Proposals
    <2> HIDE DEF fin, old
    <2>6. /\ fin.vr + fin.vh = old.vr + old.vh /\ fin.vh >= old.vh /\ fin.num = MaxNum
      BY <2>4, <2>5, FinalRevisionIs
    <2>7. fin.num > old.num /\ ~IsRevisable(fin)
      <3>1. MaxNum \in Nat /\ old.num \in Nat BY <2>4, RenewalAssumption DEF Revision
      <3> QED BY <2>4, <2>6, <3>1 DEF IsRevisable
    <2> QED BY <2>2, <2>3, <2>6, <2>7 DEF Settles, fin, old
  <1> QED BY <1>2, <1>3, <1>4 DEF Proposal

(* Clearing a contract settles it, for every payout and price: the host's  *)
(* final revision keeps the sum of the valid outputs, gives the host no    *)
(* less than it had, and is the last; the contract is gone with it.        *)
THEOREM ClearingIsFair == Spec => ClearedFairly
  <1>1. IInv /\ [Next]_vars => [Settles]_vars
    <2> SUFFICES ASSUME IInv, Next PROVE Settles OBVIOUS
    <2>1. ASSUME NEW c \in Calls, HostStore(c) PROVE Settles BY <2>1, StoreSettles
    <2>2. ASSUME cleared' = cleared PROVE Settles BY <2>2 DEF Settles
    <2>3. ASSUME NEW c \in Calls,
                 \/ FormContract(c) \/ RenewContract(c) \/ Sign(c) \/ SignFails(c)
                 \/ Return(c) \/ RenterFail(c) \/ HostAdditions(c) \/ HostDrop(c)
                 \/ \E id \in held : Lock(c, id)
          PROVE  cleared' = cleared
      <3>1. CASE FormContract(c) BY <3>1 DEF FormContract, Request
      <3>2. CASE RenewContract(c) BY <3>2 DEF RenewContract, Request
      <3>3. CASE Sign(c) \/ SignFails(c) BY <3>3 DEF Sign, SignFails, bookVars
      <3>4. CASE Return(c) \/ RenterFail(c) BY <3>4 DEF Return, RenterFail
      <3>5. CASE HostAdditions(c) \/ HostDrop(c)
        BY <3>5 DEF HostAdditions, HostDrop, bookVars
      <3>6. CASE \E id \in held : Lock(c, id) BY <3>6 DEF Lock, bookVars
      <3> QED BY <2>3, <3>1, <3>2, <3>3, <3>4, <3>5, <3>6
    <2>4. ASSUME NEW id \in held, Write(id) PROVE cleared' = cleared BY <2>4 DEF Write
    <2> QED BY <2>1, <2>2, <2>3, <2>4 DEF Next
  <1>2. ClearedFairly <=> [][Settles]_vars BY PTL DEF ClearedFairly, Settles
  <1> QED BY <1>1, <1>2, Inductive, PTL DEF Spec
=============================================================================
