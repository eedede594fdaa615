--------------------------- MODULE ContractRenewal ---------------------------
(***************************************************************************)
(* FormContract and RenewContract (renter/proto) against the handlers of   *)
(* ghost/session.go: a request with the contract, the host's additions,    *)
(* the renter's signatures, the host's signatures.  The connection may     *)
(* break between any two of them, on either side, and a new call may start *)
(* while the host still handles what an earlier one sent.                  *)
(*                                                                         *)
(* A call is one of the package's functions, which dial, lock the contract *)
(* that is to be renewed, and close the connection when they return.       *)
(* Between calls the contracts are revised as ContractLedger allows.  Lock *)
(* is one step here (RenterHost has its messages), and the host locks a    *)
(* contract for one connection at a time, as RenterHost with ExclusiveLock *)
(* does.  A signature is the revision it covers.  The transaction's id     *)
(* makes the contract's: no two calls negotiate the same one.              *)
(***************************************************************************)
EXTENDS Payouts, Sequences, Functions

CONSTANTS
  Calls,         \* calls that can be under way at the same time
  Sectors, MaxSectors, MaxNum, BaseRPCPrice, Prices, Collaterals,
  MaxContracts,  \* bound on the contracts that are ever negotiated
  RenterPayouts, \* the renterPayout arguments of calls
  Blocks,        \* durations of contracts, and extensions by a renewal
  Settings,      \* the host settings there can be
  Wallets        \* the sets of outputs a wallet can have

INSTANCE Revisions WITH RenterPayout <- 0, HostPayout <- 0

ASSUME RenewalAssumption ==
  /\ {MaxContracts, MaxNum, MaxSectors, BaseRPCPrice} \subseteq Nat
  /\ MaxNum > 1
  /\ Prices \subseteq Nat /\ Collaterals \subseteq Nat
  /\ RenterPayouts \subseteq Nat
  /\ Blocks \subseteq Nat
  /\ \A x \in Settings :
       /\ {x.price, x.storage, x.bytePrice, x.collateral, x.maxCollateral} \subseteq Nat
       /\ x.bytePrice >= x.storage
  /\ \A w \in Wallets : \A o \in w :
       o.value \in Nat /\ o.at \in {"confirmed", "limbo", "spent"}

(* Wallets are finite: outputs add up to an amount. *)
ASSUME ValueAssumption == \A outputs \in SUBSET UNION Wallets : Value(outputs) \in Nat

VARIABLES
  contracts, \* Host.contracts: id |-> [rev, rsig, hsig, roots]
  cleared,   \* the final revision of every contract that was renewed
  made,      \* the number of contracts negotiated; ids are 1 .. made
  family,    \* history: id |-> the first contract with the same data
  held,      \* the ids of the contracts that calls have returned
  lost,      \* history: families with an exchange that failed once signed
  pc,        \* each call: "idle", "open", "additions" or "signatures"
  local,     \* each call's variables: what it negotiates
  hst,       \* each connection's handler: "done", "loop" or "sigs"
  locked,    \* the contract a handler has locked, or 0
  hpend,     \* what a handler has prepared and not stored yet
  req, resp  \* the messages on each connection

callVars == <<pc, local, hst, locked, hpend, req, resp>>
bookVars == <<contracts, cleared, made, family, held, lost>>
vars == <<callVars, bookVars>>

-----------------------------------------------------------------------------
(* The revision that starts a contract: its file contract's outputs. *)
FirstRevision(size, root, payout, hostValid, void) ==
  [num |-> 1, size |-> size, root |-> root, vr |-> payout, vh |-> hostValid,
   mr |-> payout, mh |-> hostValid - void, mv |-> void]

(* The transaction: what it takes in, what of that the contract gets, what *)
(* the host is to add, and what returns to the wallet.                     *)
Transaction(inputs, cost, total, collateral) ==
  [inputs |-> inputs, total |-> total, collateral |-> collateral,
   change |-> Value(inputs) - cost]

\* Mutant: the last payment is asked for even of an empty output.
FinalPaymentUncapped(rev) == BaseRPCPrice

(* The revision that ends the old contract: a last payment, no data, and   *)
(* the same outputs whether or not a storage proof is missed.              *)
FinalPayment(rev) == IF BaseRPCPrice > rev.vr THEN rev.vr ELSE BaseRPCPrice

FinalRevision(rev) ==
  LET paid == UpdateRevisionOutputs(rev, FinalPayment(rev), 0)
  IN  [paid EXCEPT !.mr = paid.vr, !.mh = paid.vh, !.mv = 0,
                   !.size = 0, !.root = << >>, !.num = MaxNum]

(* The host's: it takes the two values it was sent, and its own old void.  *)
HostFinalRevision(rev, fin) ==
  [rev EXCEPT !.vr = fin.vr, !.vh = fin.vh, !.mr = fin.mr, !.mh = fin.mh,
              !.size = 0, !.root = << >>, !.num = MaxNum]

NoTransaction == Transaction({}, 0, 0, 0)
NoLocal == [old |-> 0, id |-> 0, rev |-> NoRevision, final |-> NoRevision,
            txn |-> NoTransaction]
Message(t, id, rev, fin) == [type |-> t, id |-> id, rev |-> rev, final |-> fin]
Signal(t) == Message(t, 0, NoRevision, NoRevision)
NoMessage == Signal("none")

Init ==
  /\ contracts = << >> /\ cleared = << >> /\ family = << >>
  /\ made = 0 /\ held = {} /\ lost = {}
  /\ pc = [c \in Calls |-> "idle"]
  /\ local = [c \in Calls |-> NoLocal]
  /\ hst = [c \in Calls |-> "done"]
  /\ locked = [c \in Calls |-> 0]
  /\ hpend = [c \in Calls |-> NoMessage]
  /\ req = [c \in Calls |-> NoMessage]
  /\ resp = [c \in Calls |-> NoMessage]

-----------------------------------------------------------------------------
(* The renter's side. *)

(* NewUnlockedSession: a connection of its own for every call. *)
Dials(c) == pc[c] = "idle" /\ hst[c] = "done"

(* Bound: the transactions there can be. *)
CanNegotiate == made < MaxContracts

(* The call sends its request, for a contract with a new id. *)
Request(c, type, old, rev, fin, txn) ==
  LET id == made + 1
  IN  /\ made' = id
      /\ family' = Append(family, IF old = 0 THEN id ELSE family[old])
      /\ pc' = [pc EXCEPT ![c] = "additions"]
      /\ local' = [local EXCEPT ![c] = [old |-> old, id |-> id, rev |-> rev,
                                        final |-> fin, txn |-> txn]]
      /\ req' = [req EXCEPT ![c] = Message(type, id, rev, fin)]
      /\ resp' = [resp EXCEPT ![c] = NoMessage]
      /\ UNCHANGED <<contracts, cleared, held, lost, locked, hpend>>

(* FormContract: up to the request. *)
FormContract(c) ==
  /\ Dials(c) /\ CanNegotiate
  /\ \E x \in Settings, payout \in RenterPayouts, blocks \in Blocks, wallet \in Wallets :
       LET collateral == FormCollateral(x, payout, blocks)
           host       == x.price + collateral
           total      == taxAdjustedPayout(payout + host)
           cost       == payout + x.price + Tax(total) + Fee
       IN  \E inputs \in fundSiacoins(wallet, cost) :
             /\ Request(c, "form", 0, FirstRevision(0, << >>, payout, host, 0), NoRevision,
                        Transaction(inputs, cost, total, collateral))
             /\ hst' = [hst EXCEPT ![c] = "loop"]

\* Mutant: the host locks a contract for two connections at a time.
LockAvailableAlways(id) == TRUE

(* The host's lock on a contract. *)
LockAvailable(id) == \A c \in Calls : locked[c] # id

(* RenewContract dials and locks the contract, and learns its revision. *)
Lock(c, id) ==
  /\ Dials(c)
  /\ id \in DOMAIN contracts
  /\ LockAvailable(id)
  /\ pc' = [pc EXCEPT ![c] = "open"]
  /\ hst' = [hst EXCEPT ![c] = "loop"]
  /\ locked' = [locked EXCEPT ![c] = id]
  /\ local' = [local EXCEPT ![c] = [NoLocal EXCEPT !.old = id, !.rev = contracts[id].rev]]
  /\ req' = [req EXCEPT ![c] = NoMessage]
  /\ resp' = [resp EXCEPT ![c] = NoMessage]
  /\ UNCHANGED <<hpend, bookVars>>

(* RenewContract: from there up to the request.  Data that is in the       *)
(* contract already is paid for, and at risk, from the start.              *)
RenewContract(c) ==
  /\ pc[c] = "open" /\ CanNegotiate
  /\ \E x \in Settings, payout \in RenterPayouts, blocks \in Blocks, wallet \in Wallets :
       LET rev        == local[c].rev
           collateral == RenewCollateral(x, payout, rev.size, blocks)
           host       == x.price + BasePrice(x, rev.size, blocks) + collateral
           void       == BasePrice(x, rev.size, blocks) + BaseCollateral(x, rev.size, blocks)
           total      == taxAdjustedPayout(payout + host)
           cost       == total - collateral + Fee
       IN  \E inputs \in fundSiacoins(wallet, cost) :
             /\ host >= void
             /\ Request(c, "renew", local[c].old,
                        FirstRevision(rev.size, rev.root, payout, host, void),
                        FinalRevision(rev), Transaction(inputs, cost, total, collateral))
             /\ UNCHANGED hst

(* The host has added its inputs; the renter signs, ... *)
Sign(c) ==
  /\ pc[c] = "additions" /\ resp[c].type = "additions"
  /\ pc' = [pc EXCEPT ![c] = "signatures"]
  /\ req' = [req EXCEPT ![c] = Message("signatures", local[c].id, local[c].rev, local[c].final)]
  /\ resp' = [resp EXCEPT ![c] = NoMessage]
  /\ UNCHANGED <<local, hst, locked, hpend, bookVars>>

(* ... or its wallet fails to, and it tells the host so. *)
SignFails(c) ==
  /\ pc[c] = "additions" /\ resp[c].type = "additions"
  /\ pc' = [pc EXCEPT ![c] = "idle"]
  /\ local' = [local EXCEPT ![c] = NoLocal]
  /\ req' = [req EXCEPT ![c] = Signal("error")]
  /\ resp' = [resp EXCEPT ![c] = NoMessage]
  /\ UNCHANGED <<hst, locked, hpend, bookVars>>

(* The call returns the new contract with the host's signature. *)
Return(c) ==
  /\ pc[c] = "signatures" /\ resp[c].type = "signatures"
  /\ pc' = [pc EXCEPT ![c] = "idle"]
  /\ local' = [local EXCEPT ![c] = NoLocal]
  /\ held' = held \cup {local[c].id}
  /\ lost' = lost \ {family[local[c].id]}
  /\ resp' = [resp EXCEPT ![c] = NoMessage]
  /\ UNCHANGED <<hst, locked, hpend, req, contracts, cleared, made, family>>

(* The call fails: the connection broke, or its deadline expired.  What it *)
(* has sent may still arrive.                                              *)
RenterFail(c) ==
  /\ pc[c] # "idle"
  /\ pc' = [pc EXCEPT ![c] = "idle"]
  /\ local' = [local EXCEPT ![c] = NoLocal]
  /\ lost' = IF pc[c] = "signatures" THEN lost \cup {family[local[c].id]} ELSE lost
  /\ resp' = [resp EXCEPT ![c] = NoMessage]
  /\ UNCHANGED <<hst, locked, hpend, req, contracts, cleared, made, family, held>>

-----------------------------------------------------------------------------
(* The host's side: rpcFormContract and rpcRenewAndClearContract. *)

\* Mutant: the new contract is stored before the renter has signed.
HostAdditionsStoring(c) ==
  /\ hst[c] = "loop" /\ req[c].type \in {"form", "renew"}
  /\ hst' = [hst EXCEPT ![c] = "sigs"]
  /\ hpend' = [hpend EXCEPT ![c] = req[c]]
  /\ req' = [req EXCEPT ![c] = NoMessage]
  /\ resp' = [resp EXCEPT ![c] = Signal("additions")]
  /\ contracts' = [id \in DOMAIN contracts \cup {req[c].id} |->
       IF id = req[c].id THEN [rev |-> req[c].rev, rsig |-> req[c].rev, hsig |-> req[c].rev,
                               roots |-> req[c].rev.root]
       ELSE contracts[id]]
  /\ UNCHANGED <<pc, local, locked, cleared, made, family, held, lost>>

\* Mutant: the old contract is deleted before the renter has signed.
HostAdditionsClearing(c) ==
  /\ hst[c] = "loop" /\ req[c].type \in {"form", "renew"}
  /\ hst' = [hst EXCEPT ![c] = "sigs"]
  /\ hpend' = [hpend EXCEPT ![c] = req[c]]
  /\ req' = [req EXCEPT ![c] = NoMessage]
  /\ resp' = [resp EXCEPT ![c] = Signal("additions")]
  /\ contracts' = Restrict(contracts, DOMAIN contracts \ {locked[c]})
  /\ UNCHANGED <<pc, local, locked, cleared, made, family, held, lost>>

(* The host answers the request and prepares both revisions. *)
HostAdditions(c) ==
  /\ hst[c] = "loop" /\ req[c].type \in {"form", "renew"}
  /\ hst' = [hst EXCEPT ![c] = "sigs"]
  /\ hpend' = [hpend EXCEPT ![c] =
       IF req[c].type = "form" THEN req[c]
       ELSE [req[c] EXCEPT !.final = HostFinalRevision(contracts[locked[c]].rev, @)]]
  /\ req' = [req EXCEPT ![c] = NoMessage]
  /\ resp' = [resp EXCEPT ![c] = Signal("additions")]
  /\ UNCHANGED <<pc, local, locked, bookVars>>

(* The renter's signatures are in: the new contract is stored, with the    *)
(* sectors of the old one if this is a renewal, and the old one deleted.   *)
HostStore(c) ==
  /\ hst[c] = "sigs" /\ req[c].type = "signatures"
  /\ contracts' = [id \in (DOMAIN contracts \ {locked[c]}) \cup {hpend[c].id} |->
       IF id = hpend[c].id
       THEN [rev |-> hpend[c].rev, rsig |-> req[c].rev, hsig |-> hpend[c].rev,
             roots |-> IF hpend[c].type = "form" THEN << >> ELSE contracts[locked[c]].roots]
       ELSE contracts[id]]
  /\ cleared' = IF hpend[c].type = "form" THEN cleared
                ELSE [id \in DOMAIN cleared \cup {locked[c]} |->
                        IF id = locked[c] THEN hpend[c].final ELSE cleared[id]]
  /\ hst' = [hst EXCEPT ![c] = "loop"]
  /\ hpend' = [hpend EXCEPT ![c] = NoMessage]
  /\ req' = [req EXCEPT ![c] = NoMessage]
  /\ resp' = [resp EXCEPT ![c] = Message("signatures", hpend[c].id, hpend[c].rev, hpend[c].final)]
  /\ UNCHANGED <<pc, local, locked, made, family, held, lost>>

(* The handler ends with an error, or because the connection is closed, at *)
(* any point; the lock ends with it.                                       *)
HostDrop(c) ==
  /\ hst[c] # "done"
  /\ hst' = [hst EXCEPT ![c] = "done"]
  /\ locked' = [locked EXCEPT ![c] = 0]
  /\ hpend' = [hpend EXCEPT ![c] = NoMessage]
  /\ req' = [req EXCEPT ![c] = NoMessage]
  /\ UNCHANGED <<pc, local, resp, bookVars>>

(* Another session of the renter writes to a contract, as                  *)
(* ContractLedger!Store; the number stays short of the final one.          *)
Write(id) ==
  /\ id \in held \cap DOMAIN contracts
  /\ LockAvailable(id)
  /\ contracts[id].rev.num + 1 < MaxNum
  /\ \E e \in Edit, price \in Prices, col \in Collaterals :
       LET k     == contracts[id]
           roots == EditRoots(k.roots, e)
           rev   == [Revise(k.rev, price, CollateralOf(k.rev, e, col)) EXCEPT
                       !.size = Len(roots), !.root = roots]
       IN  /\ SufficientFunds(k.rev, price)
           /\ EditIsLegal(k.roots, e)
           /\ Len(roots) <= MaxSectors
           /\ contracts' = [contracts EXCEPT ![id] =
                [rev |-> rev, rsig |-> rev, hsig |-> rev, roots |-> roots]]
  /\ UNCHANGED <<callVars, cleared, made, family, held, lost>>

Next ==
  \/ \E c \in Calls :
       \/ FormContract(c) \/ RenewContract(c) \/ Sign(c) \/ SignFails(c)
       \/ Return(c) \/ RenterFail(c)
       \/ HostAdditions(c) \/ HostStore(c) \/ HostDrop(c)
       \/ \E id \in held : Lock(c, id)
  \/ \E id \in held : Write(id)

Spec == Init /\ [][Next]_vars

-----------------------------------------------------------------------------
(* The data of every contract a call has returned is kept by exactly one   *)
(* of the host's contracts, wherever the exchange of a renewal broke off:  *)
(* rpcRenewAndClearContract stores the new one and deletes the old one in  *)
(* the same step, once the renter has signed.                              *)
OneHome ==
  \A f \in {family[id] : id \in held} :
    \E id \in DOMAIN contracts :
      {k \in DOMAIN contracts : family[k] = f} = {id}

(* A handler that is about to clear a contract has it, and the revision    *)
(* that will replace it carries the data it has now: nothing was written   *)
(* since the renter read its revision.                                     *)
RenewsCurrent ==
  \A c \in Calls :
    hpend[c].type = "renew" =>
      /\ locked[c] \in DOMAIN contracts
      /\ hpend[c].rev.root = contracts[locked[c]].roots
      /\ hpend[c].rev.size = Len(hpend[c].rev.root)

(* Only a call that fails after it has sent its signatures can leave the   *)
(* host with a contract that no call returned, or is about to.             *)
Reachable ==
  \A id \in DOMAIN contracts :
    \/ id \in held
    \/ family[id] \in lost
    \/ \E c \in Calls : pc[c] = "signatures" /\ local[c].id = id

(* The transaction of a call is valid.  Unspent outputs of the wallet and  *)
(* the host's collateral pay for the contract, the miner fee and the       *)
(* change, whichever of FormContract and RenewContract added up the cost;  *)
(* and the contract pays out what remains of its payout after tax, proof   *)
(* or no proof: taxAdjustedPayout inverts the tax with its rounding, and   *)
(* renewal moves to the void what it takes from the host.                  *)
Balanced ==
  \A c \in Calls :
    pc[c] \in {"additions", "signatures"} =>
      LET t == local[c].txn
          r == local[c].rev
      IN  /\ \A o \in t.inputs : o.at # "spent"
          /\ t.change >= 0
          /\ Value(t.inputs) + t.collateral = t.total + Fee + t.change
          /\ r.vr + r.vh = t.total - Tax(t.total)
          /\ r.mr + r.mh + r.mv = t.total - Tax(t.total)
          /\ r.mh >= 0

(* Clearing a contract settles it: the final revision keeps the sum of the *)
(* valid outputs of the revision the host then has, takes nothing back     *)
(* from the host, and no other can follow it.                              *)
ClearedFairly ==
  [][\A id \in DOMAIN cleared' \ DOMAIN cleared :
       LET old == contracts[id].rev
           fin == cleared'[id]
       IN  /\ fin.vr + fin.vh = old.vr + old.vh
           /\ fin.vh >= old.vh
           /\ fin.num > old.num /\ ~IsRevisable(fin)
           /\ id \notin DOMAIN contracts']_vars
=============================================================================
