------------------------------ MODULE Revisions ------------------------------
(***************************************************************************)
(* The data of a file contract that the renter-host protocol revises: the  *)
(* revision both parties sign, the payout arithmetic of                    *)
(* renter/proto/session.go, and the edits that a Write RPC makes to the    *)
(* list of sector roots a host stores for the contract.                    *)
(*                                                                         *)
(* Abstractions.  A sector is its Merkle root, a model value.  The file    *)
(* Merkle root of a revision (merkle.MetaRoot of the sector roots) is the  *)
(* sequence of roots itself: the hash is taken to be injective.  File      *)
(* sizes count sectors.  A signature is the revision it covers, so         *)
(* verifying one is comparing two revisions.                               *)
(***************************************************************************)
EXTENDS Integers, Sequences

CONSTANTS
  Sectors,       \* the sectors (Merkle roots) a renter can store
  MaxSectors,    \* bound: sectors in a contract, and indices of an edit
  MaxNum,        \* math.MaxUint64: the revision number of a final revision
  BaseRPCPrice,  \* hostdb.HostSettings.BaseRPCPrice
  Prices,        \* the prices an RPC can come to
  Collaterals,   \* the host collateral an append can put at risk
  RenterPayout,  \* the renter's payout when the contract is formed
  HostPayout     \* the host's payout when the contract is formed

ASSUME RevisionAssumption ==
  /\ MaxSectors \in Nat
  /\ MaxNum \in Nat /\ MaxNum >= 1
  /\ BaseRPCPrice \in Nat
  /\ Prices \subseteq Nat
  /\ \A p \in Prices : p >= BaseRPCPrice
  /\ Collaterals \subseteq Nat
  /\ RenterPayout \in Nat
  /\ HostPayout \in Nat

(* types.FileContractRevision: number, file size, file Merkle root, and the *)
(* valid (renter, host) and missed (renter, host, void) proof outputs.      *)
Revision ==
  [num : Nat, size : Nat, root : Seq(Sectors),
   vr : Nat, vh : Nat, mr : Nat, mh : Nat, mv : Nat]

(* The zero ContractRevision{} that a Session holds when nothing is locked. *)
NoRevision ==
  [num |-> 0, size |-> 0, root |-> << >>,
   vr |-> 0, vh |-> 0, mr |-> 0, mh |-> 0, mv |-> 0]

(* The revision a contract starts from (rpcFormContract, and after a renewal *)
(* rpcRenewAndClearContract, whose missed host output may already have sent  *)
(* v coins to the void).                                                     *)
InitialRevision(v) ==
  [num |-> 1, size |-> 0, root |-> << >>,
   vr |-> RenterPayout, vh |-> HostPayout,
   mr |-> RenterPayout, mh |-> HostPayout - v, mv |-> v]

-----------------------------------------------------------------------------
(* types.Currency.Sub: on underflow it reports a critical error and returns *)
(* its receiver.                                                            *)
Sub(x, y) == IF x >= y THEN x - y ELSE x

\* Mutant: the collateral leaves the host output but reaches nobody.
UpdateRevisionOutputsLosingCollateral(rev, cost, collateral) ==
  [rev EXCEPT !.vr = Sub(@, cost), !.vh = @ + cost,
              !.mr = Sub(@, cost), !.mv = @ + cost,
              !.mh = Sub(@, collateral)]

(* The valid payout moves from renter to host; the missed payout moves from *)
(* renter to void, and the collateral from host to void.                    *)
UpdateRevisionOutputs(rev, cost, collateral) ==
  [rev EXCEPT !.vr = Sub(@, cost), !.vh = @ + cost,
              !.mr = Sub(@, cost), !.mh = Sub(@, collateral),
              !.mv = @ + cost + collateral]

(* The renter keeps five times the base price back, to be able to renew. *)
SufficientFunds(rev, price) == rev.vr >= price + 5 * BaseRPCPrice

IsRevisable(rev) == rev.num < MaxNum

(* The revision a paid RPC proposes: next number, moved outputs. *)
Revise(rev, cost, collateral) ==
  [UpdateRevisionOutputs(rev, cost, collateral) EXCEPT !.num = @ + 1]

-----------------------------------------------------------------------------
(* One action of a Write RPC.  proto.Session.Write rejects ActionUpdate. *)
Index == 0 .. MaxSectors

Edit ==
  [op : {"append"}, sector : Sectors]
    \cup [op : {"trim"}, n : Index]
    \cup [op : {"swap"}, i : Index, j : Index]

(* The host's checks on an edit. *)
EditIsLegal(roots, e) ==
  CASE e.op = "append" -> TRUE
    [] e.op = "trim"   -> e.n <= Len(roots)
    [] e.op = "swap"   -> e.i < Len(roots) /\ e.j < Len(roots)

(* The roots after a legal edit.  Indices of the code are zero-based. *)
EditRoots(roots, e) ==
  CASE e.op = "append" -> Append(roots, e.sector)
    [] e.op = "trim"   -> SubSeq(roots, 1, Len(roots) - e.n)
    [] e.op = "swap"   -> [roots EXCEPT ![e.i + 1] = roots[e.j + 1],
                                        ![e.j + 1] = roots[e.i + 1]]

(* The sizes of a file, a uint64 of bytes, in sectors of 2^22 bytes: 2^42. *)
FileSizes == 2048 * 2048 * 1048576

(* The renter's own calculation of the new file size, before the host can   *)
(* refuse a trim of more sectors than there are.                            *)
EditSize(size, e) ==
  CASE e.op = "append" -> size + 1
    [] e.op = "trim"   -> IF e.n <= size THEN size - e.n ELSE (size - e.n) % FileSizes
    [] e.op = "swap"   -> size

(* The host collateral that Write moves: only a growing contract risks any, *)
(* and never more than the host output still holds.                         *)
CollateralOf(rev, e, c) ==
  CASE e.op # "append" -> 0
    [] e.op = "append" -> IF c > rev.mh THEN rev.mh ELSE c
=============================================================================
