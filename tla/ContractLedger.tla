---------------------------- MODULE ContractLedger ----------------------------
(***************************************************************************)
(* What the renter-host protocol promises about one contract, with the     *)
(* parties, connections and messages left out: the contract moves from one *)
(* doubly signed revision to the next in single indivisible steps, each of *)
(* them paid for, each of them leaving the revision's file size and Merkle *)
(* root in agreement with the sectors that are stored.                     *)
(***************************************************************************)
EXTENDS Revisions

VARIABLES
  rev,    \* the contract's current revision
  roots   \* the sector roots stored under the contract

vars == <<rev, roots>>

Init ==
  /\ \E v \in 0 .. HostPayout : rev = InitialRevision(v)
  /\ roots = << >>

(* A Read or SectorRoots RPC: only money moves. *)
Pay(price) ==
  /\ IsRevisable(rev)
  /\ SufficientFunds(rev, price)
  /\ rev' = Revise(rev, price, 0)
  /\ UNCHANGED roots

(* A Write RPC: money, collateral and the sectors move together. *)
Store(e, price, c) ==
  /\ IsRevisable(rev)
  /\ SufficientFunds(rev, price)
  /\ EditIsLegal(roots, e)
  /\ roots' = EditRoots(roots, e)
  /\ rev' = [Revise(rev, price, CollateralOf(rev, e, c)) EXCEPT
               !.size = Len(roots'), !.root = roots']

Next ==
  \E price \in Prices :
    \/ Pay(price)
    \/ \E e \in Edit, c \in Collaterals : Store(e, price, c)

Spec == Init /\ [][Next]_vars
=============================================================================
