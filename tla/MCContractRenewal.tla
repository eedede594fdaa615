-------------------------- MODULE MCContractRenewal --------------------------
(* TLC instance of ContractRenewal. *)
EXTENDS ContractRenewal, TLC

Output(id, value, at) == [id |-> id, value |-> value, at |-> at]

(* The confirmed outputs suffice to form a contract, not to extend one. *)
MCWallets ==
  {{Output(1, 70, "confirmed"), Output(2, 42, "confirmed"),
    Output(3, 90, "spent"), Output(4, 75, "limbo")}}

(* Extending a contract with a sector in it by three blocks takes more     *)
(* collateral than this host is ready to provide.                          *)
MCSettings ==
  {[price |-> 3, storage |-> 2, bytePrice |-> 4, collateral |-> 6, maxCollateral |-> 12]}

Symmetry == Permutations(Calls)
=============================================================================
