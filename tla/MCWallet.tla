------------------------------ MODULE MCWallet ------------------------------
(* A small instance of Wallet for TLC: two payments, a contract whose funding  *)
(* spends the same output as the first of them, and its revision.              *)
EXTENDS Wallet

Pay(ins, outs) == [ins |-> ins, outs |-> outs, contracts |-> <<>>]
Contract(rev, needs) == <<[id |-> "c", rev |-> rev, addrs |-> {0, Foreign}, needs |-> needs]>>

MCTxn ==
  [genesis |-> Pay({}, <<0>>),
   pay     |-> Pay({Output(<<"genesis", 1>>, 0)}, <<1, 0>>),
   spend   |-> Pay({Output(<<"pay", 1>>, 1), Output(<<"pay", 2>>, 0)}, <<0>>),
   form    |-> [Pay({Output(<<"genesis", 1>>, 0)}, <<1>>) EXCEPT !.contracts = Contract(0, {})],
   revise  |-> [Pay({}, <<>>) EXCEPT !.contracts = Contract(1, {"form"})]]

Symmetry == Permutations(Threads)
=============================================================================
