-------------------------------- MODULE Coins -------------------------------
(* Choosing the outputs that fund a transaction: wallet/builder.go.           *)
(*                                                                            *)
(* The fee grows with the number of inputs, and the number of inputs with the *)
(* fee: FundTransaction iterates until the two agree, DistributeFunds looks   *)
(* for the number of inputs by bisection.                                     *)
EXTENDS Naturals, Sequences, SequencesExt, FiniteSets

CONSTANT FeePerInput      \* feePerByte * BytesPerInput

NoFunds == [ok |-> FALSE, used |-> 0, fee |-> 0, change |-> 0]
Funded(used, fee, change) == [ok |-> TRUE, used |-> used, fee |-> fee, change |-> change]

(* The value of the first n inputs.                                           *)
SumOutputs(inputs, n) ==
  LET sum[i \in 0 .. n] == IF i = 0 THEN 0 ELSE sum[i - 1] + inputs[i] IN sum[n]

(* FundAtLeast: how many of the inputs reach the amount, from the first on.   *)
FundAtLeast(amount, inputs) ==
  LET enough == {i \in DOMAIN inputs: SumOutputs(inputs, i) >= amount}
      first == CHOOSE i \in enough: \A j \in enough: i <= j
  IN  IF enough # {} THEN Funded(first, 0, SumOutputs(inputs, first) - amount)
      ELSE IF amount = 0 THEN Funded(0, 0, 0) ELSE NoFunds

(* Mutant: the fee of the inputs is not among what they must pay.             *)
RoundWithoutFee(amount, inputs, numInputs) ==
  LET r == FundAtLeast(amount, inputs)
  IN  IF r.ok THEN [r EXCEPT !.fee = FeePerInput * numInputs] ELSE NoFunds

(* One round of FundTransaction's loop: the inputs that pay for numInputs.    *)
Round(amount, inputs, numInputs) ==
  LET r == FundAtLeast(amount + FeePerInput * numInputs, inputs)
  IN  IF r.ok THEN [r EXCEPT !.fee = FeePerInput * numInputs] ELSE NoFunds

FundTransaction(amount, inputs) ==
  LET RECURSIVE Loop(_)
      Loop(numInputs) == LET r == Round(amount, inputs, numInputs)
                         IN  IF ~r.ok \/ r.used = numInputs THEN r ELSE Loop(r.used)
      first == FundAtLeast(amount, inputs)
  IN  IF first.ok THEN Loop(first.used) ELSE NoFunds

(* sort.Search: the bisection for the first index at which p holds.           *)
Search(n, p(_)) ==
  LET RECURSIVE Bisect(_, _)
      Bisect(i, j) == IF i >= j THEN i
                      ELSE LET h == (i + j) \div 2
                           IN  IF p(h) THEN Bisect(i, h) ELSE Bisect(h + 1, j)
  IN  Bisect(0, n)

(* The inputs it considers: the largest first, those worth per left out.      *)
Candidates(inputs, per) == SelectSeq(SortSeq(inputs, >), LAMBDA v: v # per)

DistributeFunds(inputs, n, per) ==
  LET ins == Candidates(inputs, per)
      want == per * n
      i == Search(Len(ins) + 1, LAMBDA k: SumOutputs(ins, k) >= want + FeePerInput * k)
  IN  IF i = Len(ins) + 1 THEN NoFunds
      ELSE Funded(i, FeePerInput * i, SumOutputs(ins, i) - (want + FeePerInput * i))

(********************************* reference *********************************)
(* The numbers of inputs, taken in this order, that pay for themselves and    *)
(* for the amount.                                                            *)
Enough(amount, inputs) ==
  {k \in 0 .. Len(inputs): SumOutputs(inputs, k) >= amount + FeePerInput * k}

(* The result uses as few inputs as will do, and accounts for every coin.     *)
FewestInputs(r, amount, inputs) ==
  LET enough == Enough(amount, inputs)
  IN  /\ r.ok => /\ r.used \in enough
                 /\ \A k \in enough: r.used <= k
                 /\ r.fee = FeePerInput * r.used
                 /\ SumOutputs(inputs, r.used) = amount + r.fee + r.change
      /\ ~r.ok => enough = {}
=============================================================================
