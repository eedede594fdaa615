------------------------------- MODULE Payouts -------------------------------
(***************************************************************************)
(* The arithmetic of renter/proto/formcontract.go and renew.go: what a new *)
(* contract pays to whom, what the siafund tax adds to it, and which       *)
(* outputs of the renter's wallet fund the transaction that holds it.      *)
(* Amounts are natural numbers; a file size counts sectors, a duration     *)
(* counts blocks.                                                          *)
(***************************************************************************)
EXTENDS Integers, FiniteSets, FiniteSetsExt

CONSTANTS
  SiafundCount,  \* types.SiafundCount, the unit the tax is rounded to
  Fee            \* the miner fee of a contract transaction

ASSUME PayoutsAssumption ==
  /\ SiafundCount \in Nat \ {0}
  /\ Fee \in Nat

-----------------------------------------------------------------------------
(* types.Tax: 3.9 percent, rounded down so that every siafund gets the same. *)
Tax(payout) ==
  LET tax == (payout * 39) \div 1000
  IN  tax - (tax % SiafundCount)

\* Mutant: the guess is not corrected for the rounding of the tax.
taxAdjustedPayoutGuess(target) == (target * 1000) \div 961

(* The payout that leaves target after tax: a guess that ignores the        *)
(* rounding, moved down to the target's remainder.                          *)
taxAdjustedPayout(target) ==
  LET guess == (target * 1000) \div 961
      tm    == target % SiafundCount
      gm    == guess % SiafundCount
  IN  (IF gm < tm THEN guess - SiafundCount ELSE guess) - gm + tm

(* The host's collateral is capped, and is never nothing at all. *)
Capped(collateral, settings) ==
  IF collateral > settings.maxCollateral THEN settings.maxCollateral
  ELSE IF collateral = 0 THEN 1 ELSE collateral

(* FormContract estimates the collateral from the data that renterPayout   *)
(* buys: the price is per byte and block.                                  *)
FormCollateral(settings, payout, blocks) ==
  LET blockBytes == settings.bytePrice * blocks
  IN  Capped(IF blockBytes = 0 THEN 0
             ELSE settings.collateral * (payout \div blockBytes) * blocks,
             settings)

(* RenewContract adds the collateral of the data the contract already has. *)
BasePrice(settings, size, blocks) == settings.storage * size * blocks
BaseCollateral(settings, size, blocks) == settings.collateral * size * blocks
RenewCollateral(settings, payout, size, blocks) ==
  Capped(BaseCollateral(settings, size, blocks)
           + (IF settings.bytePrice = 0 THEN 0
              ELSE settings.collateral * (payout \div settings.bytePrice)),
         settings)

-----------------------------------------------------------------------------
(* fundSiacoins.  An output of the wallet is confirmed, or created by a    *)
(* transaction in limbo, or confirmed and spent by one in limbo.           *)

Value(outputs) == MapThenSumSet(LAMBDA o : o.value, outputs)

(* Confirmed outputs that no limbo transaction spends are preferred; if    *)
(* they do not suffice, outputs created in limbo are used as well.         *)
Candidates(wallet, amount) ==
  LET confirmed == {o \in wallet : o.at = "confirmed"}
  IN  IF Value(confirmed) < amount
      THEN {o \in wallet : o.at # "spent"}
      ELSE confirmed

(* Outputs are added in random order until they suffice; some order adds   *)
(* these.                                                                  *)
Suffices(added, amount) ==
  /\ Value(added) >= amount
  /\ \E last \in added : Value(added \ {last}) < amount

(* Then the smallest are dropped, one by one, while the rest suffices. *)
Trimmed(added, kept, amount) ==
  /\ kept \subseteq added
  /\ \A d \in added \ kept, k \in kept : d.value <= k.value
  /\ Value(kept) >= amount
  /\ \A k \in kept : Value(kept) - k.value < amount

(* The sets of inputs a call can end up with; none is an error. *)
fundSiacoins(wallet, amount) ==
  LET outputs == SUBSET Candidates(wallet, amount)
  IN  IF amount = 0 THEN {{}}
      ELSE {kept \in outputs :
              \E added \in outputs : Suffices(added, amount) /\ Trimmed(added, kept, amount)}
=============================================================================
