-------------------------------- MODULE Sale --------------------------------
(***************************************************************************)
(* What a presale promises to its buyers and its creator, without modes,   *)
(* prices, registries, fees to be computed or a clock.                     *)
(*                                                                         *)
(* While the sale is open, buyers pay into a pot and may take out what     *)
(* they paid.  It is then decided once: completed if the goal was reached, *)
(* failed otherwise.  A failed sale gives every buyer back the whole of    *)
(* what the buyer paid, and the creator the whole stock.  A completed one  *)
(* delivers tokens from the stock and pays the creator.  It gives a buyer  *)
(* back at most the deposit, and something of the fees of all the buyers:  *)
(* they divide these by their deposits, so that it may be more than what   *)
(* the buyer paid, but never more than there is.  Everybody is paid once.  *)
(***************************************************************************)
EXTENDS Integers

CONSTANT Buyers

VARIABLES
    goal,       \* the deposits that make the sale complete
    outcome,    \* "Open", "Completed" or "Failed"
    stakes,     \* stakes[b]: deposit and fee paid, tokens got, refund taken
    taken,      \* what the creator has taken
    raised,     \* the deposits that all the buyers have paid and not taken out
    fees,       \* the fees that they have paid with them
    pot,        \* the quote tokens held
    stock       \* the base tokens held

saleVars == <<goal, outcome, stakes, taken, raised, fees, pot, stock>>

NoStake == [deposit |-> 0, fee |-> 0, got |-> 0, refunded |-> FALSE]

Paid(stake) == stake.deposit + stake.fee
GoalReached == raised >= goal

Start ==
    /\ outcome = "Open"
    /\ stakes = [b \in Buyers |-> NoStake]
    /\ taken = {}
    /\ raised = 0
    /\ fees = 0
    /\ pot = 0
    /\ stock >= 0

\* A buyer pays in or takes out.  A deposit may complete the sale at once.
Trade(b) ==
    /\ outcome = "Open"
    /\ stakes' = [stakes EXCEPT ![b] = [@ EXCEPT !.deposit = stakes'[b].deposit,
                                                !.fee = stakes'[b].fee]]
    /\ raised' = raised + stakes'[b].deposit - stakes[b].deposit
    /\ fees' = fees + stakes'[b].fee - stakes[b].fee
    /\ pot' = pot + Paid(stakes'[b]) - Paid(stakes[b])
    /\ outcome' # outcome => outcome' = "Completed" /\ GoalReached'
    /\ UNCHANGED <<goal, taken, stock>>

Decide ==
    /\ outcome = "Open"
    /\ outcome' = IF GoalReached THEN "Completed" ELSE "Failed"
    /\ UNCHANGED <<goal, stakes, taken, raised, fees, pot, stock>>

\* More tokens to a buyer with a deposit in a completed sale.
Deliver(b) ==
    /\ outcome = "Completed"
    /\ stakes[b].deposit > 0
    /\ stakes'[b].got > stakes[b].got
    /\ stakes' = [stakes EXCEPT ![b].got = stakes'[b].got]
    /\ stock' = stock - (stakes'[b].got - stakes[b].got)
    /\ stock' >= 0
    /\ UNCHANGED <<goal, outcome, taken, raised, fees, pot>>

\* The one refund of a buyer: everything if the sale failed.
Refund(b) ==
    LET refund == pot - pot'
    IN  /\ outcome # "Open"
        /\ ~stakes[b].refunded
        /\ stakes' = [stakes EXCEPT ![b].refunded = TRUE]
        /\ 0 <= refund /\ refund <= stakes[b].deposit + fees
        /\ outcome = "Failed" => refund = Paid(stakes[b])
        /\ pot' >= 0
        /\ UNCHANGED <<goal, outcome, taken, raised, fees, stock>>

\* A buyer leaves with nothing left to be had.
Leave(b) ==
    /\ outcome # "Completed" => stakes[b].refunded \/ Paid(stakes[b]) = 0
    /\ stakes' = [stakes EXCEPT ![b] = NoStake]
    /\ UNCHANGED <<goal, outcome, taken, raised, fees, pot, stock>>

\* The creator takes what was raised, or all the stock of a failed sale.
TakeProceeds ==
    /\ outcome # "Open"
    /\ "proceeds" \notin taken
    /\ taken' = taken \cup {"proceeds"}
    /\ IF outcome = "Completed"
       THEN 0 <= pot' /\ pot' <= pot /\ stock' = stock
       ELSE stock' = 0 /\ pot' = pot
    /\ UNCHANGED <<goal, outcome, stakes, raised, fees>>

TakeFees ==
    /\ outcome = "Completed"
    /\ "fees" \notin taken
    /\ taken' = taken \cup {"fees"}
    /\ 0 <= pot' /\ pot' <= pot
    /\ UNCHANGED <<goal, outcome, stakes, raised, fees, stock>>

TakeUnsold ==
    /\ outcome = "Completed"
    /\ "unsold" \notin taken
    /\ taken' = taken \cup {"unsold"}
    /\ 0 <= stock' /\ stock' <= stock
    /\ UNCHANGED <<goal, outcome, stakes, raised, fees, pot>>

SaleNext ==
    \/ \E b \in Buyers : Trade(b) \/ Deliver(b) \/ Refund(b) \/ Leave(b)
    \/ Decide
    \/ TakeProceeds \/ TakeFees \/ TakeUnsold

SaleSpec == Start /\ [][SaleNext]_saleVars
=============================================================================
