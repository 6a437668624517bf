------------------------- MODULE EndorsementSequence -------------------------
(***************************************************************************)
(* The endorsements of one policy, one after another (the row lock orders  *)
(* them): how far integer cents drift from the exact prorated premium.     *)
(***************************************************************************)
EXTENDS Proration

CONSTANTS TermDays,        \* term_end - term_start
          InitialPremium,  \* annual_premium_cents before the first endorsement
          Premiums,        \* p_new_annual_premium_cents in use
          MaxSteps         \* bound: endorsements in a behaviour

ASSUME TermAssumption == TermDays \in Nat \ {0}
ASSUME PremiumAssumption == InitialPremium \in Nat /\ Premiums \subseteq Nat
ASSUME StepsAssumption == MaxSteps \in Nat

VARIABLES annual_premium_cents,  \* the column of policies
          billed,                \* sum of amount_cents over billing_documents
          exact,                 \* sum of v_numerator: TermDays times the exact bill
          steps                  \* endorsements applied

sequenceVars == <<annual_premium_cents, billed, exact, steps>>

SequenceInit ==
  /\ annual_premium_cents = InitialPremium
  /\ billed = 0
  /\ exact = 0
  /\ steps = 0

(* fn_apply_endorsement past its checks; remaining is v_remaining_days. *)
Endorse(new, remaining) ==
  LET old == annual_premium_cents
      delta == DeltaCents(old, new, remaining, TermDays) IN
  /\ steps < MaxSteps
  /\ ProrationFits(old, new, remaining, TermDays)
  /\ annual_premium_cents' = new
  /\ billed' = billed + delta
  /\ exact' = exact + Numerator(old, new, remaining)
  /\ steps' = steps + 1

SequenceNext == \E new \in Premiums, remaining \in 0 .. TermDays : Endorse(new, remaining)

SequenceSpec == SequenceInit /\ [][SequenceNext]_sequenceVars

SequenceTypeOK ==
  /\ annual_premium_cents \in Nat
  /\ billed \in Int
  /\ exact \in Int
  /\ steps \in Nat

(* Rounding never gathers more than half a cent per endorsement: after k of  *)
(* them the billed sum is within k/2 cents of the exact prorated premium.    *)
DriftBounded == 2 * Distance(billed * TermDays, exact) <= TermDays * steps

(* An endorsement taken back on the day it applies costs nothing: for every  *)
(* premium the bill of the change and of its reversal cancel to the cent.    *)
ReversalCancels ==
  \A new \in Premiums, remaining \in 0 .. TermDays :
    DeltaCents(annual_premium_cents, new, remaining, TermDays)
      + DeltaCents(new, annual_premium_cents, remaining, TermDays) = 0

(* A step bills in the direction of the premium change, never more than it.  *)
BillsWithinChange ==
  [][LET change == annual_premium_cents' - annual_premium_cents
         delta == billed' - billed
     IN \/ 0 <= delta /\ delta <= change
        \/ change <= delta /\ delta <= 0]_sequenceVars
=============================================================================
