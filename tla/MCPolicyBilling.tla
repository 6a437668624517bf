--------------------------- MODULE MCPolicyBilling ---------------------------
(***************************************************************************)
(* Small instances of PolicyBilling.  Dates are day numbers of a four-day  *)
(* term, amounts a few cents, so that proration has ties on both signs.    *)
(***************************************************************************)
EXTENDS PolicyBilling, TLC

Row(status, premium) ==
  [status |-> status, term_start |-> 0, term_end |-> 4,
   annual_premium_cents |-> premium, currency |-> "USD"]

Endorse(p, key, date, premium) ==
  [operation |-> "endorsement", policy_id |-> p, idempotency_key |-> key,
   effective_date |-> date, new_annual_premium_cents |-> premium, reason |-> "r"]

Pay(p, key, external, amount, currency) ==
  [operation |-> "payment", policy_id |-> p, idempotency_key |-> key,
   external_payment_id |-> external, amount_cents |-> amount,
   currency |-> currency, received_at |-> 0]

OnePolicy == "POL-1" :> Row("active", 12)
TwoPolicies == OnePolicy @@ ("POL-2" :> Row("cancelled", 12))

(* Calls that compete for one policy: a rise, a fall with a tie, the first  *)
(* key with other contents, a payment under the endorsement's key, and the  *)
(* same money again under a key of its own.                                 *)
CompetingEndorsements ==
  {Endorse("POL-1", "k1", 1, 14), Endorse("POL-1", "k1", 1, 20),
   Endorse("POL-1", "k2", 3, 10)}
CompetingPayments ==
  {Pay("POL-1", "k1", "x1", 3, "USD"), Pay("POL-1", "k2", "x1", 3, "USD")}

(* Calls every rule objects to, at the boundary of the rule where it has one. *)
RefusedEndorsements ==
  {Endorse("POL-1", "k1", 4, 14), Endorse("POL-1", "k1", 5, 14),
   Endorse("POL-1", "k1", -1, 14), Endorse("POL-1", "k2", 0, 30),
   Endorse("POL-2", "k1", 1, 14)}
RefusedPayments ==
  {Pay("POL-1", "k1", "x1", 0, "USD"), Pay("POL-1", "k2", "x1", 1, "EUR"),
   Pay("POL-2", "k1", "x1", 1, "USD"), Pay("POL-3", "k1", "x1", 1, "USD")}

(* Two policies, all the calls that are refused, and two that are not. *)
RuledEndorsements ==
  RefusedEndorsements \union {Endorse("POL-1", "k1", 1, 14), Endorse("POL-1", "k2", 3, 10)}
RuledPayments == RefusedPayments \union {Pay("POL-1", "k1", "x1", 3, "USD")}

(* Two endorsements; the later one changes the premium. *)
TwoEndorsements == {Endorse("POL-1", "k1", 1, 14), Endorse("POL-1", "k2", 3, 10)}

(* The same money under two keys. *)
OneMoneyTwoKeys ==
  {Pay("POL-1", "k1", "x1", 3, "USD"), Pay("POL-1", "k2", "x1", 3, "USD")}

NoCalls == {}

(* Every call has been made and answered; the system rests. *)
Quiescent ==
  /\ clock = MaxCalls
  /\ \A s \in Sessions : tx[s].pc = "idle"
  /\ UNCHANGED vars

MCSpec == Init /\ [][Next \/ Quiescent]_vars
MCFairSpec == MCSpec /\ Fairness

SessionSymmetry == Permutations(Sessions)
=============================================================================
