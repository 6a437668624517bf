---------------------------- MODULE MCPolicyReads ----------------------------
(***************************************************************************)
(* One policy, an endorsement and a payment of different amounts, so that  *)
(* every set of calls has a balance of its own.                            *)
(***************************************************************************)
EXTENDS PolicyReads, TLC

OnePolicy ==
  "POL-1" :> [status |-> "active", term_start |-> 0, term_end |-> 4,
              annual_premium_cents |-> 12, currency |-> "USD"]

Endorse(key, date, premium) ==
  [operation |-> "endorsement", policy_id |-> "POL-1", idempotency_key |-> key,
   effective_date |-> date, new_annual_premium_cents |-> premium, reason |-> "r"]

Pay(key, amount) ==
  [operation |-> "payment", policy_id |-> "POL-1", idempotency_key |-> key,
   external_payment_id |-> "x1", amount_cents |-> amount, currency |-> "USD",
   received_at |-> 0]

EndorseAndPay == {Endorse("k1", 0, 16), Pay("k1", 5)}
KnownAndUnknown == {"POL-1", "POL-2"}
=============================================================================
