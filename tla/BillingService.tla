---------------------------- MODULE BillingService ----------------------------
(***************************************************************************)
(* What the billing core promises, without sessions, locks, rows or hashes: *)
(* calls on a policy take effect one at a time, each at some instant        *)
(* between its request and its answer; a policy's premium, documents and    *)
(* payments are functions of the list of calls applied to it.               *)
(***************************************************************************)
EXTENDS Integers, Sequences, FiniteSetsExt

CONSTANTS Clients, Seed, Calls, NoCall, MaxBigint

VARIABLES log,       \* per policy: the calls applied, in order
          request,   \* per client: the call it waits for, or NoCall
          verdict    \* per client: the answer decided, or Pending

serviceVars == <<log, request, verdict>>

Told(code, premium, amount) == [code |-> code, premium |-> premium, amount |-> amount]
Pending == Told("pending", 0, 0)

LastEndorsement(calls) ==
  LET ends == {i \in DOMAIN calls : calls[i].operation = "endorsement"}
  IN IF ends = {} THEN NoCall ELSE calls[Max(ends)]

PremiumAfterCalls(p, calls) ==
  IF LastEndorsement(calls) = NoCall THEN Seed[p].annual_premium_cents
  ELSE LastEndorsement(calls).new_annual_premium_cents

Magnitude(x) == IF x < 0 THEN -x ELSE x

(* n / term rounded to the nearest integer, ties away from zero. *)
Nearest(n, term) ==
  CHOOSE d \in -Magnitude(n) .. Magnitude(n) :
    LET error == 2 * Magnitude(d * term - n)
    IN error < term \/ (error = term /\ Magnitude(d * term) > Magnitude(n))

PremiumChange(c, premium) ==
  (c.new_annual_premium_cents - premium) * (Seed[c.policy_id].term_end - c.effective_date)

Term(p) == Seed[p].term_end - Seed[p].term_start

(* What applying c costs (or returns) when the premium is the given one. *)
Charge(c, premium) ==
  IF c.operation = "payment" THEN c.amount_cents
  ELSE Nearest(PremiumChange(c, premium), Term(c.policy_id))

(* The code c is refused with, were its key new; "none" if it is not. *)
Refusal(c, premium) ==
  LET row == Seed[c.policy_id] IN
  CASE c.operation = "payment" /\ c.currency # row.currency -> "BLB05"
    [] c.operation = "payment" /\ c.currency = row.currency /\ c.amount_cents <= 0 -> "BLB06"
    [] c.operation = "endorsement" /\ row.status # "active" -> "BLB02"
    [] c.operation = "endorsement" /\ row.status = "active"
       /\ c.effective_date \notin row.term_start .. row.term_end -> "BLB03"
    [] c.operation = "endorsement" /\ row.status = "active"
       /\ c.effective_date \in row.term_start .. row.term_end
       /\ 2 * Magnitude(PremiumChange(c, premium)) + Term(c.policy_id) > MaxBigint -> "22003"
    [] OTHER -> "none"

Refused(code) == Told(code, 0, 0)
PremiumTold(c, premium) == IF c.operation = "endorsement" THEN premium ELSE 0

UsesOfKey(c, calls) ==
  {i \in DOMAIN calls : /\ calls[i].operation = c.operation
                        /\ calls[i].idempotency_key = c.idempotency_key}

(* The answer to c after the given calls on its policy.  A repeated call is *)
(* told what it was charged when it was applied and the premium of today.   *)
Verdict(c, calls) ==
  LET p == c.policy_id
      premium == PremiumAfterCalls(p, calls)
      uses == UsesOfKey(c, calls) IN
  IF \E i \in uses : calls[i] = c THEN
    LET i == CHOOSE j \in uses : calls[j] = c
    IN Told("duplicate_ignored", PremiumTold(c, premium),
            Charge(c, PremiumAfterCalls(p, SubSeq(calls, 1, i - 1))))
  ELSE IF uses # {} THEN Refused("BLB04")
  ELSE IF Refusal(c, premium) # "none" THEN Refused(Refusal(c, premium))
  ELSE Told("applied", PremiumTold(c, PremiumAfterCalls(p, Append(calls, c))),
            Charge(c, premium))

ServiceInit ==
  /\ log = [p \in DOMAIN Seed |-> << >>]
  /\ request = [k \in Clients |-> NoCall]
  /\ verdict = [k \in Clients |-> Pending]

Invoke(k, c) ==
  /\ request[k] = NoCall
  /\ request' = [request EXCEPT ![k] = c]
  /\ UNCHANGED <<log, verdict>>

(* The instant the call takes effect, or is found to have none. *)
Decide(k) ==
  LET c == request[k] IN
  /\ c # NoCall
  /\ verdict[k] = Pending
  /\ IF c.policy_id \notin DOMAIN Seed
     THEN /\ verdict' = [verdict EXCEPT ![k] = Refused("BLB01")]
          /\ UNCHANGED log
     ELSE LET v == Verdict(c, log[c.policy_id]) IN
          /\ verdict' = [verdict EXCEPT ![k] = v]
          /\ log' = IF v.code = "applied"
                    THEN [log EXCEPT ![c.policy_id] = Append(@, c)] ELSE log
  /\ UNCHANGED request

(* The client has its answer, or its connection failed; if that was before  *)
(* Decide the call never takes effect.                                      *)
Close(k) ==
  /\ request[k] # NoCall
  /\ request' = [request EXCEPT ![k] = NoCall]
  /\ verdict' = [verdict EXCEPT ![k] = Pending]
  /\ UNCHANGED log

ServiceNext ==
  \E k \in Clients : (\E c \in Calls : Invoke(k, c)) \/ Decide(k) \/ Close(k)

ServiceSpec == ServiceInit /\ [][ServiceNext]_serviceVars
=============================================================================
