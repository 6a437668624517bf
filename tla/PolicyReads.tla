------------------------------ MODULE PolicyReads ------------------------------
(***************************************************************************)
(* The three GET endpoints over the log of BillingService, the service     *)
(* PolicyBilling implements: each query of a GET is a statement of its own *)
(* that sees what is committed when it runs, and the client keeps the      *)
(* latest body with its ETag.  A row is identified by the position of its  *)
(* call in the log; an ETag is a hash of the body and stands for it.       *)
(***************************************************************************)
EXTENDS Integers, Sequences, FiniteSetsExt

CONSTANTS Seed, Calls, NoCall, MaxBigint,  \* as in BillingService
          Readers,    \* clients of the GET endpoints, one request at a time
          AskedFor,   \* policy ids they ask for, some unknown
          Nothing     \* no request, no body, no If-None-Match

ASSUME CallsAssumption ==
  \A c \in Calls :
    \/ /\ c.operation = "endorsement"
       /\ c.effective_date \in Int
       /\ c.new_annual_premium_cents \in Int
    \/ c.operation = "payment" /\ c.amount_cents \in Int

(* policies: BIGINT and DATE columns, CHECK (term_end > term_start). *)
ASSUME SeedAssumption ==
  \A p \in DOMAIN Seed :
    /\ Seed[p].annual_premium_cents \in Int
    /\ Seed[p].term_start \in Int
    /\ Seed[p].term_end \in Int
    /\ Seed[p].term_start < Seed[p].term_end

VARIABLES log,        \* per policy: the calls applied, in order
          told,       \* per policy: positions of the calls a client was told took effect
          damaged,    \* policies with an event row altered by hand
          reads,      \* per reader: the GET in flight
          held        \* per reader: the response it keeps

vars == <<log, told, damaged, reads, held>>

(* Requests and verdicts are the service's own; readers see its log. *)
INSTANCE BillingService WITH Clients <- {}, request <- << >>, verdict <- << >>

Policies == DOMAIN Seed

-----------------------------------------------------------------------------
(* The views, over the calls applied to policy p so far *)

Amount(p, calls, i) == Charge(calls[i], PremiumAfterCalls(p, SubSeq(calls, 1, i - 1)))
PositionsOf(operation, calls) == {i \in DOMAIN calls : calls[i].operation = operation}
Rows(operation, p, calls) ==
  {[id |-> i, amount_cents |-> Amount(p, calls, i)] : i \in PositionsOf(operation, calls)}

(* Mutant of Receivable: payments are debited to the receivable as well. *)
ReceivableUnsigned(p, calls, i) == Amount(p, calls, i)

(* What call i adds to the premium receivable. *)
Receivable(p, calls, i) ==
  IF calls[i].operation = "payment" THEN -Amount(p, calls, i) ELSE Amount(p, calls, i)

Balance(p, calls) == MapThenSumSet(LAMBDA i : Receivable(p, calls, i), DOMAIN calls)

(* updated_at: fn_record_payment leaves it alone. *)
UpdatedAt(calls) == Max({0} \union PositionsOf("endorsement", calls))

(* buildPolicySummaryText, without the sentences. *)
SuggestedAction(balance, valid) ==
  CASE ~ valid -> "investigate"
    [] valid /\ balance > 0 -> "collect"
    [] valid /\ balance < 0 -> "review overpayment"
    [] OTHER -> "none"

LedgerLine(p, calls, i) ==
  [id |-> i, source |-> calls[i].idempotency_key,
   debits_cents |-> Magnitude(Amount(p, calls, i)),
   credits_cents |-> Magnitude(Amount(p, calls, i))]

-----------------------------------------------------------------------------
(* Requests and responses *)

Queries(resource) ==
  CASE resource = "policy" -> {"summary", "documents", "payments", "verify"}
    [] resource = "ledger" -> {"ledger"}
    [] resource = "history" -> {"verify"}
Resources == {"policy", "ledger", "history"}

(* Mutant of Ready: all four queries in one Promise.all. *)
AlwaysReady(g, q) == q \in Queries(g.resource) \ DOMAIN g.seen

(* getPolicySummary awaits the summary row before it asks for the rest. *)
Ready(g, q) ==
  /\ q \in Queries(g.resource) \ DOMAIN g.seen
  /\ q \in {"documents", "payments"} => "summary" \in DOMAIN g.seen

(* What a statement about p sees. *)
Snapshot(p) == [calls |-> log[p], valid |-> p \notin damaged]

(* The body of a response whose queries saw the given snapshots. *)
PolicyBody(p, seen) ==
  LET balance == Balance(p, seen["summary"].calls)
      verified == seen["verify"] IN
  [annual_premium_cents |-> PremiumAfterCalls(p, seen["summary"].calls),
   open_balance_cents |-> balance,
   billing_documents |-> Rows("endorsement", p, seen["documents"].calls),
   payments |-> Rows("payment", p, seen["payments"].calls),
   history |-> [valid |-> verified.valid, event_count |-> Len(verified.calls)],
   suggested_action |-> SuggestedAction(balance, verified.valid)]

LedgerBody(p, seen) ==
  LET calls == seen["ledger"].calls
      lines == {LedgerLine(p, calls, i) : i \in DOMAIN calls} IN
  [balanced |-> \A t \in lines : t.debits_cents = t.credits_cents, transactions |-> lines]

HistoryBody(seen) ==
  [valid |-> seen["verify"].valid, event_count |-> Len(seen["verify"].calls)]

Body(g) ==
  CASE g.resource = "policy" -> PolicyBody(g.policy, g.seen)
    [] g.resource = "ledger" -> LedgerBody(g.policy, g.seen)
    [] g.resource = "history" -> HistoryBody(g.seen)

(* Mutant of Etag: the one the contract describes (rest-api.md, caching). *)
VersionEtag(g) ==
  CASE g.resource = "policy" ->
         <<UpdatedAt(g.seen["summary"].calls), Len(g.seen["verify"].calls)>>
    [] g.resource = "ledger" -> Len(g.seen["ledger"].calls)
    [] g.resource = "history" -> Len(g.seen["verify"].calls)

(* computeEtag *)
Etag(g) == Body(g)

Init ==
  /\ log = [p \in Policies |-> << >>]
  /\ told = [p \in Policies |-> {}]
  /\ damaged = {}
  /\ reads = [r \in Readers |-> Nothing]
  /\ held = [r \in Readers |-> Nothing]

-----------------------------------------------------------------------------
(* Calls *)

(* Decide, for a call that takes effect. *)
Apply(c) ==
  LET p == c.policy_id IN
  /\ p \in Policies
  /\ Verdict(c, log[p]).code = "applied"
  /\ log' = [log EXCEPT ![p] = Append(@, c)]
  /\ UNCHANGED <<told, damaged, reads, held>>

(* A client is told that call i of the log took effect, now or earlier. *)
Tell(p, i) ==
  /\ i \in DOMAIN log[p]
  /\ told' = [told EXCEPT ![p] = @ \union {i}]
  /\ UNCHANGED <<log, damaged, reads, held>>

(* The owner of the database alters a row of policy_events. *)
Damage(p) ==
  /\ log[p] # << >>
  /\ damaged' = damaged \union {p}
  /\ UNCHANGED <<log, told, reads, held>>

(* A GET begins, with the ETag the reader keeps of this resource if it likes. *)
Get(r, p, resource) ==
  /\ reads[r] = Nothing
  /\ \E named \in BOOLEAN :
       /\ named => held[r] # Nothing /\ held[r].policy = p /\ held[r].resource = resource
       /\ reads' = [reads EXCEPT ![r] =
            [policy |-> p, resource |-> resource, seen |-> << >>,
             if_none_match |-> IF named THEN Etag(held[r]) ELSE Nothing,
             start |-> IF p \in Policies THEN Snapshot(p) ELSE Nothing,
             due |-> IF p \in Policies THEN told[p] ELSE {}]]
  /\ UNCHANGED <<log, told, damaged, held>>

Query(r, q) ==
  LET g == reads[r] IN
  /\ g # Nothing
  /\ g.policy \in Policies
  /\ Ready(g, q)
  /\ reads' = [reads EXCEPT ![r].seen =
       [x \in DOMAIN g.seen \union {q} |-> IF x = q THEN Snapshot(g.policy) ELSE g.seen[x]]]
  /\ UNCHANGED <<log, told, damaged, held>>

(* 404: no row, or BLB01; 500: a query fails.  The first of them answers. *)
Fail(r) ==
  /\ reads[r] # Nothing
  /\ reads' = [reads EXCEPT ![r] = Nothing]
  /\ UNCHANGED <<log, told, damaged, held>>

(* respondNotModifiedIfMatching, then 200: the reader keeps a new body, or  *)
(* goes on with the one it named.                                           *)
Respond(r) ==
  LET g == reads[r] IN
  /\ g # Nothing
  /\ DOMAIN g.seen = Queries(g.resource)
  /\ held' = [held EXCEPT ![r] =
       [policy |-> g.policy, resource |-> g.resource, due |-> g.due,
        valid |-> g.start.valid,
        seen |-> IF g.if_none_match # Nothing /\ g.if_none_match = Etag(g)
                 THEN held[r].seen ELSE g.seen]]
  /\ reads' = [reads EXCEPT ![r] = Nothing]
  /\ UNCHANGED <<log, told, damaged>>

Next ==
  \/ \E c \in Calls : Apply(c)
  \/ \E p \in Policies : Damage(p) \/ \E i \in DOMAIN log[p] : Tell(p, i)
  \/ \E r \in Readers :
       \/ \E p \in AskedFor, resource \in Resources : Get(r, p, resource)
       \/ \E q \in {"summary", "documents", "payments", "verify", "ledger"} : Query(r, q)
       \/ Fail(r)
       \/ Respond(r)

Spec == Init /\ [][Next]_vars

-----------------------------------------------------------------------------
(* Properties *)

Ids(rows) == {row.id : row \in rows}
CallsShown(h) ==
  CASE h.resource = "policy" -> Ids(Body(h).billing_documents) \union Ids(Body(h).payments)
    [] h.resource = "ledger" -> Ids(Body(h).transactions)
    [] h.resource = "history" -> 1 .. Body(h).event_count

(* A response never masks a mutation a client was told of before it was     *)
(* asked for: every such call is among its rows and in its count, and a     *)
(* history damaged by then is reported, also when the response was a 304    *)
(* about an older body.                                                     *)
ShowsWhatWasTold ==
  \A r \in Readers : held[r] # Nothing =>
    LET h == held[r] IN
    /\ h.due \subseteq CallsShown(h)
    /\ h.resource = "policy" => h.due \subseteq 1 .. Body(h).history.event_count
    /\ h.resource = "policy" /\ ~ h.valid => ~ Body(h).history.valid
    /\ h.resource = "history" /\ ~ h.valid => ~ Body(h).valid

(* The four queries of a policy body may see four states, but the balance   *)
(* is never ahead of the lists: it is the balance after some calls that are *)
(* all listed.                                                              *)
BalanceIsListed ==
  \A r \in Readers : held[r] # Nothing /\ held[r].resource = "policy" =>
    LET h == held[r] IN
    \E n \in 0 .. Len(log[h.policy]) :
      /\ Body(h).open_balance_cents = Balance(h.policy, SubSeq(log[h.policy], 1, n))
      /\ 1 .. n \subseteq CallsShown(h)

(* A body put together from several states heals: a GET during which nothing *)
(* is committed leaves the reader with the state as it is, whatever ETag it  *)
(* named, its balance the difference of the rows listed.                     *)
QuietReadIsExact ==
  [][\A r \in Readers :
       LET g == reads[r] IN
       Respond(r) /\ g.start = Snapshot(g.policy) =>
         LET body == Body(held'[r]) IN
         /\ body = Body([g EXCEPT !.seen = [q \in Queries(g.resource) |-> g.start]])
         /\ g.resource = "policy" =>
              body.open_balance_cents =
                MapThenSumSet(LAMBDA row : row.amount_cents, body.billing_documents)
                - MapThenSumSet(LAMBDA row : row.amount_cents, body.payments)]_vars

(* Type invariant. *)
TypeOK ==
  /\ log \in [Policies -> Seq(Calls)]
  /\ told \in [Policies -> SUBSET Nat]
  /\ \A p \in Policies : told[p] \subseteq DOMAIN log[p]
  /\ damaged \subseteq Policies
  /\ DOMAIN reads = Readers /\ DOMAIN held = Readers
  /\ \A r \in Readers : reads[r] # Nothing => reads[r].resource \in Resources
  /\ \A r \in Readers : held[r] # Nothing => held[r].resource \in Resources
=============================================================================
