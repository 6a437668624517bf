---------------------------- MODULE PolicyBilling ----------------------------
(***************************************************************************)
(* The billing core: fn_apply_endorsement and fn_record_payment running    *)
(* concurrently in the PostgreSQL sessions of the API's connection pool.   *)
(* A call is one autocommitted SELECT of a function; each SQL statement of *)
(* the function that touches a table is one action.  READ COMMITTED: every *)
(* statement sees what is committed when it starts, so the rows a call     *)
(* writes stay in tx until CommitEndorsement or CommitPayment.             *)
(***************************************************************************)
EXTENDS Proration, HashChain, FiniteSetsExt

CONSTANTS Sessions,           \* PostgreSQL sessions, one per pooled connection
          Seed,               \* the rows of policies before the first call
          EndorsementCalls,   \* arguments of fn_apply_endorsement in use
          PaymentCalls,       \* arguments of fn_record_payment in use
          NoSession, NoCall,
          MaxCalls            \* bound: calls begun in a behaviour

PolicyIds == DOMAIN Seed
Calls == EndorsementCalls \union PaymentCalls

ASSUME SeedAssumption ==
  \A p \in PolicyIds :
    /\ Seed[p].annual_premium_cents \in Nat
    /\ Seed[p].term_start \in Int
    /\ Seed[p].term_end \in Int
    /\ Seed[p].term_start < Seed[p].term_end

ASSUME CallsAssumption ==
  /\ \A c \in EndorsementCalls :
       /\ c.operation = "endorsement"
       /\ c.effective_date \in Int
       /\ c.new_annual_premium_cents \in 0 .. MaxBigint
  /\ \A c \in PaymentCalls : c.operation = "payment" /\ c.amount_cents \in Int

(* A call is the arguments of its function, and nothing else. *)
ASSUME ArgumentsAssumption ==
  /\ \A c \in EndorsementCalls :
       c = [operation |-> "endorsement", policy_id |-> c.policy_id,
            idempotency_key |-> c.idempotency_key, effective_date |-> c.effective_date,
            new_annual_premium_cents |-> c.new_annual_premium_cents, reason |-> c.reason]
  /\ \A c \in PaymentCalls :
       c = [operation |-> "payment", policy_id |-> c.policy_id,
            idempotency_key |-> c.idempotency_key,
            external_payment_id |-> c.external_payment_id, amount_cents |-> c.amount_cents,
            currency |-> c.currency, received_at |-> c.received_at]

(* The seeded premium is a BIGINT; the days between two DATEs are an INTEGER, *)
(* so that twice of them are a BIGINT.                                        *)
ASSUME ColumnsAssumption ==
  \A p \in PolicyIds :
    /\ Seed[p].annual_premium_cents <= MaxBigint
    /\ 2 * (Seed[p].term_end - Seed[p].term_start) <= MaxBigint

ASSUME NullAssumption == NoSession \notin Sessions /\ NoCall \notin Calls

ASSUME BoundAssumption == MaxCalls \in Nat

VARIABLES policies,             \* the mutable columns: premium and updated_at
          policy_events,        \* the other tables are sets of rows
          billing_documents,
          payments,
          ledger_transactions,
          ledger_entries,
          nextval,              \* BIGSERIAL sequences; a rollback keeps them
          lock,                 \* the session holding the row lock of a policy
          clock,                \* the start time of the latest call
          tx,                   \* per session: the call it runs
          answers               \* what the database let clients be told, by start time

tables == <<policies, policy_events, billing_documents, payments,
            ledger_transactions, ledger_entries>>
vars == <<tables, nextval, lock, clock, tx, answers>>

-----------------------------------------------------------------------------
(* Values *)

IsEndorsement(c) == c.operation = "endorsement"

(* Mutant of CanonicalPayload: the money is left out of the hashed text. *)
PayloadWithoutMoney(c) ==
  <<c.policy_id, c.operation, c.idempotency_key>>

(* v_canonical_payload: the arguments in a fixed order. *)
CanonicalPayload(c) ==
  IF IsEndorsement(c)
  THEN <<c.policy_id, c.operation, c.idempotency_key, c.effective_date,
         c.new_annual_premium_cents, c.reason>>
  ELSE <<c.policy_id, c.operation, c.idempotency_key, c.external_payment_id,
         c.amount_cents, c.currency, c.received_at>>

Payloads == {CanonicalPayload(c) : c \in Calls}
Hashes == Seq(Payloads)
Keys == {c.idempotency_key : c \in Calls}

(* idempotency_result, or the SQLSTATE the function raised. *)
Codes == {"applied", "duplicate_ignored", "BLB01", "BLB02", "BLB03", "BLB04",
          "BLB05", "BLB06", "22003", "23505", "P0001"}

(* The row a call returns.  id is the billing document's or the payment's;  *)
(* premium is 0 for a payment.                                              *)
Outcomes == [code : Codes, premium : Nat, id : Nat, amount : Int]
Failure(code) == [code |-> code, premium |-> 0, id |-> 0, amount |-> 0]
NoOutcome == Failure("applied")

(* Mutant of RuleCodes: the rules about boundary values are not mapped. *)
PartialRuleCodes(c) == IF IsEndorsement(c) THEN {"BLB02"} ELSE {"BLB05"}

(* The SQLSTATEs of the business rules of each operation. *)
RuleCodes(c) == IF IsEndorsement(c) THEN {"BLB02", "BLB03"} ELSE {"BLB05", "BLB06"}

(* How the repository and the error handler answer an outcome over HTTP. *)
HttpStatus(c, code) ==
  CASE code \in {"applied", "duplicate_ignored"} -> 200
    [] code = "BLB01" -> 404
    [] code = "BLB04" -> 409
    [] code \in RuleCodes(c) -> 422
    [] OTHER -> 500

EventsOf(p) == {e \in policy_events : e.policy_id = p}

(* Mutant of SameKey: the UNIQUE constraint and the lookup grow by the payload. *)
SameKeyAndPayload(e, c) ==
  /\ e.policy_id = c.policy_id /\ e.operation_type = c.operation
  /\ e.idempotency_key = c.idempotency_key
  /\ e.payload_canonical = CanonicalPayload(c)

(* policy_id, operation_type and idempotency_key identify an event. *)
SameKey(e, c) ==
  /\ e.policy_id = c.policy_id
  /\ e.operation_type = c.operation
  /\ e.idempotency_key = c.idempotency_key

Earlier(c) == {e \in policy_events : SameKey(e, c)}

(* Mutant of RejectionOf: the end of the term is exclusive, the start unchecked. *)
LaxRejectionOf(c, old) ==
  IF IsEndorsement(c) THEN
    LET row == Seed[c.policy_id] IN
    IF row.status # "active" THEN "BLB02"
    ELSE IF c.effective_date >= row.term_end THEN "BLB03"
    ELSE IF ~ ProrationFits(old, c.new_annual_premium_cents,
                            row.term_end - c.effective_date,
                            row.term_end - row.term_start) THEN "22003"
    ELSE "none"
  ELSE IF c.currency # Seed[c.policy_id].currency THEN "BLB05"
  ELSE IF c.amount_cents < 0 THEN "BLB06"
  ELSE "none"

(* The business rules checked under the lock, in the order of the code. *)
RejectionOf(c, old) ==
  IF IsEndorsement(c) THEN
    LET row == Seed[c.policy_id] IN
    IF row.status # "active" THEN "BLB02"
    ELSE IF c.effective_date < row.term_start \/ c.effective_date > row.term_end
         THEN "BLB03"
    ELSE IF ~ ProrationFits(old, c.new_annual_premium_cents,
                            row.term_end - c.effective_date,
                            row.term_end - row.term_start) THEN "22003"
    ELSE "none"
  ELSE IF c.currency # Seed[c.policy_id].currency THEN "BLB05"
  ELSE IF c.amount_cents <= 0 THEN "BLB06"
  ELSE "none"

(* v_delta_cents *)
Delta(c, old) ==
  LET row == Seed[c.policy_id]
  IN DeltaCents(old, c.new_annual_premium_cents,
                row.term_end - c.effective_date, row.term_end - row.term_start)

Entry(t, account, direction, amount) ==
  [ledger_transaction_id |-> t, account |-> account, direction |-> direction,
   amount_cents |-> amount]

(* Mutants of EndorsementEntries: a decrease is posted as an increase, or   *)
(* reversed without negating its amount.                                    *)
UnsignedEntries(t, delta) ==
  LET amount == IF delta < 0 THEN -delta ELSE delta
  IN IF delta = 0 THEN {}
     ELSE {Entry(t, "premium_receivable", "debit", amount),
           Entry(t, "written_premium", "credit", amount)}
NegativeEntries(t, delta) ==
  IF delta = 0 THEN {}
  ELSE {Entry(t, IF delta > 0 THEN "premium_receivable" ELSE "written_premium", "debit", delta),
        Entry(t, IF delta > 0 THEN "written_premium" ELSE "premium_receivable", "credit", delta)}

(* The two ledger lines of an endorsement, none for a zero delta. *)
EndorsementEntries(t, delta) ==
  IF delta > 0 THEN {Entry(t, "premium_receivable", "debit", delta),
                     Entry(t, "written_premium", "credit", delta)}
  ELSE IF delta < 0 THEN {Entry(t, "written_premium", "debit", -delta),
                          Entry(t, "premium_receivable", "credit", -delta)}
  ELSE {}

PaymentEntries(t, amount) ==
  {Entry(t, "cash", "debit", amount),
   Entry(t, "premium_receivable", "credit", amount)}

(* SUM(amount_cents), 0 over no row *)
AmountSum(rows) == MapThenSumSet(LAMBDA r : r.amount_cents, rows)

Amounts(entries, direction) == AmountSum({e \in entries : e.direction = direction})

(* fn_check_ledger_transaction_balanced, deferred to COMMIT. *)
Balanced(entries) == Amounts(entries, "debit") = Amounts(entries, "credit")

-----------------------------------------------------------------------------
(* Sessions *)

(* A session none of whose local variables is set.  served: the API still   *)
(* waits for its result.                                                    *)
Fresh(pc, c, started, served, result) ==
  [pc |-> pc, call |-> c, started |-> started, served |-> served, old_premium |-> 0,
   previous_hash |-> GenesisHash, event_id |-> 0, result |-> result]
IdleTx == Fresh("idle", NoCall, 0, FALSE, NoOutcome)

Init ==
  /\ policies = [p \in PolicyIds |->
       [annual_premium_cents |-> Seed[p].annual_premium_cents, updated_at |-> 0]]
  /\ policy_events = {}
  /\ billing_documents = {}
  /\ payments = {}
  /\ ledger_transactions = {}
  /\ ledger_entries = {}
  /\ nextval = [event |-> 1, document |-> 1, payment |-> 1, transaction |-> 1]
  /\ lock = [p \in PolicyIds |-> NoSession]
  /\ clock = 0
  /\ tx = [s \in Sessions |-> IdleTx]
  /\ answers = {}

(* A pooled connection runs SELECT * FROM fn_...: now() is fixed here, when *)
(* the implicit transaction starts, before the row lock is waited for.      *)
Begin(s, c) ==
  /\ tx[s].pc = "idle"
  /\ clock < MaxCalls
  /\ clock' = clock + 1
  /\ tx' = [tx EXCEPT ![s] = Fresh("begun", c, clock + 1, TRUE, NoOutcome)]
  /\ UNCHANGED <<tables, nextval, lock, answers>>

(* Mutant of LockAvailable: SELECT without FOR UPDATE. *)
NoRowLock(p) == TRUE

LockAvailable(p) == lock[p] = NoSession

(* SELECT ... FROM policies WHERE policy_id = p_policy_id FOR UPDATE *)
LockPolicy(s) ==
  LET p == tx[s].call.policy_id IN
  /\ tx[s].pc = "begun"
  /\ p \in PolicyIds
  /\ LockAvailable(p)
  /\ lock' = [lock EXCEPT ![p] = s]
  /\ tx' = [tx EXCEPT ![s] = [@ EXCEPT !.pc = "locked",
                                !.old_premium = policies[p].annual_premium_cents]]
  /\ UNCHANGED <<tables, nextval, clock, answers>>

(* Mutant of Released: the lock goes with a commit only. *)
ReleasedOnCommit(s) ==
  [p \in PolicyIds |-> IF lock[p] = s /\ tx[s].pc = "inserted" THEN NoSession ELSE lock[p]]

(* COMMIT and ROLLBACK release the row locks of the session. *)
Released(s) == [p \in PolicyIds |-> IF lock[p] = s THEN NoSession ELSE lock[p]]

(* The call ends in session s with an outcome for its client. *)
End(s, outcome) ==
  /\ lock' = Released(s)
  /\ tx' = [tx EXCEPT ![s] = Fresh("ended", tx[s].call, tx[s].started, tx[s].served, outcome)]

(* IF NOT FOUND THEN RAISE ... ERRCODE = 'BLB01' *)
PolicyNotFound(s) ==
  /\ tx[s].pc = "begun"
  /\ tx[s].call.policy_id \notin PolicyIds
  /\ End(s, Failure("BLB01"))
  /\ UNCHANGED <<tables, nextval, clock, answers>>

RowOf(e, table) == CHOOSE row \in table : row.policy_event_id = e.id

(* Mutants of ReplayOf: a replay is labelled applied, or answered with the  *)
(* newest row of the policy.                                                *)
ReplayOfSelf(e, c) ==
  LET row == RowOf(e, IF IsEndorsement(c) THEN billing_documents ELSE payments)
  IN [code |-> "applied", premium |-> 0, id |-> row.id, amount |-> row.amount_cents]
ReplayOfNewest(e, c) ==
  LET table == IF IsEndorsement(c) THEN billing_documents ELSE payments
      rows == {r \in table : r.policy_id = c.policy_id}
      row == CHOOSE r \in rows : \A r2 \in rows : r2.id <= r.id
  IN [code |-> "duplicate_ignored",
      premium |-> IF IsEndorsement(c)
                  THEN policies[c.policy_id].annual_premium_cents ELSE 0,
      id |-> row.id, amount |-> row.amount_cents]

(* What the function returns for an event already recorded: the premium is  *)
(* the one policies holds now, the row is the one of the event.             *)
ReplayOf(e, c) ==
  LET row == RowOf(e, IF IsEndorsement(c) THEN billing_documents ELSE payments)
  IN [code |-> "duplicate_ignored",
      premium |-> IF IsEndorsement(c)
                  THEN policies[c.policy_id].annual_premium_cents ELSE 0,
      id |-> row.id, amount |-> row.amount_cents]

(* IF v_existing_payload = v_canonical_payload THEN RETURN QUERY ... *)
AnswerReplay(s) ==
  LET c == tx[s].call IN
  /\ tx[s].pc = "locked"
  /\ \E e \in Earlier(c) : /\ e.payload_canonical = CanonicalPayload(c)
                           /\ End(s, ReplayOf(e, c))
  /\ UNCHANGED <<tables, nextval, clock, answers>>

(* ELSE RAISE ... ERRCODE = 'BLB04' *)
RejectConflict(s) ==
  LET c == tx[s].call IN
  /\ tx[s].pc = "locked"
  /\ \E e \in Earlier(c) : e.payload_canonical # CanonicalPayload(c)
  /\ End(s, Failure("BLB04"))
  /\ UNCHANGED <<tables, nextval, clock, answers>>

(* A business rule raises, or BIGINT overflows. *)
RejectCall(s) ==
  LET c == tx[s].call
      code == RejectionOf(c, tx[s].old_premium) IN
  /\ tx[s].pc = "locked"
  /\ Earlier(c) = {}
  /\ code # "none"
  /\ End(s, Failure(code))
  /\ UNCHANGED <<tables, nextval, clock, answers>>

(* The key is new and no rule objects. *)
AcceptCall(s) ==
  LET c == tx[s].call IN
  /\ tx[s].pc = "locked"
  /\ Earlier(c) = {}
  /\ RejectionOf(c, tx[s].old_premium) = "none"
  /\ tx' = [tx EXCEPT ![s] = [@ EXCEPT !.pc = "accepted"]]
  /\ UNCHANGED <<tables, nextval, lock, clock, answers>>

(* SELECT event_hash ... ORDER BY id DESC LIMIT 1, else fn_genesis_hash() *)
ReadChainHead(s) ==
  /\ tx[s].pc = "accepted"
  /\ tx' = [tx EXCEPT ![s] =
       [@ EXCEPT !.pc = "chained",
                 !.previous_hash = HeadHash(EventsOf(tx[s].call.policy_id))]]
  /\ UNCHANGED <<tables, nextval, lock, clock, answers>>

(* Another session has inserted the same key and not committed yet. *)
InFlight(s, c) ==
  \E o \in Sessions \ {s} : /\ tx[o].pc = "inserted"
                            /\ tx[o].call.policy_id = c.policy_id
                            /\ tx[o].call.operation = c.operation
                            /\ tx[o].call.idempotency_key = c.idempotency_key

(* INSERT INTO policy_events: the unique index makes it wait for an         *)
(* uncommitted row with the key and raise 23505 when a committed one has it. *)
InsertEvent(s) ==
  LET c == tx[s].call IN
  /\ tx[s].pc = "chained"
  /\ ~ InFlight(s, c)
  /\ nextval' = [nextval EXCEPT !.event = @ + 1]
  /\ IF Earlier(c) # {}
     THEN End(s, Failure("23505"))
     ELSE /\ tx' = [tx EXCEPT ![s] = [@ EXCEPT !.pc = "inserted",
                                               !.event_id = nextval.event]]
          /\ UNCHANGED lock
  /\ UNCHANGED <<tables, clock, answers>>

NewEvent(s) ==
  LET c == tx[s].call
  IN [id |-> tx[s].event_id,
      policy_id |-> c.policy_id,
      operation_type |-> c.operation,
      idempotency_key |-> c.idempotency_key,
      payload_canonical |-> CanonicalPayload(c),
      previous_hash |-> tx[s].previous_hash,
      event_hash |-> Digest(CanonicalPayload(c), tx[s].previous_hash),
      created_at |-> tx[s].started]

(* The event and its ledger transaction, common to both functions. *)
RecordEvent(s, entries) ==
  /\ policy_events' = policy_events \union {NewEvent(s)}
  /\ ledger_transactions' = ledger_transactions \union
       {[id |-> nextval.transaction, policy_id |-> tx[s].call.policy_id,
         policy_event_id |-> tx[s].event_id]}
  /\ ledger_entries' = ledger_entries \union entries

(* SET annual_premium_cents = p_new_annual_premium_cents *)
PremiumAfter(s) == tx[s].call.new_annual_premium_cents

(* The remaining statements of fn_apply_endorsement and its COMMIT. *)
CommitEndorsement(s) ==
  LET c == tx[s].call
      p == c.policy_id
      delta == Delta(c, tx[s].old_premium)
      entries == EndorsementEntries(nextval.transaction, delta) IN
  /\ tx[s].pc = "inserted"
  /\ IsEndorsement(c)
  /\ nextval' = [nextval EXCEPT !.document = @ + 1, !.transaction = @ + 1]
  /\ IF Balanced(entries)
     THEN /\ RecordEvent(s, entries)
          /\ billing_documents' = billing_documents \union
               {[id |-> nextval.document, policy_id |-> p,
                 policy_event_id |-> tx[s].event_id, amount_cents |-> delta,
                 created_at |-> tx[s].started]}
          /\ policies' = [policies EXCEPT ![p] =
               [annual_premium_cents |-> PremiumAfter(s),
                updated_at |-> tx[s].started]]
          /\ End(s, [code |-> "applied", premium |-> c.new_annual_premium_cents,
                     id |-> nextval.document, amount |-> delta])
     ELSE /\ End(s, Failure("P0001"))
          /\ UNCHANGED <<policy_events, ledger_transactions, ledger_entries,
                         billing_documents, policies>>
  /\ UNCHANGED <<payments, clock, answers>>

(* The remaining statements of fn_record_payment and its COMMIT. *)
CommitPayment(s) ==
  LET c == tx[s].call
      entries == PaymentEntries(nextval.transaction, c.amount_cents) IN
  /\ tx[s].pc = "inserted"
  /\ ~ IsEndorsement(c)
  /\ nextval' = [nextval EXCEPT !.payment = @ + 1, !.transaction = @ + 1]
  /\ IF Balanced(entries)
     THEN /\ RecordEvent(s, entries)
          /\ payments' = payments \union
               {[id |-> nextval.payment, policy_id |-> c.policy_id,
                 policy_event_id |-> tx[s].event_id,
                 external_payment_id |-> c.external_payment_id,
                 amount_cents |-> c.amount_cents, created_at |-> tx[s].started]}
          /\ End(s, [code |-> "applied", premium |-> 0,
                     id |-> nextval.payment, amount |-> c.amount_cents])
     ELSE /\ End(s, Failure("P0001"))
          /\ UNCHANGED <<policy_events, ledger_transactions, ledger_entries, payments>>
  /\ UNCHANGED <<policies, billing_documents, clock, answers>>

(* The session dies before COMMIT: everything the call did is rolled back.  *)
Abort(s) ==
  /\ tx[s].pc \in {"begun", "locked", "accepted", "chained", "inserted"}
  /\ lock' = Released(s)
  /\ tx' = [tx EXCEPT ![s] = IdleTx]
  /\ UNCHANGED <<tables, nextval, clock, answers>>

(* The API or its client loses the connection: the client gets a 500 or     *)
(* nothing, and knows nothing.  The session may not have noticed: it runs   *)
(* on, waits for its lock, commits.                                         *)
Disconnect(s) ==
  /\ tx[s].served
  /\ tx' = [tx EXCEPT ![s] = [@ EXCEPT !.served = FALSE]]
  /\ UNCHANGED <<tables, nextval, lock, clock, answers>>

(* The API turns the row or the SQLSTATE into a response, if it still waits. *)
Reply(s) ==
  /\ tx[s].pc = "ended"
  /\ answers' = IF tx[s].served
                THEN answers \union
                  {[at |-> tx[s].started, call |-> tx[s].call, outcome |-> tx[s].result,
                    status |-> HttpStatus(tx[s].call, tx[s].result.code)]}
                ELSE answers
  /\ tx' = [tx EXCEPT ![s] = IdleTx]
  /\ UNCHANGED <<tables, nextval, lock, clock>>

(* The statements of the call session s runs, without its lock request. *)
Statement(s) ==
  \/ PolicyNotFound(s)
  \/ AnswerReplay(s)
  \/ RejectConflict(s)
  \/ RejectCall(s)
  \/ AcceptCall(s)
  \/ ReadChainHead(s)
  \/ InsertEvent(s)
  \/ CommitEndorsement(s)
  \/ CommitPayment(s)

Next ==
  \E s \in Sessions :
    \/ \E c \in Calls : Begin(s, c)
    \/ LockPolicy(s)
    \/ Statement(s)
    \/ Abort(s)
    \/ Disconnect(s)
    \/ Reply(s)

Spec == Init /\ [][Next]_vars

(* The server runs a statement it has been given and sends its answer; the  *)
(* row lock is queued for, so a waiter is not passed over for ever.  Nothing *)
(* obliges a client to call or a connection to fail.                        *)
Fairness ==
  \A s \in Sessions : /\ SF_vars(LockPolicy(s))
                      /\ WF_vars(Statement(s))
                      /\ WF_vars(Reply(s))

FairSpec == Spec /\ Fairness

-----------------------------------------------------------------------------
(* Properties *)

EventRows ==
  [id : Nat, policy_id : PolicyIds, operation_type : {"endorsement", "payment"},
   idempotency_key : Keys, payload_canonical : Payloads, previous_hash : Hashes,
   event_hash : Hashes, created_at : Nat]
DocumentRows ==
  [id : Nat, policy_id : PolicyIds, policy_event_id : Nat, amount_cents : Int,
   created_at : Nat]
PaymentRows ==
  [id : Nat, policy_id : PolicyIds, policy_event_id : Nat,
   external_payment_id : {c.external_payment_id : c \in PaymentCalls},
   amount_cents : Nat \ {0}, created_at : Nat]
TransactionRows == [id : Nat, policy_id : PolicyIds, policy_event_id : Nat]
EntryRows ==
  [ledger_transaction_id : Nat,
   account : {"premium_receivable", "written_premium", "cash"},
   direction : {"debit", "credit"}, amount_cents : Nat \ {0}]
Pcs == {"idle", "begun", "locked", "accepted", "chained", "inserted", "ended"}
TxStates ==
  [pc : Pcs, call : Calls \union {NoCall}, started : Nat, served : BOOLEAN,
   old_premium : Nat, previous_hash : Hashes, event_id : Nat, result : Outcomes]

Answers ==
  [at : Nat, call : Calls, outcome : Outcomes, status : {200, 404, 409, 422, 500}]

(* Type invariant: columns stay within their types and CHECK constraints    *)
(* (premium >= 0, payment and ledger amounts > 0, accounts and directions). *)
TypeOK ==
  /\ policies \in [PolicyIds -> [annual_premium_cents : Nat, updated_at : Nat]]
  /\ policy_events \subseteq EventRows
  /\ billing_documents \subseteq DocumentRows
  /\ payments \subseteq PaymentRows
  /\ ledger_transactions \subseteq TransactionRows
  /\ ledger_entries \subseteq EntryRows
  /\ nextval \in [event : Nat, document : Nat, payment : Nat, transaction : Nat]
  /\ lock \in [PolicyIds -> Sessions \union {NoSession}]
  /\ clock \in Nat
  /\ tx \in [Sessions -> TxStates]
  /\ answers \subseteq Answers

(* fn_verify_policy_history reports every policy's history valid in every   *)
(* committed state: concurrent calls never fork or break the hash chain.    *)
ChainIntact == \A p \in PolicyIds : VerifyHistory(EventsOf(p)).valid

(* The documents of p in the order their events were inserted. *)
DocumentsBefore(d) ==
  {b \in billing_documents : b.policy_id = d.policy_id
                             /\ b.policy_event_id < d.policy_event_id}
Latest(documents) ==
  CHOOSE d \in documents : \A b \in documents : b.policy_event_id <= d.policy_event_id

(* The call whose payload the event of document d recorded. *)
CallBilled(d) ==
  LET e == CHOOSE ev \in policy_events : ev.id = d.policy_event_id
  IN CHOOSE c \in Calls : CanonicalPayload(c) = e.payload_canonical

PremiumFrom(p, documents) ==
  IF documents = {} THEN Seed[p].annual_premium_cents
  ELSE CallBilled(Latest(documents)).new_annual_premium_cents

(* No endorsement is lost: each billing document prorates from the premium  *)
(* the endorsement just before it in the chain left, and policies holds the *)
(* premium of the last one.                                                 *)
PremiumsTelescope ==
  /\ \A d \in billing_documents :
       d.amount_cents = Delta(CallBilled(d), PremiumFrom(d.policy_id, DocumentsBefore(d)))
  /\ \A p \in PolicyIds :
       policies[p].annual_premium_cents =
         PremiumFrom(p, {d \in billing_documents : d.policy_id = p})

(* open_balance_cents of v_policy_summary *)
OpenBalance(p) ==
  LET ids == {t.id : t \in {u \in ledger_transactions : u.policy_id = p}}
      receivable == {e \in ledger_entries : e.account = "premium_receivable"
                                            /\ e.ledger_transaction_id \in ids}
  IN Amounts(receivable, "debit") - Amounts(receivable, "credit")

Total(rows, p) == AmountSum({r \in rows : r.policy_id = p})

(* The balance v_policy_summary derives from the ledger is what the billing *)
(* documents charged less what the payments paid: the three tables agree.   *)
OpenBalanceAgrees ==
  \A p \in PolicyIds :
    OpenBalance(p) = Total(billing_documents, p) - Total(payments, p)

(* An idempotency key identifies one event per policy and operation: two    *)
(* concurrent submissions of a key never both take effect.                  *)
OneEventPerKey ==
  \A e, f \in policy_events :
    (/\ e.policy_id = f.policy_id
     /\ e.operation_type = f.operation_type
     /\ e.idempotency_key = f.idempotency_key) => e = f

(* Every client told "applied" or "duplicate_ignored" about a key was given *)
(* the id and the amount of the one row that key created, however many      *)
(* calls came between the two answers.                                      *)
AnswersNameTheirRow ==
  \A a \in answers :
    a.outcome.code \in {"applied", "duplicate_ignored"} =>
      \E e \in Earlier(a.call) :
        LET row == RowOf(e, IF IsEndorsement(a.call) THEN billing_documents
                                                     ELSE payments)
        IN row.id = a.outcome.id /\ row.amount_cents = a.outcome.amount

(* An answer tells whether its call took effect: the call left an event iff *)
(* it is answered 200 "applied"; a replay, a refusal or a database error    *)
(* leaves nothing behind, whoever else lost a connection meanwhile.         *)
AnswersTellTheTruth ==
  \A a \in answers :
    a.outcome.code = "applied" /\ a.status = 200
      <=> \E e \in policy_events : e.created_at = a.at

(* Of what the database answers, only BIGINT overflow becomes a 500.  Every *)
(* refusal has its own status, and the unique constraint and the balance    *)
(* trigger are backstops that no interleaving of calls reaches.             *)
ServerErrorsExplained ==
  \A a \in answers : a.status = 500 => a.outcome.code = "22003"

(* Rows of the append-only tables are never changed or deleted, and an event *)
(* is always committed with an id above those of its policy: history grows  *)
(* at its end only, though ids are drawn before commit and aborts burn some. *)
AppendOnly ==
  [][/\ policy_events \subseteq policy_events'
     /\ billing_documents \subseteq billing_documents'
     /\ payments \subseteq payments'
     /\ ledger_entries \subseteq ledger_entries'
     /\ \A e \in policy_events, f \in policy_events' \ policy_events :
          e.policy_id = f.policy_id => e.id < f.id]_vars

Critical == {"locked", "accepted", "chained", "inserted"}
Writing == {"accepted", "chained", "inserted"}

(* What session s relies on while other sessions run: it holds the row lock *)
(* of its policy, so its key stays new, the head it read stays the head and *)
(* the event id it drew stays above those of its policy.                    *)
SessionConsistent(s) ==
  LET c == tx[s].call IN
  /\ tx[s].pc # "idle" => c \in Calls
  /\ tx[s].pc \in Critical => c.policy_id \in PolicyIds /\ lock[c.policy_id] = s
  /\ tx[s].pc \in Writing =>
       Earlier(c) = {} /\ (~ IsEndorsement(c) => c.amount_cents > 0)
  /\ tx[s].pc \in {"chained", "inserted"} =>
       tx[s].previous_hash = HeadHash(EventsOf(c.policy_id))
  /\ tx[s].pc = "inserted" =>
       /\ tx[s].event_id < nextval.event
       /\ \A e \in EventsOf(c.policy_id) : e.id < tx[s].event_id

(* What the committed history of every policy looks like. *)
HistoryConsistent ==
  /\ \A e \in policy_events :
       /\ e.id < nextval.event
       /\ \E row \in (IF e.operation_type = "endorsement" THEN billing_documents
                                                          ELSE payments) :
            row.policy_event_id = e.id
  /\ OneEventPerKey
  /\ ChainIntact
  /\ \A p \in PolicyIds :
       EventsOf(p) = {} \/ \E e \in EventsOf(p) : \A f \in EventsOf(p) : f.id <= e.id

(* The inductive invariant behind the theorems: the unique index and the    *)
(* chain survive because every writer is consistent with the history.       *)
BillingInv ==
  /\ TypeOK
  /\ \A s \in Sessions : SessionConsistent(s)
  /\ HistoryConsistent

(* A call that begins ends: the session becomes idle again whatever the     *)
(* other sessions do with the row lock it waits for.                        *)
EveryCallEnds == \A s \in Sessions : tx[s].pc # "idle" ~> tx[s].pc = "idle"

(* The calls applied to p in order, read off its chain of payloads. *)
CallOf(payload) == CHOOSE c \in Calls : CanonicalPayload(c) = payload
AppliedCalls(p) ==
  LET chain == HeadHash(EventsOf(p)) IN [i \in DOMAIN chain |-> CallOf(chain[i])]

Service == INSTANCE BillingService WITH
  Clients <- Sessions,
  log <- [p \in PolicyIds |-> AppliedCalls(p)],
  request <- [s \in Sessions |-> tx[s].call],
  verdict <- [s \in Sessions |->
    IF tx[s].pc = "ended"
    THEN [code |-> tx[s].result.code, premium |-> tx[s].result.premium,
          amount |-> tx[s].result.amount]
    ELSE [code |-> "pending", premium |-> 0, amount |-> 0]]

(* The concurrent functions are linearizable: every behaviour is one of the *)
(* service that decides one call at a time, with the answers it would give. *)
RefinesService == Service!ServiceSpec

-----------------------------------------------------------------------------
(* What the documents say of replays and duplicates; each is refuted. *)

(* spec.md FR-005 and the comment above the RETURN QUERY: a replay returns  *)
(* the original result verbatim.                                            *)
ReplayIsVerbatim ==
  \A a, b \in answers :
    /\ a.call = b.call
    /\ a.outcome.code = "applied"
    /\ b.outcome.code = "duplicate_ignored"
    => b.outcome = [a.outcome EXCEPT !.code = "duplicate_ignored"]

(* spec.md FR-009: a payment whose external payment id matches a prior one  *)
(* is a duplicate and has no effect.                                        *)
ExternalPaymentOnce ==
  \A m, n \in payments :
    /\ m.policy_id = n.policy_id
    /\ m.external_payment_id = n.external_payment_id
    => m = n
=============================================================================
