------------------------ MODULE PolicyBilling_proofs ------------------------
(***************************************************************************)
(* Theorems of PolicyBilling, for every set of sessions, policies, calls   *)
(* and bounds: types, the hash chain, the uniqueness of keys, a history    *)
(* that only grows, premiums that telescope, a ledger that agrees with     *)
(* documents and payments, answers that are true, errors that are          *)
(* explained, and the refinement of BillingService; and of                 *)
(* EndorsementSequence, for every term and premium.  They rest on          *)
(* BillingInv, shown inductive one action at a time, and on what a step    *)
(* does to the session that takes it (StepMoves).                          *)
(***************************************************************************)
EXTENDS PolicyBilling, EndorsementSequence, FiniteSetTheorems, SequenceTheorems, TLAPS

(* The rounding of fn_apply_endorsement. *)

(* What integer division in the code computes. *)
LEMMA DivBounds ==
  ASSUME NEW a \in Nat, NEW b \in Nat, b > 0
  PROVE  /\ a \div b \in Nat
         /\ (a \div b) * b <= a
         /\ a < (a \div b) * b + b
OBVIOUS

(* (2 * n + term) / (2 * term) is n / term to the nearest, ties upwards. *)
LEMMA HalfUp ==
  ASSUME NEW n \in Nat, NEW term \in Nat, term > 0
  PROVE  LET q == (2 * n + term) \div (2 * term)
         IN /\ q \in Nat
            /\ 2 * (q * term) <= 2 * n + term
            /\ 2 * n < 2 * (q * term) + term
<1> DEFINE q == (2 * n + term) \div (2 * term)
<1>1. 2 * n + term \in Nat /\ 2 * term \in Nat /\ 2 * term > 0
  OBVIOUS
<1>2. /\ q \in Nat
      /\ q * (2 * term) <= 2 * n + term
      /\ 2 * n + term < q * (2 * term) + 2 * term
  BY <1>1, DivBounds
<1>3. q * (2 * term) = 2 * (q * term)
  BY <1>2, SMT
<1> QED
  BY <1>2, <1>3, SMT

(* v_delta_cents misses the exact quotient by at most half a cent. *)
LEMMA RoundHalfAwayNearest ==
  ASSUME NEW n \in Int, NEW term \in Nat, term > 0
  PROVE  /\ RoundHalfAway(n, term) \in Int
         /\ 2 * Distance(RoundHalfAway(n, term) * term, n) <= term
<1>1. CASE n >= 0
  <2>1. n \in Nat
    BY <1>1
  <2> DEFINE q == (2 * n + term) \div (2 * term)
  <2>2. q \in Nat /\ 2 * (q * term) <= 2 * n + term /\ 2 * n < 2 * (q * term) + term
    BY <2>1, HalfUp
  <2>3. RoundHalfAway(n, term) = q
    BY <1>1 DEF RoundHalfAway
  <2>4. q * term \in Int
    BY <2>2
  <2> HIDE DEF q
  <2> QED
    BY <2>2, <2>3, <2>4 DEF Distance
<1>2. CASE n < 0
  <2>1. -n \in Nat
    BY <1>2
  <2> DEFINE q == (2 * (-n) + term) \div (2 * term)
  <2>2. /\ q \in Nat
        /\ 2 * (q * term) <= 2 * (-n) + term
        /\ 2 * (-n) < 2 * (q * term) + term
    BY <2>1, HalfUp
  <2>3. RoundHalfAway(n, term) = -1 * q
    BY <1>2 DEF RoundHalfAway
  <2> HIDE DEF q
  <2>4. q * term \in Int /\ (-1 * q) * term = -(q * term)
    BY <2>2, SMT
  <2> QED
    BY <2>2, <2>3, <2>4 DEF Distance
<1> QED
  BY <1>1, <1>2

(* Rounding treats both signs alike. *)
LEMMA RoundHalfAwayOdd ==
  ASSUME NEW n \in Int, NEW term \in Nat, term > 0
  PROVE  RoundHalfAway(-n, term) = -RoundHalfAway(n, term)
<1>1. CASE n = 0
  <2>1. (2 * 0 + term) \div (2 * term) = 0
    <3>1. 0 \in Nat /\ term < 2 * term
      OBVIOUS
    <3> DEFINE q == (2 * 0 + term) \div (2 * term)
    <3>2. q \in Nat /\ 2 * (q * term) <= 2 * 0 + term
      BY <3>1, HalfUp
    <3> HIDE DEF q
    <3>3. q >= 1 => q * term >= term
      BY <3>2, SMT
    <3> QED
      BY <3>2, <3>3 DEF q
  <2> QED
    BY <1>1, <2>1 DEF RoundHalfAway
<1>2. CASE n > 0
  <2> DEFINE q == (2 * n + term) \div (2 * term)
  <2>1. RoundHalfAway(n, term) = q /\ RoundHalfAway(-n, term) = -1 * q
    BY <1>2 DEF RoundHalfAway
  <2>2. q \in Nat
    BY <1>2, HalfUp
  <2> HIDE DEF q
  <2> QED
    BY <2>1, <2>2
<1>3. CASE n < 0
  <2> DEFINE q == (2 * (-n) + term) \div (2 * term)
  <2>1. RoundHalfAway(n, term) = -1 * q /\ RoundHalfAway(-n, term) = q
    BY <1>3 DEF RoundHalfAway
  <2>2. q \in Nat
    BY <1>3, HalfUp
  <2> HIDE DEF q
  <2> QED
    BY <2>1, <2>2
<1> QED
  BY <1>1, <1>2, <1>3

(* The amount billed has the sign of the change and never exceeds it. *)
LEMMA DeltaWithinChange ==
  ASSUME NEW old \in Nat, NEW new \in Nat, NEW term \in Nat, term > 0,
         NEW remaining \in 0 .. term
  PROVE  LET change == new - old
             delta == DeltaCents(old, new, remaining, term)
         IN \/ 0 <= delta /\ delta <= change
            \/ change <= delta /\ delta <= 0
<1>1. ASSUME NEW low \in Nat, NEW high \in Nat, low <= high
      PROVE  LET q == RoundHalfAway((high - low) * remaining, term)
             IN q \in Nat /\ q <= high - low
  <2> DEFINE c == high - low
             n == c * remaining
             q == (2 * n + term) \div (2 * term)
  <2>1. c \in Nat
    BY <1>1
  <2> HIDE DEF c
  <2>2. n \in Nat /\ n <= c * term
    BY <2>1, SMT
  <2> HIDE DEF n
  <2>3. q \in Nat /\ 2 * (q * term) <= 2 * n + term
    BY <2>2, HalfUp
  <2>4. RoundHalfAway(n, term) = q
    BY <2>2 DEF RoundHalfAway
  <2> HIDE DEF q
  <2>5. ASSUME q > c PROVE FALSE
    <3>1. q >= c + 1
      BY <2>1, <2>3, <2>5
    <3>2. q * term >= (c + 1) * term
      BY <2>1, <2>3, <3>1, SMT
    <3>3. (c + 1) * term = c * term + term
      BY <2>1, SMT
    <3>4. c * term \in Nat /\ q * term \in Nat
      BY <2>1, <2>3
    <3> QED
      BY <2>2, <2>3, <3>2, <3>3, <3>4
  <2>6. q <= c
    BY <2>1, <2>3, <2>5
  <2> QED
    BY <2>3, <2>4, <2>6 DEF n, c
<1>2. CASE old <= new
  BY <1>1, <1>2 DEF DeltaCents, Numerator
<1>3. CASE new < old
  <2> DEFINE n == (old - new) * remaining
             q == RoundHalfAway(n, term)
  <2>1. q \in Nat /\ q <= old - new
    BY <1>1, <1>3
  <2>2. n \in Int /\ (new - old) * remaining = -n
    BY SMT
  <2>3. DeltaCents(old, new, remaining, term) = -q
    BY <2>2, RoundHalfAwayOdd DEF DeltaCents, Numerator
  <2> HIDE DEF q
  <2> QED
    BY <2>1, <2>3
<1> QED
  BY <1>2, <1>3

(* Two integers apart by less in each part are apart by less in the sum. *)
LEMMA DistanceAdds ==
  ASSUME NEW a \in Int, NEW b \in Int, NEW c \in Int, NEW d \in Int
  PROVE  Distance(a + c, b + d) <= Distance(a, b) + Distance(c, d)
BY DEF Distance

-----------------------------------------------------------------------------
(* The hash chain and the sessions *)

(* The verification of a history is the verification of each of its rows. *)
LEMMA ValidIsIntact ==
  ASSUME NEW events
  PROVE  VerifyHistory(events).valid <=> \A e \in events : IntactEvent(e, events)
<1> DEFINE broken == {e \in events : ~ IntactEvent(e, events)}
<1>1. VerifyHistory(events).valid <=> broken = {}
  BY Zenon DEF VerifyHistory
<1> QED
  BY <1>1

LEMMA PayloadType ==
  ASSUME NEW c \in Calls
  PROVE  CanonicalPayload(c) \in Payloads
BY DEF Payloads

LEMMA DigestType ==
  ASSUME NEW payload \in Payloads, NEW previous \in Hashes
  PROVE  Digest(payload, previous) \in Hashes
BY DEF Digest, Hashes

LEMMA CallKinds ==
  ASSUME NEW c \in Calls
  PROVE  /\ IsEndorsement(c) => c \in EndorsementCalls
         /\ ~ IsEndorsement(c) => c \in PaymentCalls
         /\ c.operation \in {"endorsement", "payment"}
         /\ c.idempotency_key \in Keys
BY CallsAssumption DEF Calls, IsEndorsement, Keys

LEMMA FreshType ==
  ASSUME NEW pc \in Pcs, NEW c \in Calls \union {NoCall}, NEW started \in Nat,
         NEW served \in BOOLEAN, NEW result \in Outcomes
  PROVE  Fresh(pc, c, started, served, result) \in TxStates
<1>1. GenesisHash \in Hashes
  BY DEF GenesisHash, Hashes
<1> QED
  BY <1>1 DEF Fresh, TxStates

(* The head of a consistent history is a hash. *)
LEMMA HeadType ==
  ASSUME TypeOK, HistoryConsistent, NEW p \in PolicyIds
  PROVE  HeadHash(EventsOf(p)) \in Hashes
<1>1. CASE EventsOf(p) = {}
  BY <1>1 DEF HeadHash, GenesisHash, Hashes
<1>2. CASE EventsOf(p) # {}
  <2>1. \E e \in EventsOf(p) : \A f \in EventsOf(p) : f.id <= e.id
    BY <1>2 DEF HistoryConsistent
  <2>2. LatestEvent(EventsOf(p)) \in EventsOf(p)
    BY <2>1 DEF LatestEvent
  <2>3. LatestEvent(EventsOf(p)) \in EventRows
    BY <2>2 DEF EventsOf, TypeOK
  <2> QED
    BY <1>2, <2>3 DEF HeadHash, EventRows
<1> QED
  BY <1>1, <1>2

(* A newer row leaves the rows before it intact and links to the head. *)
LEMMA ChainExtends ==
  ASSUME NEW events, NEW new,
         \A e \in events : e.id \in Int,
         new.id \in Int,
         \A e \in events : e.id < new.id,
         \A e \in events : IntactEvent(e, events),
         new.previous_hash = HeadHash(events),
         new.event_hash = Digest(new.payload_canonical, HeadHash(events))
  PROVE  \A e \in events \union {new} : IntactEvent(e, events \union {new})
<1>1. ASSUME NEW e \in events
      PROVE  EventsBefore(e, events \union {new}) = EventsBefore(e, events)
  BY DEF EventsBefore
<1>2. EventsBefore(new, events \union {new}) = events
  BY DEF EventsBefore
<1>3. ASSUME NEW e \in events
      PROVE  IntactEvent(e, events \union {new})
  BY <1>1 DEF IntactEvent
<1>4. IntactEvent(new, events \union {new})
  BY <1>2 DEF IntactEvent
<1> QED
  BY <1>3, <1>4

-----------------------------------------------------------------------------
(* The initial state *)

LEMMA InitConsistent == Init => BillingInv
<1> SUFFICES ASSUME Init PROVE BillingInv
  OBVIOUS
<1>1. IdleTx \in TxStates
  <2>1. NoOutcome \in Outcomes
    BY DEF NoOutcome, Failure, Outcomes, Codes
  <2> QED
    BY <2>1, FreshType DEF IdleTx, Pcs
<1>2. TypeOK
  BY <1>1, SeedAssumption DEF Init, TypeOK
<1>3. \A s \in Sessions : SessionConsistent(s)
  BY DEF Init, IdleTx, Fresh, SessionConsistent, Critical, Writing
<1>4. \A p \in PolicyIds : EventsOf(p) = {}
  BY DEF Init, EventsOf
<1>5. ChainIntact
  BY <1>4, ValidIsIntact DEF ChainIntact
<1>6. HistoryConsistent
  BY <1>4, <1>5 DEF Init, HistoryConsistent, OneEventPerKey
<1> QED
  BY <1>2, <1>3, <1>6 DEF BillingInv

-----------------------------------------------------------------------------
(* Steps that commit nothing *)

LEMMA StepTypes ==
  ASSUME BillingInv
  PROVE  /\ clock \in Nat
         /\ answers \subseteq Answers
         /\ nextval \in [event : Nat, document : Nat, payment : Nat, transaction : Nat]
         /\ nextval.event <= nextval.event
         /\ lock \in [PolicyIds -> Sessions \union {NoSession}]
         /\ tx \in [Sessions -> TxStates]
BY DEF BillingInv, TypeOK

(* The other sessions stay consistent with a history that did not change as *)
(* long as nobody takes their locks.                                        *)
LEMMA OthersUndisturbed ==
  ASSUME BillingInv, NEW s \in Sessions,
         UNCHANGED policy_events,
         \A o \in Sessions \ {s} : tx'[o] = tx[o],
         nextval'.event \in Nat, nextval.event <= nextval'.event,
         \A o \in Sessions \ {s}, p \in PolicyIds : lock[p] = o => lock'[p] = o
  PROVE  \A o \in Sessions \ {s} : SessionConsistent(o)'
<1> SUFFICES ASSUME NEW o \in Sessions \ {s} PROVE SessionConsistent(o)'
  OBVIOUS
<1>1. SessionConsistent(o) /\ tx'[o] = tx[o]
  BY DEF BillingInv
<1>2. /\ \A c : Earlier(c)' = Earlier(c)
      /\ \A p : EventsOf(p)' = EventsOf(p)
  BY DEF Earlier, EventsOf
<1>3. tx[o].event_id \in Nat /\ nextval.event \in Nat
  BY DEF BillingInv, TypeOK, TxStates
<1> QED
  BY <1>1, <1>2, <1>3 DEF SessionConsistent

(* A step of session s that leaves the tables alone preserves the invariant *)
(* if it leaves s consistent.                                               *)
LEMMA SessionStep ==
  ASSUME BillingInv, NEW s \in Sessions, NEW t \in TxStates,
         tx' = [tx EXCEPT ![s] = t],
         UNCHANGED tables,
         clock' \in Nat,
         answers' \subseteq Answers,
         nextval' \in [event : Nat, document : Nat, payment : Nat, transaction : Nat],
         nextval.event <= nextval'.event,
         lock' \in [PolicyIds -> Sessions \union {NoSession}],
         \A o \in Sessions \ {s}, p \in PolicyIds : lock[p] = o => lock'[p] = o,
         SessionConsistent(s)'
  PROVE  BillingInv'
<1>1. TypeOK'
  BY DEF BillingInv, TypeOK, tables
<1>2. \A o \in Sessions \ {s} : tx'[o] = tx[o]
  BY DEF BillingInv, TypeOK
<1>3. \A o \in Sessions \ {s} : SessionConsistent(o)'
  BY <1>1, <1>2, OthersUndisturbed DEF TypeOK, tables
<1>4. HistoryConsistent'
  <2>1. nextval.event \in Nat /\ nextval'.event \in Nat
    BY <1>1 DEF BillingInv, TypeOK
  <2>2. \A e \in policy_events : e.id \in Nat
    BY DEF BillingInv, TypeOK, EventRows
  <2>3. \A p : EventsOf(p)' = EventsOf(p)
    BY DEF EventsOf, tables
  <2>4. ChainIntact'
    BY <2>3 DEF BillingInv, HistoryConsistent, ChainIntact
  <2>5. OneEventPerKey'
    BY DEF BillingInv, HistoryConsistent, OneEventPerKey, tables
  <2>6. \A e \in policy_events' :
          /\ e.id < nextval'.event
          /\ \E row \in (IF e.operation_type = "endorsement" THEN billing_documents'
                                                             ELSE payments') :
               row.policy_event_id = e.id
    BY <2>1, <2>2 DEF BillingInv, HistoryConsistent, tables
  <2>7. \A p \in PolicyIds :
          EventsOf(p)' = {} \/ \E e \in EventsOf(p)' : \A f \in EventsOf(p)' : f.id <= e.id
    BY <2>3 DEF BillingInv, HistoryConsistent
  <2> QED
    BY <2>4, <2>5, <2>6, <2>7 DEF HistoryConsistent
<1> QED
  BY <1>1, <1>3, <1>4 DEF BillingInv

(* Ending a call, with any outcome, without touching a table. *)
LEMMA EndStep ==
  ASSUME BillingInv, NEW s \in Sessions, tx[s].pc # "idle",
         NEW outcome \in Outcomes, End(s, outcome),
         UNCHANGED <<tables, nextval, clock, answers>>
  PROVE  BillingInv'
<1> DEFINE t == Fresh("ended", tx[s].call, tx[s].started, tx[s].served, outcome)
<1>1. tx[s] \in TxStates /\ tx[s].call \in Calls
  BY DEF BillingInv, TypeOK, SessionConsistent
<1>2. t \in TxStates
  <2>1. tx[s].started \in Nat /\ tx[s].served \in BOOLEAN
    BY <1>1 DEF TxStates
  <2> QED
    BY <1>1, <2>1, FreshType DEF Pcs
<1>3. tx' = [tx EXCEPT ![s] = t]
  BY DEF End
<1>4. tx'[s].pc = "ended" /\ tx'[s].call \in Calls
  BY <1>1, <1>3 DEF BillingInv, TypeOK, Fresh
<1>5. SessionConsistent(s)'
  BY <1>4 DEF SessionConsistent, Critical, Writing
<1>6. /\ lock' \in [PolicyIds -> Sessions \union {NoSession}]
      /\ \A o \in Sessions \ {s}, p \in PolicyIds : lock[p] = o => lock'[p] = o
  BY DEF End, Released, BillingInv, TypeOK
<1> HIDE DEF t
<1>7. UNCHANGED tables /\ nextval' = nextval /\ clock' = clock /\ answers' = answers
  OBVIOUS
<1> QED
  BY <1>2, <1>3, <1>5, <1>6, <1>7, StepTypes, SessionStep

(* A step of session s within its call, under the locks it has. *)
LEMMA InnerStep ==
  ASSUME BillingInv, NEW s \in Sessions, NEW t \in TxStates,
         tx' = [tx EXCEPT ![s] = t],
         UNCHANGED <<tables, nextval, lock, clock, answers>>,
         SessionConsistent(s)'
  PROVE  BillingInv'
<1>1. /\ UNCHANGED tables
      /\ nextval' = nextval /\ lock' = lock /\ clock' = clock /\ answers' = answers
  OBVIOUS
<1> QED
  BY <1>1, StepTypes, SessionStep

LEMMA FailureType == ASSUME NEW code \in Codes PROVE Failure(code) \in Outcomes
BY DEF Failure, Outcomes

LEMMA BeginConsistent ==
  ASSUME BillingInv, NEW s \in Sessions, NEW c \in Calls, Begin(s, c)
  PROVE  BillingInv'
<1> DEFINE t == Fresh("begun", c, clock + 1, TRUE, NoOutcome)
<1>1. NoOutcome \in Outcomes
  BY FailureType DEF NoOutcome, Codes
<1>2. t \in TxStates
  <2>1. clock + 1 \in Nat /\ TRUE \in BOOLEAN /\ "begun" \in Pcs
    BY StepTypes DEF Pcs
  <2> QED
    BY <1>1, <2>1, FreshType
<1>3. tx' = [tx EXCEPT ![s] = t]
  BY DEF Begin
<1>4. tx'[s].pc = "begun" /\ tx'[s].call = c
  BY <1>3, StepTypes DEF Fresh
<1>5. SessionConsistent(s)'
  BY <1>4 DEF SessionConsistent, Critical, Writing
<1>6. /\ UNCHANGED tables
      /\ nextval' = nextval /\ lock' = lock /\ clock' \in Nat /\ answers' = answers
  BY StepTypes DEF Begin
<1> HIDE DEF t
<1> QED
  BY <1>2, <1>3, <1>5, <1>6, StepTypes, SessionStep

(* The lock was free, so the lock of no other session is taken from it. *)
LEMMA LockPolicyConsistent ==
  ASSUME BillingInv, NEW s \in Sessions, LockPolicy(s)
  PROVE  BillingInv'
<1> DEFINE p == tx[s].call.policy_id
           t == [tx[s] EXCEPT !.pc = "locked",
                              !.old_premium = policies[p].annual_premium_cents]
<1>1. tx[s] \in TxStates /\ p \in PolicyIds
  BY StepTypes DEF LockPolicy
<1>2. policies[p].annual_premium_cents \in Nat
  BY <1>1 DEF BillingInv, TypeOK
<1>3. t \in TxStates
  BY <1>1, <1>2 DEF TxStates, Pcs
<1>4. tx' = [tx EXCEPT ![s] = t]
  BY DEF LockPolicy
<1>5. tx'[s].pc = "locked" /\ tx'[s].call = tx[s].call
  BY <1>1, <1>4, StepTypes DEF TxStates
<1>6. tx[s].call \in Calls
  BY DEF BillingInv, SessionConsistent, LockPolicy
<1>7. lock' = [lock EXCEPT ![p] = s] /\ lock[p] = NoSession
  BY DEF LockPolicy, LockAvailable
<1>8. SessionConsistent(s)'
  BY <1>1, <1>5, <1>6, <1>7, StepTypes DEF SessionConsistent, Critical, Writing
<1>9. /\ lock' \in [PolicyIds -> Sessions \union {NoSession}]
      /\ \A o \in Sessions \ {s}, q \in PolicyIds : lock[q] = o => lock'[q] = o
  BY <1>7, StepTypes, NullAssumption
<1>10. UNCHANGED tables /\ nextval' = nextval /\ clock' = clock /\ answers' = answers
  BY DEF LockPolicy
<1> HIDE DEF t, p
<1> QED
  BY <1>3, <1>4, <1>8, <1>9, <1>10, StepTypes, SessionStep

LEMMA PolicyNotFoundConsistent ==
  ASSUME BillingInv, NEW s \in Sessions, PolicyNotFound(s)
  PROVE  BillingInv'
BY EndStep, FailureType DEF PolicyNotFound, Codes

LEMMA RejectConflictConsistent ==
  ASSUME BillingInv, NEW s \in Sessions, RejectConflict(s)
  PROVE  BillingInv'
BY EndStep, FailureType DEF RejectConflict, Codes

LEMMA RejectCallConsistent ==
  ASSUME BillingInv, NEW s \in Sessions, RejectCall(s)
  PROVE  BillingInv'
<1> DEFINE code == RejectionOf(tx[s].call, tx[s].old_premium)
<1>1. code # "none"
  BY DEF RejectCall
<1>2. code \in Codes
  BY <1>1 DEF RejectionOf, Codes
<1> QED
  BY <1>2, EndStep, FailureType DEF RejectCall

(* The event a replay finds has its row, so the answer is a row's. *)
LEMMA AnswerReplayConsistent ==
  ASSUME BillingInv, NEW s \in Sessions, AnswerReplay(s)
  PROVE  BillingInv'
<1> DEFINE c == tx[s].call
           table == IF IsEndorsement(c) THEN billing_documents ELSE payments
<1>1. PICK e \in Earlier(c) : End(s, ReplayOf(e, c))
  BY DEF AnswerReplay
<1>2. c \in Calls /\ c.policy_id \in PolicyIds
  BY DEF AnswerReplay, BillingInv, SessionConsistent, Critical
<1>3. e \in policy_events /\ e.operation_type = c.operation
  BY DEF Earlier, SameKey
<1>4. \E row \in table : row.policy_event_id = e.id
  BY <1>2, <1>3 DEF BillingInv, HistoryConsistent, IsEndorsement
<1>5. RowOf(e, table) \in table
  BY <1>4 DEF RowOf
<1>6. RowOf(e, table).id \in Nat /\ RowOf(e, table).amount_cents \in Int
  <2>1. CASE IsEndorsement(c)
    <3>1. RowOf(e, table) \in DocumentRows
      BY <1>5, <2>1 DEF BillingInv, TypeOK
    <3> QED
      BY <3>1 DEF DocumentRows
  <2>2. CASE ~ IsEndorsement(c)
    <3>1. RowOf(e, table) \in PaymentRows
      BY <1>5, <2>2 DEF BillingInv, TypeOK
    <3> QED
      BY <3>1 DEF PaymentRows
  <2> QED
    BY <2>1, <2>2
<1>7. policies[c.policy_id].annual_premium_cents \in Nat
  BY <1>2 DEF BillingInv, TypeOK
<1> DEFINE premium == IF IsEndorsement(c)
                      THEN policies[c.policy_id].annual_premium_cents ELSE 0
           row == RowOf(e, table)
<1>8. premium \in Nat
  BY <1>7
<1>9. ReplayOf(e, c) = [code |-> "duplicate_ignored", premium |-> premium,
                        id |-> row.id, amount |-> row.amount_cents]
  BY DEF ReplayOf
<1> HIDE DEF premium, row
<1>10. row.id \in Nat /\ row.amount_cents \in Int
  BY <1>6 DEF row
<1>11. ReplayOf(e, c) \in Outcomes
  BY <1>8, <1>9, <1>10 DEF Outcomes, Codes
<1> QED
  BY <1>1, <1>11, EndStep DEF AnswerReplay

LEMMA AcceptCallConsistent ==
  ASSUME BillingInv, NEW s \in Sessions, AcceptCall(s)
  PROVE  BillingInv'
<1> DEFINE c == tx[s].call
           t == [tx[s] EXCEPT !.pc = "accepted"]
<1>1. tx[s] \in TxStates /\ SessionConsistent(s)
  BY StepTypes DEF BillingInv
<1>2. t \in TxStates
  BY <1>1 DEF TxStates, Pcs
<1>3. tx' = [tx EXCEPT ![s] = t]
  BY DEF AcceptCall
<1>4. tx'[s].pc = "accepted" /\ tx'[s].call = c
  BY <1>1, <1>3, StepTypes DEF TxStates
<1>5. c \in Calls /\ c.policy_id \in PolicyIds /\ lock[c.policy_id] = s /\ Earlier(c) = {}
  BY <1>1 DEF AcceptCall, SessionConsistent, Critical
<1>6. ~ IsEndorsement(c) => c.amount_cents > 0
  <2> SUFFICES ASSUME ~ IsEndorsement(c) PROVE c.amount_cents > 0
    OBVIOUS
  <2>1. RejectionOf(c, tx[s].old_premium) = "none"
    BY DEF AcceptCall
  <2>2. c.amount_cents \in Int
    BY <1>5, CallKinds, CallsAssumption
  <2>3. ~ (c.amount_cents <= 0)
    BY <2>1 DEF RejectionOf
  <2> QED
    BY <2>2, <2>3
<1>7. (\A d : Earlier(d)' = Earlier(d)) /\ lock' = lock
  BY DEF AcceptCall, Earlier, tables
<1>8. SessionConsistent(s)'
  BY <1>4, <1>5, <1>6, <1>7 DEF SessionConsistent
<1>9. UNCHANGED <<tables, nextval, lock, clock, answers>>
  BY DEF AcceptCall
<1> HIDE DEF t
<1> QED
  BY <1>2, <1>3, <1>8, <1>9, InnerStep

LEMMA ReadChainHeadConsistent ==
  ASSUME BillingInv, NEW s \in Sessions, ReadChainHead(s)
  PROVE  BillingInv'
<1> DEFINE c == tx[s].call
           head == HeadHash(EventsOf(c.policy_id))
           t == [tx[s] EXCEPT !.pc = "chained", !.previous_hash = head]
<1>1. tx[s] \in TxStates /\ SessionConsistent(s) /\ tx[s].pc = "accepted"
  BY StepTypes DEF BillingInv, ReadChainHead
<1>2. /\ c \in Calls /\ c.policy_id \in PolicyIds /\ lock[c.policy_id] = s
      /\ Earlier(c) = {} /\ (~ IsEndorsement(c) => c.amount_cents > 0)
  BY <1>1 DEF SessionConsistent, Critical, Writing
<1>3. head \in Hashes
  BY <1>2, HeadType DEF BillingInv
<1>4. tx' = [tx EXCEPT ![s] = t]
  BY DEF ReadChainHead
<1>5. UNCHANGED <<tables, nextval, lock, clock, answers>>
  BY DEF ReadChainHead
<1>6. /\ \A d : Earlier(d)' = Earlier(d)
      /\ \A p : EventsOf(p)' = EventsOf(p)
  BY <1>5 DEF Earlier, EventsOf, tables
<1> HIDE DEF head
<1>7. t \in TxStates
  BY <1>1, <1>3 DEF TxStates, Pcs
<1>8. tx'[s].pc = "chained" /\ tx'[s].call = c /\ tx'[s].previous_hash = head
  BY <1>1, <1>4, StepTypes DEF TxStates
<1>9. SessionConsistent(s)'
  BY <1>2, <1>5, <1>6, <1>8 DEF SessionConsistent, head
<1> HIDE DEF t
<1> QED
  BY <1>4, <1>5, <1>7, <1>9, InnerStep

(* The id drawn is above all committed ones, and 23505 cannot be raised. *)
LEMMA InsertEventConsistent ==
  ASSUME BillingInv, NEW s \in Sessions, InsertEvent(s)
  PROVE  BillingInv'
<1> DEFINE c == tx[s].call
           t == [tx[s] EXCEPT !.pc = "inserted", !.event_id = nextval.event]
<1>1. tx[s] \in TxStates /\ SessionConsistent(s) /\ tx[s].pc = "chained"
  BY StepTypes DEF BillingInv, InsertEvent
<1>2. /\ c \in Calls /\ c.policy_id \in PolicyIds /\ lock[c.policy_id] = s
      /\ Earlier(c) = {} /\ (~ IsEndorsement(c) => c.amount_cents > 0)
      /\ tx[s].previous_hash = HeadHash(EventsOf(c.policy_id))
  BY <1>1 DEF SessionConsistent, Critical, Writing
<1>3. /\ tx' = [tx EXCEPT ![s] = t]
      /\ nextval' = [nextval EXCEPT !.event = nextval.event + 1]
      /\ UNCHANGED <<tables, lock, clock, answers>>
  BY <1>2 DEF InsertEvent
<1>4. nextval.event \in Nat
  BY StepTypes
<1>5. t \in TxStates
  BY <1>1, <1>4 DEF TxStates, Pcs
<1>6. /\ tx'[s].pc = "inserted" /\ tx'[s].call = c
      /\ tx'[s].previous_hash = tx[s].previous_hash
      /\ tx'[s].event_id = nextval.event
  BY <1>1, <1>3, StepTypes DEF TxStates
<1>7. /\ nextval'.event = nextval.event + 1
      /\ nextval' \in [event : Nat, document : Nat, payment : Nat, transaction : Nat]
  BY <1>3, <1>4, StepTypes
<1>8. /\ \A d : Earlier(d)' = Earlier(d)
      /\ \A p : EventsOf(p)' = EventsOf(p)
  BY <1>3 DEF Earlier, EventsOf, tables
<1>9. \A e \in policy_events : e.id < nextval.event
  BY DEF BillingInv, HistoryConsistent
<1>10. SessionConsistent(s)'
  <2>1. \A e \in EventsOf(c.policy_id) : e.id < nextval.event
    BY <1>9 DEF EventsOf
  <2>2. lock' = lock
    BY <1>3
  <2> QED
    BY <1>2, <1>4, <1>6, <1>7, <1>8, <2>1, <2>2 DEF SessionConsistent
<1>11. UNCHANGED tables /\ lock' = lock /\ clock' = clock /\ answers' = answers
  BY <1>3
<1>12. nextval.event <= nextval'.event
  BY <1>4, <1>7
<1> HIDE DEF t
<1> QED
  BY <1>3, <1>5, <1>7, <1>10, <1>11, <1>12, StepTypes, SessionStep

-----------------------------------------------------------------------------
(* Steps that end a call before or after its commit *)

(* Going idle releases whatever the session held. *)
LEMMA IdleStep ==
  ASSUME BillingInv, NEW s \in Sessions,
         tx' = [tx EXCEPT ![s] = IdleTx],
         lock' \in {lock, Released(s)},
         answers' \subseteq Answers,
         UNCHANGED <<tables, nextval, clock>>
  PROVE  BillingInv'
<1>1. NoOutcome \in Outcomes
  BY FailureType DEF NoOutcome, Codes
<1>2. IdleTx \in TxStates
  BY <1>1, FreshType DEF IdleTx, Pcs
<1>3. tx'[s].pc = "idle"
  BY StepTypes DEF IdleTx, Fresh
<1>4. SessionConsistent(s)'
  BY <1>3 DEF SessionConsistent, Critical, Writing
<1>5. /\ lock' \in [PolicyIds -> Sessions \union {NoSession}]
      /\ \A o \in Sessions \ {s}, p \in PolicyIds : lock[p] = o => lock'[p] = o
  BY StepTypes DEF Released
<1>6. UNCHANGED tables /\ nextval' = nextval /\ clock' = clock
  OBVIOUS
<1> QED
  BY <1>2, <1>4, <1>5, <1>6, StepTypes, SessionStep

LEMMA AbortConsistent ==
  ASSUME BillingInv, NEW s \in Sessions, Abort(s)
  PROVE  BillingInv'
BY IdleStep, StepTypes DEF Abort

(* The session does not notice. *)
LEMMA DisconnectConsistent ==
  ASSUME BillingInv, NEW s \in Sessions, Disconnect(s)
  PROVE  BillingInv'
<1> DEFINE t == [tx[s] EXCEPT !.served = FALSE]
<1>1. tx[s] \in TxStates /\ SessionConsistent(s)
  BY StepTypes DEF BillingInv
<1>2. t \in TxStates
  BY <1>1 DEF TxStates
<1>3. tx' = [tx EXCEPT ![s] = t]
  BY DEF Disconnect
<1>4. /\ tx'[s].pc = tx[s].pc /\ tx'[s].call = tx[s].call
      /\ tx'[s].previous_hash = tx[s].previous_hash
      /\ tx'[s].event_id = tx[s].event_id
  BY <1>1, <1>3, StepTypes DEF TxStates
<1>5. UNCHANGED <<tables, nextval, lock, clock, answers>>
  BY DEF Disconnect
<1>6. /\ \A d : Earlier(d)' = Earlier(d)
      /\ \A p : EventsOf(p)' = EventsOf(p)
  BY <1>5 DEF Earlier, EventsOf, tables
<1>7. SessionConsistent(s)'
  BY <1>1, <1>4, <1>5, <1>6 DEF SessionConsistent
<1> HIDE DEF t
<1> QED
  BY <1>2, <1>3, <1>5, <1>7, InnerStep

LEMMA ReplyConsistent ==
  ASSUME BillingInv, NEW s \in Sessions, Reply(s)
  PROVE  BillingInv'
<1> DEFINE status == HttpStatus(tx[s].call, tx[s].result.code)
           answer == [at |-> tx[s].started, call |-> tx[s].call, outcome |-> tx[s].result,
                      status |-> status]
<1>1. tx[s] \in TxStates /\ tx[s].call \in Calls
  BY StepTypes DEF BillingInv, SessionConsistent, Reply
<1>2. status \in {200, 404, 409, 422, 500}
  BY DEF HttpStatus
<1>3. answers' \subseteq answers \union {answer}
  BY DEF Reply
<1> HIDE DEF status
<1>4. answer \in Answers
  BY <1>1, <1>2 DEF TxStates, Answers
<1> HIDE DEF answer
<1>5. answers' \subseteq Answers
  BY <1>3, <1>4, StepTypes
<1> QED
  BY <1>5, IdleStep DEF Reply

-----------------------------------------------------------------------------
(* The commit *)

LEMMA DeltaType ==
  ASSUME NEW c \in EndorsementCalls, c.policy_id \in PolicyIds, NEW old \in Nat
  PROVE  Delta(c, old) \in Int
<1> DEFINE row == Seed[c.policy_id]
           term == row.term_end - row.term_start
           remaining == row.term_end - c.effective_date
           n == Numerator(old, c.new_annual_premium_cents, remaining)
<1>1. row.term_start \in Int /\ row.term_end \in Int /\ row.term_start < row.term_end
  BY SeedAssumption
<1>2. term \in Nat /\ term > 0
  BY <1>1
<1>3. remaining \in Int /\ c.new_annual_premium_cents \in Int
  BY <1>1, CallsAssumption, BigintAssumption
<1> HIDE DEF remaining, term
<1>4. n \in Int
  BY <1>3 DEF Numerator
<1>5. RoundHalfAway(n, term) \in Int
  BY <1>2, <1>4, RoundHalfAwayNearest
<1> QED
  BY <1>5 DEF Delta, DeltaCents, remaining, term

LEMMA EndorsementEntriesType ==
  ASSUME NEW t \in Nat, NEW delta \in Int
  PROVE  EndorsementEntries(t, delta) \subseteq EntryRows
BY DEF EndorsementEntries, Entry, EntryRows

LEMMA PaymentEntriesType ==
  ASSUME NEW t \in Nat, NEW amount \in Int, amount > 0
  PROVE  PaymentEntries(t, amount) \subseteq EntryRows
BY DEF PaymentEntries, Entry, EntryRows

LEMMA NewEventType ==
  ASSUME BillingInv, NEW s \in Sessions, tx[s].pc = "inserted"
  PROVE  NewEvent(s) \in EventRows
<1>1. tx[s] \in TxStates /\ tx[s].call \in Calls /\ tx[s].call.policy_id \in PolicyIds
  BY StepTypes DEF BillingInv, SessionConsistent, Critical
<1>2. /\ tx[s].event_id \in Nat /\ tx[s].started \in Nat /\ tx[s].previous_hash \in Hashes
  BY <1>1 DEF TxStates
<1>3. CanonicalPayload(tx[s].call) \in Payloads
  BY <1>1, PayloadType
<1>4. Digest(CanonicalPayload(tx[s].call), tx[s].previous_hash) \in Hashes
  BY <1>2, <1>3, DigestType
<1> QED
  BY <1>1, <1>2, <1>3, <1>4, CallKinds DEF NewEvent, EventRows

(* The committed event extends a consistent history consistently: its key   *)
(* is new, its id the largest of its policy and its link the head.          *)
LEMMA HistoryExtends ==
  ASSUME BillingInv, NEW s \in Sessions, tx[s].pc = "inserted",
         policy_events' = policy_events \union {NewEvent(s)},
         nextval'.event = nextval.event,
         billing_documents \subseteq billing_documents',
         payments \subseteq payments',
         \E row \in (IF IsEndorsement(tx[s].call) THEN billing_documents' ELSE payments') :
           row.policy_event_id = tx[s].event_id
  PROVE  HistoryConsistent'
<1> DEFINE c == tx[s].call
           new == NewEvent(s)
<1>1. /\ c \in Calls /\ c.policy_id \in PolicyIds /\ Earlier(c) = {}
      /\ tx[s].previous_hash = HeadHash(EventsOf(c.policy_id))
      /\ tx[s].event_id < nextval.event
      /\ \A e \in EventsOf(c.policy_id) : e.id < tx[s].event_id
  BY DEF BillingInv, SessionConsistent, Critical, Writing
<1>2. /\ new.id = tx[s].event_id /\ new.policy_id = c.policy_id
      /\ new.operation_type = c.operation /\ new.idempotency_key = c.idempotency_key
      /\ new.payload_canonical = CanonicalPayload(c)
      /\ new.previous_hash = tx[s].previous_hash
      /\ new.event_hash = Digest(CanonicalPayload(c), tx[s].previous_hash)
  BY DEF NewEvent
<1>3. new.id \in Nat /\ \A e \in policy_events : e.id \in Nat
  BY <1>2, NewEventType DEF EventRows, BillingInv, TypeOK
<1>4. HistoryConsistent
  BY DEF BillingInv
<1> HIDE DEF new
<1>5. policy_events' = policy_events \union {new}
  BY DEF new
<1>6. ASSUME NEW p \in PolicyIds, p # c.policy_id
      PROVE  EventsOf(p)' = EventsOf(p)
  BY <1>2, <1>5, <1>6 DEF EventsOf
<1>8. ASSUME NEW p \in PolicyIds, p = c.policy_id
      PROVE  EventsOf(p)' = EventsOf(p) \union {new}
  BY <1>2, <1>5, <1>8 DEF EventsOf
<1>9. ASSUME NEW e \in policy_events'
      PROVE  /\ e.id < nextval'.event
             /\ \E row \in (IF e.operation_type = "endorsement" THEN billing_documents'
                                                                ELSE payments') :
                  row.policy_event_id = e.id
  <2>1. CASE e \in policy_events
    BY <1>4, <2>1 DEF HistoryConsistent
  <2>2. CASE e = new
    BY <1>1, <1>2, <2>2 DEF IsEndorsement
  <2> QED
    BY <1>5, <2>1, <2>2
<1>10. OneEventPerKey'
  <2>1. \A e \in policy_events :
          ~ (/\ e.policy_id = new.policy_id
             /\ e.operation_type = new.operation_type
             /\ e.idempotency_key = new.idempotency_key)
    BY <1>1, <1>2 DEF Earlier, SameKey
  <2> QED
    BY <1>4, <1>5, <2>1 DEF HistoryConsistent, OneEventPerKey
<1>11. ASSUME NEW p \in PolicyIds
       PROVE  VerifyHistory(EventsOf(p)').valid
  <2>1. \A e \in EventsOf(p) : IntactEvent(e, EventsOf(p))
    BY <1>4, ValidIsIntact DEF HistoryConsistent, ChainIntact
  <2>2. CASE p # c.policy_id
    BY <1>6, <2>1, <2>2, ValidIsIntact
  <2>3. CASE p = c.policy_id
    <3>1. \A e \in EventsOf(p) : e.id \in Int /\ e.id < new.id
      BY <1>1, <1>2, <1>3, <2>3 DEF EventsOf
    <3>2. new.id \in Int /\ new.previous_hash = HeadHash(EventsOf(p))
          /\ new.event_hash = Digest(new.payload_canonical, HeadHash(EventsOf(p)))
      BY <1>1, <1>2, <1>3, <2>3
    <3>3. \A e \in EventsOf(p) \union {new} : IntactEvent(e, EventsOf(p) \union {new})
      BY <2>1, <3>1, <3>2, ChainExtends
    <3> QED
      BY <1>8, <2>3, <3>3, ValidIsIntact
  <2> QED
    BY <2>2, <2>3
<1>12. ASSUME NEW p \in PolicyIds
       PROVE  EventsOf(p)' = {} \/ \E e \in EventsOf(p)' : \A f \in EventsOf(p)' : f.id <= e.id
  <2>1. CASE p # c.policy_id
    BY <1>4, <1>6, <2>1 DEF HistoryConsistent
  <2>2. CASE p = c.policy_id
    <3>1. \A f \in EventsOf(p) \union {new} : f.id <= new.id
      BY <1>1, <1>2, <1>3, <2>2 DEF EventsOf
    <3> QED
      BY <1>8, <2>2, <3>1
  <2> QED
    BY <2>1, <2>2
<1> QED
  BY <1>9, <1>10, <1>11, <1>12 DEF HistoryConsistent, ChainIntact

(* Another session does not notice a commit: it writes to another policy,   *)
(* whose lock it holds, or has relied on nothing yet.                       *)
LEMMA OthersAfterCommit ==
  ASSUME BillingInv, NEW s \in Sessions, tx[s].pc = "inserted",
         policy_events' = policy_events \union {NewEvent(s)},
         nextval'.event = nextval.event,
         lock' = Released(s),
         NEW o \in Sessions \ {s}, tx'[o] = tx[o]
  PROVE  SessionConsistent(o)'
<1>1. SessionConsistent(o) /\ lock[tx[s].call.policy_id] = s /\ tx[s].call.policy_id \in PolicyIds
  BY DEF BillingInv, SessionConsistent, Critical
<1>2. tx[o].pc \in Critical =>
        /\ tx[o].call.policy_id \in PolicyIds
        /\ tx[o].call.policy_id # tx[s].call.policy_id
        /\ lock'[tx[o].call.policy_id] = o
  BY <1>1 DEF SessionConsistent, Released
<1>3. NewEvent(s).policy_id = tx[s].call.policy_id
  BY DEF NewEvent
<1>4. ASSUME NEW p, p # tx[s].call.policy_id
      PROVE  EventsOf(p)' = EventsOf(p)
  BY <1>3, <1>4 DEF EventsOf
<1>5. ASSUME NEW d, d.policy_id # tx[s].call.policy_id
      PROVE  Earlier(d)' = Earlier(d)
  BY <1>3, <1>5 DEF Earlier, SameKey
<1> QED
  BY <1>1, <1>2, <1>4, <1>5 DEF SessionConsistent, Critical, Writing

(* A commit preserves the invariant when its rows have their types. *)
LEMMA CommitStep ==
  ASSUME BillingInv, NEW s \in Sessions, tx[s].pc = "inserted",
         policy_events' = policy_events \union {NewEvent(s)},
         nextval'.event = nextval.event,
         billing_documents \subseteq billing_documents',
         payments \subseteq payments',
         \E row \in (IF IsEndorsement(tx[s].call) THEN billing_documents' ELSE payments') :
           row.policy_event_id = tx[s].event_id,
         NEW outcome \in Outcomes, End(s, outcome),
         TypeOK'
  PROVE  BillingInv'
<1>1. HistoryConsistent'
  BY HistoryExtends
<1>2. \A o \in Sessions \ {s} : tx'[o] = tx[o]
  BY StepTypes DEF End
<1>3. \A o \in Sessions \ {s} : SessionConsistent(o)'
  BY <1>2, OthersAfterCommit DEF End
<1>4. tx'[s].pc = "ended" /\ tx'[s].call = tx[s].call
  BY StepTypes DEF End, Fresh
<1>5. tx[s].call \in Calls
  BY DEF BillingInv, SessionConsistent
<1>6. SessionConsistent(s)'
  BY <1>4, <1>5 DEF SessionConsistent, Critical, Writing
<1> QED
  BY <1>1, <1>3, <1>6 DEF BillingInv

(* What holds of a session about to commit. *)
LEMMA ReadyToCommit ==
  ASSUME BillingInv, NEW s \in Sessions, tx[s].pc = "inserted"
  PROVE  /\ tx[s] \in TxStates
         /\ tx[s].call \in Calls
         /\ tx[s].call.policy_id \in PolicyIds
         /\ ~ IsEndorsement(tx[s].call) => tx[s].call.amount_cents > 0
         /\ tx[s].event_id \in Nat /\ tx[s].started \in Nat /\ tx[s].old_premium \in Nat
         /\ tx[s].served \in BOOLEAN
         /\ nextval.event \in Nat /\ nextval.document \in Nat
         /\ nextval.payment \in Nat /\ nextval.transaction \in Nat
         /\ NewEvent(s) \in EventRows
<1>1. tx[s] \in TxStates
  BY StepTypes
<1>2. SessionConsistent(s)
  BY DEF BillingInv
<1> QED
  BY <1>1, <1>2, StepTypes, NewEventType DEF SessionConsistent, Critical, Writing, TxStates

(* The end of a call whose commit the balance trigger refused. *)
LEMMA TriggerStep ==
  ASSUME BillingInv, NEW s \in Sessions, tx[s].pc = "inserted",
         End(s, Failure("P0001")),
         UNCHANGED <<tables, clock, answers>>,
         nextval' \in [event : Nat, document : Nat, payment : Nat, transaction : Nat],
         nextval'.event = nextval.event
  PROVE  BillingInv'
<1> DEFINE t == Fresh("ended", tx[s].call, tx[s].started, tx[s].served, Failure("P0001"))
<1>1. t \in TxStates
  BY ReadyToCommit, FreshType, FailureType DEF Pcs, Codes
<1>2. tx' = [tx EXCEPT ![s] = t]
  BY DEF End
<1>3. tx'[s].pc = "ended" /\ tx'[s].call \in Calls
  BY <1>2, ReadyToCommit, StepTypes DEF Fresh
<1>4. SessionConsistent(s)'
  BY <1>3 DEF SessionConsistent, Critical, Writing
<1>5. /\ lock' \in [PolicyIds -> Sessions \union {NoSession}]
      /\ \A o \in Sessions \ {s}, p \in PolicyIds : lock[p] = o => lock'[p] = o
  BY StepTypes DEF End, Released
<1>6. UNCHANGED tables /\ clock' = clock /\ answers' = answers
  OBVIOUS
<1>7. nextval.event <= nextval'.event
  BY StepTypes
<1> HIDE DEF t
<1> QED
  BY <1>1, <1>2, <1>4, <1>5, <1>6, <1>7, StepTypes, SessionStep

LEMMA CommitEndorsementConsistent ==
  ASSUME BillingInv, NEW s \in Sessions, CommitEndorsement(s)
  PROVE  BillingInv'
<1> DEFINE c == tx[s].call
           delta == Delta(c, tx[s].old_premium)
           entries == EndorsementEntries(nextval.transaction, delta)
           document == [id |-> nextval.document, policy_id |-> c.policy_id,
                        policy_event_id |-> tx[s].event_id, amount_cents |-> delta,
                        created_at |-> tx[s].started]
           outcome == [code |-> "applied", premium |-> c.new_annual_premium_cents,
                       id |-> nextval.document, amount |-> delta]
<1>1. tx[s].pc = "inserted" /\ IsEndorsement(c)
  BY DEF CommitEndorsement
<1>2. c \in EndorsementCalls
  BY <1>1, ReadyToCommit, CallKinds
<1>3. c.new_annual_premium_cents \in Nat
  BY <1>2, CallsAssumption, BigintAssumption
<1>4. delta \in Int
  BY <1>1, <1>2, ReadyToCommit, DeltaType
<1>5. /\ nextval' = [nextval EXCEPT !.document = nextval.document + 1,
                                    !.transaction = nextval.transaction + 1]
      /\ payments' = payments /\ clock' = clock /\ answers' = answers
  BY DEF CommitEndorsement
<1>6. /\ nextval' \in [event : Nat, document : Nat, payment : Nat, transaction : Nat]
      /\ nextval'.event = nextval.event
  <2>1. nextval.document + 1 \in Nat /\ nextval.transaction + 1 \in Nat
    BY <1>1, ReadyToCommit
  <2> QED
    BY <1>5, <2>1, StepTypes
<1>7. CASE Balanced(entries)
  <2>1. /\ policy_events' = policy_events \union {NewEvent(s)}
        /\ ledger_transactions' = ledger_transactions \union
             {[id |-> nextval.transaction, policy_id |-> c.policy_id,
               policy_event_id |-> tx[s].event_id]}
        /\ ledger_entries' = ledger_entries \union entries
        /\ billing_documents' = billing_documents \union {document}
        /\ policies' = [policies EXCEPT ![c.policy_id] =
             [annual_premium_cents |-> c.new_annual_premium_cents,
              updated_at |-> tx[s].started]]
        /\ End(s, outcome)
    BY <1>7 DEF CommitEndorsement, RecordEvent, PremiumAfter
  <2> HIDE DEF delta
  <2>2. document \in DocumentRows /\ outcome \in Outcomes
    BY <1>1, <1>3, <1>4, ReadyToCommit DEF DocumentRows, Outcomes, Codes
  <2>3. entries \subseteq EntryRows
    BY <1>1, <1>4, ReadyToCommit, EndorsementEntriesType
  <2>4. document.policy_event_id = tx[s].event_id
    OBVIOUS
  <2> HIDE DEF document, outcome, entries
  <2>5. tx' \in [Sessions -> TxStates]
    BY <1>1, <2>1, <2>2, ReadyToCommit, FreshType, StepTypes DEF End, Pcs
  <2>6. lock' \in [PolicyIds -> Sessions \union {NoSession}]
    BY <2>1, StepTypes DEF End, Released
  <2>7. policies' \in [PolicyIds -> [annual_premium_cents : Nat, updated_at : Nat]]
    BY <1>1, <1>3, <2>1, ReadyToCommit DEF BillingInv, TypeOK
  <2>8. ledger_transactions' \subseteq TransactionRows
    BY <1>1, <2>1, ReadyToCommit DEF BillingInv, TypeOK, TransactionRows
  <2>9. TypeOK'
    BY <1>1, <1>5, <1>6, <2>1, <2>2, <2>3, <2>5, <2>6, <2>7, <2>8, ReadyToCommit
       DEF BillingInv, TypeOK
  <2>10. \E row \in (IF IsEndorsement(c) THEN billing_documents' ELSE payments') :
           row.policy_event_id = tx[s].event_id
    BY <1>1, <2>1, <2>4
  <2> QED
    BY <1>1, <1>5, <1>6, <2>1, <2>2, <2>9, <2>10, CommitStep
<1>8. CASE ~ Balanced(entries)
  <2>1. End(s, Failure("P0001")) /\ UNCHANGED <<tables, clock, answers>>
    BY <1>8 DEF CommitEndorsement, tables
  <2> QED
    BY <1>1, <1>6, <2>1, TriggerStep
<1> QED
  BY <1>7, <1>8

LEMMA CommitPaymentConsistent ==
  ASSUME BillingInv, NEW s \in Sessions, CommitPayment(s)
  PROVE  BillingInv'
<1> DEFINE c == tx[s].call
           entries == PaymentEntries(nextval.transaction, c.amount_cents)
           payment == [id |-> nextval.payment, policy_id |-> c.policy_id,
                       policy_event_id |-> tx[s].event_id,
                       external_payment_id |-> c.external_payment_id,
                       amount_cents |-> c.amount_cents, created_at |-> tx[s].started]
           outcome == [code |-> "applied", premium |-> 0,
                       id |-> nextval.payment, amount |-> c.amount_cents]
<1>1. tx[s].pc = "inserted" /\ ~ IsEndorsement(c)
  BY DEF CommitPayment
<1>2. c \in PaymentCalls
  BY <1>1, ReadyToCommit, CallKinds
<1>3. c.amount_cents \in Nat \ {0}
  BY <1>1, <1>2, ReadyToCommit, CallsAssumption
<1>4. /\ nextval' = [nextval EXCEPT !.payment = nextval.payment + 1,
                                    !.transaction = nextval.transaction + 1]
      /\ policies' = policies /\ billing_documents' = billing_documents
      /\ clock' = clock /\ answers' = answers
  BY DEF CommitPayment
<1>5. /\ nextval' \in [event : Nat, document : Nat, payment : Nat, transaction : Nat]
      /\ nextval'.event = nextval.event
  <2>1. nextval.payment + 1 \in Nat /\ nextval.transaction + 1 \in Nat
    BY <1>1, ReadyToCommit
  <2> QED
    BY <1>4, <2>1, StepTypes
<1>6. CASE Balanced(entries)
  <2>1. /\ policy_events' = policy_events \union {NewEvent(s)}
        /\ ledger_transactions' = ledger_transactions \union
             {[id |-> nextval.transaction, policy_id |-> c.policy_id,
               policy_event_id |-> tx[s].event_id]}
        /\ ledger_entries' = ledger_entries \union entries
        /\ payments' = payments \union {payment}
        /\ End(s, outcome)
    BY <1>6 DEF CommitPayment, RecordEvent
  <2>2. payment \in PaymentRows /\ outcome \in Outcomes
    BY <1>1, <1>2, <1>3, ReadyToCommit DEF PaymentRows, Outcomes, Codes
  <2>3. entries \subseteq EntryRows
    BY <1>1, <1>3, ReadyToCommit, PaymentEntriesType
  <2>4. payment.policy_event_id = tx[s].event_id
    OBVIOUS
  <2> HIDE DEF payment, outcome, entries
  <2>5. tx' \in [Sessions -> TxStates]
    BY <1>1, <2>1, <2>2, ReadyToCommit, FreshType, StepTypes DEF End, Pcs
  <2>6. lock' \in [PolicyIds -> Sessions \union {NoSession}]
    BY <2>1, StepTypes DEF End, Released
  <2>7. ledger_transactions' \subseteq TransactionRows
    BY <1>1, <2>1, ReadyToCommit DEF BillingInv, TypeOK, TransactionRows
  <2>8. TypeOK'
    BY <1>1, <1>4, <1>5, <2>1, <2>2, <2>3, <2>5, <2>6, <2>7, ReadyToCommit
       DEF BillingInv, TypeOK
  <2>9. \E row \in (IF IsEndorsement(c) THEN billing_documents' ELSE payments') :
          row.policy_event_id = tx[s].event_id
    BY <1>1, <2>1, <2>4
  <2> QED
    BY <1>1, <1>4, <1>5, <2>1, <2>2, <2>8, <2>9, CommitStep
<1>7. CASE ~ Balanced(entries)
  <2>1. End(s, Failure("P0001")) /\ UNCHANGED <<tables, clock, answers>>
    BY <1>7 DEF CommitPayment, tables
  <2> QED
    BY <1>1, <1>5, <2>1, TriggerStep
<1> QED
  BY <1>6, <1>7

-----------------------------------------------------------------------------
(* The theorems *)

LEMMA StutterConsistent == BillingInv /\ UNCHANGED vars => BillingInv'
<1> SUFFICES ASSUME BillingInv, UNCHANGED vars PROVE BillingInv'
  OBVIOUS
<1>1. /\ UNCHANGED tables
      /\ nextval' = nextval /\ lock' = lock /\ clock' = clock /\ tx' = tx /\ answers' = answers
  BY DEF vars
<1>2. /\ \A d : Earlier(d)' = Earlier(d)
      /\ \A p : EventsOf(p)' = EventsOf(p)
  BY <1>1 DEF Earlier, EventsOf, tables
<1>3. TypeOK'
  BY <1>1 DEF BillingInv, TypeOK, tables
<1>4. \A s \in Sessions : SessionConsistent(s)'
  BY <1>1, <1>2 DEF BillingInv, SessionConsistent
<1>5. HistoryConsistent'
  BY <1>1, <1>2 DEF BillingInv, HistoryConsistent, OneEventPerKey, ChainIntact, tables
<1> QED
  BY <1>3, <1>4, <1>5 DEF BillingInv

(* BillingInv is an invariant of the concurrent functions. *)
THEOREM BillingInvariant == Spec => []BillingInv
<1>1. BillingInv /\ [Next]_vars => BillingInv'
  <2> SUFFICES ASSUME BillingInv, [Next]_vars PROVE BillingInv'
    OBVIOUS
  <2>1. CASE UNCHANGED vars
    BY <2>1, StutterConsistent
  <2>2. CASE Next
    <3> PICK s \in Sessions : \/ \E c \in Calls : Begin(s, c)
                              \/ LockPolicy(s)
                              \/ Statement(s)
                              \/ Abort(s)
                              \/ Disconnect(s)
                              \/ Reply(s)
      BY <2>2 DEF Next
    <3>1. CASE \E c \in Calls : Begin(s, c)
      BY <3>1, BeginConsistent
    <3>2. CASE LockPolicy(s)
      BY <3>2, LockPolicyConsistent
    <3>3. CASE Statement(s)
      BY <3>3, PolicyNotFoundConsistent, AnswerReplayConsistent, RejectConflictConsistent,
         RejectCallConsistent, AcceptCallConsistent, ReadChainHeadConsistent,
         InsertEventConsistent, CommitEndorsementConsistent, CommitPaymentConsistent
         DEF Statement
    <3>4. CASE Abort(s)
      BY <3>4, AbortConsistent
    <3>5. CASE Reply(s)
      BY <3>5, ReplyConsistent
    <3>6. CASE Disconnect(s)
      BY <3>6, DisconnectConsistent
    <3> QED
      BY <3>1, <3>2, <3>3, <3>4, <3>5, <3>6
  <2> QED
    BY <2>1, <2>2
<1> QED
  BY <1>1, InitConsistent, PTL DEF Spec

(* No call, answered, refused, aborted or lost, takes a column out of its   *)
(* type or breaks a CHECK constraint.                                       *)
THEOREM TypeCorrect == Spec => []TypeOK
BY BillingInvariant, PTL DEF BillingInv

(* fn_verify_policy_history reports every history valid at all times, for   *)
(* any number of sessions and calls: the row lock keeps chains unforked.    *)
THEOREM ChainsStayIntact == Spec => []ChainIntact
BY BillingInvariant, PTL DEF BillingInv, HistoryConsistent

(* Two submissions of a key, however they interleave, leave one event.      *)
THEOREM KeysTakeEffectOnce == Spec => []OneEventPerKey
BY BillingInvariant, PTL DEF BillingInv, HistoryConsistent

(* What a step does to the append-only tables: a commit adds one event, with *)
(* the id its session drew, and nothing else touches the events.            *)
LEMMA TablesGrow ==
  ASSUME BillingInv, [Next]_vars
  PROVE  /\ billing_documents \subseteq billing_documents'
         /\ payments \subseteq payments'
         /\ ledger_entries \subseteq ledger_entries'
         /\ \/ policy_events' = policy_events
            \/ \E s \in Sessions : /\ tx[s].pc = "inserted"
                                  /\ policy_events' = policy_events \union {NewEvent(s)}
<1>1. CASE UNCHANGED vars
  BY <1>1 DEF vars, tables
<1>2. CASE Next
  <2> PICK s \in Sessions : \/ \E c \in Calls : Begin(s, c)
                            \/ LockPolicy(s)
                            \/ Statement(s)
                            \/ Abort(s)
                            \/ Disconnect(s)
                            \/ Reply(s)
    BY <1>2 DEF Next
  <2>1. CASE CommitEndorsement(s)
    <3>1. tx[s].pc = "inserted" /\ payments' = payments
      BY <2>1 DEF CommitEndorsement
    <3>2. \/ policy_events' = policy_events \union {NewEvent(s)}
          \/ policy_events' = policy_events
      BY <2>1 DEF CommitEndorsement, RecordEvent
    <3>3. billing_documents \subseteq billing_documents' /\ ledger_entries \subseteq ledger_entries'
      BY <2>1 DEF CommitEndorsement, RecordEvent
    <3> QED
      BY <3>1, <3>2, <3>3
  <2>2. CASE CommitPayment(s)
    <3>1. tx[s].pc = "inserted" /\ billing_documents' = billing_documents
      BY <2>2 DEF CommitPayment
    <3>2. \/ policy_events' = policy_events \union {NewEvent(s)}
          \/ policy_events' = policy_events
      BY <2>2 DEF CommitPayment, RecordEvent
    <3>3. payments \subseteq payments' /\ ledger_entries \subseteq ledger_entries'
      BY <2>2 DEF CommitPayment, RecordEvent
    <3> QED
      BY <3>1, <3>2, <3>3
  <2>3. CASE ~ CommitEndorsement(s) /\ ~ CommitPayment(s)
    <3>1. UNCHANGED tables
      BY <2>3 DEF Begin, LockPolicy, Statement, Abort, Disconnect, Reply, PolicyNotFound,
         AnswerReplay, RejectConflict, RejectCall, AcceptCall, ReadChainHead, InsertEvent
    <3> QED
      BY <3>1 DEF tables
  <2> QED
    BY <2>1, <2>2, <2>3
<1> QED
  BY <1>1, <1>2

(* History grows at its end only: the id a session drew is above those of   *)
(* its policy still when it commits, whatever was drawn or committed since. *)
THEOREM HistoryGrowsAtItsEnd == Spec => AppendOnly
<1> DEFINE A == /\ policy_events \subseteq policy_events'
                /\ billing_documents \subseteq billing_documents'
                /\ payments \subseteq payments'
                /\ ledger_entries \subseteq ledger_entries'
                /\ \A e \in policy_events, f \in policy_events' \ policy_events :
                     e.policy_id = f.policy_id => e.id < f.id
<1>1. BillingInv /\ [Next]_vars => [A]_vars
  <2> SUFFICES ASSUME BillingInv, [Next]_vars PROVE A
    OBVIOUS
  <2>1. ASSUME NEW e \in policy_events, NEW f \in policy_events' \ policy_events,
               e.policy_id = f.policy_id
        PROVE  e.id < f.id
    <3>1. PICK s \in Sessions : /\ tx[s].pc = "inserted"
                                /\ policy_events' = policy_events \union {NewEvent(s)}
      BY TablesGrow
    <3>2. f.policy_id = tx[s].call.policy_id /\ f.id = tx[s].event_id
      BY <3>1 DEF NewEvent
    <3>3. \A d \in EventsOf(tx[s].call.policy_id) : d.id < tx[s].event_id
      BY <3>1 DEF BillingInv, SessionConsistent
    <3> QED
      BY <2>1, <3>2, <3>3 DEF EventsOf
  <2>2. policy_events \subseteq policy_events'
    BY TablesGrow
  <2> QED
    BY <2>1, <2>2, TablesGrow
<1> QED
  BY <1>1, BillingInvariant, PTL DEF Spec, AppendOnly

-----------------------------------------------------------------------------
(* What a step of session s does to what answers are about *)

Taken == {"applied", "duplicate_ignored"}

TableOf(c) == IF IsEndorsement(c) THEN billing_documents ELSE payments

(* outcome gives the id and the amount of the row of an event with c's key. *)
NamesIn(c, outcome, events, documents, paid) ==
  \E e \in events : \E row \in (IF IsEndorsement(c) THEN documents ELSE paid) :
    /\ SameKey(e, c)
    /\ row.policy_event_id = e.id
    /\ row.id = outcome.id
    /\ row.amount_cents = outcome.amount
Names(c, outcome) == NamesIn(c, outcome, policy_events, billing_documents, payments)
NamesNext(c, outcome) == NamesIn(c, outcome, policy_events', billing_documents', payments')

SameCall(s) == tx'[s].call = tx[s].call /\ tx'[s].started = tx[s].started
SameRows == policy_events' = policy_events /\ billing_documents' = billing_documents
            /\ payments' = payments
Quiet == SameRows /\ answers' = answers

Begins(s) ==
  /\ Quiet /\ nextval' = nextval /\ clock' = clock + 1
  /\ tx'[s].pc = "begun" /\ tx'[s].started = clock + 1
Moves(s) ==
  /\ Quiet /\ nextval' = nextval /\ clock' = clock
  /\ SameCall(s) /\ tx'[s].result = tx[s].result /\ tx'[s].event_id = tx[s].event_id
  /\ \/ tx'[s].pc = tx[s].pc
     \/ /\ tx[s].pc \notin {"idle", "ended"}
        /\ tx'[s].pc \in {"locked", "accepted", "chained"}
Draws(s) ==
  /\ Quiet /\ nextval'.event = nextval.event + 1 /\ clock' = clock
  /\ SameCall(s) /\ tx[s].pc = "chained" /\ tx'[s].pc = "inserted"
  /\ tx'[s].event_id = nextval.event
Fails(s) ==
  /\ Quiet /\ nextval'.event \in Nat /\ nextval.event <= nextval'.event /\ clock' = clock
  /\ SameCall(s) /\ tx[s].pc \notin {"idle", "ended"} /\ tx'[s].pc = "ended"
  /\ tx'[s].result.code \notin Taken
Replays(s) ==
  /\ Quiet /\ nextval' = nextval /\ clock' = clock
  /\ SameCall(s) /\ tx[s].pc = "locked" /\ tx'[s].pc = "ended"
  /\ tx'[s].result.code = "duplicate_ignored" /\ Names(tx[s].call, tx'[s].result)
Commits(s) ==
  /\ nextval'.event = nextval.event /\ clock' = clock /\ answers' = answers
  /\ SameCall(s) /\ tx[s].pc = "inserted" /\ tx'[s].pc = "ended"
  /\ tx'[s].result.code = "applied"
  /\ policy_events' = policy_events \union {NewEvent(s)}
  /\ \E row :
       /\ row.policy_event_id = tx[s].event_id
       /\ row.id = tx'[s].result.id /\ row.amount_cents = tx'[s].result.amount
       /\ IF IsEndorsement(tx[s].call)
          THEN billing_documents' = billing_documents \union {row} /\ payments' = payments
          ELSE payments' = payments \union {row} /\ billing_documents' = billing_documents
Leaves(s) ==
  /\ SameRows /\ nextval' = nextval /\ clock' = clock /\ tx'[s].pc = "idle"
  /\ \/ answers' = answers
     \/ /\ tx[s].pc = "ended"
        /\ answers' = answers \union
             {[at |-> tx[s].started, call |-> tx[s].call, outcome |-> tx[s].result,
               status |-> HttpStatus(tx[s].call, tx[s].result.code)]}

SessionMoves(s) ==
  /\ \A o \in Sessions \ {s} : tx'[o] = tx[o]
  /\ Begins(s) \/ Moves(s) \/ Draws(s) \/ Fails(s) \/ Replays(s) \/ Commits(s) \/ Leaves(s)

(* A call that ends with a refusal. *)
LEMMA FailureMoves ==
  ASSUME BillingInv, NEW s \in Sessions, NEW code, code \notin Taken,
         End(s, Failure(code)), UNCHANGED <<tables, clock, answers>>,
         tx[s].pc \notin {"idle", "ended"},
         nextval'.event \in Nat, nextval.event <= nextval'.event
  PROVE  SessionMoves(s)
<1>1. /\ tx' = [tx EXCEPT ![s] = Fresh("ended", tx[s].call, tx[s].started,
                                       tx[s].served, Failure(code))]
      /\ SameRows /\ answers' = answers /\ clock' = clock
  BY DEF End, SameRows, tables
<1>2. tx'[s] = Fresh("ended", tx[s].call, tx[s].started, tx[s].served, Failure(code))
  BY <1>1, StepTypes
<1>3. SameCall(s) /\ tx'[s].pc = "ended" /\ tx'[s].result.code = code
  BY <1>2 DEF Fresh, Failure, SameCall
<1>4. \A o \in Sessions \ {s} : tx'[o] = tx[o]
  BY <1>1, StepTypes
<1> QED
  BY <1>1, <1>3, <1>4 DEF SessionMoves, Fails, Quiet

LEMMA RejectionCodes ==
  ASSUME NEW c, NEW old, RejectionOf(c, old) # "none"
  PROVE  RejectionOf(c, old) \notin Taken
BY DEF RejectionOf, Taken

LEMMA ReplayMoves ==
  ASSUME BillingInv, NEW s \in Sessions, AnswerReplay(s)
  PROVE  SessionMoves(s)
<1> DEFINE c == tx[s].call
<1>1. PICK e \in Earlier(c) : End(s, ReplayOf(e, c))
  BY DEF AnswerReplay
<1>2. c \in Calls /\ tx[s].pc = "locked"
  BY DEF AnswerReplay, BillingInv, SessionConsistent
<1>3. e \in policy_events /\ e.operation_type = c.operation
  BY DEF Earlier, SameKey
<1>4. \E r \in TableOf(c) : r.policy_event_id = e.id
  BY <1>2, <1>3 DEF BillingInv, HistoryConsistent, IsEndorsement, TableOf
<1>5. PICK r \in TableOf(c) : r = RowOf(e, TableOf(c)) /\ r.policy_event_id = e.id
  BY <1>4 DEF RowOf
<1>6. /\ ReplayOf(e, c).code = "duplicate_ignored"
      /\ ReplayOf(e, c).id = r.id
      /\ ReplayOf(e, c).amount = r.amount_cents
  BY <1>5 DEF ReplayOf, TableOf
<1>7. Names(c, ReplayOf(e, c))
  BY <1>5, <1>6 DEF Names, NamesIn, Earlier, TableOf
<1>8. /\ tx' = [tx EXCEPT ![s] = Fresh("ended", c, tx[s].started,
                                       tx[s].served, ReplayOf(e, c))]
      /\ Quiet /\ clock' = clock /\ nextval' = nextval
  BY <1>1 DEF AnswerReplay, End, Quiet, SameRows, tables
<1>9. tx'[s] = Fresh("ended", c, tx[s].started, tx[s].served, ReplayOf(e, c))
  BY <1>8, StepTypes
<1>10. SameCall(s) /\ tx'[s].pc = "ended" /\ tx'[s].result = ReplayOf(e, c)
  BY <1>9 DEF Fresh, SameCall
<1>11. \A o \in Sessions \ {s} : tx'[o] = tx[o]
  BY <1>8, StepTypes
<1> QED
  BY <1>2, <1>6, <1>7, <1>8, <1>10, <1>11 DEF SessionMoves, Replays

LEMMA CommitEndorsementMoves ==
  ASSUME BillingInv, NEW s \in Sessions, CommitEndorsement(s)
  PROVE  SessionMoves(s)
<1> DEFINE c == tx[s].call
           delta == Delta(c, tx[s].old_premium)
           entries == EndorsementEntries(nextval.transaction, delta)
           row == [id |-> nextval.document, policy_id |-> c.policy_id,
                   policy_event_id |-> tx[s].event_id, amount_cents |-> delta,
                   created_at |-> tx[s].started]
           outcome == [code |-> "applied", premium |-> c.new_annual_premium_cents,
                       id |-> nextval.document, amount |-> delta]
<1>1. tx[s].pc = "inserted" /\ IsEndorsement(c)
  BY DEF CommitEndorsement
<1>2. /\ nextval'.event = nextval.event /\ clock' = clock /\ answers' = answers
      /\ payments' = payments
  BY StepTypes DEF CommitEndorsement
<1>3. CASE Balanced(entries)
  <2>1. /\ policy_events' = policy_events \union {NewEvent(s)}
        /\ billing_documents' = billing_documents \union {row}
        /\ End(s, outcome)
    BY <1>3 DEF CommitEndorsement, RecordEvent
  <2>2. tx' = [tx EXCEPT ![s] = Fresh("ended", c, tx[s].started, tx[s].served, outcome)]
    BY <2>1 DEF End
  <2>3. /\ row.policy_event_id = tx[s].event_id
        /\ row.id = outcome.id /\ row.amount_cents = outcome.amount
        /\ outcome.code = "applied"
    OBVIOUS
  <2> HIDE DEF row, outcome
  <2>4. tx'[s] = Fresh("ended", c, tx[s].started, tx[s].served, outcome)
    BY <2>2, StepTypes
  <2>5. SameCall(s) /\ tx'[s].pc = "ended" /\ tx'[s].result = outcome
    BY <2>4 DEF Fresh, SameCall
  <2>6. \A o \in Sessions \ {s} : tx'[o] = tx[o]
    BY <2>2, StepTypes
  <2>7. Commits(s)
    BY <1>1, <1>2, <2>1, <2>3, <2>5 DEF Commits
  <2> QED
    BY <2>6, <2>7 DEF SessionMoves
<1>4. CASE ~ Balanced(entries)
  <2>1. End(s, Failure("P0001")) /\ UNCHANGED <<tables, clock, answers>>
    BY <1>4 DEF CommitEndorsement, tables
  <2>2. nextval'.event \in Nat /\ nextval.event <= nextval'.event
    BY <1>2, StepTypes
  <2> QED
    BY <1>1, <2>1, <2>2, FailureMoves DEF Taken
<1> QED
  BY <1>3, <1>4

LEMMA CommitPaymentMoves ==
  ASSUME BillingInv, NEW s \in Sessions, CommitPayment(s)
  PROVE  SessionMoves(s)
<1> DEFINE c == tx[s].call
           entries == PaymentEntries(nextval.transaction, c.amount_cents)
           row == [id |-> nextval.payment, policy_id |-> c.policy_id,
                   policy_event_id |-> tx[s].event_id,
                   external_payment_id |-> c.external_payment_id,
                   amount_cents |-> c.amount_cents, created_at |-> tx[s].started]
           outcome == [code |-> "applied", premium |-> 0,
                       id |-> nextval.payment, amount |-> c.amount_cents]
<1>1. tx[s].pc = "inserted" /\ ~ IsEndorsement(c)
  BY DEF CommitPayment
<1>2. /\ nextval'.event = nextval.event /\ clock' = clock /\ answers' = answers
      /\ billing_documents' = billing_documents
  BY StepTypes DEF CommitPayment
<1>3. CASE Balanced(entries)
  <2>1. /\ policy_events' = policy_events \union {NewEvent(s)}
        /\ payments' = payments \union {row}
        /\ End(s, outcome)
    BY <1>3 DEF CommitPayment, RecordEvent
  <2>2. tx' = [tx EXCEPT ![s] = Fresh("ended", c, tx[s].started, tx[s].served, outcome)]
    BY <2>1 DEF End
  <2>3. /\ row.policy_event_id = tx[s].event_id
        /\ row.id = outcome.id /\ row.amount_cents = outcome.amount
        /\ outcome.code = "applied"
    OBVIOUS
  <2> HIDE DEF row, outcome
  <2>4. tx'[s] = Fresh("ended", c, tx[s].started, tx[s].served, outcome)
    BY <2>2, StepTypes
  <2>5. SameCall(s) /\ tx'[s].pc = "ended" /\ tx'[s].result = outcome
    BY <2>4 DEF Fresh, SameCall
  <2>6. \A o \in Sessions \ {s} : tx'[o] = tx[o]
    BY <2>2, StepTypes
  <2>7. Commits(s)
    BY <1>1, <1>2, <2>1, <2>3, <2>5 DEF Commits
  <2> QED
    BY <2>6, <2>7 DEF SessionMoves
<1>4. CASE ~ Balanced(entries)
  <2>1. End(s, Failure("P0001")) /\ UNCHANGED <<tables, clock, answers>>
    BY <1>4 DEF CommitPayment, tables
  <2>2. nextval'.event \in Nat /\ nextval.event <= nextval'.event
    BY <1>2, StepTypes
  <2> QED
    BY <1>1, <2>1, <2>2, FailureMoves DEF Taken
<1> QED
  BY <1>3, <1>4

(* Every step is one of a session in one of these ways. *)
LEMMA StepMoves ==
  ASSUME BillingInv, Next
  PROVE  \E s \in Sessions : SessionMoves(s)
<1> PICK s \in Sessions : \/ \E c \in Calls : Begin(s, c)
                          \/ LockPolicy(s)
                          \/ Statement(s)
                          \/ Abort(s)
                          \/ Disconnect(s)
                          \/ Reply(s)
  BY DEF Next
<1> SUFFICES SessionMoves(s)
  OBVIOUS
<1> DEFINE others == \A o \in Sessions \ {s} : tx'[o] = tx[o]
<1>t. tx[s] \in TxStates /\ nextval.event \in Nat /\ nextval.event <= nextval.event
  BY StepTypes
<1>1. CASE \E c \in Calls : Begin(s, c)
  <2> PICK c \in Calls : Begin(s, c)
    BY <1>1
  <2>1. tx'[s].pc = "begun" /\ tx'[s].started = clock + 1 /\ others
    BY StepTypes DEF Begin, Fresh
  <2>2. Begins(s)
    BY <2>1 DEF Begin, Begins, Quiet, SameRows, tables
  <2> QED
    BY <2>1, <2>2 DEF SessionMoves
<1>2. CASE LockPolicy(s) \/ AcceptCall(s) \/ ReadChainHead(s)
  <2>1. /\ tx[s].pc \notin {"idle", "ended"}
        /\ tx'[s].pc \in {"locked", "accepted", "chained"}
        /\ SameCall(s) /\ tx'[s].result = tx[s].result /\ tx'[s].event_id = tx[s].event_id
        /\ others
    <3>1. ASSUME NEW pc \in {"locked", "accepted", "chained"}, NEW premium, NEW hash,
                 tx' = [tx EXCEPT ![s] = [tx[s] EXCEPT !.pc = pc, !.old_premium = premium,
                                                       !.previous_hash = hash]]
          PROVE  /\ tx'[s].pc \in {"locked", "accepted", "chained"}
                 /\ SameCall(s) /\ tx'[s].result = tx[s].result
                 /\ tx'[s].event_id = tx[s].event_id /\ others
      BY <1>t, <3>1, StepTypes DEF SameCall, TxStates
    <3>2. CASE LockPolicy(s)
      <4>1. tx' = [tx EXCEPT ![s] = [tx[s] EXCEPT !.pc = "locked",
               !.old_premium = policies[tx[s].call.policy_id].annual_premium_cents,
               !.previous_hash = tx[s].previous_hash]]
        BY <3>2, <1>t DEF LockPolicy, TxStates
      <4> QED
        BY <3>1, <3>2, <4>1 DEF LockPolicy
    <3>3. CASE AcceptCall(s)
      <4>1. tx' = [tx EXCEPT ![s] = [tx[s] EXCEPT !.pc = "accepted",
               !.old_premium = tx[s].old_premium,
               !.previous_hash = tx[s].previous_hash]]
        BY <3>3, <1>t DEF AcceptCall, TxStates
      <4> QED
        BY <3>1, <3>3, <4>1 DEF AcceptCall
    <3>4. CASE ReadChainHead(s)
      <4>1. tx' = [tx EXCEPT ![s] = [tx[s] EXCEPT !.pc = "chained",
               !.old_premium = tx[s].old_premium,
               !.previous_hash = HeadHash(EventsOf(tx[s].call.policy_id))]]
        BY <3>4, <1>t DEF ReadChainHead, TxStates
      <4> QED
        BY <3>1, <3>4, <4>1 DEF ReadChainHead
    <3> QED
      BY <1>2, <3>2, <3>3, <3>4
  <2>2. Moves(s)
    BY <1>2, <2>1
       DEF Moves, LockPolicy, AcceptCall, ReadChainHead, Quiet, SameRows, tables
  <2> QED
    BY <2>1, <2>2 DEF SessionMoves
<1>3. CASE Disconnect(s)
  <2>1. /\ tx'[s].pc = tx[s].pc
        /\ SameCall(s) /\ tx'[s].result = tx[s].result /\ tx'[s].event_id = tx[s].event_id
        /\ others
    BY <1>3, <1>t, StepTypes DEF Disconnect, SameCall, TxStates
  <2>2. Moves(s)
    BY <1>3, <2>1 DEF Moves, Disconnect, Quiet, SameRows, tables
  <2> QED
    BY <2>1, <2>2 DEF SessionMoves
<1>4. CASE PolicyNotFound(s) \/ RejectConflict(s)
  <2>1. PICK code \in {"BLB01", "BLB04"} : End(s, Failure(code))
    BY <1>4 DEF PolicyNotFound, RejectConflict
  <2>2. /\ tx[s].pc \notin {"idle", "ended"} /\ nextval' = nextval
        /\ UNCHANGED <<tables, clock, answers>>
    BY <1>4 DEF PolicyNotFound, RejectConflict
  <2> QED
    BY <1>t, <2>1, <2>2, FailureMoves DEF Taken
<1>5. CASE RejectCall(s)
  <2>1. /\ tx[s].pc \notin {"idle", "ended"} /\ nextval' = nextval
        /\ UNCHANGED <<tables, clock, answers>>
        /\ RejectionOf(tx[s].call, tx[s].old_premium) # "none"
        /\ End(s, Failure(RejectionOf(tx[s].call, tx[s].old_premium)))
    BY <1>5 DEF RejectCall
  <2> QED
    BY <1>t, <2>1, RejectionCodes, FailureMoves
<1>6. CASE InsertEvent(s)
  <2>1. Earlier(tx[s].call) = {} /\ tx[s].pc = "chained"
    BY <1>6 DEF InsertEvent, BillingInv, SessionConsistent, Writing
  <2>2. /\ tx' = [tx EXCEPT ![s] = [tx[s] EXCEPT !.pc = "inserted",
                                                 !.event_id = nextval.event]]
        /\ nextval' = [nextval EXCEPT !.event = nextval.event + 1]
        /\ Quiet /\ clock' = clock
    BY <1>6, <2>1 DEF InsertEvent, Quiet, SameRows, tables
  <2>3. /\ tx'[s].pc = "inserted" /\ tx'[s].event_id = nextval.event
        /\ SameCall(s) /\ others /\ nextval'.event = nextval.event + 1
    BY <1>t, <2>2, StepTypes DEF SameCall, TxStates
  <2> QED
    BY <2>1, <2>2, <2>3 DEF SessionMoves, Draws
<1>7. CASE Abort(s) \/ Reply(s)
  <2>1. /\ SameRows /\ nextval' = nextval /\ clock' = clock
        /\ \/ answers' = answers
           \/ /\ tx[s].pc = "ended"
              /\ answers' = answers \union
                   {[at |-> tx[s].started, call |-> tx[s].call, outcome |-> tx[s].result,
                     status |-> HttpStatus(tx[s].call, tx[s].result.code)]}
    BY <1>7 DEF Abort, Reply, SameRows, tables
  <2>2. tx' = [tx EXCEPT ![s] = IdleTx]
    BY <1>7 DEF Abort, Reply
  <2>3. tx'[s].pc = "idle" /\ others
    BY <2>2, StepTypes DEF IdleTx, Fresh
  <2> QED
    BY <2>1, <2>3 DEF SessionMoves, Leaves
<1> QED
  BY <1>1, <1>2, <1>3, <1>4, <1>5, <1>6, <1>7, ReplayMoves, CommitEndorsementMoves,
     CommitPaymentMoves DEF Statement

-----------------------------------------------------------------------------
(* Answers name rows *)

(* Event ids are drawn once, and every event has one row. *)
RowsInv ==
  /\ \A d, b \in billing_documents : d.policy_event_id = b.policy_event_id => d = b
  /\ \A d, b \in payments : d.policy_event_id = b.policy_event_id => d = b
  /\ \A d \in billing_documents \union payments :
       /\ d.policy_event_id < nextval.event
       /\ \A s \in Sessions : tx[s].pc = "inserted" => d.policy_event_id # tx[s].event_id
  /\ \A s, o \in Sessions :
       tx[s].pc = "inserted" /\ tx[o].pc = "inserted" /\ s # o
         => tx[s].event_id # tx[o].event_id

(* Who was or is being told of a row was told of his own. *)
NamesInv ==
  /\ \A s \in Sessions : tx[s].pc = "ended" /\ tx[s].result.code \in Taken
                           => Names(tx[s].call, tx[s].result)
  /\ \A a \in answers : a.outcome.code \in Taken => Names(a.call, a.outcome)

LEMMA IdsAreNumbers ==
  ASSUME BillingInv
  PROVE  /\ nextval.event \in Nat
         /\ \A d \in billing_documents \union payments : d.policy_event_id \in Nat
         /\ \A s \in Sessions : tx[s].event_id \in Nat
         /\ \A s \in Sessions : tx[s].pc = "inserted" => tx[s].event_id < nextval.event
BY DEF BillingInv, TypeOK, DocumentRows, PaymentRows, TxStates, SessionConsistent

LEMMA RowsStep ==
  ASSUME BillingInv, RowsInv, NEW s \in Sessions, SessionMoves(s)
  PROVE  RowsInv'
<1>0. \A o \in Sessions \ {s} : tx'[o] = tx[o]
  BY DEF SessionMoves
<1>1. CASE Begins(s) \/ Moves(s) \/ Replays(s) \/ Fails(s) \/ Leaves(s)
  <2>1. /\ SameRows
        /\ tx'[s].pc = "inserted" => tx[s].pc = "inserted" /\ tx'[s].event_id = tx[s].event_id
        /\ nextval.event <= nextval'.event /\ nextval'.event \in Nat
    BY <1>1, IdsAreNumbers DEF Begins, Moves, Replays, Fails, Leaves, Quiet
  <2> QED
    BY <1>0, <2>1, IdsAreNumbers DEF RowsInv, SameRows
<1>2. CASE Draws(s)
  BY <1>0, <1>2, IdsAreNumbers DEF RowsInv, Draws, Quiet, SameRows
<1>3. CASE Commits(s)
  <2> PICK row : /\ row.policy_event_id = tx[s].event_id
                 /\ IF IsEndorsement(tx[s].call)
                    THEN /\ billing_documents' = billing_documents \union {row}
                         /\ payments' = payments
                    ELSE /\ payments' = payments \union {row}
                         /\ billing_documents' = billing_documents
    BY <1>3 DEF Commits
  <2>1. /\ tx[s].pc = "inserted" /\ tx'[s].pc = "ended" /\ nextval'.event = nextval.event
    BY <1>3 DEF Commits
  <2>2. \A d \in billing_documents \union payments : d.policy_event_id # row.policy_event_id
    BY <2>1 DEF RowsInv
  <2>3. /\ \A d, b \in billing_documents' : d.policy_event_id = b.policy_event_id => d = b
        /\ \A d, b \in payments' : d.policy_event_id = b.policy_event_id => d = b
    BY <2>2 DEF RowsInv
  <2>4. ASSUME NEW d \in billing_documents' \union payments'
        PROVE  /\ d.policy_event_id < nextval'.event
               /\ \A o \in Sessions : tx'[o].pc = "inserted"
                                        => d.policy_event_id # tx'[o].event_id
    <3>1. CASE d \in billing_documents \union payments
      BY <1>0, <2>1, <3>1 DEF RowsInv
    <3>2. CASE d = row
      BY <1>0, <2>1, <3>2, IdsAreNumbers DEF RowsInv
    <3> QED
      BY <3>1, <3>2
  <2>5. \A q, o \in Sessions :
          tx'[q].pc = "inserted" /\ tx'[o].pc = "inserted" /\ q # o
            => tx'[q].event_id # tx'[o].event_id
    BY <1>0, <2>1 DEF RowsInv
  <2> QED
    BY <2>3, <2>4, <2>5 DEF RowsInv
<1> QED
  BY <1>1, <1>2, <1>3 DEF SessionMoves

LEMMA NamesStep ==
  ASSUME BillingInv, NamesInv, NEW s \in Sessions, SessionMoves(s)
  PROVE  NamesInv'
<1>0. \A o \in Sessions \ {s} : tx'[o] = tx[o]
  BY DEF SessionMoves
<1>1. ASSUME NEW c, NEW outcome, Names(c, outcome)
      PROVE  NamesNext(c, outcome)
  <2>1. /\ policy_events \subseteq policy_events'
        /\ billing_documents \subseteq billing_documents'
        /\ payments \subseteq payments'
    BY DEF SessionMoves, Begins, Moves, Draws, Fails, Replays, Commits, Leaves, Quiet, SameRows
  <2> QED
    BY <1>1, <2>1 DEF Names, NamesNext, NamesIn
<1>2. ASSUME tx'[s].pc = "ended", tx'[s].result.code \in Taken
      PROVE  NamesNext(tx'[s].call, tx'[s].result)
  <2>1. CASE Moves(s)
    <3>1. /\ tx[s].pc = "ended" /\ tx'[s].result = tx[s].result
          /\ tx'[s].call = tx[s].call
      BY <1>2, <2>1 DEF Moves, SameCall
    <3>2. Names(tx[s].call, tx[s].result)
      BY <1>2, <3>1 DEF NamesInv
    <3> QED
      BY <1>1, <3>1, <3>2
  <2>2. CASE Replays(s)
    BY <1>1, <2>2 DEF Replays, SameCall
  <2>3. CASE Commits(s)
    <3>1. PICK row : /\ row.policy_event_id = tx[s].event_id
                     /\ row.id = tx'[s].result.id
                     /\ row.amount_cents = tx'[s].result.amount
                     /\ IF IsEndorsement(tx[s].call)
                        THEN billing_documents' = billing_documents \union {row}
                        ELSE payments' = payments \union {row}
      BY <2>3 DEF Commits
    <3>2. /\ SameKey(NewEvent(s), tx[s].call) /\ NewEvent(s).id = tx[s].event_id
      BY DEF SameKey, NewEvent
    <3>3. NewEvent(s) \in policy_events' /\ tx'[s].call = tx[s].call
      BY <2>3 DEF Commits, SameCall
    <3> QED
      BY <3>1, <3>2, <3>3 DEF NamesNext, NamesIn
  <2> QED
    BY <1>2, <2>1, <2>2, <2>3 DEF SessionMoves, Begins, Draws, Fails, Leaves
<1>3. ASSUME NEW o \in Sessions, tx'[o].pc = "ended", tx'[o].result.code \in Taken
      PROVE  NamesNext(tx'[o].call, tx'[o].result)
  <2>1. CASE o # s
    <3>1. Names(tx[o].call, tx[o].result) /\ tx'[o] = tx[o]
      BY <1>0, <1>3, <2>1 DEF NamesInv
    <3> QED
      BY <1>1, <3>1
  <2> QED
    BY <1>2, <1>3, <2>1
<1>4. ASSUME NEW a \in answers', a.outcome.code \in Taken
      PROVE  NamesNext(a.call, a.outcome)
  <2>1. CASE a \in answers
    BY <1>1, <1>4, <2>1 DEF NamesInv
  <2>2. CASE a \notin answers
    <3>1. /\ tx[s].pc = "ended"
          /\ a = [at |-> tx[s].started, call |-> tx[s].call, outcome |-> tx[s].result,
                  status |-> HttpStatus(tx[s].call, tx[s].result.code)]
      BY <2>2 DEF SessionMoves, Begins, Moves, Draws, Fails, Replays, Commits, Leaves, Quiet
    <3>2. a.call = tx[s].call /\ a.outcome = tx[s].result
      BY <3>1
    <3>3. Names(a.call, a.outcome)
      BY <1>4, <3>1, <3>2 DEF NamesInv
    <3> QED
      BY <1>1, <3>3
  <2> QED
    BY <2>1, <2>2
<1> QED
  BY <1>3, <1>4 DEF NamesInv, NamesNext, Names

(* The row a name means is the one RowOf finds: an event has one row. *)
LEMMA NamesTheRow ==
  ASSUME RowsInv, NEW c, NEW outcome, Names(c, outcome)
  PROVE  \E e \in Earlier(c) :
           LET row == RowOf(e, TableOf(c))
           IN row.id = outcome.id /\ row.amount_cents = outcome.amount
<1>1. PICK e \in Earlier(c), r \in TableOf(c) :
        /\ r.policy_event_id = e.id
        /\ r.id = outcome.id
        /\ r.amount_cents = outcome.amount
  BY DEF Names, NamesIn, Earlier, TableOf
<1>2. RowOf(e, TableOf(c)) \in TableOf(c) /\ RowOf(e, TableOf(c)).policy_event_id = e.id
  BY <1>1 DEF RowOf
<1>3. RowOf(e, TableOf(c)) = r
  BY <1>1, <1>2 DEF RowsInv, TableOf
<1> QED
  BY <1>1, <1>3

(* Every client told of a row was told of the one its key created, however  *)
(* many calls came between two answers, for any sessions and calls.         *)
THEOREM AnswersNameRows == Spec => []AnswersNameTheirRow
<1>1. Init => RowsInv /\ NamesInv
  BY DEF Init, RowsInv, NamesInv, IdleTx, Fresh
<1>2. BillingInv /\ RowsInv /\ NamesInv /\ [Next]_vars => RowsInv' /\ NamesInv'
  <2> SUFFICES ASSUME BillingInv, RowsInv, NamesInv, [Next]_vars
               PROVE  RowsInv' /\ NamesInv'
    OBVIOUS
  <2>1. CASE UNCHANGED vars
    BY <2>1 DEF RowsInv, NamesInv, Names, vars, tables
  <2>2. CASE Next
    BY <2>2, StepMoves, RowsStep, NamesStep
  <2> QED
    BY <2>1, <2>2
<1>3. RowsInv /\ NamesInv => AnswersNameTheirRow
  <2> SUFFICES ASSUME RowsInv, NamesInv, NEW a \in answers,
                      a.outcome.code \in {"applied", "duplicate_ignored"}
               PROVE  \E e \in Earlier(a.call) :
                        LET row == RowOf(e, TableOf(a.call))
                        IN row.id = a.outcome.id /\ row.amount_cents = a.outcome.amount
    BY DEF AnswersNameTheirRow, TableOf
  <2>1. Names(a.call, a.outcome)
    BY DEF NamesInv, Taken
  <2> QED
    BY <2>1, NamesTheRow
<1> QED
  BY <1>1, <1>2, <1>3, BillingInvariant, PTL DEF Spec

-----------------------------------------------------------------------------
(* Answers tell whether the call took effect *)

Dated(time, events) == \E e \in events : e.created_at = time
Succeeded(s) == tx[s].pc = "ended" /\ tx[s].result.code = "applied"

(* A start time belongs to one call, and an event dates from it exactly     *)
(* when that call succeeded, in its session and in what its client is told. *)
TruthInv ==
  /\ \A s \in Sessions : tx[s].pc # "idle" => tx[s].started <= clock
  /\ \A s, o \in Sessions :
       tx[s].pc # "idle" /\ tx[o].pc # "idle" /\ s # o => tx[s].started # tx[o].started
  /\ \A s \in Sessions : tx[s].pc # "idle" =>
       (Dated(tx[s].started, policy_events) <=> Succeeded(s))
  /\ \A e \in policy_events : e.created_at <= clock
  /\ \A a \in answers :
       /\ a.at <= clock
       /\ \A s \in Sessions : tx[s].pc # "idle" => a.at # tx[s].started
       /\ a.outcome.code = "applied" => a.status = 200
       /\ a.outcome.code = "applied" <=> Dated(a.at, policy_events)

LEMMA TimesAreNumbers ==
  ASSUME BillingInv
  PROVE  /\ clock \in Nat
         /\ \A s \in Sessions : tx[s].started \in Nat
         /\ \A e \in policy_events : e.created_at \in Nat
         /\ \A a \in answers : a.at \in Nat
BY DEF BillingInv, TypeOK, EventRows, TxStates, Answers

(* Steps after which the session still runs its call, told of no success. *)
LEMMA QuietTruth ==
  ASSUME BillingInv, TruthInv, NEW s \in Sessions,
         \A o \in Sessions \ {s} : tx'[o] = tx[o],
         Moves(s) \/ Draws(s) \/ Fails(s) \/ Replays(s)
  PROVE  TruthInv'
<1>1. policy_events' = policy_events /\ answers' = answers /\ clock' = clock
  BY DEF Moves, Draws, Fails, Replays, Quiet, SameRows
<1>2. /\ tx'[s].started = tx[s].started
      /\ tx[s].pc = "idle" <=> tx'[s].pc = "idle"
      /\ Succeeded(s)' <=> Succeeded(s)
  BY DEF Moves, Draws, Fails, Replays, SameCall, Succeeded, Taken
<1>3. \A o \in Sessions : /\ tx'[o].started = tx[o].started
                          /\ tx'[o].pc = "idle" <=> tx[o].pc = "idle"
                          /\ Succeeded(o)' <=> Succeeded(o)
  BY <1>2 DEF Succeeded
<1> QED
  BY <1>1, <1>3 DEF TruthInv

(* A commit dates one event with the start time of its own call. *)
LEMMA CommitTruth ==
  ASSUME BillingInv, TruthInv, NEW s \in Sessions,
         \A o \in Sessions \ {s} : tx'[o] = tx[o], Commits(s)
  PROVE  TruthInv'
<1>1. /\ policy_events' = policy_events \union {NewEvent(s)}
      /\ answers' = answers /\ clock' = clock
      /\ tx[s].pc = "inserted" /\ tx'[s].pc = "ended" /\ tx'[s].result.code = "applied"
      /\ tx'[s].started = tx[s].started
  BY DEF Commits, SameCall
<1>2. NewEvent(s).created_at = tx[s].started
  BY DEF NewEvent
<1>3. \A time : Dated(time, policy_events')
                  <=> Dated(time, policy_events) \/ time = tx[s].started
  BY <1>1, <1>2 DEF Dated
<1>4. Succeeded(s)' /\ \A o \in Sessions \ {s} : Succeeded(o)' <=> Succeeded(o)
  BY <1>1 DEF Succeeded
<1>5. \A o \in Sessions : /\ tx'[o].started = tx[o].started
                          /\ tx'[o].pc = "idle" <=> tx[o].pc = "idle"
  BY <1>1
<1>6. ASSUME NEW o \in Sessions, tx'[o].pc # "idle"
      PROVE  Dated(tx'[o].started, policy_events') <=> Succeeded(o)'
  <2>1. CASE o = s
    BY <1>3, <1>4, <1>5, <2>1
  <2>2. CASE o # s
    BY <1>1, <1>3, <1>4, <1>5, <1>6, <2>2 DEF TruthInv
  <2> QED
    BY <2>1, <2>2
<1>7. \A e \in policy_events' : e.created_at <= clock'
  BY <1>1, <1>2 DEF TruthInv
<1>8. ASSUME NEW a \in answers'
      PROVE  /\ a.at <= clock'
             /\ \A o \in Sessions : tx'[o].pc # "idle" => a.at # tx'[o].started
             /\ a.outcome.code = "applied" => a.status = 200
             /\ a.outcome.code = "applied" <=> Dated(a.at, policy_events')
  BY <1>1, <1>3, <1>5 DEF TruthInv
<1>9. /\ \A o \in Sessions : tx'[o].pc # "idle" => tx'[o].started <= clock'
      /\ \A o, q \in Sessions :
           tx'[o].pc # "idle" /\ tx'[q].pc # "idle" /\ o # q
             => tx'[o].started # tx'[q].started
  BY <1>1, <1>5 DEF TruthInv
<1> QED
  BY <1>6, <1>7, <1>8, <1>9 DEF TruthInv

(* A new call starts at a time nothing dates from. *)
LEMMA BeginTruth ==
  ASSUME BillingInv, TruthInv, NEW s \in Sessions,
         \A o \in Sessions \ {s} : tx'[o] = tx[o], Begins(s)
  PROVE  TruthInv'
<1>1. /\ policy_events' = policy_events /\ answers' = answers /\ clock' = clock + 1
      /\ tx'[s].pc = "begun" /\ tx'[s].started = clock + 1
  BY DEF Begins, Quiet, SameRows
<1>2. ~ Dated(clock + 1, policy_events) /\ ~ Succeeded(s)'
  BY <1>1, TimesAreNumbers DEF TruthInv, Dated, Succeeded
<1>3. \A o \in Sessions \ {s} : Succeeded(o)' <=> Succeeded(o)
  BY DEF Succeeded
<1>4. \A o \in Sessions : tx'[o].pc # "idle" =>
        (Dated(tx'[o].started, policy_events') <=> Succeeded(o)')
  BY <1>1, <1>2, <1>3 DEF TruthInv
<1>5. \A e \in policy_events' : e.created_at <= clock'
  BY <1>1, TimesAreNumbers DEF TruthInv
<1>6. \A a \in answers' :
        /\ a.at <= clock'
        /\ \A o \in Sessions : tx'[o].pc # "idle" => a.at # tx'[o].started
        /\ a.outcome.code = "applied" => a.status = 200
        /\ a.outcome.code = "applied" <=> Dated(a.at, policy_events')
  BY <1>1, TimesAreNumbers DEF TruthInv
<1>7. /\ \A o \in Sessions : tx'[o].pc # "idle" => tx'[o].started <= clock'
      /\ \A o, q \in Sessions :
           tx'[o].pc # "idle" /\ tx'[q].pc # "idle" /\ o # q
             => tx'[o].started # tx'[q].started
  BY <1>1, TimesAreNumbers DEF TruthInv
<1> QED
  BY <1>4, <1>5, <1>6, <1>7 DEF TruthInv

LEMMA AppliedIs200 ==
  ASSUME NEW c, NEW code, code = "applied"
  PROVE  HttpStatus(c, code) = 200
BY DEF HttpStatus, RuleCodes

(* An answer tells what the session knew, and the session forgets it. *)
LEMMA LeaveTruth ==
  ASSUME BillingInv, TruthInv, NEW s \in Sessions,
         \A o \in Sessions \ {s} : tx'[o] = tx[o], Leaves(s)
  PROVE  TruthInv'
<1>1. policy_events' = policy_events /\ clock' = clock /\ tx'[s].pc = "idle"
  BY DEF Leaves, SameRows
<1>2. \A o \in Sessions : tx'[o].pc # "idle" =>
        tx'[o] = tx[o] /\ o # s /\ (Succeeded(o)' <=> Succeeded(o))
  BY <1>1 DEF Succeeded
<1>3. ASSUME NEW a \in answers'
      PROVE  /\ a.at <= clock'
             /\ \A o \in Sessions : tx'[o].pc # "idle" => a.at # tx'[o].started
             /\ a.outcome.code = "applied" => a.status = 200
             /\ a.outcome.code = "applied" <=> Dated(a.at, policy_events')
  <2>1. CASE a \in answers
    BY <1>1, <1>2, <2>1 DEF TruthInv
  <2>2. CASE a \notin answers
    <3>1. /\ tx[s].pc = "ended"
          /\ a = [at |-> tx[s].started, call |-> tx[s].call, outcome |-> tx[s].result,
                  status |-> HttpStatus(tx[s].call, tx[s].result.code)]
      BY <2>2 DEF Leaves
    <3>2. /\ a.at = tx[s].started /\ a.outcome = tx[s].result
          /\ a.status = HttpStatus(tx[s].call, tx[s].result.code)
      BY <3>1
    <3>3. a.outcome.code = "applied" => a.status = 200
      BY <3>2, AppliedIs200
    <3>4. a.outcome.code = "applied" <=> Dated(a.at, policy_events)
      BY <3>1, <3>2 DEF TruthInv, Succeeded
    <3>5. a.at <= clock /\ \A o \in Sessions : tx'[o].pc # "idle" => a.at # tx'[o].started
      BY <1>2, <3>1, <3>2 DEF TruthInv
    <3> QED
      BY <1>1, <3>3, <3>4, <3>5
  <2> QED
    BY <2>1, <2>2
<1> QED
  BY <1>1, <1>2, <1>3 DEF TruthInv

(* An answer says "applied" exactly when its call left an event, whoever    *)
(* lost a connection, for any number of sessions and calls.                 *)
THEOREM AnswersAreTrue == Spec => []AnswersTellTheTruth
<1>1. Init => TruthInv
  BY DEF Init, TruthInv, IdleTx, Fresh
<1>2. BillingInv /\ TruthInv /\ [Next]_vars => TruthInv'
  <2> SUFFICES ASSUME BillingInv, TruthInv, [Next]_vars PROVE TruthInv'
    OBVIOUS
  <2>1. CASE UNCHANGED vars
    BY <2>1 DEF TruthInv, Succeeded, vars, tables
  <2>2. CASE Next
    <3> PICK s \in Sessions : SessionMoves(s)
      BY <2>2, StepMoves
    <3> QED
      BY QuietTruth, CommitTruth, BeginTruth, LeaveTruth DEF SessionMoves
  <2> QED
    BY <2>1, <2>2
<1>3. TruthInv => AnswersTellTheTruth
  BY DEF TruthInv, AnswersTellTheTruth, Dated
<1> QED
  BY <1>1, <1>2, <1>3, BillingInvariant, PTL DEF Spec

-----------------------------------------------------------------------------
(* Premiums telescope *)

BilledIn(d, events) ==
  LET e == CHOOSE ev \in events : ev.id = d.policy_event_id
  IN CHOOSE c \in Calls : CanonicalPayload(c) = e.payload_canonical
PremiumIn(p, documents, events) ==
  IF documents = {} THEN Seed[p].annual_premium_cents
  ELSE BilledIn(Latest(documents), events).new_annual_premium_cents
DocumentsOf(p) == {d \in billing_documents : d.policy_id = p}
HasLatest(documents) ==
  documents = {}
  \/ \E d \in documents : \A b \in documents : b.policy_event_id <= d.policy_event_id

(* e is the event of document d, and records an endorsement of its policy. *)
Billed(d, e) ==
  /\ e.id = d.policy_event_id /\ e.policy_id = d.policy_id
  /\ \E c \in Calls : /\ IsEndorsement(c) /\ c.policy_id = d.policy_id
                      /\ e.payload_canonical = CanonicalPayload(c)

(* Documents follow the chain, and the premium a writer read is the one     *)
(* policies holds until it commits.                                         *)
PremiumInv ==
  /\ \A e, f \in policy_events : e.id = f.id => e = f
  /\ \A d \in billing_documents : \E e \in policy_events : Billed(d, e)
  /\ \A d \in billing_documents : HasLatest(DocumentsBefore(d))
  /\ \A p \in PolicyIds : HasLatest(DocumentsOf(p))
  /\ \A s \in Sessions : tx[s].pc \in Critical =>
       tx[s].old_premium = policies[tx[s].call.policy_id].annual_premium_cents
  /\ \A d \in billing_documents :
       d.amount_cents = Delta(BilledIn(d, policy_events),
                              PremiumIn(d.policy_id, DocumentsBefore(d), policy_events))
  /\ \A p \in PolicyIds :
       policies[p].annual_premium_cents = PremiumIn(p, DocumentsOf(p), policy_events)

(* The call found for a document is the one it bills, in all that counts. *)
LEMMA BilledCall ==
  ASSUME NEW events, \A e, f \in events : e.id = f.id => e = f,
         NEW d, NEW e \in events, e.id = d.policy_event_id,
         NEW c \in Calls, IsEndorsement(c), e.payload_canonical = CanonicalPayload(c)
  PROVE  /\ BilledIn(d, events).policy_id = c.policy_id
         /\ BilledIn(d, events).effective_date = c.effective_date
         /\ BilledIn(d, events).new_annual_premium_cents = c.new_annual_premium_cents
<1> DEFINE b == CHOOSE k \in Calls : CanonicalPayload(k) = e.payload_canonical
<1>1. (CHOOSE ev \in events : ev.id = d.policy_event_id) = e
  OBVIOUS
<1>2. BilledIn(d, events) = b
  BY <1>1 DEF BilledIn
<1>3. b \in Calls /\ CanonicalPayload(b) = CanonicalPayload(c)
  OBVIOUS
<1> HIDE DEF b
<1>4. CanonicalPayload(c) = <<c.policy_id, c.operation, c.idempotency_key, c.effective_date,
                              c.new_annual_premium_cents, c.reason>>
  BY DEF CanonicalPayload
<1>5. CASE IsEndorsement(b)
  <2>1. CanonicalPayload(b) = <<b.policy_id, b.operation, b.idempotency_key, b.effective_date,
                                b.new_annual_premium_cents, b.reason>>
    BY <1>5 DEF CanonicalPayload
  <2> QED
    BY <1>2, <1>3, <1>4, <2>1
<1>6. CASE ~ IsEndorsement(b)
  <2>1. CanonicalPayload(b) = <<b.policy_id, b.operation, b.idempotency_key,
                                b.external_payment_id, b.amount_cents, b.currency,
                                b.received_at>>
    BY <1>6 DEF CanonicalPayload
  <2>2. b.operation = c.operation
    BY <1>3, <1>4, <2>1
  <2> QED
    BY <1>6, <2>2 DEF IsEndorsement
<1> QED
  BY <1>5, <1>6

(* More events do not change what a document bills. *)
LEMMA BilledStays ==
  ASSUME NEW events, NEW more, events \subseteq more,
         \A e, f \in more : e.id = f.id => e = f,
         NEW d, NEW e \in events, e.id = d.policy_event_id
  PROVE  BilledIn(d, more) = BilledIn(d, events)
<1>1. (CHOOSE ev \in events : ev.id = d.policy_event_id) = e
  OBVIOUS
<1>2. (CHOOSE ev \in more : ev.id = d.policy_event_id) = e
  OBVIOUS
<1> QED
  BY <1>1, <1>2 DEF BilledIn

LEMMA PremiumStays ==
  ASSUME NEW events, NEW more, events \subseteq more,
         \A e, f \in more : e.id = f.id => e = f,
         NEW documents, HasLatest(documents),
         \A d \in documents : \E e \in events : e.id = d.policy_event_id,
         NEW p
  PROVE  PremiumIn(p, documents, more) = PremiumIn(p, documents, events)
<1>1. CASE documents = {}
  BY <1>1 DEF PremiumIn
<1>2. CASE documents # {}
  <2>1. Latest(documents) \in documents
    BY <1>2 DEF HasLatest, Latest
  <2>2. BilledIn(Latest(documents), more) = BilledIn(Latest(documents), events)
    BY <2>1, BilledStays
  <2> QED
    BY <1>2, <2>2 DEF PremiumIn
<1> QED
  BY <1>1, <1>2

(* An id drawn and not committed is the id of no event. *)
LEMMA FreshId ==
  ASSUME BillingInv, RowsInv, PremiumInv, NEW s \in Sessions, tx[s].pc = "inserted"
  PROVE  \A e, f \in policy_events \union {NewEvent(s)} : e.id = f.id => e = f
<1>1. ASSUME NEW e \in policy_events
      PROVE  e.id # tx[s].event_id
  <2>1. \E row \in billing_documents \union payments : row.policy_event_id = e.id
    BY DEF BillingInv, HistoryConsistent
  <2> QED
    BY <2>1 DEF RowsInv
<1>2. NewEvent(s).id = tx[s].event_id
  BY DEF NewEvent
<1> QED
  BY <1>1, <1>2 DEF PremiumInv

LEMMA PremiumUntouched ==
  ASSUME PremiumInv, NEW s \in Sessions,
         policies' = policies, policy_events' = policy_events,
         billing_documents' = billing_documents,
         \A o \in Sessions \ {s} : tx'[o] = tx[o],
         tx'[s].pc \in Critical =>
           tx'[s].old_premium = policies[tx'[s].call.policy_id].annual_premium_cents
  PROVE  PremiumInv'
<1>1. /\ \A d : DocumentsBefore(d)' = DocumentsBefore(d)
      /\ \A p : DocumentsOf(p)' = DocumentsOf(p)
  BY DEF DocumentsBefore, DocumentsOf
<1>2. \A o \in Sessions : tx'[o].pc \in Critical =>
        tx'[o].old_premium = policies[tx'[o].call.policy_id].annual_premium_cents
  BY DEF PremiumInv
<1> QED
  BY <1>1, <1>2 DEF PremiumInv

LEMMA OlderBills ==
  ASSUME PremiumInv, policy_events \subseteq policy_events',
         \A e, f \in policy_events' : e.id = f.id => e = f
  PROVE  /\ \A d \in billing_documents :
              BilledIn(d, policy_events') = BilledIn(d, policy_events)
         /\ \A documents, p : documents \subseteq billing_documents /\ HasLatest(documents) =>
              PremiumIn(p, documents, policy_events') = PremiumIn(p, documents, policy_events)
<1>1. \A d \in billing_documents : \E e \in policy_events : e.id = d.policy_event_id
  BY DEF PremiumInv, Billed
<1> QED
  BY <1>1, BilledStays, PremiumStays

LEMMA PremiumPayment ==
  ASSUME BillingInv, RowsInv, PremiumInv, NEW s \in Sessions, CommitPayment(s)
  PROVE  PremiumInv'
<1>1. /\ tx[s].pc = "inserted" /\ billing_documents' = billing_documents
      /\ policies' = policies
      /\ \/ policy_events' = policy_events
         \/ policy_events' = policy_events \union {NewEvent(s)}
      /\ \E outcome : End(s, outcome)
  BY DEF CommitPayment, RecordEvent
<1>2. tx'[s].pc = "ended" /\ \A o \in Sessions \ {s} : tx'[o] = tx[o]
  BY <1>1, StepTypes DEF End, Fresh
<1>3. /\ policy_events \subseteq policy_events'
      /\ \A e, f \in policy_events' : e.id = f.id => e = f
  BY <1>1, FreshId DEF PremiumInv
<1>4. /\ \A d : DocumentsBefore(d)' = DocumentsBefore(d)
      /\ \A p : DocumentsOf(p)' = DocumentsOf(p)
  BY <1>1 DEF DocumentsBefore, DocumentsOf
<1>5. \A d \in billing_documents : \E e \in policy_events : Billed(d, e)
  BY DEF PremiumInv
<1>6. /\ \A d \in billing_documents : BilledIn(d, policy_events') = BilledIn(d, policy_events)
      /\ \A documents, p : documents \subseteq billing_documents /\ HasLatest(documents) =>
           PremiumIn(p, documents, policy_events') = PremiumIn(p, documents, policy_events)
  BY <1>3, OlderBills
<1>7. \A d \in billing_documents' :
        d.amount_cents = Delta(BilledIn(d, policy_events'),
                               PremiumIn(d.policy_id, DocumentsBefore(d)', policy_events'))
  <2> SUFFICES ASSUME NEW d \in billing_documents
               PROVE  d.amount_cents =
                        Delta(BilledIn(d, policy_events'),
                              PremiumIn(d.policy_id, DocumentsBefore(d), policy_events'))
    BY <1>1, <1>4
  <2>1. DocumentsBefore(d) \subseteq billing_documents /\ HasLatest(DocumentsBefore(d))
    BY DEF PremiumInv, DocumentsBefore
  <2> QED
    BY <1>6, <2>1 DEF PremiumInv
<1>8. \A p \in PolicyIds :
        policies'[p].annual_premium_cents = PremiumIn(p, DocumentsOf(p)', policy_events')
  <2> SUFFICES ASSUME NEW p \in PolicyIds
               PROVE  policies[p].annual_premium_cents
                        = PremiumIn(p, DocumentsOf(p), policy_events')
    BY <1>1, <1>4
  <2>1. DocumentsOf(p) \subseteq billing_documents /\ HasLatest(DocumentsOf(p))
    BY DEF PremiumInv, DocumentsOf
  <2> QED
    BY <1>6, <2>1 DEF PremiumInv
<1>9. /\ \A d \in billing_documents' : \E e \in policy_events' : Billed(d, e)
      /\ \A d \in billing_documents' : HasLatest(DocumentsBefore(d)')
      /\ \A p \in PolicyIds : HasLatest(DocumentsOf(p)')
  BY <1>1, <1>3, <1>4, <1>5 DEF PremiumInv
<1>10. \A o \in Sessions : tx'[o].pc \in Critical =>
         tx'[o].old_premium = policies'[tx'[o].call.policy_id].annual_premium_cents
  BY <1>1, <1>2 DEF PremiumInv, Critical
<1> QED
  BY <1>3, <1>7, <1>8, <1>9, <1>10 DEF PremiumInv, HasLatest

LEMMA PremiumEndorsement ==
  ASSUME BillingInv, RowsInv, PremiumInv, NEW s \in Sessions, CommitEndorsement(s),
         policy_events' # policy_events
  PROVE  PremiumInv'
<1> DEFINE c == tx[s].call
<1>p. PICK p \in PolicyIds : p = c.policy_id
  BY DEF CommitEndorsement, BillingInv, SessionConsistent, Critical
<1> DEFINE delta == Delta(c, tx[s].old_premium)
           entries == EndorsementEntries(nextval.transaction, delta)
           row == [id |-> nextval.document, policy_id |-> p,
                   policy_event_id |-> tx[s].event_id, amount_cents |-> delta,
                   created_at |-> tx[s].started]
<1>1. /\ tx[s].pc = "inserted" /\ IsEndorsement(c) /\ c \in Calls /\ p \in PolicyIds
      /\ lock[p] = s
      /\ \A e \in EventsOf(p) : e.id < tx[s].event_id
  BY <1>p DEF CommitEndorsement, BillingInv, SessionConsistent, Critical
<1>2. /\ policy_events' = policy_events \union {NewEvent(s)}
      /\ billing_documents' = billing_documents \union {row}
      /\ policies' = [policies EXCEPT ![p] =
           [annual_premium_cents |-> c.new_annual_premium_cents, updated_at |-> tx[s].started]]
      /\ \E outcome : End(s, outcome)
  BY <1>p DEF CommitEndorsement, RecordEvent, PremiumAfter
<1>3. /\ row.policy_id = p /\ row.policy_event_id = tx[s].event_id
      /\ row.amount_cents = delta
  OBVIOUS
<1> HIDE DEF row
<1>4. tx'[s].pc = "ended" /\ \A o \in Sessions \ {s} : tx'[o] = tx[o]
  BY <1>2, StepTypes DEF End, Fresh
<1>5. /\ policy_events \subseteq policy_events'
      /\ \A e, f \in policy_events' : e.id = f.id => e = f
  BY <1>1, <1>2, FreshId
<1>6. /\ \A d \in billing_documents : BilledIn(d, policy_events') = BilledIn(d, policy_events)
      /\ \A documents, q : documents \subseteq billing_documents /\ HasLatest(documents) =>
           PremiumIn(q, documents, policy_events') = PremiumIn(q, documents, policy_events)
  BY <1>5, OlderBills
<1>7. Billed(row, NewEvent(s)) /\ NewEvent(s) \in policy_events'
  BY <1>p, <1>1, <1>2, <1>3 DEF Billed, NewEvent
<1>8. /\ BilledIn(row, policy_events').policy_id = p
      /\ BilledIn(row, policy_events').effective_date = c.effective_date
      /\ BilledIn(row, policy_events').new_annual_premium_cents = c.new_annual_premium_cents
  <2>1. NewEvent(s).payload_canonical = CanonicalPayload(c) /\ NewEvent(s).id = tx[s].event_id
    BY DEF NewEvent
  <2> QED
    BY <1>p, <1>1, <1>3, <1>5, <1>7, <2>1, BilledCall
<1>9. \A d \in DocumentsOf(p) : d.policy_event_id < row.policy_event_id
  BY <1>1, <1>3 DEF DocumentsOf, PremiumInv, Billed, EventsOf
<1>10. /\ row.policy_event_id \in Int
       /\ \A d \in billing_documents : d.policy_event_id \in Int
  BY <1>3, IdsAreNumbers
<1>11. \A d \in billing_documents : DocumentsBefore(d)' = DocumentsBefore(d)
  BY <1>2, <1>3, <1>9, <1>10 DEF DocumentsBefore, DocumentsOf
<1>12. {b \in billing_documents' : b.policy_id = row.policy_id
                                   /\ b.policy_event_id < row.policy_event_id} = DocumentsOf(p)
  BY <1>2, <1>3, <1>9, <1>10 DEF DocumentsOf
<1>13. /\ DocumentsOf(p)' = DocumentsOf(p) \union {row}
       /\ \A q : q # p => DocumentsOf(q)' = DocumentsOf(q)
  BY <1>2, <1>3 DEF DocumentsOf
<1>14. Latest(DocumentsOf(p) \union {row}) = row
  BY <1>9, <1>10 DEF Latest, DocumentsOf
<1>15. tx[s].old_premium = PremiumIn(p, DocumentsOf(p), policy_events')
  <2>1. tx[s].old_premium = PremiumIn(p, DocumentsOf(p), policy_events)
    BY <1>p, <1>1 DEF PremiumInv, Critical
  <2>2. DocumentsOf(p) \subseteq billing_documents /\ HasLatest(DocumentsOf(p))
    BY <1>1 DEF PremiumInv, DocumentsOf
  <2> QED
    BY <1>6, <2>1, <2>2
<1>16. ASSUME NEW d \in billing_documents'
       PROVE  d.amount_cents =
                Delta(BilledIn(d, policy_events'),
                      PremiumIn(d.policy_id,
                                {b \in billing_documents' :
                                   b.policy_id = d.policy_id
                                   /\ b.policy_event_id < d.policy_event_id},
                                policy_events'))
  <2>1. CASE d \in billing_documents
    <3>1. DocumentsBefore(d) \subseteq billing_documents /\ HasLatest(DocumentsBefore(d))
      BY <2>1 DEF PremiumInv, DocumentsBefore
    <3>2. {b \in billing_documents' : b.policy_id = d.policy_id
                                      /\ b.policy_event_id < d.policy_event_id}
            = DocumentsBefore(d)
      BY <1>11, <2>1 DEF DocumentsBefore
    <3>3. /\ BilledIn(d, policy_events') = BilledIn(d, policy_events)
          /\ PremiumIn(d.policy_id, DocumentsBefore(d), policy_events')
               = PremiumIn(d.policy_id, DocumentsBefore(d), policy_events)
      BY <1>6, <2>1, <3>1
    <3>4. d.amount_cents = Delta(BilledIn(d, policy_events),
                                 PremiumIn(d.policy_id, DocumentsBefore(d), policy_events))
      BY <2>1 DEF PremiumInv
    <3> QED
      BY <3>2, <3>3, <3>4
  <2>2. CASE d = row
    <3>1. Delta(BilledIn(row, policy_events'), tx[s].old_premium) = delta
      BY <1>p, <1>8 DEF Delta
    <3> QED
      BY <1>3, <1>12, <1>15, <2>2, <3>1
  <2> QED
    BY <1>2, <2>1, <2>2
<1>17. ASSUME NEW q \in PolicyIds
       PROVE  policies'[q].annual_premium_cents = PremiumIn(q, DocumentsOf(q)', policy_events')
  <2>1. CASE q = p
    BY <1>1, <1>2, <1>8, <1>13, <1>14, <2>1 DEF PremiumIn, BillingInv, TypeOK
  <2>2. CASE q # p
    <3>1. DocumentsOf(q) \subseteq billing_documents /\ HasLatest(DocumentsOf(q))
      BY DEF PremiumInv, DocumentsOf
    <3>2. policies'[q] = policies[q]
      BY <1>2, <2>2 DEF BillingInv, TypeOK
    <3> QED
      BY <1>6, <1>13, <2>2, <3>1, <3>2 DEF PremiumInv
  <2> QED
    BY <2>1, <2>2
<1>18. \A d \in billing_documents' : \E e \in policy_events' : Billed(d, e)
  BY <1>2, <1>5, <1>7 DEF PremiumInv
<1>19. ASSUME NEW q \in PolicyIds
       PROVE  HasLatest(DocumentsOf(q)')
  <2>1. CASE q = p
    BY <1>9, <1>10, <1>13, <2>1 DEF HasLatest, DocumentsOf
  <2>2. CASE q # p
    BY <1>13, <2>2 DEF PremiumInv
  <2> QED
    BY <2>1, <2>2
<1>20. ASSUME NEW d \in billing_documents'
       PROVE  HasLatest({b \in billing_documents' :
                           b.policy_id = d.policy_id
                           /\ b.policy_event_id < d.policy_event_id})
  <2>1. CASE d \in billing_documents
    BY <1>11, <2>1 DEF PremiumInv, DocumentsBefore
  <2>2. CASE d = row
    BY <1>1, <1>12, <2>2 DEF PremiumInv
  <2> QED
    BY <1>2, <2>1, <2>2
<1>21. ASSUME NEW o \in Sessions, tx'[o].pc \in Critical
       PROVE  tx'[o].old_premium = policies'[tx'[o].call.policy_id].annual_premium_cents
  <2>1. o # s /\ tx'[o] = tx[o]
    BY <1>4, <1>21 DEF Critical
  <2>2. lock[tx[o].call.policy_id] = o /\ tx[o].call.policy_id \in PolicyIds
    BY <1>21, <2>1 DEF BillingInv, SessionConsistent
  <2>3. tx[o].call.policy_id # p
    BY <1>1, <2>1, <2>2
  <2>4. policies'[tx[o].call.policy_id] = policies[tx[o].call.policy_id]
    BY <1>2, <2>2, <2>3 DEF BillingInv, TypeOK
  <2> QED
    BY <1>21, <2>1, <2>4 DEF PremiumInv
<1> QED
  BY <1>5, <1>16, <1>17, <1>18, <1>19, <1>20, <1>21
     DEF PremiumInv, HasLatest, DocumentsBefore

LEMMA PremiumStep ==
  ASSUME BillingInv, RowsInv, PremiumInv, Next
  PROVE  PremiumInv'
<1> PICK s \in Sessions : \/ \E c \in Calls : Begin(s, c)
                          \/ LockPolicy(s)
                          \/ Statement(s)
                          \/ Abort(s)
                          \/ Disconnect(s)
                          \/ Reply(s)
  BY DEF Next
<1>t. tx[s] \in TxStates /\ tx \in [Sessions -> TxStates]
  BY StepTypes
<1>1. CASE CommitPayment(s)
  BY <1>1, PremiumPayment
<1>2. CASE CommitEndorsement(s) /\ policy_events' # policy_events
  BY <1>2, PremiumEndorsement
<1>3. CASE CommitEndorsement(s) /\ policy_events' = policy_events
  <2>1. NewEvent(s) \notin policy_events
    <3>1. tx[s].pc = "inserted" /\ NewEvent(s).id = tx[s].event_id
          /\ NewEvent(s).policy_id = tx[s].call.policy_id
      BY <1>3 DEF CommitEndorsement, NewEvent
    <3>2. \A e \in EventsOf(tx[s].call.policy_id) : e.id < tx[s].event_id
      BY <3>1 DEF BillingInv, SessionConsistent
    <3> QED
      BY <3>1, <3>2, IdsAreNumbers DEF EventsOf
  <2>2. /\ policies' = policies /\ billing_documents' = billing_documents
        /\ \E outcome : End(s, outcome)
    BY <1>3, <2>1 DEF CommitEndorsement, RecordEvent
  <2>3. tx'[s].pc = "ended" /\ \A o \in Sessions \ {s} : tx'[o] = tx[o]
    BY <1>t, <2>2 DEF End, Fresh
  <2> QED
    BY <1>3, <2>2, <2>3, PremiumUntouched DEF Critical
<1>4. CASE ~ CommitPayment(s) /\ ~ CommitEndorsement(s)
  <2>1. /\ policies' = policies /\ policy_events' = policy_events
        /\ billing_documents' = billing_documents
    BY <1>4 DEF Begin, LockPolicy, Statement, Abort, Disconnect, Reply, PolicyNotFound,
       AnswerReplay, RejectConflict, RejectCall, AcceptCall, ReadChainHead, InsertEvent, tables
  <2>2. CASE LockPolicy(s)
    <3>1. tx'[s].old_premium = policies[tx[s].call.policy_id].annual_premium_cents
          /\ tx'[s].call = tx[s].call /\ \A o \in Sessions \ {s} : tx'[o] = tx[o]
      BY <1>t, <2>2 DEF LockPolicy, TxStates
    <3> QED
      BY <2>1, <3>1, PremiumUntouched
  <2>3. CASE AcceptCall(s) \/ ReadChainHead(s) \/ Disconnect(s)
    <3>1. /\ tx'[s].old_premium = tx[s].old_premium /\ tx'[s].call = tx[s].call
          /\ tx'[s].pc \in Critical => tx[s].pc \in Critical
          /\ \A o \in Sessions \ {s} : tx'[o] = tx[o]
      BY <1>t, <2>3 DEF AcceptCall, ReadChainHead, Disconnect, TxStates, Critical
    <3> QED
      BY <2>1, <3>1, PremiumUntouched DEF PremiumInv
  <2>4. CASE InsertEvent(s)
    <3>1. Earlier(tx[s].call) = {} /\ tx[s].pc = "chained"
      BY <2>4 DEF InsertEvent, BillingInv, SessionConsistent, Writing
    <3>2. tx' = [tx EXCEPT ![s] = [tx[s] EXCEPT !.pc = "inserted",
                                                !.event_id = nextval.event]]
      BY <2>4, <3>1 DEF InsertEvent
    <3>3. /\ tx'[s].old_premium = tx[s].old_premium /\ tx'[s].call = tx[s].call
          /\ tx[s].pc \in Critical
          /\ \A o \in Sessions \ {s} : tx'[o] = tx[o]
      BY <1>t, <3>1, <3>2 DEF TxStates, Critical
    <3> QED
      BY <2>1, <3>3, PremiumUntouched DEF PremiumInv
  <2>5. CASE \/ \E c \in Calls : Begin(s, c)
             \/ Abort(s) \/ Reply(s)
             \/ PolicyNotFound(s) \/ AnswerReplay(s) \/ RejectConflict(s) \/ RejectCall(s)
    <3>1. ASSUME NEW new, tx' = [tx EXCEPT ![s] = new], new.pc \notin Critical
          PROVE  PremiumInv'
      <4>1. tx'[s].pc \notin Critical /\ \A o \in Sessions \ {s} : tx'[o] = tx[o]
        BY <1>t, <3>1
      <4> QED
        BY <2>1, <4>1, PremiumUntouched
    <3>2. ASSUME NEW pc, NEW c, NEW started, NEW served, NEW result
          PROVE  Fresh(pc, c, started, served, result).pc = pc
      BY DEF Fresh
    <3>3. CASE \E c \in Calls : Begin(s, c)
      BY <3>1, <3>2, <3>3 DEF Begin, Critical
    <3>4. CASE Abort(s) \/ Reply(s)
      BY <3>1, <3>2, <3>4 DEF Abort, Reply, IdleTx, Critical
    <3>5. ASSUME NEW outcome, End(s, outcome)
          PROVE  PremiumInv'
      BY <3>1, <3>2, <3>5 DEF End, Critical
    <3>6. CASE PolicyNotFound(s) \/ AnswerReplay(s) \/ RejectConflict(s) \/ RejectCall(s)
      BY <3>5, <3>6 DEF PolicyNotFound, AnswerReplay, RejectConflict, RejectCall
    <3> QED
      BY <2>5, <3>3, <3>4, <3>6
  <2> QED
    BY <1>4, <2>2, <2>3, <2>4, <2>5 DEF Statement
<1> QED
  BY <1>1, <1>2, <1>3, <1>4

LEMMA PremiumStarts ==
  ASSUME Init
  PROVE  RowsInv /\ PremiumInv
<1>1. RowsInv
  BY DEF Init, RowsInv, IdleTx, Fresh
<1>2. \A p \in PolicyIds : DocumentsOf(p) = {}
  BY DEF Init, DocumentsOf
<1>3. \A s \in Sessions : tx[s].pc \notin Critical
  BY DEF Init, IdleTx, Fresh, Critical
<1> QED
  BY <1>1, <1>2, <1>3 DEF Init, PremiumInv, HasLatest, PremiumIn

LEMMA PremiumStutters ==
  ASSUME RowsInv, PremiumInv, UNCHANGED vars
  PROVE  RowsInv' /\ PremiumInv'
BY DEF RowsInv, PremiumInv, DocumentsOf, DocumentsBefore, vars, tables

(* No endorsement is lost, whatever other sessions do: every document bills *)
(* the change from the premium the document before it left.                 *)
THEOREM PremiumsNeverSkip == Spec => []PremiumsTelescope
<1>1. Init => RowsInv /\ PremiumInv
  BY PremiumStarts
<1>2. BillingInv /\ RowsInv /\ PremiumInv /\ [Next]_vars => RowsInv' /\ PremiumInv'
  <2> SUFFICES ASSUME BillingInv, RowsInv, PremiumInv, [Next]_vars
               PROVE  RowsInv' /\ PremiumInv'
    OBVIOUS
  <2>1. CASE UNCHANGED vars
    BY <2>1, PremiumStutters
  <2>2. CASE Next
    BY <2>2, StepMoves, RowsStep, PremiumStep
  <2> QED
    BY <2>1, <2>2
<1>3. PremiumInv => PremiumsTelescope
  <2> SUFFICES ASSUME PremiumInv PROVE PremiumsTelescope
    OBVIOUS
  <2>1. \A d : CallBilled(d) = BilledIn(d, policy_events)
    BY DEF CallBilled, BilledIn
  <2>2. \A p, documents : PremiumFrom(p, documents) = PremiumIn(p, documents, policy_events)
    BY <2>1 DEF PremiumFrom, PremiumIn
  <2> QED
    BY <2>1, <2>2 DEF PremiumInv, PremiumsTelescope, DocumentsOf
<1> QED
  BY <1>1, <1>2, <1>3, BillingInvariant, PTL DEF Spec

-----------------------------------------------------------------------------
(* Sums of amounts: a fold over a set of rows does not depend on the order *)

(* A property of some subset of a finite set has a smallest one with it. *)
LEMMA SmallestSubset ==
  ASSUME NEW U, IsFiniteSet(U), NEW T \in SUBSET (SUBSET U), T # {}
  PROVE  \E s \in T : \A t \in SUBSET s : t # s => t \notin T
<1> DEFINE R == StrictSubsetOrdering(U)
<1>1. SUBSET U \subseteq FiniteSubsetsOf(U)
  BY FS_Subset DEF FiniteSubsetsOf
<1>2. IsWellFoundedOn(R, FiniteSubsetsOf(U))
  BY FS_StrictSubsetOrderingWellFounded
<1>3. ASSUME NEW s \in SUBSET U, NEW t \in SUBSET s, t # s
      PROVE  <<t, s>> \in R
  BY <1>3 DEF StrictSubsetOrdering
<1>4. T \subseteq FiniteSubsetsOf(U)
  BY <1>1
<1> HIDE DEF R
<1>5. PICK s \in T : \A t \in T : ~ (<<t, s>> \in R)
  BY <1>2, <1>4, WFMin
<1> QED
  BY <1>3, <1>5

(* f adds up the rows of every subset of U, a chosen row at a time. *)
AddsUp(f, U) ==
  f = [s \in SUBSET U |-> IF s = {} THEN 0
                          ELSE LET x == CHOOSE x \in s : TRUE
                               IN x.amount_cents + f[s \ {x}]]
Chosen(s) == CHOOSE x \in s : TRUE

LEMMA AddsUpAt ==
  ASSUME NEW U, NEW f
  PROVE  AddsUp(f, U) <=>
           /\ f = [s \in SUBSET U |-> f[s]]
           /\ \A s \in SUBSET U :
                f[s] = IF s = {} THEN 0 ELSE Chosen(s).amount_cents + f[s \ {Chosen(s)}]
<1> DEFINE G(s) == IF s = {} THEN 0 ELSE Chosen(s).amount_cents + f[s \ {Chosen(s)}]
<1>1. AddsUp(f, U) <=> f = [s \in SUBSET U |-> G(s)]
  BY Zenon DEF AddsUp, Chosen
<1> HIDE DEF G
<1>2. f = [s \in SUBSET U |-> G(s)] <=> /\ f = [s \in SUBSET U |-> f[s]]
                                        /\ \A s \in SUBSET U : f[s] = G(s)
  OBVIOUS
<1> QED
  BY <1>1, <1>2 DEF G

LEMMA ChosenIn ==
  ASSUME NEW s, s # {}
  PROVE  Chosen(s) \in s /\ s \ {Chosen(s)} \in SUBSET s /\ s \ {Chosen(s)} # s
BY DEF Chosen

LEMMA SameSums ==
  ASSUME NEW U, NEW V, V \subseteq U, IsFiniteSet(V),
         NEW f, NEW g, AddsUp(f, U), AddsUp(g, V)
  PROVE  \A s \in SUBSET V : f[s] = g[s]
<1> DEFINE T == {s \in SUBSET V : f[s] # g[s]}
<1> SUFFICES T = {}
  OBVIOUS
<1> SUFFICES ASSUME T # {} PROVE FALSE
  OBVIOUS
<1>1. PICK s \in T : \A t \in SUBSET s : t # s => t \notin T
  <2> T \in SUBSET (SUBSET V)
    OBVIOUS
  <2> HIDE DEF T
  <2> QED
    BY SmallestSubset
<1>2. s \in SUBSET V /\ s \in SUBSET U
  OBVIOUS
<1>3. /\ f[s] = IF s = {} THEN 0 ELSE Chosen(s).amount_cents + f[s \ {Chosen(s)}]
      /\ g[s] = IF s = {} THEN 0 ELSE Chosen(s).amount_cents + g[s \ {Chosen(s)}]
  BY <1>2, AddsUpAt
<1>4. s # {}
  BY <1>3
<1>5. f[s \ {Chosen(s)}] = g[s \ {Chosen(s)}]
  BY <1>1, <1>2, <1>4, ChosenIn
<1> QED
  BY <1>3, <1>4, <1>5

LEMMA SumIs ==
  ASSUME NEW U, IsFiniteSet(U), NEW f, AddsUp(f, U)
  PROVE  AmountSum(U) = f[U]
<1> DEFINE P(h) == h = [s \in SUBSET U |->
                          IF s = {} THEN 0
                          ELSE LET x == CHOOSE x \in s : TRUE
                               IN x.amount_cents + h[s \ {x}]]
           iter == CHOOSE h : P(h)
<1>1. AmountSum(U) = iter[U]
  BY Zenon DEF AmountSum, MapThenSumSet, MapThenFoldSet, iter, P
<1>2. P(f)
  BY Zenon DEF AddsUp
<1> HIDE DEF P
<1>3. P(iter)
  BY <1>2, Zenon
<1> HIDE DEF iter
<1>4. AddsUp(iter, U)
  BY <1>3, Zenon DEF AddsUp, P
<1>5. iter[U] = f[U]
  BY <1>4, SameSums
<1> QED
  BY <1>1, <1>5

LEMMA SumsExist ==
  ASSUME NEW U, IsFiniteSet(U)
  PROVE  \E f : AddsUp(f, U)
<1> DEFINE T == {u \in SUBSET U : ~ \E f : AddsUp(f, u)}
<1> SUFFICES T = {}
  OBVIOUS
<1> SUFFICES ASSUME T # {} PROVE FALSE
  OBVIOUS
<1>1. PICK u \in T : \A t \in SUBSET u : t # u => t \notin T
  <2> T \in SUBSET (SUBSET U)
    OBVIOUS
  <2> HIDE DEF T
  <2> QED
    BY SmallestSubset
<1>2. u \in SUBSET U /\ ~ \E f : AddsUp(f, u)
  OBVIOUS
<1>3. \A t \in SUBSET u : t # u => \E f : AddsUp(f, t)
  BY <1>1, <1>2
<1>4. \A t \in SUBSET u : IsFiniteSet(t)
  BY <1>2, FS_Subset
<1> HIDE DEF T
<1> DEFINE H(s) == IF s = {} THEN 0
                   ELSE Chosen(s).amount_cents + AmountSum(s \ {Chosen(s)})
           g == [s \in SUBSET u |-> H(s)]
<1>5. ASSUME NEW r \in SUBSET u, r # u
      PROVE  H(r) = AmountSum(r)
  <2>1. PICK f : AddsUp(f, r)
    BY <1>3, <1>5
  <2>2. AmountSum(r) = f[r]
    BY <1>4, <2>1, SumIs
  <2>3. f[r] = IF r = {} THEN 0 ELSE Chosen(r).amount_cents + f[r \ {Chosen(r)}]
    BY <2>1, AddsUpAt
  <2>4. CASE r = {}
    BY <2>2, <2>3, <2>4
  <2>5. CASE r # {}
    <3> DEFINE q == r \ {Chosen(r)}
    <3>1. q \in SUBSET r /\ q # r /\ q \in SUBSET u /\ q # u
      BY <2>5, ChosenIn
    <3> HIDE DEF q
    <3>2. PICK h : AddsUp(h, q)
      BY <1>3, <3>1
    <3>3. AmountSum(q) = h[q]
      BY <1>4, <3>1, <3>2, SumIs
    <3>4. f[q] = h[q]
      BY <1>4, <2>1, <3>1, <3>2, SameSums
    <3>5. H(r) = Chosen(r).amount_cents + AmountSum(q)
      BY <2>5 DEF q
    <3>6. f[r] = Chosen(r).amount_cents + f[q]
      BY <2>3, <2>5 DEF q
    <3> QED
      BY <2>2, <3>3, <3>4, <3>5, <3>6
  <2> QED
    BY <2>4, <2>5
<1>6. AddsUp(g, u)
  <2>1. \A s \in SUBSET u : g[s] = H(s)
    OBVIOUS
  <2>2. g = [s \in SUBSET u |-> g[s]]
    BY <2>1
  <2> HIDE DEF g
  <2>3. ASSUME NEW s \in SUBSET u
        PROVE  g[s] = IF s = {} THEN 0 ELSE Chosen(s).amount_cents + g[s \ {Chosen(s)}]
    <3>1. CASE s = {}
      BY <2>1, <3>1
    <3>2. CASE s # {}
      <4> DEFINE q == s \ {Chosen(s)}
      <4>1. q \in SUBSET u /\ q # u
        BY <3>2, ChosenIn
      <4>2. H(s) = Chosen(s).amount_cents + AmountSum(q)
        BY <3>2
      <4> HIDE DEF q, H
      <4>3. g[q] = AmountSum(q)
        BY <1>5, <2>1, <4>1
      <4> QED
        BY <2>1, <3>2, <4>2, <4>3 DEF q
    <3> QED
      BY <3>1, <3>2
  <2> QED
    BY <2>2, <2>3, AddsUpAt
<1> QED
  BY <1>2, <1>6

LEMMA SumUnfolds ==
  ASSUME NEW U, IsFiniteSet(U)
  PROVE  /\ AmountSum({}) = 0
         /\ U # {} => AmountSum(U) = Chosen(U).amount_cents + AmountSum(U \ {Chosen(U)})
<1>1. PICK f : AddsUp(f, U)
  BY SumsExist
<1>2. ASSUME NEW V \in SUBSET U PROVE AmountSum(V) = f[V]
  <2>1. IsFiniteSet(V)
    BY FS_Subset
  <2>2. PICK g : AddsUp(g, V)
    BY <2>1, SumsExist
  <2> QED
    BY <1>1, <2>1, <2>2, SameSums, SumIs
<1>3. AmountSum({}) = 0 /\ AmountSum(U) = f[U]
  BY <1>1, <1>2, AddsUpAt
<1>4. CASE U = {}
  BY <1>3, <1>4
<1>5. CASE U # {}
  <2>1. AmountSum(U \ {Chosen(U)}) = f[U \ {Chosen(U)}]
    BY <1>2, <1>5, ChosenIn
  <2> QED
    BY <1>1, <1>3, <1>5, <2>1, AddsUpAt
<1> QED
  BY <1>4, <1>5

(* A sum of integers is an integer. *)
LEMMA SumIsInteger ==
  ASSUME NEW U, IsFiniteSet(U), \A x \in U : x.amount_cents \in Int
  PROVE  AmountSum(U) \in Int
<1> DEFINE T == {s \in SUBSET U : AmountSum(s) \notin Int}
<1> SUFFICES T = {}
  OBVIOUS
<1> SUFFICES ASSUME T # {} PROVE FALSE
  OBVIOUS
<1>1. PICK s \in T : \A t \in SUBSET s : t # s => t \notin T
  <2> T \in SUBSET (SUBSET U)
    OBVIOUS
  <2> HIDE DEF T
  <2> QED
    BY SmallestSubset
<1>2. s \in SUBSET U /\ AmountSum(s) \notin Int /\ IsFiniteSet(s)
  BY FS_Subset
<1>3. s # {}
  <2>1. AmountSum({}) = 0
    BY <1>2, SumUnfolds
  <2> QED
    BY <1>2, <2>1
<1>4. Chosen(s) \in s /\ AmountSum(s \ {Chosen(s)}) \in Int
  BY <1>1, <1>2, <1>3, ChosenIn
<1> QED
  BY <1>2, <1>3, <1>4, SumUnfolds

(* Any row can be taken out first. *)
LEMMA SumRemoves ==
  ASSUME NEW U, IsFiniteSet(U), \A x \in U : x.amount_cents \in Int, NEW y \in U
  PROVE  AmountSum(U) = y.amount_cents + AmountSum(U \ {y})
<1> DEFINE Off(s) == \E x \in s : AmountSum(s) # x.amount_cents + AmountSum(s \ {x})
           T == {s \in SUBSET U : Off(s)}
<1> SUFFICES T = {}
  OBVIOUS
<1> SUFFICES ASSUME T # {} PROVE FALSE
  OBVIOUS
<1>1. PICK s \in T : \A t \in SUBSET s : t # s => t \notin T
  <2> T \in SUBSET (SUBSET U)
    OBVIOUS
  <2> HIDE DEF T
  <2> QED
    BY SmallestSubset
<1>2. s \in SUBSET U /\ Off(s) /\ IsFiniteSet(s)
  BY FS_Subset
<1>3. PICK x \in s : AmountSum(s) # x.amount_cents + AmountSum(s \ {x})
  BY <1>2
<1>4. \A t \in SUBSET s : t # s =>
        \A z \in t : AmountSum(t) = z.amount_cents + AmountSum(t \ {z})
  BY <1>1, <1>2
<1> HIDE DEF T, Off
<1> DEFINE c == Chosen(s)
<1>5. c \in s /\ AmountSum(s) = c.amount_cents + AmountSum(s \ {c})
  BY <1>2, <1>3, ChosenIn, SumUnfolds
<1> HIDE DEF c
<1>6. c # x
  BY <1>3, <1>5
<1>7. /\ AmountSum(s \ {c}) = x.amount_cents + AmountSum((s \ {c}) \ {x})
      /\ AmountSum(s \ {x}) = c.amount_cents + AmountSum((s \ {x}) \ {c})
  <2>1. /\ s \ {c} \in SUBSET s /\ s \ {c} # s /\ x \in s \ {c}
        /\ s \ {x} \in SUBSET s /\ s \ {x} # s /\ c \in s \ {x}
    BY <1>5, <1>6
  <2> QED
    BY <1>4, <2>1, Zenon
<1>8. (s \ {c}) \ {x} = (s \ {x}) \ {c}
  OBVIOUS
<1>9. AmountSum((s \ {x}) \ {c}) \in Int
  <2> DEFINE q == (s \ {x}) \ {c}
  <2>1. q \in SUBSET U
    BY <1>2
  <2> HIDE DEF q
  <2>2. IsFiniteSet(q)
    BY <2>1, FS_Subset
  <2>3. AmountSum(q) \in Int
    BY <2>1, <2>2, SumIsInteger
  <2> QED
    BY <2>3 DEF q
<1>10. x.amount_cents \in Int /\ c.amount_cents \in Int
  BY <1>2, <1>5
<1> DEFINE sum == AmountSum(s)
           withoutX == AmountSum(s \ {x})
           withoutC == AmountSum(s \ {c})
           rest == AmountSum((s \ {x}) \ {c})
           a == c.amount_cents
           b == x.amount_cents
<1>11. /\ sum = a + withoutC /\ withoutC = b + rest /\ withoutX = a + rest
       /\ sum # b + withoutX
       /\ rest \in Int /\ a \in Int /\ b \in Int
  BY <1>3, <1>5, <1>7, <1>8, <1>9, <1>10, Zenon
<1> HIDE DEF sum, withoutX, withoutC, rest, a, b
<1> QED
  BY <1>11
-----------------------------------------------------------------------------
(* Server errors are explained *)

(* The sum over one row. *)
LEMMA SumOfOne ==
  ASSUME NEW e, e.amount_cents \in Int
  PROVE  AmountSum({e}) = e.amount_cents
<1>1. IsFiniteSet({e})
  BY FS_Singleton
<1>2. AmountSum({e}) = e.amount_cents + AmountSum({e} \ {e})
  BY <1>1, SumRemoves
<1>3. {e} \ {e} = {}
  OBVIOUS
<1>4. AmountSum({}) = 0
  BY <1>1, SumUnfolds
<1>5. AmountSum({e} \ {e}) = 0
  BY <1>3, <1>4, Zenon
<1> QED
  BY <1>2, <1>5

(* What the functions post balances: the deferred trigger never objects. *)
LEMMA PairBalances ==
  ASSUME NEW t, NEW from, NEW to, NEW amount \in Int
  PROVE  Balanced({Entry(t, from, "debit", amount), Entry(t, to, "credit", amount)})
<1> DEFINE d == Entry(t, from, "debit", amount)
           c == Entry(t, to, "credit", amount)
<1>1. /\ d.amount_cents = amount /\ d.direction = "debit"
      /\ c.amount_cents = amount /\ c.direction = "credit"
  BY DEF Entry
<1> HIDE DEF d, c
<1>2. /\ {e \in {d, c} : e.direction = "debit"} = {d}
      /\ {e \in {d, c} : e.direction = "credit"} = {c}
  BY <1>1
<1>3. Amounts({d, c}, "debit") = amount /\ Amounts({d, c}, "credit") = amount
  BY <1>1, <1>2, SumOfOne DEF Amounts
<1>4. Balanced({d, c})
  BY <1>3 DEF Balanced
<1> QED
  BY <1>4 DEF d, c

LEMMA EndorsementBalances ==
  ASSUME NEW t, NEW delta \in Int
  PROVE  Balanced(EndorsementEntries(t, delta))
<1>1. CASE delta > 0
  BY <1>1, PairBalances DEF EndorsementEntries
<1>2. CASE delta < 0
  <2>1. -delta \in Int
    OBVIOUS
  <2> QED
    BY <1>2, <2>1, PairBalances DEF EndorsementEntries
<1>3. CASE delta = 0
  <2>1. EndorsementEntries(t, delta) = {}
    BY <1>3 DEF EndorsementEntries
  <2>2. {e \in {} : e.direction = "debit"} = {} /\ {e \in {} : e.direction = "credit"} = {}
    OBVIOUS
  <2> QED
    BY <2>1, <2>2 DEF Balanced, Amounts
<1> QED
  BY <1>1, <1>2, <1>3

LEMMA PaymentBalances ==
  ASSUME NEW t, NEW amount \in Int
  PROVE  Balanced(PaymentEntries(t, amount))
BY PairBalances DEF PaymentEntries

Explained(c, code) == HttpStatus(c, code) = 500 => code = "22003"

(* Every refusal of a rule has a status of its own, or is the overflow. *)
LEMMA RejectionExplained ==
  ASSUME NEW c, NEW old, RejectionOf(c, old) # "none"
  PROVE  Explained(c, RejectionOf(c, old))
BY DEF RejectionOf, Explained, HttpStatus, RuleCodes

(* What a session or a client was told has an explanation. *)
ErrorsInv ==
  /\ \A s \in Sessions : tx[s].pc = "ended" => Explained(tx[s].call, tx[s].result.code)
  /\ \A a \in answers : a.status = 500 => a.outcome.code = "22003"

LEMMA ErrorsUntouched ==
  ASSUME BillingInv, ErrorsInv, NEW s \in Sessions,
         NEW new, tx' = [tx EXCEPT ![s] = new],
         new.pc = "ended" => Explained(new.call, new.result.code),
         answers' = answers
  PROVE  ErrorsInv'
<1>1. tx'[s] = new /\ \A o \in Sessions \ {s} : tx'[o] = tx[o]
  BY StepTypes
<1>2. \A o \in Sessions : tx'[o].pc = "ended" => Explained(tx'[o].call, tx'[o].result.code)
  BY <1>1 DEF ErrorsInv
<1> QED
  BY <1>2 DEF ErrorsInv, Explained, HttpStatus, RuleCodes, IsEndorsement

LEMMA ErrorsEnd ==
  ASSUME BillingInv, ErrorsInv, NEW s \in Sessions, NEW outcome, End(s, outcome),
         Explained(tx[s].call, outcome.code), answers' = answers
  PROVE  ErrorsInv'
<1> DEFINE new == Fresh("ended", tx[s].call, tx[s].started, tx[s].served, outcome)
<1>1. tx' = [tx EXCEPT ![s] = new] /\ Explained(new.call, new.result.code)
  BY DEF End, Fresh
<1> HIDE DEF new
<1> QED
  BY <1>1, ErrorsUntouched

LEMMA ErrorsStep ==
  ASSUME BillingInv, ErrorsInv, Next
  PROVE  ErrorsInv'
<1> PICK s \in Sessions : \/ \E c \in Calls : Begin(s, c)
                          \/ LockPolicy(s)
                          \/ Statement(s)
                          \/ Abort(s)
                          \/ Disconnect(s)
                          \/ Reply(s)
  BY DEF Next
<1>t. tx[s] \in TxStates /\ SessionConsistent(s)
  BY StepTypes DEF BillingInv
<1>s. ASSUME NEW c, NEW code \in {"applied", "duplicate_ignored", "BLB01", "BLB04"}
      PROVE  Explained(c, code)
  BY DEF Explained, HttpStatus, RuleCodes
<1>1. CASE \E c \in Calls : Begin(s, c)
  <2> PICK c \in Calls : Begin(s, c)
    BY <1>1
  <2> DEFINE new == Fresh("begun", c, clock + 1, TRUE, NoOutcome)
  <2>1. tx' = [tx EXCEPT ![s] = new] /\ new.pc = "begun" /\ answers' = answers
    BY DEF Begin, Fresh
  <2> HIDE DEF new
  <2> QED
    BY <2>1, ErrorsUntouched
<1>2. CASE LockPolicy(s)
  <2> DEFINE new == [tx[s] EXCEPT !.pc = "locked",
                       !.old_premium = policies[tx[s].call.policy_id].annual_premium_cents]
  <2>1. tx' = [tx EXCEPT ![s] = new] /\ new.pc = "locked" /\ answers' = answers
    BY <1>2, <1>t DEF LockPolicy, TxStates
  <2> HIDE DEF new
  <2> QED
    BY <2>1, ErrorsUntouched
<1>3. CASE AcceptCall(s)
  <2> DEFINE new == [tx[s] EXCEPT !.pc = "accepted"]
  <2>1. tx' = [tx EXCEPT ![s] = new] /\ new.pc = "accepted" /\ answers' = answers
    BY <1>3, <1>t DEF AcceptCall, TxStates
  <2> HIDE DEF new
  <2> QED
    BY <2>1, ErrorsUntouched
<1>4. CASE ReadChainHead(s)
  <2> DEFINE new == [tx[s] EXCEPT !.pc = "chained",
                       !.previous_hash = HeadHash(EventsOf(tx[s].call.policy_id))]
  <2>1. tx' = [tx EXCEPT ![s] = new] /\ new.pc = "chained" /\ answers' = answers
    BY <1>4, <1>t DEF ReadChainHead, TxStates
  <2> HIDE DEF new
  <2> QED
    BY <2>1, ErrorsUntouched
<1>5. CASE InsertEvent(s)
  <2> DEFINE new == [tx[s] EXCEPT !.pc = "inserted", !.event_id = nextval.event]
  <2>1. Earlier(tx[s].call) = {}
    BY <1>5, <1>t DEF InsertEvent, SessionConsistent, Writing
  <2>2. tx' = [tx EXCEPT ![s] = new] /\ new.pc = "inserted" /\ answers' = answers
    BY <1>5, <1>t, <2>1 DEF InsertEvent, TxStates
  <2> HIDE DEF new
  <2> QED
    BY <2>2, ErrorsUntouched
<1>6. CASE PolicyNotFound(s) \/ RejectConflict(s)
  <2>1. PICK code \in {"BLB01", "BLB04"} : End(s, Failure(code)) /\ answers' = answers
    BY <1>6 DEF PolicyNotFound, RejectConflict
  <2>2. Explained(tx[s].call, Failure(code).code)
    BY <1>s DEF Failure
  <2> QED
    BY <2>1, <2>2, ErrorsEnd
<1>7. CASE RejectCall(s)
  <2> DEFINE code == RejectionOf(tx[s].call, tx[s].old_premium)
  <2>1. code # "none" /\ End(s, Failure(code)) /\ answers' = answers
    BY <1>7 DEF RejectCall
  <2>2. Explained(tx[s].call, Failure(code).code)
    BY <2>1, RejectionExplained DEF Failure
  <2> HIDE DEF code
  <2> QED
    BY <2>1, <2>2, ErrorsEnd
<1>8. CASE AnswerReplay(s)
  <2>1. PICK e \in Earlier(tx[s].call) : End(s, ReplayOf(e, tx[s].call)) /\ answers' = answers
    BY <1>8 DEF AnswerReplay
  <2>2. ReplayOf(e, tx[s].call).code = "duplicate_ignored"
    BY DEF ReplayOf
  <2> QED
    BY <1>s, <2>1, <2>2, ErrorsEnd
<1>9. CASE CommitEndorsement(s)
  <2> DEFINE delta == Delta(tx[s].call, tx[s].old_premium)
  <2>1. delta \in Int
    <3>1. tx[s].call \in EndorsementCalls /\ tx[s].pc = "inserted"
      BY <1>9, <1>t, CallKinds DEF CommitEndorsement, SessionConsistent
    <3> QED
      BY <3>1, ReadyToCommit, DeltaType
  <2>2. Balanced(EndorsementEntries(nextval.transaction, delta))
    BY <2>1, EndorsementBalances
  <2>3. \E outcome : End(s, outcome) /\ outcome.code = "applied" /\ answers' = answers
    BY <1>9, <2>2 DEF CommitEndorsement
  <2> QED
    BY <1>s, <2>3, ErrorsEnd
<1>10. CASE CommitPayment(s)
  <2>1. tx[s].call.amount_cents \in Int
    BY <1>10, <1>t, CallKinds, CallsAssumption DEF CommitPayment, SessionConsistent
  <2>2. Balanced(PaymentEntries(nextval.transaction, tx[s].call.amount_cents))
    BY <2>1, PaymentBalances
  <2>3. \E outcome : End(s, outcome) /\ outcome.code = "applied" /\ answers' = answers
    BY <1>10, <2>2 DEF CommitPayment
  <2> QED
    BY <1>s, <2>3, ErrorsEnd
<1>11. CASE Disconnect(s)
  <2> DEFINE new == [tx[s] EXCEPT !.served = FALSE]
  <2>1. /\ tx' = [tx EXCEPT ![s] = new] /\ answers' = answers
        /\ new.pc = tx[s].pc /\ new.call = tx[s].call /\ new.result = tx[s].result
    BY <1>11, <1>t DEF Disconnect, TxStates
  <2>2. new.pc = "ended" => Explained(new.call, new.result.code)
    BY <2>1 DEF ErrorsInv
  <2> HIDE DEF new
  <2> QED
    BY <2>1, <2>2, ErrorsUntouched
<1>12. CASE Abort(s)
  <2>1. tx' = [tx EXCEPT ![s] = IdleTx] /\ IdleTx.pc = "idle" /\ answers' = answers
    BY <1>12 DEF Abort, IdleTx, Fresh
  <2> HIDE DEF IdleTx
  <2> QED
    BY <2>1, ErrorsUntouched
<1>13. CASE Reply(s)
  <2>1. tx' = [tx EXCEPT ![s] = IdleTx] /\ tx[s].pc = "ended"
    BY <1>13 DEF Reply
  <2>2. \A o \in Sessions : tx'[o].pc = "ended" => tx'[o] = tx[o]
    BY <2>1, StepTypes DEF IdleTx, Fresh
  <2>3. \A o \in Sessions : tx'[o].pc = "ended" => Explained(tx'[o].call, tx'[o].result.code)
    BY <2>2 DEF ErrorsInv
  <2>4. ASSUME NEW a \in answers', a \notin answers, a.status = 500
        PROVE  a.outcome.code = "22003"
    <3>1. a = [at |-> tx[s].started, call |-> tx[s].call, outcome |-> tx[s].result,
               status |-> HttpStatus(tx[s].call, tx[s].result.code)]
      BY <1>13, <2>4 DEF Reply
    <3>2. a.outcome = tx[s].result /\ a.status = HttpStatus(tx[s].call, tx[s].result.code)
      BY <3>1
    <3> QED
      BY <2>1, <2>4, <3>2 DEF ErrorsInv, Explained
  <2> QED
    BY <2>3, <2>4 DEF ErrorsInv, Explained, HttpStatus, RuleCodes, IsEndorsement
<1> QED
  BY <1>1, <1>2, <1>3, <1>4, <1>5, <1>6, <1>7, <1>8, <1>9, <1>10, <1>11, <1>12, <1>13
     DEF Statement

(* Only the overflow of BIGINT becomes a 500: for any sessions and calls,   *)
(* the unique index and the balance trigger are never what stops a call.    *)
THEOREM ErrorsAreExplained == Spec => []ServerErrorsExplained
<1>1. Init => ErrorsInv
  BY DEF Init, ErrorsInv, IdleTx, Fresh
<1>2. BillingInv /\ ErrorsInv /\ [Next]_vars => ErrorsInv'
  <2> SUFFICES ASSUME BillingInv, ErrorsInv, [Next]_vars PROVE ErrorsInv'
    OBVIOUS
  <2>1. CASE UNCHANGED vars
    BY <2>1 DEF ErrorsInv, vars
  <2> QED
    BY <2>1, ErrorsStep
<1>3. ErrorsInv => ServerErrorsExplained
  BY DEF ErrorsInv, ServerErrorsExplained
<1> QED
  BY <1>1, <1>2, <1>3, BillingInvariant, PTL DEF Spec
-----------------------------------------------------------------------------
(* The ledger, the documents and the payments agree *)

LEMMA SumAdds ==
  ASSUME NEW U, IsFiniteSet(U), \A x \in U : x.amount_cents \in Int,
         NEW y, y \notin U, y.amount_cents \in Int
  PROVE  AmountSum(U \union {y}) = AmountSum(U) + y.amount_cents
<1> DEFINE V == U \union {y}
<1>1. IsFiniteSet(V) /\ y \in V /\ \A x \in V : x.amount_cents \in Int
  BY FS_AddElement
<1>2. V \ {y} = U
  OBVIOUS
<1> HIDE DEF V
<1>3. AmountSum(V) = y.amount_cents + AmountSum(V \ {y})
  BY <1>1, SumRemoves
<1>4. AmountSum(V \ {y}) = AmountSum(U) /\ AmountSum(U) \in Int
  BY <1>2, SumIsInteger, Zenon
<1>5. AmountSum(V) = AmountSum(U) + y.amount_cents
  BY <1>3, <1>4
<1> QED
  BY <1>5 DEF V

RowsOf(p, rows) == {r \in rows : r.policy_id = p}

LEMMA TotalIsInteger ==
  ASSUME NEW rows, IsFiniteSet(rows), \A r \in rows : r.amount_cents \in Int, NEW p
  PROVE  Total(rows, p) \in Int
<1> DEFINE own == {r \in rows : r.policy_id = p}
<1>1. IsFiniteSet(own) /\ \A r \in own : r.amount_cents \in Int
  BY FS_Subset
<1> HIDE DEF own
<1>2. AmountSum(own) \in Int
  BY <1>1, SumIsInteger
<1> QED
  BY <1>2 DEF Total, own

(* A new row counts for its own policy only. *)
LEMMA TotalGrows ==
  ASSUME NEW rows, IsFiniteSet(rows), \A r \in rows : r.amount_cents \in Int,
         NEW row, row \notin rows, row.amount_cents \in Int, NEW p
  PROVE  /\ Total(rows, p) \in Int
         /\ row.policy_id = p => Total(rows \union {row}, p) = Total(rows, p) + row.amount_cents
         /\ row.policy_id # p => Total(rows \union {row}, p) = Total(rows, p)
<1> DEFINE old == RowsOf(p, rows)
<1>1. IsFiniteSet(old) /\ row \notin old /\ \A r \in old : r.amount_cents \in Int
  BY FS_Subset DEF RowsOf
<1>2. /\ row.policy_id = p => RowsOf(p, rows \union {row}) = old \union {row}
      /\ row.policy_id # p => RowsOf(p, rows \union {row}) = old
  BY DEF RowsOf
<1>3. \A any : Total(any, p) = AmountSum(RowsOf(p, any))
  BY DEF Total, RowsOf
<1> HIDE DEF old
<1>4. AmountSum(old) \in Int /\ AmountSum(old \union {row}) = AmountSum(old) + row.amount_cents
  BY <1>1, SumAdds, SumIsInteger
<1>5. Total(rows, p) = AmountSum(old)
  BY <1>3 DEF old
<1>6. CASE row.policy_id = p
  BY <1>2, <1>3, <1>4, <1>5, <1>6
<1>7. CASE row.policy_id # p
  BY <1>2, <1>3, <1>4, <1>5, <1>7
<1> QED
  BY <1>6, <1>7

(* The lines v_policy_summary adds up for policy p, and their balance. *)
IdsIn(p, transactions) == {t.id : t \in {u \in transactions : u.policy_id = p}}
OnReceivable(direction, entries) ==
  {e \in entries : e.account = "premium_receivable" /\ e.direction = direction}
LinesIn(p, direction, transactions, entries) ==
  {e \in OnReceivable(direction, entries) :
     e.ledger_transaction_id \in IdsIn(p, transactions)}
BalanceIn(p, transactions, entries) ==
  AmountSum(LinesIn(p, "debit", transactions, entries))
    - AmountSum(LinesIn(p, "credit", transactions, entries))

LEMMA LinesAreTheViews ==
  ASSUME NEW p, NEW transactions, NEW entries
  PROVE  LET ids == {t.id : t \in {u \in transactions : u.policy_id = p}}
             receivable == {e \in entries : e.account = "premium_receivable"
                                            /\ e.ledger_transaction_id \in ids}
         IN Amounts(receivable, "debit") - Amounts(receivable, "credit")
              = BalanceIn(p, transactions, entries)
<1> DEFINE ids == {t.id : t \in {u \in transactions : u.policy_id = p}}
           receivable == {e \in entries : e.account = "premium_receivable"
                                          /\ e.ledger_transaction_id \in ids}
<1>1. ids = IdsIn(p, transactions)
  BY DEF IdsIn
<1> HIDE DEF ids
<1>2. ASSUME NEW direction
      PROVE  {e \in receivable : e.direction = direction}
               = LinesIn(p, direction, transactions, entries)
  BY <1>1 DEF LinesIn, OnReceivable
<1> HIDE DEF receivable
<1>3. Amounts(receivable, "debit") - Amounts(receivable, "credit")
        = BalanceIn(p, transactions, entries)
  BY <1>2, Zenon DEF Amounts, BalanceIn
<1> QED
  BY <1>3, Zenon DEF receivable, ids

(* t is a new transaction and lines are its ledger lines. *)
NewTransaction(t, lines, transactions, entries) ==
  /\ \A u \in transactions : u.id # t.id
  /\ \A e \in entries : e.ledger_transaction_id # t.id
  /\ \A e \in lines : e.ledger_transaction_id = t.id

(* The lines of a new transaction count for its policy, and no other line   *)
(* changes sides.                                                           *)
LEMMA LinesGrow ==
  ASSUME NEW transactions, NEW entries, NEW lines, NEW t, NEW p, NEW direction,
         NewTransaction(t, lines, transactions, entries)
  PROVE  /\ t.policy_id = p =>
              LinesIn(p, direction, transactions \union {t}, entries \union lines)
                = LinesIn(p, direction, transactions, entries) \union OnReceivable(direction, lines)
         /\ t.policy_id # p =>
              LinesIn(p, direction, transactions \union {t}, entries \union lines)
                = LinesIn(p, direction, transactions, entries)
<1> DEFINE ids == IdsIn(p, transactions)
           after == IdsIn(p, transactions \union {t})
<1>1. t.id \notin ids
  BY DEF IdsIn, NewTransaction
<1>2. t.policy_id = p => after = ids \union {t.id}
  BY DEF IdsIn
<1>3. t.policy_id # p => after = ids
  BY DEF IdsIn
<1> HIDE DEF ids, after
<1>4. OnReceivable(direction, entries \union lines)
        = OnReceivable(direction, entries) \union OnReceivable(direction, lines)
  BY DEF OnReceivable
<1>5. /\ \A e \in OnReceivable(direction, entries) : e.ledger_transaction_id # t.id
      /\ \A e \in OnReceivable(direction, lines) : e.ledger_transaction_id = t.id
  BY DEF OnReceivable, NewTransaction
<1>6. CASE t.policy_id = p
  <2>1. {e \in OnReceivable(direction, entries \union lines) : e.ledger_transaction_id \in after}
          = {e \in OnReceivable(direction, entries) : e.ledger_transaction_id \in ids}
              \union OnReceivable(direction, lines)
    BY <1>1, <1>2, <1>4, <1>5, <1>6
  <2> QED
    BY <1>6, <2>1 DEF LinesIn, ids, after
<1>7. CASE t.policy_id # p
  <2>1. {e \in OnReceivable(direction, entries \union lines) : e.ledger_transaction_id \in after}
          = {e \in OnReceivable(direction, entries) : e.ledger_transaction_id \in ids}
    BY <1>1, <1>3, <1>4, <1>5, <1>7
  <2> QED
    BY <1>7, <2>1 DEF LinesIn, ids, after
<1> QED
  BY <1>6, <1>7

(* lines change the balance of their policy by change. *)
Posts(lines, change) ==
  \/ /\ OnReceivable("debit", lines) = {} /\ OnReceivable("credit", lines) = {}
     /\ change = 0
  \/ \E e : /\ OnReceivable("debit", lines) = {e} /\ OnReceivable("credit", lines) = {}
           /\ change = e.amount_cents
  \/ \E e : /\ OnReceivable("debit", lines) = {} /\ OnReceivable("credit", lines) = {e}
           /\ change = - e.amount_cents

(* A change made for policy q moves the balance of p if they are the same. *)
Shifted(before, after, q, p, change) ==
  /\ before \in Int /\ change \in Int
  /\ q = p => after = before + change
  /\ q # p => after = before

LEMMA BalanceGrows ==
  ASSUME NEW transactions, NEW entries, NEW lines, NEW t, NEW p, NEW change,
         IsFiniteSet(entries), \A e \in entries : e.amount_cents \in Int,
         \A e \in lines : e.amount_cents \in Int,
         NewTransaction(t, lines, transactions, entries),
         Posts(lines, change)
  PROVE  Shifted(BalanceIn(p, transactions, entries),
                 BalanceIn(p, transactions \union {t}, entries \union lines),
                 t.policy_id, p, change)
<1> DEFINE Old(direction) == LinesIn(p, direction, transactions, entries)
           New(direction) == LinesIn(p, direction, transactions \union {t}, entries \union lines)
           Added(direction) == OnReceivable(direction, lines)
<1>1. ASSUME NEW direction
      PROVE  /\ IsFiniteSet(Old(direction)) /\ \A e \in Old(direction) : e.amount_cents \in Int
             /\ \A e \in Added(direction) : e \notin Old(direction) /\ e.amount_cents \in Int
  <2>1. Old(direction) \subseteq entries /\ Added(direction) \subseteq lines
    BY DEF LinesIn, OnReceivable
  <2>2. IsFiniteSet(Old(direction))
    BY <2>1, FS_Subset
  <2> QED
    BY <2>1, <2>2 DEF NewTransaction
<1>2. ASSUME NEW direction
      PROVE  /\ t.policy_id = p => New(direction) = Old(direction) \union Added(direction)
             /\ t.policy_id # p => New(direction) = Old(direction)
  BY LinesGrow
<1>3. /\ BalanceIn(p, transactions, entries) = AmountSum(Old("debit")) - AmountSum(Old("credit"))
      /\ BalanceIn(p, transactions \union {t}, entries \union lines)
           = AmountSum(New("debit")) - AmountSum(New("credit"))
  BY DEF BalanceIn
<1>4. \/ Added("debit") = {} /\ Added("credit") = {} /\ change = 0
      \/ \E e : Added("debit") = {e} /\ Added("credit") = {} /\ change = e.amount_cents
      \/ \E e : Added("debit") = {} /\ Added("credit") = {e} /\ change = - e.amount_cents
  BY DEF Posts
<1> HIDE DEF Old, New, Added
<1>5. ASSUME NEW direction PROVE AmountSum(Old(direction)) \in Int
  BY <1>1, SumIsInteger
<1>6. ASSUME NEW direction, NEW e, Added(direction) = {e}
      PROVE  /\ e.amount_cents \in Int
             /\ AmountSum(Old(direction) \union Added(direction))
                  = AmountSum(Old(direction)) + e.amount_cents
  BY <1>1, <1>6, SumAdds
<1>7. ASSUME NEW direction, Added(direction) = {}
      PROVE  AmountSum(Old(direction) \union Added(direction)) = AmountSum(Old(direction))
  <2>1. Old(direction) \union Added(direction) = Old(direction)
    BY <1>7
  <2> QED
    BY <2>1, Zenon
<1>8. /\ change \in Int
      /\ AmountSum(Old("debit") \union Added("debit"))
           - AmountSum(Old("credit") \union Added("credit"))
         = AmountSum(Old("debit")) - AmountSum(Old("credit")) + change
  <2>1. CASE Added("debit") = {} /\ Added("credit") = {} /\ change = 0
    BY <1>5, <1>7, <2>1
  <2>2. CASE \E e : Added("debit") = {e} /\ Added("credit") = {} /\ change = e.amount_cents
    <3> PICK e : Added("debit") = {e} /\ Added("credit") = {} /\ change = e.amount_cents
      BY <2>2
    <3>1. /\ e.amount_cents \in Int
          /\ AmountSum(Old("debit") \union Added("debit")) = AmountSum(Old("debit")) + e.amount_cents
          /\ AmountSum(Old("credit") \union Added("credit")) = AmountSum(Old("credit"))
      BY <1>6, <1>7
    <3> QED
      BY <1>5, <3>1
  <2>3. CASE \E e : Added("debit") = {} /\ Added("credit") = {e} /\ change = - e.amount_cents
    <3> PICK e : Added("debit") = {} /\ Added("credit") = {e} /\ change = - e.amount_cents
      BY <2>3
    <3>1. /\ e.amount_cents \in Int
          /\ AmountSum(Old("debit") \union Added("debit")) = AmountSum(Old("debit"))
          /\ AmountSum(Old("credit") \union Added("credit"))
               = AmountSum(Old("credit")) + e.amount_cents
      BY <1>6, <1>7
    <3> QED
      BY <1>5, <3>1
  <2> QED
    BY <1>4, <2>1, <2>2, <2>3
<1>9. t.policy_id = p => BalanceIn(p, transactions \union {t}, entries \union lines)
                           = BalanceIn(p, transactions, entries) + change
  BY <1>2, <1>3, <1>8
<1>10. t.policy_id # p => BalanceIn(p, transactions \union {t}, entries \union lines)
                            = BalanceIn(p, transactions, entries)
  BY <1>2, <1>3
<1> QED
  BY <1>3, <1>5, <1>8, <1>9, <1>10 DEF Shifted

LEMMA PairIsFinite ==
  ASSUME NEW a, NEW b
  PROVE  IsFiniteSet({a, b})
<1>1. IsFiniteSet({a} \union {b})
  BY FS_Singleton, FS_AddElement
<1>2. {a} \union {b} = {a, b}
  OBVIOUS
<1> QED
  BY <1>1, <1>2, Zenon

LEMMA EndorsementPosts ==
  ASSUME NEW n, NEW delta \in Int
  PROVE  /\ Posts(EndorsementEntries(n, delta), delta)
         /\ IsFiniteSet(EndorsementEntries(n, delta))
         /\ \A e \in EndorsementEntries(n, delta) :
              e.ledger_transaction_id = n /\ e.amount_cents \in Int
<1> DEFINE lines == EndorsementEntries(n, delta)
<1>1. CASE delta > 0
  <2> DEFINE d == Entry(n, "premium_receivable", "debit", delta)
             c == Entry(n, "written_premium", "credit", delta)
  <2>1. lines = {d, c}
    BY <1>1 DEF EndorsementEntries
  <2>2. /\ d.account = "premium_receivable" /\ d.direction = "debit" /\ d.amount_cents = delta
        /\ c.account = "written_premium" /\ c.amount_cents = delta
        /\ d.ledger_transaction_id = n /\ c.ledger_transaction_id = n
    BY DEF Entry
  <2> HIDE DEF d, c, lines
  <2>3. OnReceivable("debit", lines) = {d} /\ OnReceivable("credit", lines) = {}
    BY <2>1, <2>2 DEF OnReceivable
  <2>4. IsFiniteSet(lines)
    BY <2>1, PairIsFinite
  <2>5. Posts(lines, delta)
    BY <2>2, <2>3, Zenon DEF Posts
  <2>6. \A e \in lines : e.ledger_transaction_id = n /\ e.amount_cents \in Int
    BY <2>1, <2>2
  <2> QED
    BY <2>4, <2>5, <2>6 DEF lines
<1>2. CASE delta < 0
  <2> DEFINE d == Entry(n, "written_premium", "debit", -delta)
             c == Entry(n, "premium_receivable", "credit", -delta)
  <2>1. lines = {d, c}
    BY <1>2 DEF EndorsementEntries
  <2>2. /\ c.account = "premium_receivable" /\ c.direction = "credit" /\ c.amount_cents = -delta
        /\ d.account = "written_premium" /\ d.amount_cents = -delta
        /\ d.ledger_transaction_id = n /\ c.ledger_transaction_id = n
    BY DEF Entry
  <2> HIDE DEF d, c, lines
  <2>3. OnReceivable("debit", lines) = {} /\ OnReceivable("credit", lines) = {c}
    BY <2>1, <2>2 DEF OnReceivable
  <2>4. IsFiniteSet(lines)
    BY <2>1, PairIsFinite
  <2>5. delta = - c.amount_cents
    BY <2>2
  <2>6. Posts(lines, delta)
    BY <2>3, <2>5, Zenon DEF Posts
  <2>7. \A e \in lines : e.ledger_transaction_id = n /\ e.amount_cents \in Int
    BY <2>1, <2>2
  <2> QED
    BY <2>4, <2>6, <2>7 DEF lines
<1>3. CASE delta = 0
  <2>1. lines = {}
    BY <1>3 DEF EndorsementEntries
  <2> HIDE DEF lines
  <2>2. OnReceivable("debit", lines) = {} /\ OnReceivable("credit", lines) = {}
    BY <2>1 DEF OnReceivable
  <2> QED
    BY <1>3, <2>1, <2>2, FS_EmptySet DEF Posts, lines
<1> QED
  BY <1>1, <1>2, <1>3

LEMMA PaymentPosts ==
  ASSUME NEW n, NEW amount \in Int
  PROVE  /\ Posts(PaymentEntries(n, amount), -amount)
         /\ IsFiniteSet(PaymentEntries(n, amount))
         /\ \A e \in PaymentEntries(n, amount) :
              e.ledger_transaction_id = n /\ e.amount_cents \in Int
<1> DEFINE lines == PaymentEntries(n, amount)
           d == Entry(n, "cash", "debit", amount)
           c == Entry(n, "premium_receivable", "credit", amount)
<1>1. lines = {d, c}
  BY DEF PaymentEntries
<1>2. /\ c.account = "premium_receivable" /\ c.direction = "credit" /\ c.amount_cents = amount
      /\ d.account = "cash" /\ d.amount_cents = amount
      /\ d.ledger_transaction_id = n /\ c.ledger_transaction_id = n
  BY DEF Entry
<1> HIDE DEF d, c, lines
<1>3. OnReceivable("debit", lines) = {} /\ OnReceivable("credit", lines) = {c}
  BY <1>1, <1>2 DEF OnReceivable
<1>4. IsFiniteSet(lines)
  BY <1>1, PairIsFinite
<1>5. Posts(lines, -amount)
  <2>1. -amount = - c.amount_cents
    BY <1>2
  <2> QED
    BY <1>3, <2>1, Zenon DEF Posts
<1>6. \A e \in lines : e.ledger_transaction_id = n /\ e.amount_cents \in Int
  BY <1>1, <1>2
<1> QED
  BY <1>4, <1>5, <1>6 DEF lines

(* Ids are drawn from the sequences, so a new row is no old one, and the    *)
(* three tables agree on every policy.                                      *)
BalanceInv ==
  /\ IsFiniteSet(billing_documents) /\ IsFiniteSet(payments) /\ IsFiniteSet(ledger_entries)
  /\ \A d \in billing_documents : d.id < nextval.document
  /\ \A m \in payments : m.id < nextval.payment
  /\ \A t \in ledger_transactions : t.id < nextval.transaction
  /\ \A e \in ledger_entries : e.ledger_transaction_id < nextval.transaction
  /\ OpenBalanceAgrees

(* What BalanceInv says of the balance, of tables given by name. *)
AgreeOn(documents, paid, transactions, entries) ==
  \A p \in PolicyIds :
    BalanceIn(p, transactions, entries) = Total(documents, p) - Total(paid, p)

LEMMA AgreementRead ==
  /\ OpenBalanceAgrees <=> AgreeOn(billing_documents, payments, ledger_transactions, ledger_entries)
  /\ OpenBalanceAgrees' <=>
       AgreeOn(billing_documents', payments', ledger_transactions', ledger_entries')
<1>1. \A p : OpenBalance(p) = BalanceIn(p, ledger_transactions, ledger_entries)
  BY LinesAreTheViews DEF OpenBalance
<1>2. \A p : OpenBalance(p)' = BalanceIn(p, ledger_transactions', ledger_entries')
  BY LinesAreTheViews DEF OpenBalance
<1> QED
  BY <1>1, <1>2 DEF OpenBalanceAgrees, AgreeOn

(* The amounts of the tables are integers and the ids naturals. *)
LEMMA AmountTypes ==
  ASSUME BillingInv
  PROVE  /\ \A d \in billing_documents : d.amount_cents \in Int /\ d.id \in Nat
         /\ \A m \in payments : m.amount_cents \in Int /\ m.id \in Nat
         /\ \A t \in ledger_transactions : t.id \in Nat
         /\ \A e \in ledger_entries : e.amount_cents \in Int /\ e.ledger_transaction_id \in Nat
BY DEF BillingInv, TypeOK, DocumentRows, PaymentRows, TransactionRows, EntryRows

(* A transaction with the next id, and its lines, are new to the ledger. *)
LEMMA NextTransaction ==
  ASSUME BillingInv, BalanceInv, NEW t, t.id = nextval.transaction,
         NEW lines, \A e \in lines : e.ledger_transaction_id = nextval.transaction
  PROVE  NewTransaction(t, lines, ledger_transactions, ledger_entries)
BY AmountTypes, StepTypes DEF BalanceInv, NewTransaction

(* The endorsement bills delta and posts delta. *)
LEMMA BalanceEndorsement ==
  ASSUME BillingInv, BalanceInv, NEW s \in Sessions, CommitEndorsement(s),
         policy_events' # policy_events
  PROVE  BalanceInv'
<1> DEFINE c == tx[s].call
           n == nextval.transaction
           delta == Delta(c, tx[s].old_premium)
           lines == EndorsementEntries(n, delta)
           t == [id |-> n, policy_id |-> c.policy_id, policy_event_id |-> tx[s].event_id]
           row == [id |-> nextval.document, policy_id |-> c.policy_id,
                   policy_event_id |-> tx[s].event_id, amount_cents |-> delta,
                   created_at |-> tx[s].started]
<1>1. tx[s].pc = "inserted" /\ IsEndorsement(c)
  BY DEF CommitEndorsement
<1>2. /\ nextval' = [nextval EXCEPT !.document = @ + 1, !.transaction = @ + 1]
      /\ ledger_transactions' = ledger_transactions \union {t}
      /\ ledger_entries' = ledger_entries \union lines
      /\ billing_documents' = billing_documents \union {row}
      /\ payments' = payments
  BY DEF CommitEndorsement, RecordEvent
<1>3. c.policy_id \in PolicyIds /\ delta \in Int
  BY <1>1, ReadyToCommit, CallKinds, DeltaType
<1>4. /\ Posts(lines, delta) /\ IsFiniteSet(lines)
      /\ \A e \in lines : e.ledger_transaction_id = n /\ e.amount_cents \in Int
  BY <1>3, EndorsementPosts
<1>5. /\ t.id = n /\ t.policy_id = c.policy_id
      /\ row.id = nextval.document /\ row.policy_id = c.policy_id /\ row.amount_cents = delta
  OBVIOUS
<1> HIDE DEF t, row, lines, delta
<1>6. /\ nextval.document \in Nat /\ nextval.payment \in Nat /\ n \in Nat
      /\ nextval'.document = nextval.document + 1 /\ nextval'.transaction = n + 1
      /\ nextval'.payment = nextval.payment
  BY <1>2, StepTypes
<1>7. NewTransaction(t, lines, ledger_transactions, ledger_entries)
  BY <1>4, <1>5, NextTransaction
<1>8. row \notin billing_documents
  BY <1>5, <1>6, AmountTypes DEF BalanceInv
<1>9. AgreeOn(billing_documents \union {row}, payments, ledger_transactions \union {t},
              ledger_entries \union lines)
  <2> SUFFICES ASSUME NEW p \in PolicyIds
               PROVE  BalanceIn(p, ledger_transactions \union {t}, ledger_entries \union lines)
                        = Total(billing_documents \union {row}, p) - Total(payments, p)
    BY DEF AgreeOn
  <2>1. BalanceIn(p, ledger_transactions, ledger_entries)
          = Total(billing_documents, p) - Total(payments, p)
    BY AgreementRead DEF BalanceInv, AgreeOn
  <2>2. Shifted(BalanceIn(p, ledger_transactions, ledger_entries),
                BalanceIn(p, ledger_transactions \union {t}, ledger_entries \union lines),
                t.policy_id, p, delta)
    <3>1. IsFiniteSet(ledger_entries) /\ \A e \in ledger_entries : e.amount_cents \in Int
      BY AmountTypes DEF BalanceInv
    <3>2. \A e \in lines : e.amount_cents \in Int
      BY <1>4
    <3>3. Posts(lines, delta)
      BY <1>4
    <3> QED
      BY <1>7, <3>1, <3>2, <3>3, BalanceGrows
  <2>3. /\ Total(billing_documents, p) \in Int
        /\ row.policy_id = p => Total(billing_documents \union {row}, p)
                                 = Total(billing_documents, p) + row.amount_cents
        /\ row.policy_id # p => Total(billing_documents \union {row}, p)
                                 = Total(billing_documents, p)
    BY <1>3, <1>5, <1>8, AmountTypes, TotalGrows DEF BalanceInv
  <2>4. Total(payments, p) \in Int
    BY AmountTypes, TotalIsInteger DEF BalanceInv
  <2> QED
    BY <1>3, <1>5, <2>1, <2>2, <2>3, <2>4 DEF Shifted
<1>10. OpenBalanceAgrees'
  BY <1>2, <1>9, AgreementRead
<1>11. /\ IsFiniteSet(billing_documents') /\ IsFiniteSet(payments')
       /\ IsFiniteSet(ledger_entries')
  BY <1>2, <1>4, FS_AddElement, FS_Union DEF BalanceInv
<1>12. /\ \A d \in billing_documents' : d.id < nextval'.document
       /\ \A m \in payments' : m.id < nextval'.payment
       /\ \A u \in ledger_transactions' : u.id < nextval'.transaction
       /\ \A e \in ledger_entries' : e.ledger_transaction_id < nextval'.transaction
  BY <1>2, <1>4, <1>5, <1>6, AmountTypes DEF BalanceInv
<1> QED
  BY <1>10, <1>11, <1>12 DEF BalanceInv

(* The payment pays amount and posts -amount to the receivable. *)
LEMMA BalancePayment ==
  ASSUME BillingInv, BalanceInv, NEW s \in Sessions, CommitPayment(s),
         policy_events' # policy_events
  PROVE  BalanceInv'
<1> DEFINE c == tx[s].call
           n == nextval.transaction
           amount == c.amount_cents
           lines == PaymentEntries(n, amount)
           t == [id |-> n, policy_id |-> c.policy_id, policy_event_id |-> tx[s].event_id]
           row == [id |-> nextval.payment, policy_id |-> c.policy_id,
                   policy_event_id |-> tx[s].event_id,
                   external_payment_id |-> c.external_payment_id,
                   amount_cents |-> amount, created_at |-> tx[s].started]
<1>1. tx[s].pc = "inserted" /\ ~ IsEndorsement(c)
  BY DEF CommitPayment
<1>2. /\ nextval' = [nextval EXCEPT !.payment = @ + 1, !.transaction = @ + 1]
      /\ ledger_transactions' = ledger_transactions \union {t}
      /\ ledger_entries' = ledger_entries \union lines
      /\ payments' = payments \union {row}
      /\ billing_documents' = billing_documents
  BY DEF CommitPayment, RecordEvent
<1>3. c.policy_id \in PolicyIds /\ amount \in Int
  BY <1>1, ReadyToCommit, CallKinds, CallsAssumption
<1>4. /\ Posts(lines, -amount) /\ IsFiniteSet(lines)
      /\ \A e \in lines : e.ledger_transaction_id = n /\ e.amount_cents \in Int
  BY <1>3, PaymentPosts
<1>5. /\ t.id = n /\ t.policy_id = c.policy_id
      /\ row.id = nextval.payment /\ row.policy_id = c.policy_id /\ row.amount_cents = amount
  OBVIOUS
<1> HIDE DEF t, row, lines, amount
<1>6. /\ nextval.document \in Nat /\ nextval.payment \in Nat /\ n \in Nat
      /\ nextval'.payment = nextval.payment + 1 /\ nextval'.transaction = n + 1
      /\ nextval'.document = nextval.document
  BY <1>2, StepTypes
<1>7. NewTransaction(t, lines, ledger_transactions, ledger_entries)
  BY <1>4, <1>5, NextTransaction
<1>8. row \notin payments
  BY <1>5, <1>6, AmountTypes DEF BalanceInv
<1>9. AgreeOn(billing_documents, payments \union {row}, ledger_transactions \union {t},
              ledger_entries \union lines)
  <2> SUFFICES ASSUME NEW p \in PolicyIds
               PROVE  BalanceIn(p, ledger_transactions \union {t}, ledger_entries \union lines)
                        = Total(billing_documents, p) - Total(payments \union {row}, p)
    BY DEF AgreeOn
  <2>1. BalanceIn(p, ledger_transactions, ledger_entries)
          = Total(billing_documents, p) - Total(payments, p)
    BY AgreementRead DEF BalanceInv, AgreeOn
  <2>2. Shifted(BalanceIn(p, ledger_transactions, ledger_entries),
                BalanceIn(p, ledger_transactions \union {t}, ledger_entries \union lines),
                t.policy_id, p, -amount)
    <3>1. IsFiniteSet(ledger_entries) /\ \A e \in ledger_entries : e.amount_cents \in Int
      BY AmountTypes DEF BalanceInv
    <3>2. \A e \in lines : e.amount_cents \in Int
      BY <1>4
    <3> QED
      BY <1>4, <1>7, <3>1, <3>2, BalanceGrows
  <2>3. /\ Total(payments, p) \in Int
        /\ row.policy_id = p => Total(payments \union {row}, p)
                                 = Total(payments, p) + row.amount_cents
        /\ row.policy_id # p => Total(payments \union {row}, p) = Total(payments, p)
    BY <1>3, <1>5, <1>8, AmountTypes, TotalGrows DEF BalanceInv
  <2>4. Total(billing_documents, p) \in Int
    BY AmountTypes, TotalIsInteger DEF BalanceInv
  <2> QED
    BY <1>3, <1>5, <2>1, <2>2, <2>3, <2>4 DEF Shifted
<1>10. OpenBalanceAgrees'
  BY <1>2, <1>9, AgreementRead
<1>11. /\ IsFiniteSet(billing_documents') /\ IsFiniteSet(payments')
       /\ IsFiniteSet(ledger_entries')
  BY <1>2, <1>4, FS_AddElement, FS_Union DEF BalanceInv
<1>12. /\ \A d \in billing_documents' : d.id < nextval'.document
       /\ \A m \in payments' : m.id < nextval'.payment
       /\ \A u \in ledger_transactions' : u.id < nextval'.transaction
       /\ \A e \in ledger_entries' : e.ledger_transaction_id < nextval'.transaction
  BY <1>2, <1>4, <1>5, <1>6, AmountTypes DEF BalanceInv
<1> QED
  BY <1>10, <1>11, <1>12 DEF BalanceInv

(* Nothing else touches the five tables; the sequences only rise. *)
LEMMA BalanceUntouched ==
  ASSUME BillingInv, BalanceInv, UNCHANGED tables,
         nextval'.document \in Nat, nextval'.payment \in Nat, nextval'.transaction \in Nat,
         nextval.document <= nextval'.document, nextval.payment <= nextval'.payment,
         nextval.transaction <= nextval'.transaction
  PROVE  BalanceInv'
<1>1. /\ billing_documents' = billing_documents /\ payments' = payments
      /\ ledger_transactions' = ledger_transactions /\ ledger_entries' = ledger_entries
  BY DEF tables
<1>2. OpenBalanceAgrees'
  BY <1>1, AgreementRead DEF BalanceInv
<1>3. /\ \A d \in billing_documents : d.id < nextval'.document
      /\ \A m \in payments : m.id < nextval'.payment
      /\ \A t \in ledger_transactions : t.id < nextval'.transaction
      /\ \A e \in ledger_entries : e.ledger_transaction_id < nextval'.transaction
  BY AmountTypes, StepTypes DEF BalanceInv
<1> QED
  BY <1>1, <1>2, <1>3 DEF BalanceInv

LEMMA BalanceStep ==
  ASSUME BillingInv, BalanceInv, [Next]_vars
  PROVE  BalanceInv'
<1>1. CASE UNCHANGED vars
  BY <1>1, StepTypes, BalanceUntouched DEF vars
<1>2. CASE Next
  <2> PICK s \in Sessions : \/ \E c \in Calls : Begin(s, c)
                            \/ LockPolicy(s)
                            \/ Statement(s)
                            \/ Abort(s)
                            \/ Disconnect(s)
                            \/ Reply(s)
    BY <1>2 DEF Next
  <2>1. CASE CommitEndorsement(s) /\ policy_events' # policy_events
    BY <2>1, BalanceEndorsement
  <2>2. CASE CommitPayment(s) /\ policy_events' # policy_events
    BY <2>2, BalancePayment
  <2>3. CASE (CommitEndorsement(s) \/ CommitPayment(s)) /\ policy_events' = policy_events
    <3>1. NewEvent(s) \notin policy_events
      <4>1. tx[s].pc = "inserted" /\ NewEvent(s).id = tx[s].event_id
            /\ NewEvent(s).policy_id = tx[s].call.policy_id
        BY <2>3 DEF CommitEndorsement, CommitPayment, NewEvent
      <4>2. \A e \in EventsOf(tx[s].call.policy_id) : e.id < tx[s].event_id
        BY <4>1 DEF BillingInv, SessionConsistent
      <4> QED
        BY <4>1, <4>2, IdsAreNumbers DEF EventsOf
    <3>2. UNCHANGED tables
      BY <2>3, <3>1 DEF CommitEndorsement, CommitPayment, RecordEvent, tables
    <3>3. \/ nextval' = [nextval EXCEPT !.document = @ + 1, !.transaction = @ + 1]
          \/ nextval' = [nextval EXCEPT !.payment = @ + 1, !.transaction = @ + 1]
      BY <2>3 DEF CommitEndorsement, CommitPayment
    <3>4. /\ nextval'.document \in Nat /\ nextval'.payment \in Nat /\ nextval'.transaction \in Nat
          /\ nextval.document <= nextval'.document /\ nextval.payment <= nextval'.payment
          /\ nextval.transaction <= nextval'.transaction
      <4>1. CASE nextval' = [nextval EXCEPT !.document = @ + 1, !.transaction = @ + 1]
        BY <4>1, StepTypes
      <4>2. CASE nextval' = [nextval EXCEPT !.payment = @ + 1, !.transaction = @ + 1]
        BY <4>2, StepTypes
      <4> QED
        BY <3>3, <4>1, <4>2
    <3> QED
      BY <3>2, <3>4, BalanceUntouched
  <2>4. CASE ~ CommitEndorsement(s) /\ ~ CommitPayment(s)
    <3>1. UNCHANGED tables
      BY <2>4 DEF Begin, LockPolicy, Statement, Abort, Disconnect, Reply, PolicyNotFound,
         AnswerReplay, RejectConflict, RejectCall, AcceptCall, ReadChainHead, InsertEvent
    <3>2. nextval' = nextval \/ nextval' = [nextval EXCEPT !.event = @ + 1]
      BY <2>4 DEF Begin, LockPolicy, Statement, Abort, Disconnect, Reply, PolicyNotFound,
         AnswerReplay, RejectConflict, RejectCall, AcceptCall, ReadChainHead, InsertEvent
    <3>3. /\ nextval'.document \in Nat /\ nextval'.payment \in Nat /\ nextval'.transaction \in Nat
          /\ nextval.document <= nextval'.document /\ nextval.payment <= nextval'.payment
          /\ nextval.transaction <= nextval'.transaction
      BY <3>2, StepTypes
    <3> QED
      BY <3>1, <3>3, BalanceUntouched
  <2> QED
    BY <2>1, <2>2, <2>3, <2>4
<1> QED
  BY <1>1, <1>2

(* The open balance of every policy is what its documents billed less what  *)
(* its payments paid, whatever concurrent calls committed, failed or rolled *)
(* back: the ledger, the documents and the payments never drift apart.      *)
THEOREM LedgerAgrees == Spec => []OpenBalanceAgrees
<1>1. Init => BalanceInv
  <2> SUFFICES ASSUME Init PROVE BalanceInv
    OBVIOUS
  <2>1. /\ billing_documents = {} /\ payments = {} /\ ledger_entries = {}
        /\ ledger_transactions = {}
    BY DEF Init
  <2>2. AgreeOn({}, {}, {}, {})
    <3>1. ASSUME NEW p PROVE RowsOf(p, {}) = {}
      BY DEF RowsOf
    <3>2. ASSUME NEW p, NEW direction PROVE LinesIn(p, direction, {}, {}) = {}
      BY DEF LinesIn, OnReceivable
    <3>3. AmountSum({}) = 0
      BY FS_EmptySet, SumUnfolds
    <3>4. ASSUME NEW p PROVE Total({}, p) = 0
      BY <3>1, <3>3, Zenon DEF Total, RowsOf
    <3>5. ASSUME NEW p PROVE BalanceIn(p, {}, {}) = 0 - 0
      BY <3>2, <3>3, Zenon DEF BalanceIn
    <3> QED
      BY <3>4, <3>5, Zenon DEF AgreeOn
  <2>3. OpenBalanceAgrees
    BY <2>1, <2>2, AgreementRead
  <2> QED
    BY <2>1, <2>3, FS_EmptySet DEF BalanceInv
<1>2. BillingInv /\ BalanceInv /\ [Next]_vars => BalanceInv'
  BY BalanceStep
<1>3. BalanceInv => OpenBalanceAgrees
  BY DEF BalanceInv
<1> QED
  BY <1>1, <1>2, <1>3, BillingInvariant, PTL DEF Spec

-----------------------------------------------------------------------------
(* The arithmetic of the service *)

(* d is n / term rounded to the nearest integer, ties away from zero. *)
Nearby(d, n, term) ==
  LET error == 2 * Distance(d * term, n)
  IN error < term \/ (error = term /\ Distance(d * term, 0) > Distance(n, 0))

(* There is one such integer. *)
LEMMA OneNearby ==
  ASSUME NEW n \in Int, NEW term \in Nat, term > 0,
         NEW d \in Int, NEW b \in Int, Nearby(d, n, term), Nearby(b, n, term)
  PROVE  ~ (d < b)
<1> SUFFICES ASSUME d < b PROVE FALSE
  OBVIOUS
<1> DEFINE x == d * term
           y == b * term
<1>1. x \in Int /\ y \in Int
  OBVIOUS
<1>2. x + term <= y
  <2>1. PICK k \in Nat : b = d + 1 + k
    <3>1. b - d - 1 \in Nat /\ b = d + 1 + (b - d - 1)
      OBVIOUS
    <3> QED
      BY <3>1
  <2>2. y = x + term + k * term /\ k * term \in Nat
    BY <2>1
  <2> HIDE DEF x, y
  <2> QED
    BY <1>1, <2>2
<1>3. \/ 2 * Distance(x, n) < term
      \/ 2 * Distance(x, n) = term /\ Distance(x, 0) > Distance(n, 0)
  BY DEF Nearby
<1>4. \/ 2 * Distance(y, n) < term
      \/ 2 * Distance(y, n) = term /\ Distance(y, 0) > Distance(n, 0)
  BY DEF Nearby
<1>5. 2 * Distance(x, n) = term /\ 2 * Distance(y, n) = term /\ y = x + term
      /\ x < n /\ n < y
  <2> HIDE DEF x, y
  <2> QED
    BY <1>1, <1>2, <1>3, <1>4 DEF Distance
(* x and y are neighbours on either side of n, and both further from zero. *)
<1>6. x < 0 /\ 0 < y
  <2> HIDE DEF x, y
  <2> QED
    BY <1>1, <1>3, <1>4, <1>5 DEF Distance
<1>7. d < 0 /\ 0 < b
  <2>1. CASE d >= 0
    <3>1. d \in Nat
      BY <2>1
    <3>2. d * term \in Nat
      BY <3>1
    <3> QED
      BY <1>6, <3>2
  <2>2. CASE b <= 0
    <3>1. -b \in Nat /\ b * term = -((-b) * term)
      BY <2>2
    <3>2. (-b) * term \in Nat
      BY <3>1
    <3> QED
      BY <1>1, <1>6, <3>1, <3>2
  <2> QED
    BY <2>1, <2>2
<1>8. PICK k \in Nat : b = d + 2 + k
  <2>1. b - d - 2 \in Nat /\ b = d + 2 + (b - d - 2)
    BY <1>7
  <2> QED
    BY <2>1
<1>9. y = x + 2 * term + k * term /\ k * term \in Nat
  BY <1>8
<1> HIDE DEF x, y
<1> QED
  BY <1>1, <1>5, <1>9

(* RoundHalfAway is one. *)
LEMMA RoundedNatural ==
  ASSUME NEW n \in Nat, NEW term \in Nat, term > 0
  PROVE  LET q == (2 * n + term) \div (2 * term)
         IN q \in 0 .. n /\ Nearby(q, n, term) /\ Nearby(-q, -n, term)
<1> DEFINE q == (2 * n + term) \div (2 * term)
           x == q * term
<1>1. q \in Nat /\ 2 * x <= 2 * n + term /\ 2 * n < 2 * x + term
  BY HalfUp
<1>2. x \in Nat /\ (-q) * term = -x
  BY <1>1
<1>3. Nearby(q, n, term)
  <2> HIDE DEF q
  <2>1. \/ 2 * Distance(x, n) < term
        \/ 2 * Distance(x, n) = term /\ Distance(x, 0) > Distance(n, 0)
    <3> HIDE DEF x
    <3> QED
      BY <1>1, <1>2 DEF Distance
  <2> QED
    BY <2>1 DEF Nearby
<1>4. Nearby(-q, -n, term)
  <2> HIDE DEF q
  <2>1. \/ 2 * Distance(-x, -n) < term
        \/ 2 * Distance(-x, -n) = term /\ Distance(-x, 0) > Distance(-n, 0)
    <3> HIDE DEF x
    <3> QED
      BY <1>1, <1>2 DEF Distance
  <2>2. \/ 2 * Distance((-q) * term, -n) < term
        \/ 2 * Distance((-q) * term, -n) = term /\ Distance((-q) * term, 0) > Distance(-n, 0)
    <3>1. (-q) * term = -x
      BY <1>2
    <3> HIDE DEF x
    <3> QED
      BY <2>1, <3>1
  <2> QED
    BY <2>2 DEF Nearby
<1>5. q <= n
  <2> HIDE DEF q
  <2> SUFFICES ASSUME n < q PROVE FALSE
    BY <1>1
  <2>1. PICK k \in Nat : q = n + 1 + k
    <3>1. q - n - 1 \in Nat /\ q = n + 1 + (q - n - 1)
      BY <1>1
    <3> QED
      BY <3>1
  <2>2. x = n * term + term + k * term /\ k * term \in Nat /\ n * term \in Nat
    BY <2>1
  <2>3. n * term >= n
    <3>1. PICK m \in Nat : term = m + 1
      <4>1. term - 1 \in Nat /\ term = (term - 1) + 1
        OBVIOUS
      <4> QED
        BY <4>1
    <3>2. n * term = n * m + n /\ n * m \in Nat
      BY <3>1
    <3> QED
      BY <3>2
  <2> HIDE DEF x
  <2> QED
    BY <1>1, <1>2, <2>2, <2>3
<1> HIDE DEF x
<1>6. q \in 0 .. n
  <2> HIDE DEF q
  <2> QED
    BY <1>1, <1>5
<1> QED
  BY <1>3, <1>4, <1>6

(* The rounding of the code is the rounding of the service. *)
LEMMA RoundsToNearest ==
  ASSUME NEW n \in Int, NEW term \in Nat, term > 0
  PROVE  RoundHalfAway(n, term) = Service!Nearest(n, term)
<1> DEFINE r == RoundHalfAway(n, term)
           m == Service!Magnitude(n)
<1>1. /\ r \in Int /\ r \in -m .. m /\ Nearby(r, n, term) /\ m \in Nat
  <2>1. CASE n >= 0
    <3>1. n \in Nat
      BY <2>1
    <3>2. m = n /\ r = (2 * n + term) \div (2 * term)
      BY <2>1 DEF Service!Magnitude, RoundHalfAway
    <3>3. r \in 0 .. n /\ Nearby(r, n, term)
      BY <3>1, <3>2, RoundedNatural
    <3> HIDE DEF r, m
    <3> QED
      BY <3>1, <3>2, <3>3
  <2>2. CASE n < 0
    <3> DEFINE k == -n
               q == (2 * k + term) \div (2 * term)
    <3>1. k \in Nat /\ -k = n
      BY <2>2
    <3>2. m = k /\ r = -1 * q
      BY <2>2 DEF Service!Magnitude, RoundHalfAway
    <3>3. q \in 0 .. k /\ Nearby(-q, -k, term)
      <4> HIDE DEF k
      <4> QED
        BY <3>1, RoundedNatural
    <3> HIDE DEF r, m, q, k
    <3>4. r = -q /\ r \in -k .. k
      BY <3>1, <3>2, <3>3
    <3> QED
      BY <3>1, <3>2, <3>3, <3>4
  <2> QED
    BY <2>1, <2>2
<1>2. \A d \in Int : Nearby(d, n, term) <=>
        LET error == 2 * Service!Magnitude(d * term - n)
        IN error < term \/ (error = term /\ Service!Magnitude(d * term) > Service!Magnitude(n))
  <2> SUFFICES ASSUME NEW d \in Int
               PROVE  Nearby(d, n, term) <=>
                        \/ 2 * Service!Magnitude(d * term - n) < term
                        \/ /\ 2 * Service!Magnitude(d * term - n) = term
                           /\ Service!Magnitude(d * term) > Service!Magnitude(n)
    OBVIOUS
  <2> DEFINE x == d * term
  <2>1. x \in Int
    OBVIOUS
  <2>2. Nearby(d, n, term) <=>
          \/ 2 * Distance(x, n) < term
          \/ 2 * Distance(x, n) = term /\ Distance(x, 0) > Distance(n, 0)
    BY DEF Nearby
  <2> HIDE DEF x
  <2>3. /\ Service!Magnitude(x - n) = Distance(x, n)
        /\ Service!Magnitude(x) = Distance(x, 0) /\ Service!Magnitude(n) = Distance(n, 0)
    BY <2>1 DEF Service!Magnitude, Distance
  <2> QED
    BY <2>2, <2>3 DEF x
<1>3. \A d \in -m .. m : Nearby(d, n, term) => d = r
  <2> SUFFICES ASSUME NEW d \in -m .. m, Nearby(d, n, term) PROVE d = r
    OBVIOUS
  <2> HIDE DEF r, m
  <2>1. d \in Int
    BY <1>1
  <2>2. ~ (d < r) /\ ~ (r < d)
    BY <1>1, <2>1, OneNearby
  <2> QED
    BY <1>1, <2>1, <2>2
<1>4. Service!Nearest(n, term) = CHOOSE d \in -m .. m : Nearby(d, n, term)
  <2>1. \A d \in -m .. m : d \in Int
    <3> HIDE DEF m
    <3> QED
      BY <1>1
  <2>2. Service!Nearest(n, term) =
          CHOOSE d \in -m .. m :
            LET error == 2 * Service!Magnitude(d * term - n)
            IN error < term \/ (error = term /\ Service!Magnitude(d * term) > Service!Magnitude(n))
    BY DEF Service!Nearest
  <2> HIDE DEF m
  <2> QED
    BY <1>2, <2>1, <2>2
<1> HIDE DEF r, m
<1>5. (CHOOSE d \in -m .. m : Nearby(d, n, term)) = r
  BY <1>1, <1>3
<1> QED
  BY <1>4, <1>5 DEF r

-----------------------------------------------------------------------------
(* The calls read off a chain *)

ReadChain(chain) == [i \in DOMAIN chain |-> CallOf(chain[i])]

(* The hashed text is all there is to a call. *)
LEMMA TextIsTheCall ==
  ASSUME NEW c \in Calls, NEW d \in Calls, CanonicalPayload(c) = CanonicalPayload(d)
  PROVE  c = d
<1>1. CASE IsEndorsement(c) /\ IsEndorsement(d)
  <2>1. /\ <<c.policy_id, c.operation, c.idempotency_key, c.effective_date,
             c.new_annual_premium_cents, c.reason>>
           = <<d.policy_id, d.operation, d.idempotency_key, d.effective_date,
               d.new_annual_premium_cents, d.reason>>
    BY <1>1 DEF CanonicalPayload
  <2>2. /\ c.policy_id = d.policy_id /\ c.idempotency_key = d.idempotency_key
        /\ c.effective_date = d.effective_date /\ c.reason = d.reason
        /\ c.new_annual_premium_cents = d.new_annual_premium_cents
    BY <2>1
  <2>3. c \in EndorsementCalls /\ d \in EndorsementCalls
    BY <1>1, CallKinds
  <2> QED
    BY <2>2, <2>3, ArgumentsAssumption
<1>2. CASE ~ IsEndorsement(c) /\ ~ IsEndorsement(d)
  <2>1. /\ <<c.policy_id, c.operation, c.idempotency_key, c.external_payment_id,
             c.amount_cents, c.currency, c.received_at>>
           = <<d.policy_id, d.operation, d.idempotency_key, d.external_payment_id,
               d.amount_cents, d.currency, d.received_at>>
    BY <1>2 DEF CanonicalPayload
  <2>2. /\ c.policy_id = d.policy_id /\ c.idempotency_key = d.idempotency_key
        /\ c.external_payment_id = d.external_payment_id /\ c.amount_cents = d.amount_cents
        /\ c.currency = d.currency /\ c.received_at = d.received_at
    BY <2>1
  <2>3. c \in PaymentCalls /\ d \in PaymentCalls
    BY <1>2, CallKinds
  <2> QED
    BY <2>2, <2>3, ArgumentsAssumption
<1>3. ASSUME NEW a \in Calls, NEW b \in Calls, IsEndorsement(a), ~ IsEndorsement(b),
             CanonicalPayload(a) = CanonicalPayload(b)
      PROVE  FALSE
  <2>1. <<a.policy_id, a.operation, a.idempotency_key, a.effective_date,
          a.new_annual_premium_cents, a.reason>>
        = <<b.policy_id, b.operation, b.idempotency_key, b.external_payment_id,
            b.amount_cents, b.currency, b.received_at>>
    BY <1>3 DEF CanonicalPayload
  <2>2. a.operation = b.operation
    BY <2>1
  <2> QED
    BY <1>3, <2>2 DEF IsEndorsement
<1> QED
  BY <1>1, <1>2, <1>3

LEMMA CallOfText ==
  ASSUME NEW c \in Calls
  PROVE  CallOf(CanonicalPayload(c)) = c
<1>1. \A d \in Calls : CanonicalPayload(d) = CanonicalPayload(c) => d = c
  BY TextIsTheCall
<1> QED
  BY <1>1 DEF CallOf

LEMMA CallOfPayload ==
  ASSUME NEW payload \in Payloads
  PROVE  CallOf(payload) \in Calls /\ CanonicalPayload(CallOf(payload)) = payload
BY DEF CallOf, Payloads

LEMMA ReadChainType ==
  ASSUME NEW chain \in Hashes
  PROVE  /\ ReadChain(chain) \in Seq(Calls)
         /\ Len(ReadChain(chain)) = Len(chain)
         /\ \A i \in 1 .. Len(chain) : ReadChain(chain)[i] = CallOf(chain[i])
<1>1. /\ chain \in Seq(Payloads) /\ DOMAIN chain = 1 .. Len(chain) /\ Len(chain) \in Nat
      /\ \A i \in 1 .. Len(chain) : chain[i] \in Payloads
  BY DEF Hashes
<1>2. \A i \in 1 .. Len(chain) : CallOf(chain[i]) \in Calls
  BY <1>1, CallOfPayload
<1>3. ReadChain(chain) = [i \in 1 .. Len(chain) |-> CallOf(chain[i])]
  BY <1>1 DEF ReadChain
<1> QED
  BY <1>1, <1>2, <1>3

(* One more payload on the chain is one more call applied. *)
LEMMA ReadChainGrows ==
  ASSUME NEW chain \in Hashes, NEW c \in Calls
  PROVE  ReadChain(Digest(CanonicalPayload(c), chain)) = Append(ReadChain(chain), c)
<1> DEFINE longer == Digest(CanonicalPayload(c), chain)
           n == Len(chain)
<1>1. /\ longer \in Hashes /\ Len(longer) = n + 1 /\ longer[n + 1] = CanonicalPayload(c)
      /\ \A i \in 1 .. n : longer[i] = chain[i]
      /\ n \in Nat
  BY PayloadType DEF Digest, Hashes
<1> HIDE DEF longer
<1>2. /\ ReadChain(chain) \in Seq(Calls) /\ Len(ReadChain(chain)) = n
      /\ \A i \in 1 .. n : ReadChain(chain)[i] = CallOf(chain[i])
  BY ReadChainType
<1>3. /\ ReadChain(longer) \in Seq(Calls) /\ Len(ReadChain(longer)) = n + 1
      /\ \A i \in 1 .. n + 1 : ReadChain(longer)[i] = CallOf(longer[i])
  BY <1>1, ReadChainType
<1>4. ReadChain(longer)[n + 1] = c
  BY <1>1, <1>3, CallOfText
<1>5. \A i \in 1 .. n : ReadChain(longer)[i] = ReadChain(chain)[i]
  BY <1>1, <1>2, <1>3
<1> DEFINE r == ReadChain(longer)
           q == ReadChain(chain)
<1>6. Append(q, c) \in Seq(Calls) /\ Len(Append(q, c)) = n + 1 /\ Append(q, c)[n + 1] = c
      /\ \A i \in 1 .. n : Append(q, c)[i] = q[i]
  <2> HIDE DEF r, q
  <2> QED
    BY <1>2 DEF q
<1>7. \A i \in 1 .. n + 1 : i \in 1 .. n \/ i = n + 1
  BY <1>1
<1>8. \A i \in 1 .. n + 1 : r[i] = Append(q, c)[i]
  BY <1>4, <1>5, <1>6, <1>7
<1> HIDE DEF r, q
<1>9. r = Append(q, c)
  BY <1>3, <1>6, <1>8, <1>1, SeqEqual DEF r
<1> QED
  BY <1>9 DEF r, q, longer

-----------------------------------------------------------------------------
(* The premium the calls leave *)

(* A set of positions has a last one. *)
LEMMA LastPosition ==
  ASSUME NEW n \in Nat, NEW S \in SUBSET (1 .. n), S # {}
  PROVE  Service!Max(S) \in S /\ \A i \in S : Service!Max(S) >= i
<1> DEFINE T == {i .. n : i \in S}
<1>1. T \in SUBSET (SUBSET (1 .. n)) /\ T # {} /\ IsFiniteSet(1 .. n)
  <2>1. \A i \in S : i .. n \in SUBSET (1 .. n)
    OBVIOUS
  <2>2. IsFiniteSet(1 .. n)
    BY FS_Interval
  <2> QED
    BY <2>1, <2>2
<1>2. PICK t \in T : \A u \in SUBSET t : u # t => u \notin T
  <2> HIDE DEF T
  <2> QED
    BY <1>1, SmallestSubset
<1>3. PICK m \in S : t = m .. n
  OBVIOUS
<1>4. ASSUME NEW i \in S, ~ (m >= i)
      PROVE  FALSE
  <2>1. i .. n \in SUBSET t /\ m \in t /\ m \notin i .. n
    BY <1>3, <1>4
  <2>2. i .. n \in T
    OBVIOUS
  <2> HIDE DEF T
  <2> QED
    BY <1>2, <2>1, <2>2
<1>5. \A i \in S : m >= i
  BY <1>4
<1>6. Service!Max(S) = CHOOSE x \in S : \A y \in S : x >= y
  BY DEF Service!Max
<1> QED
  BY <1>5, <1>6

Ends(calls) == {i \in DOMAIN calls : calls[i].operation = "endorsement"}

LEMMA LastEndorsementIs ==
  ASSUME NEW calls
  PROVE  Service!LastEndorsement(calls) =
           IF Ends(calls) = {} THEN NoCall ELSE calls[Service!Max(Ends(calls))]
BY DEF Service!LastEndorsement, Ends

(* Only an endorsement changes it. *)
LEMMA PremiumGrows ==
  ASSUME NEW calls \in Seq(Calls), NEW c \in Calls, NEW p
  PROVE  Service!PremiumAfterCalls(p, Append(calls, c)) =
           IF IsEndorsement(c) THEN c.new_annual_premium_cents
           ELSE Service!PremiumAfterCalls(p, calls)
<1> DEFINE n == Len(calls)
           longer == Append(calls, c)
<1>1. /\ n \in Nat /\ DOMAIN calls = 1 .. n /\ DOMAIN longer = 1 .. n + 1
      /\ longer[n + 1] = c /\ \A i \in 1 .. n : longer[i] = calls[i]
  OBVIOUS
<1> HIDE DEF n, longer
<1>2. CASE IsEndorsement(c)
  <2>1. n + 1 \in Ends(longer) /\ Ends(longer) \in SUBSET (1 .. n + 1)
    BY <1>1, <1>2 DEF Ends, IsEndorsement
  <2>2. Service!Max(Ends(longer)) = n + 1
    <3> DEFINE m == Service!Max(Ends(longer))
    <3>0. n + 1 \in Nat /\ Ends(longer) # {}
      BY <1>1, <2>1
    <3>1. m \in Ends(longer) /\ \A i \in Ends(longer) : m >= i
      BY <2>1, <3>0, LastPosition
    <3> HIDE DEF m
    <3>2. m \in 1 .. n + 1 /\ m >= n + 1
      BY <2>1, <3>1
    <3>3. m = n + 1
      BY <1>1, <3>2
    <3> QED
      BY <3>3 DEF m
  <2>3. Service!LastEndorsement(longer) = c
    BY <1>1, <2>1, <2>2, LastEndorsementIs
  <2>4. c # NoCall
    BY NullAssumption
  <2> QED
    BY <1>2, <2>3, <2>4 DEF Service!PremiumAfterCalls, longer
<1>3. CASE ~ IsEndorsement(c)
  <2>1. Ends(longer) = Ends(calls)
    BY <1>1, <1>3 DEF Ends, IsEndorsement
  <2>2. Ends(calls) # {} => Service!Max(Ends(calls)) \in 1 .. n
    <3> SUFFICES ASSUME Ends(calls) # {} PROVE Service!Max(Ends(calls)) \in 1 .. n
      OBVIOUS
    <3>1. Ends(calls) \in SUBSET (1 .. n)
      BY <1>1 DEF Ends
    <3>2. Service!Max(Ends(calls)) \in Ends(calls)
      BY <1>1, <3>1, LastPosition
    <3> QED
      BY <3>1, <3>2
  <2>3. Service!LastEndorsement(longer) = Service!LastEndorsement(calls)
    BY <1>1, <2>1, <2>2, LastEndorsementIs
  <2> QED
    BY <1>3, <2>3 DEF Service!PremiumAfterCalls, longer
<1> QED
  BY <1>2, <1>3

(* Before the first call it is the one of the seed. *)
LEMMA PremiumAtFirst ==
  ASSUME NEW p
  PROVE  Service!PremiumAfterCalls(p, << >>) = Seed[p].annual_premium_cents
<1>1. Ends(<< >>) = {}
  BY DEF Ends
<1> QED
  BY <1>1, LastEndorsementIs DEF Service!PremiumAfterCalls

-----------------------------------------------------------------------------
(* Charges and refusals *)

LEMMA ChargesAgree ==
  ASSUME NEW c \in Calls, c.policy_id \in PolicyIds, NEW premium \in Nat
  PROVE  Service!Charge(c, premium) = IF IsEndorsement(c) THEN Delta(c, premium)
                                      ELSE c.amount_cents
<1>1. CASE IsEndorsement(c)
  <2> DEFINE row == Seed[c.policy_id]
             term == row.term_end - row.term_start
             n == (c.new_annual_premium_cents - premium) * (row.term_end - c.effective_date)
  <2>1. row.term_start \in Int /\ row.term_end \in Int /\ row.term_start < row.term_end
    BY SeedAssumption
  <2>2. c \in EndorsementCalls
    BY <1>1, CallKinds
  <2>3. c.effective_date \in Int /\ c.new_annual_premium_cents \in Int
    BY <2>2, CallsAssumption, BigintAssumption
  <2>4. n \in Int /\ term \in Nat /\ term > 0
    <3>1. /\ c.new_annual_premium_cents - premium \in Int
          /\ row.term_end - c.effective_date \in Int
      BY <2>1, <2>3
    <3> QED
      BY <2>1, <3>1
  <2>5. Delta(c, premium) = RoundHalfAway(n, term)
    BY DEF Delta, DeltaCents, Numerator
  <2>6. Service!Charge(c, premium) = Service!Nearest(n, term)
    BY <1>1 DEF Service!Charge, IsEndorsement, Service!PremiumChange, Service!Term
  <2> HIDE DEF n, term, row
  <2> QED
    BY <1>1, <2>4, <2>5, <2>6, RoundsToNearest
<1>2. CASE ~ IsEndorsement(c)
  <2>1. c.operation = "payment"
    BY <1>2, CallKinds DEF IsEndorsement
  <2> QED
    BY <1>2, <2>1 DEF Service!Charge
<1> QED
  BY <1>1, <1>2

(* Of the four overflow checks the third decides, for premiums that are     *)
(* columns.                                                                 *)
LEMMA FitsIs ==
  ASSUME NEW old \in 0 .. MaxBigint, NEW new \in 0 .. MaxBigint, NEW remaining \in Int,
         NEW term \in Nat, 2 * term <= MaxBigint
  PROVE  ProrationFits(old, new, remaining, term) <=>
           ~ (2 * Service!Magnitude((new - old) * remaining) + term > MaxBigint)
<1> DEFINE n == (new - old) * remaining
<1>1. n \in Int /\ MaxBigint \in Nat
  <2>1. new - old \in Int
    BY BigintAssumption
  <2> QED
    BY <2>1, BigintAssumption
<1>2. ProrationFits(old, new, remaining, term) <=>
        /\ FitsBigint(new - old)
        /\ FitsBigint(n)
        /\ FitsBigint(2 * (IF n >= 0 THEN n ELSE -n) + term)
        /\ FitsBigint(2 * term)
  BY DEF ProrationFits, Numerator
<1> HIDE DEF n
<1>3. ProrationFits(old, new, remaining, term) <=>
           ~ (2 * Service!Magnitude(n) + term > MaxBigint)
  BY <1>1, <1>2 DEF FitsBigint, Service!Magnitude
<1> QED
  BY <1>3 DEF n

LEMMA RefusalsAgree ==
  ASSUME NEW c \in Calls, c.policy_id \in PolicyIds, NEW premium \in 0 .. MaxBigint
  PROVE  Service!Refusal(c, premium) = RejectionOf(c, premium)
<1> DEFINE row == Seed[c.policy_id]
<1>1. CASE IsEndorsement(c)
  <2> DEFINE term == row.term_end - row.term_start
             remaining == row.term_end - c.effective_date
  <2>1. /\ row.term_start \in Int /\ row.term_end \in Int /\ row.term_start < row.term_end
        /\ 2 * term <= MaxBigint
    BY SeedAssumption, ColumnsAssumption
  <2>2. c \in EndorsementCalls
    BY <1>1, CallKinds
  <2>3. c.effective_date \in Int /\ c.new_annual_premium_cents \in 0 .. MaxBigint
    BY <2>2, CallsAssumption
  <2>4. /\ remaining \in Int /\ term \in Nat
        /\ c.effective_date \in row.term_start .. row.term_end <=>
             ~ (c.effective_date < row.term_start \/ c.effective_date > row.term_end)
    BY <2>1, <2>3
  <2>5. ProrationFits(premium, c.new_annual_premium_cents, remaining, term) <=>
          ~ (2 * Service!Magnitude(Service!PremiumChange(c, premium)) + Service!Term(c.policy_id)
               > MaxBigint)
    <3>1. /\ Service!PremiumChange(c, premium)
               = (c.new_annual_premium_cents - premium) * remaining
          /\ Service!Term(c.policy_id) = term
      BY DEF Service!PremiumChange, Service!Term
    <3> HIDE DEF remaining, term
    <3> QED
      BY <2>1, <2>3, <2>4, <3>1, FitsIs
  <2> DEFINE over == 2 * Service!Magnitude(Service!PremiumChange(c, premium))
                       + Service!Term(c.policy_id) > MaxBigint
             within == c.effective_date \in row.term_start .. row.term_end
             active == row.status = "active"
  <2>6. RejectionOf(c, premium) = IF ~ active THEN "BLB02" ELSE IF ~ within THEN "BLB03"
                                  ELSE IF over THEN "22003" ELSE "none"
    <3>1. RejectionOf(c, premium) =
            IF row.status # "active" THEN "BLB02"
            ELSE IF c.effective_date < row.term_start \/ c.effective_date > row.term_end
                 THEN "BLB03"
            ELSE IF ~ ProrationFits(premium, c.new_annual_premium_cents, remaining, term)
                 THEN "22003" ELSE "none"
      BY <1>1 DEF RejectionOf
    <3> HIDE DEF remaining, term
    <3> QED
      BY <2>4, <2>5, <3>1
  <2>7. c.operation = "endorsement" /\ c.operation # "payment"
    BY <1>1 DEF IsEndorsement
  <2>8. Service!Refusal(c, premium) =
          CASE c.operation = "payment" /\ c.currency # row.currency -> "BLB05"
            [] c.operation = "payment" /\ c.currency = row.currency /\ c.amount_cents <= 0
               -> "BLB06"
            [] c.operation = "endorsement" /\ ~ active -> "BLB02"
            [] c.operation = "endorsement" /\ active /\ ~ within -> "BLB03"
            [] c.operation = "endorsement" /\ active /\ within /\ over -> "22003"
            [] OTHER -> "none"
    BY DEF Service!Refusal
  <2> HIDE DEF over, within, active
  <2> QED
    BY <2>6, <2>7, <2>8
<1>2. CASE ~ IsEndorsement(c)
  <2>1. c.operation = "payment" /\ c.operation # "endorsement"
    BY <1>2, CallKinds DEF IsEndorsement
  <2> QED
    BY <1>2, <2>1 DEF Service!Refusal, RejectionOf
<1> QED
  BY <1>1, <1>2

-----------------------------------------------------------------------------
(* What the tables say of the log of the service *)

ChainOf(p, events) == HeadHash(RowsOf(p, events))

(* The event e records the call c. *)
Records(e, c) == SameKey(e, c) /\ e.payload_canonical = CanonicalPayload(c)

PrefixOf(h, g) == Len(h) <= Len(g) /\ \A i \in 1 .. Len(h) : h[i] = g[i]

(* e records a call, and its hash is the chain up to it. *)
LinkedTo(e, chain) ==
  /\ \E c \in Calls : Records(e, c)
  /\ e.previous_hash \in Hashes
  /\ e.event_hash = Digest(e.payload_canonical, e.previous_hash)
  /\ PrefixOf(e.event_hash, chain)
(* The events of a policy are the positions of its chain. *)
ReadsAs(events, chain) ==
  /\ \A e \in events : LinkedTo(e, chain)
  /\ \A i \in 1 .. Len(chain) : \E e \in events : Len(e.event_hash) = i

PremiumOn(p, chain) == Service!PremiumAfterCalls(p, ReadChain(chain))

(* What the call of e costs when it is applied to the chain e links to. *)
ChargedFor(e) ==
  Service!Charge(CallOf(e.payload_canonical), PremiumOn(e.policy_id, e.previous_hash))
RowsCharge(rows, events) ==
  \A row \in rows, e \in events : row.policy_event_id = e.id => row.amount_cents = ChargedFor(e)

Ruled(t) ==
  /\ t.pc = "idle" => t.call = NoCall
  /\ t.pc \in Writing => RejectionOf(t.call, t.old_premium) = "none"

(* The tables hold what the calls on the chains come to, and a session that *)
(* writes has a call no rule objects to.                                    *)
ServiceInv ==
  /\ \A p \in PolicyIds : ReadsAs(RowsOf(p, policy_events), ChainOf(p, policy_events))
  /\ \A p \in PolicyIds :
       /\ policies[p].annual_premium_cents = PremiumOn(p, ChainOf(p, policy_events))
       /\ policies[p].annual_premium_cents <= MaxBigint
  /\ RowsCharge(billing_documents, policy_events)
  /\ RowsCharge(payments, policy_events)
  /\ \A s \in Sessions : Ruled(tx[s])

LEMMA ServiceUntouched ==
  ASSUME ServiceInv, NEW s \in Sessions,
         policies' = policies, policy_events' = policy_events,
         billing_documents' = billing_documents, payments' = payments,
         \A o \in Sessions \ {s} : tx'[o] = tx[o], Ruled(tx'[s])
  PROVE  ServiceInv'
<1>1. \A o \in Sessions : Ruled(tx'[o])
  BY DEF ServiceInv
<1> QED
  BY <1>1 DEF ServiceInv, ReadsAs, LinkedTo, Records, SameKey, RowsCharge, ChargedFor, Ruled

(* The events of a policy and their positions on its chain. *)
LEMMA Positions ==
  ASSUME NEW events, NEW chain \in Hashes, ReadsAs(events, chain)
  PROVE  /\ ReadChain(chain) \in Seq(Calls)
         /\ \A e \in events :
              LET i == Len(e.event_hash) IN
              /\ i \in DOMAIN ReadChain(chain)
              /\ Records(e, ReadChain(chain)[i])
              /\ ReadChain(chain)[i] = CallOf(e.payload_canonical)
              /\ SubSeq(ReadChain(chain), 1, i - 1) = ReadChain(e.previous_hash)
         /\ \A i \in DOMAIN ReadChain(chain) : \E e \in events : Len(e.event_hash) = i
<1>1. /\ ReadChain(chain) \in Seq(Calls) /\ Len(ReadChain(chain)) = Len(chain)
      /\ \A i \in 1 .. Len(chain) : ReadChain(chain)[i] = CallOf(chain[i])
      /\ Len(chain) \in Nat
  BY ReadChainType DEF Hashes
<1>2. DOMAIN ReadChain(chain) = 1 .. Len(chain)
  BY <1>1
<1>3. ASSUME NEW e \in events
      PROVE  /\ Len(e.event_hash) \in 1 .. Len(chain)
             /\ Records(e, ReadChain(chain)[Len(e.event_hash)])
             /\ ReadChain(chain)[Len(e.event_hash)] = CallOf(e.payload_canonical)
             /\ SubSeq(ReadChain(chain), 1, Len(e.event_hash) - 1) = ReadChain(e.previous_hash)
  <2> DEFINE h == e.event_hash
             b == e.previous_hash
             n == Len(b)
  <2>1. PICK c \in Calls : Records(e, c)
    BY DEF ReadsAs, LinkedTo
  <2>2. /\ b \in Hashes /\ h = Digest(CanonicalPayload(c), b) /\ PrefixOf(h, chain)
    BY <2>1 DEF ReadsAs, LinkedTo, Records
  <2>3. e.payload_canonical = CanonicalPayload(c)
    BY <2>1 DEF Records
  <2> HIDE DEF h, b
  <2>4. /\ n \in Nat /\ Len(h) = n + 1 /\ h[n + 1] = CanonicalPayload(c)
        /\ \A i \in 1 .. n : h[i] = b[i]
    BY <2>2, PayloadType DEF Digest, Hashes
  <2>5. /\ n + 1 <= Len(chain) /\ \A i \in 1 .. n + 1 : h[i] = chain[i]
    BY <2>2, <2>4 DEF PrefixOf
  <2>6. Len(h) \in 1 .. Len(chain)
    BY <1>1, <2>4, <2>5
  <2>7. ReadChain(chain)[n + 1] = c /\ CallOf(e.payload_canonical) = c
    <3>1. n + 1 \in 1 .. Len(chain) /\ n + 1 \in 1 .. n + 1
      BY <2>4, <2>6
    <3>2. chain[n + 1] = CanonicalPayload(c)
      BY <2>4, <2>5, <3>1
    <3> QED
      BY <1>1, <2>3, <3>1, <3>2, CallOfText
  <2>8. /\ ReadChain(b) \in Seq(Calls) /\ Len(ReadChain(b)) = n
        /\ \A i \in 1 .. n : ReadChain(b)[i] = CallOf(b[i])
    BY <2>2, ReadChainType
  <2> DEFINE r == ReadChain(chain)
             q == ReadChain(b)
  <2>9. /\ SubSeq(r, 1, n) \in Seq(Calls) /\ Len(SubSeq(r, 1, n)) = n
        /\ \A i \in 1 .. n : SubSeq(r, 1, n)[i] = r[i]
    <3>1. r \in Seq(Calls) /\ n \in Nat /\ n <= Len(r)
      BY <1>1, <2>4, <2>5
    <3> HIDE DEF r, n
    <3> QED
      BY <3>1, SubSeqProperties
  <2>10. \A i \in 1 .. n : r[i] = q[i]
    <3> SUFFICES ASSUME NEW i \in 1 .. n PROVE r[i] = q[i]
      OBVIOUS
    <3>1. i \in 1 .. n + 1 /\ i \in 1 .. Len(chain)
      BY <1>1, <2>4, <2>5
    <3>2. chain[i] = b[i]
      BY <2>4, <2>5, <3>1
    <3> QED
      BY <1>1, <2>8, <3>1, <3>2
  <2>11. \A i \in 1 .. n : SubSeq(r, 1, n)[i] = q[i]
    BY <2>9, <2>10
  <2>12. SubSeq(r, 1, n) = q
    <3> HIDE DEF r, n
    <3>1. q \in Seq(Calls) /\ Len(q) = n
      BY <2>8
    <3> HIDE DEF q
    <3> QED
      BY <2>9, <2>11, <3>1, SeqEqual
  <2>13. Len(h) - 1 = n
    BY <2>4
  <2> QED
    BY <2>1, <2>4, <2>6, <2>7, <2>12, <2>13 DEF h, b
<1> QED
  BY <1>1, <1>2, <1>3 DEF ReadsAs

-----------------------------------------------------------------------------
(* What the code answers is what the service would *)

LogOf(p) == ReadChain(ChainOf(p, policy_events))

LEMMA LogFacts ==
  ASSUME BillingInv, ServiceInv, NEW p \in PolicyIds
  PROVE  /\ ChainOf(p, policy_events) \in Hashes
         /\ LogOf(p) \in Seq(Calls)
         /\ policies[p].annual_premium_cents = Service!PremiumAfterCalls(p, LogOf(p))
         /\ policies[p].annual_premium_cents \in 0 .. MaxBigint
<1>1. ChainOf(p, policy_events) \in Hashes
  BY HeadType DEF BillingInv, ChainOf, RowsOf, EventsOf
<1>2. policies[p].annual_premium_cents \in Nat
  BY DEF BillingInv, TypeOK
<1>3. /\ policies[p].annual_premium_cents = Service!PremiumAfterCalls(p, LogOf(p))
      /\ policies[p].annual_premium_cents <= MaxBigint
  BY DEF ServiceInv, PremiumOn, LogOf
<1> QED
  BY <1>1, <1>2, <1>3, BigintAssumption, ReadChainType DEF LogOf

LEMMA LogPositions ==
  ASSUME BillingInv, ServiceInv, NEW p \in PolicyIds
  PROVE  /\ \A e \in RowsOf(p, policy_events) :
              LET i == Len(e.event_hash) IN
              /\ i \in DOMAIN LogOf(p)
              /\ Records(e, LogOf(p)[i])
              /\ LogOf(p)[i] = CallOf(e.payload_canonical)
              /\ SubSeq(LogOf(p), 1, i - 1) = ReadChain(e.previous_hash)
         /\ \A i \in DOMAIN LogOf(p) : \E e \in RowsOf(p, policy_events) : Len(e.event_hash) = i
<1>1. ReadsAs(RowsOf(p, policy_events), ChainOf(p, policy_events))
  BY DEF ServiceInv
<1>2. ChainOf(p, policy_events) \in Hashes
  BY LogFacts
<1> QED
  BY <1>1, <1>2, Positions DEF LogOf

(* The events with the key of c are the uses of its key in the log. *)
LEMMA UsesAreEvents ==
  ASSUME BillingInv, ServiceInv, NEW c \in Calls, c.policy_id \in PolicyIds
  PROVE  /\ \A e \in Earlier(c) :
              /\ e \in RowsOf(c.policy_id, policy_events)
              /\ Len(e.event_hash) \in Service!UsesOfKey(c, LogOf(c.policy_id))
         /\ \A i \in Service!UsesOfKey(c, LogOf(c.policy_id)) :
              \E e \in Earlier(c) : /\ Len(e.event_hash) = i
                                    /\ e \in RowsOf(c.policy_id, policy_events)
<1> DEFINE p == c.policy_id
           log == LogOf(p)
<1>1. ASSUME NEW e \in RowsOf(p, policy_events)
      PROVE  SameKey(e, c) <=> /\ log[Len(e.event_hash)].operation = c.operation
                               /\ log[Len(e.event_hash)].idempotency_key = c.idempotency_key
  <2>1. SameKey(e, log[Len(e.event_hash)]) /\ e.policy_id = p
    BY <1>1, LogPositions DEF Records, RowsOf
  <2> QED
    BY <2>1 DEF SameKey
<1>2. \A e : e \in Earlier(c) <=> e \in RowsOf(p, policy_events) /\ SameKey(e, c)
  BY DEF Earlier, RowsOf, SameKey
<1>3. \A i : i \in Service!UsesOfKey(c, log) <=>
               /\ i \in DOMAIN log
               /\ log[i].operation = c.operation
               /\ log[i].idempotency_key = c.idempotency_key
  BY DEF Service!UsesOfKey
<1>4. /\ \A e \in RowsOf(p, policy_events) : Len(e.event_hash) \in DOMAIN log
      /\ \A i \in DOMAIN log : \E e \in RowsOf(p, policy_events) : Len(e.event_hash) = i
  BY LogPositions
<1> HIDE DEF log, p
<1>5. \A e \in Earlier(c) : e \in RowsOf(p, policy_events)
                            /\ Len(e.event_hash) \in Service!UsesOfKey(c, log)
  BY <1>1, <1>2, <1>3, <1>4
<1>6. ASSUME NEW i \in Service!UsesOfKey(c, log)
      PROVE  \E e \in Earlier(c) : Len(e.event_hash) = i /\ e \in RowsOf(p, policy_events)
  BY <1>1, <1>2, <1>3, <1>4
<1> QED
  BY <1>5, <1>6 DEF log, p

LEMMA VerdictIs ==
  ASSUME NEW c, NEW calls
  PROVE  Service!Verdict(c, calls) =
    IF \E i \in Service!UsesOfKey(c, calls) : calls[i] = c
    THEN Service!Told("duplicate_ignored",
           Service!PremiumTold(c, Service!PremiumAfterCalls(c.policy_id, calls)),
           Service!Charge(c, Service!PremiumAfterCalls(c.policy_id,
             SubSeq(calls, 1, (CHOOSE j \in Service!UsesOfKey(c, calls) : calls[j] = c) - 1))))
    ELSE IF Service!UsesOfKey(c, calls) # {} THEN Service!Refused("BLB04")
    ELSE IF Service!Refusal(c, Service!PremiumAfterCalls(c.policy_id, calls)) # "none"
    THEN Service!Refused(Service!Refusal(c, Service!PremiumAfterCalls(c.policy_id, calls)))
    ELSE Service!Told("applied",
           Service!PremiumTold(c, Service!PremiumAfterCalls(c.policy_id, Append(calls, c))),
           Service!Charge(c, Service!PremiumAfterCalls(c.policy_id, calls)))
BY DEF Service!Verdict

(* A use of the key by c itself is the event that records c. *)
LEMMA UseOfCall ==
  ASSUME BillingInv, ServiceInv, NEW c \in Calls, c.policy_id \in PolicyIds,
         NEW e \in Earlier(c)
  PROVE  /\ \A i \in Service!UsesOfKey(c, LogOf(c.policy_id)) : i = Len(e.event_hash)
         /\ LogOf(c.policy_id)[Len(e.event_hash)] = c
              <=> e.payload_canonical = CanonicalPayload(c)
<1> DEFINE p == c.policy_id
           log == LogOf(p)
<1>1. ASSUME NEW f \in Earlier(c)
      PROVE  f = e
  BY <1>1 DEF Earlier, SameKey, BillingInv, HistoryConsistent, OneEventPerKey
<1>2. \A i \in Service!UsesOfKey(c, log) : i = Len(e.event_hash)
  BY <1>1, UsesAreEvents
<1>3. e \in RowsOf(p, policy_events)
  BY UsesAreEvents
<1>4. /\ log[Len(e.event_hash)] = CallOf(e.payload_canonical)
      /\ Records(e, log[Len(e.event_hash)])
  BY <1>3, LogPositions
<1> HIDE DEF log, p
<1>5. log[Len(e.event_hash)] = c <=> e.payload_canonical = CanonicalPayload(c)
  BY <1>4, CallOfText DEF Records
<1> QED
  BY <1>2, <1>5 DEF log, p

LEMMA ReplayVerdict ==
  ASSUME BillingInv, ServiceInv, NEW c \in Calls, c.policy_id \in PolicyIds,
         NEW e \in Earlier(c), e.payload_canonical = CanonicalPayload(c)
  PROVE  Service!Verdict(c, LogOf(c.policy_id)) =
           Service!Told("duplicate_ignored", ReplayOf(e, c).premium, ReplayOf(e, c).amount)
<1> DEFINE p == c.policy_id
           log == LogOf(p)
           uses == Service!UsesOfKey(c, log)
           i == Len(e.event_hash)
           table == IF IsEndorsement(c) THEN billing_documents ELSE payments
           row == RowOf(e, table)
<1>1. i \in uses /\ log[i] = c /\ \A j \in uses : j = i
  BY UsesAreEvents, UseOfCall
<1>2. (CHOOSE j \in uses : log[j] = c) = i
  <2> HIDE DEF uses, log, i
  <2> QED
    BY <1>1
<1>3. e \in RowsOf(p, policy_events)
  BY UsesAreEvents
<1>4. SubSeq(log, 1, i - 1) = ReadChain(e.previous_hash)
  BY <1>3, LogPositions
<1>5. Service!PremiumAfterCalls(p, log) = policies[p].annual_premium_cents
  BY LogFacts
<1>6. Service!Verdict(c, log) =
        Service!Told("duplicate_ignored",
          Service!PremiumTold(c, policies[p].annual_premium_cents),
          Service!Charge(c, PremiumOn(p, e.previous_hash)))
  <2>1. \E j \in uses : log[j] = c
    BY <1>1
  <2> HIDE DEF uses, log, i
  <2>2. Service!Verdict(c, log) =
          Service!Told("duplicate_ignored",
           Service!PremiumTold(c, Service!PremiumAfterCalls(p, log)),
           Service!Charge(c, Service!PremiumAfterCalls(p,
             SubSeq(log, 1, (CHOOSE j \in uses : log[j] = c) - 1))))
    BY <2>1, VerdictIs DEF uses
  <2> QED
    BY <1>2, <1>4, <1>5, <2>2 DEF PremiumOn
<1>7. row \in table /\ row.policy_event_id = e.id
  <2>1. e \in policy_events /\ e.operation_type = c.operation
    BY DEF Earlier, SameKey
  <2>2. \E r \in table : r.policy_event_id = e.id
    BY <2>1 DEF BillingInv, HistoryConsistent, IsEndorsement
  <2> HIDE DEF table
  <2> QED
    BY <2>2 DEF RowOf
<1>8. row.amount_cents = Service!Charge(c, PremiumOn(p, e.previous_hash))
  <2>1. e \in policy_events /\ e.policy_id = p
    BY DEF Earlier, SameKey
  <2>2. row.amount_cents = ChargedFor(e)
    BY <1>7, <2>1 DEF ServiceInv, RowsCharge
  <2>3. CallOf(e.payload_canonical) = c
    BY CallOfText
  <2> QED
    BY <2>1, <2>2, <2>3 DEF ChargedFor
<1>9. /\ ReplayOf(e, c).premium = Service!PremiumTold(c, policies[p].annual_premium_cents)
      /\ ReplayOf(e, c).amount = row.amount_cents
  BY DEF ReplayOf, Service!PremiumTold, IsEndorsement
<1> QED
  BY <1>6, <1>8, <1>9

LEMMA ConflictVerdict ==
  ASSUME BillingInv, ServiceInv, NEW c \in Calls, c.policy_id \in PolicyIds,
         NEW e \in Earlier(c), e.payload_canonical # CanonicalPayload(c)
  PROVE  Service!Verdict(c, LogOf(c.policy_id)) = Service!Refused("BLB04")
<1> DEFINE log == LogOf(c.policy_id)
           uses == Service!UsesOfKey(c, log)
<1>1. Len(e.event_hash) \in uses /\ \A i \in uses : log[i] # c
  BY UsesAreEvents, UseOfCall
<1> HIDE DEF uses, log
<1>2. uses # {} /\ ~ \E i \in uses : log[i] = c
  BY <1>1
<1>3. Service!Verdict(c, log) = Service!Refused("BLB04")
  BY <1>2, VerdictIs DEF uses
<1> QED
  BY <1>3 DEF log

LEMMA NewVerdict ==
  ASSUME BillingInv, ServiceInv, NEW c \in Calls, c.policy_id \in PolicyIds, Earlier(c) = {}
  PROVE  LET premium == policies[c.policy_id].annual_premium_cents IN
         Service!Verdict(c, LogOf(c.policy_id)) =
           IF RejectionOf(c, premium) # "none" THEN Service!Refused(RejectionOf(c, premium))
           ELSE Service!Told("applied",
                  IF IsEndorsement(c) THEN c.new_annual_premium_cents ELSE 0,
                  IF IsEndorsement(c) THEN Delta(c, premium) ELSE c.amount_cents)
<1> DEFINE p == c.policy_id
           log == LogOf(p)
           uses == Service!UsesOfKey(c, log)
           premium == policies[p].annual_premium_cents
<1>1. uses = {}
  BY UsesAreEvents
<1>2. log \in Seq(Calls) /\ Service!PremiumAfterCalls(p, log) = premium
      /\ premium \in 0 .. MaxBigint /\ premium \in Nat
  BY LogFacts, BigintAssumption
<1>3. Service!PremiumTold(c, Service!PremiumAfterCalls(p, Append(log, c)))
        = IF IsEndorsement(c) THEN c.new_annual_premium_cents ELSE 0
  <2>1. IsEndorsement(c) => Service!PremiumAfterCalls(p, Append(log, c))
                              = c.new_annual_premium_cents
    BY <1>2, PremiumGrows
  <2> HIDE DEF log
  <2> QED
    BY <2>1 DEF Service!PremiumTold, IsEndorsement
<1>4. /\ Service!Charge(c, premium) = IF IsEndorsement(c) THEN Delta(c, premium)
                                      ELSE c.amount_cents
      /\ Service!Refusal(c, premium) = RejectionOf(c, premium)
  BY <1>2, ChargesAgree, RefusalsAgree
<1> HIDE DEF uses, log, premium
<1>5. Service!Verdict(c, log) =
           IF Service!Refusal(c, premium) # "none"
           THEN Service!Refused(Service!Refusal(c, premium))
           ELSE Service!Told("applied",
                  Service!PremiumTold(c, Service!PremiumAfterCalls(p, Append(log, c))),
                  Service!Charge(c, premium))
  <2>1. ~ \E i \in uses : log[i] = c
    BY <1>1
  <2> QED
    BY <1>1, <1>2, <2>1, VerdictIs DEF uses
<1>6. Service!Verdict(c, log) =
           IF RejectionOf(c, premium) # "none" THEN Service!Refused(RejectionOf(c, premium))
           ELSE Service!Told("applied",
                  IF IsEndorsement(c) THEN c.new_annual_premium_cents ELSE 0,
                  IF IsEndorsement(c) THEN Delta(c, premium) ELSE c.amount_cents)
  BY <1>3, <1>4, <1>5
<1> QED
  BY <1>6 DEF log, premium

-----------------------------------------------------------------------------
(* A commit is one more call in the log *)

LEMMA ChainAfterCommit ==
  ASSUME BillingInv, NEW s \in Sessions, tx[s].pc = "inserted",
         policy_events' = policy_events \union {NewEvent(s)}
  PROVE  LET p == tx[s].call.policy_id IN
         /\ RowsOf(p, policy_events') = RowsOf(p, policy_events) \union {NewEvent(s)}
         /\ \A q : q # p => RowsOf(q, policy_events') = RowsOf(q, policy_events)
         /\ NewEvent(s).previous_hash = ChainOf(p, policy_events)
         /\ NewEvent(s).event_hash
              = Digest(CanonicalPayload(tx[s].call), ChainOf(p, policy_events))
         /\ ChainOf(p, policy_events')
              = Digest(CanonicalPayload(tx[s].call), ChainOf(p, policy_events))
<1> DEFINE p == tx[s].call.policy_id
           old == RowsOf(p, policy_events)
           new == NewEvent(s)
<1>1. /\ new.policy_id = p /\ new.id = tx[s].event_id
      /\ new.previous_hash = tx[s].previous_hash
      /\ new.event_hash = Digest(CanonicalPayload(tx[s].call), tx[s].previous_hash)
  BY DEF NewEvent
<1>2. /\ tx[s].previous_hash = ChainOf(p, policy_events)
      /\ \A e \in old : e.id < new.id
  BY <1>1 DEF BillingInv, SessionConsistent, ChainOf, RowsOf, EventsOf
<1>3. \A e \in old : e.id \in Int
  BY DEF BillingInv, TypeOK, RowsOf, EventRows
<1>4. new.id \in Int
  BY <1>1, ReadyToCommit
<1> HIDE DEF new
<1>5. RowsOf(p, policy_events') = old \union {new}
  BY <1>1 DEF RowsOf, new
<1>6. \A q : q # p => RowsOf(q, policy_events') = RowsOf(q, policy_events)
  BY <1>1 DEF RowsOf, new
<1> HIDE DEF old
<1>7. LatestEvent(old \union {new}) = new
  <2>1. \A f \in old \union {new} : f.id <= new.id
    BY <1>2, <1>3, <1>4
  <2>2. ASSUME NEW e \in old \union {new}, \A f \in old \union {new} : f.id <= e.id
        PROVE  e = new
    BY <1>2, <1>3, <1>4, <2>2
  <2> QED
    BY <2>1, <2>2 DEF LatestEvent
<1>8. ChainOf(p, policy_events') = new.event_hash
  BY <1>5, <1>7 DEF ChainOf, HeadHash
<1> QED
  BY <1>1, <1>2, <1>5, <1>6, <1>8 DEF new, old

(* A new event at the end of the chain. *)
LEMMA ReadsGrow ==
  ASSUME NEW events, NEW chain \in Hashes, ReadsAs(events, chain),
         NEW c \in Calls, NEW new, Records(new, c), new.previous_hash = chain,
         new.event_hash = Digest(CanonicalPayload(c), chain)
  PROVE  ReadsAs(events \union {new}, Digest(CanonicalPayload(c), chain))
<1> DEFINE longer == Digest(CanonicalPayload(c), chain)
           n == Len(chain)
<1>1. /\ n \in Nat /\ longer \in Hashes /\ Len(longer) = n + 1
      /\ \A i \in 1 .. n : longer[i] = chain[i]
  BY PayloadType DEF Digest, Hashes
<1> HIDE DEF longer
<1>2. new.payload_canonical = CanonicalPayload(c)
  BY DEF Records
<1>3. LinkedTo(new, longer)
  <2>1. PrefixOf(new.event_hash, longer)
    BY <1>1 DEF PrefixOf, longer
  <2> QED
    BY <1>2, <2>1 DEF LinkedTo, longer
<1>4. ASSUME NEW e \in events
      PROVE  LinkedTo(e, longer)
  <2>1. LinkedTo(e, chain)
    BY DEF ReadsAs
  <2> DEFINE h == e.event_hash
  <2>2. PrefixOf(h, chain) /\ Len(h) \in Nat
    <3>1. e.previous_hash \in Hashes /\ \E d \in Calls : e.payload_canonical = CanonicalPayload(d)
      BY <2>1 DEF LinkedTo, Records
    <3>2. h \in Hashes
      BY <2>1, <3>1, PayloadType, DigestType DEF LinkedTo
    <3> QED
      BY <2>1, <3>2 DEF LinkedTo, Hashes
  <2> HIDE DEF h
  <2>3. Len(h) <= n /\ \A i \in 1 .. Len(h) : h[i] = chain[i]
    BY <2>2 DEF PrefixOf
  <2>4. \A i \in 1 .. Len(h) : i \in 1 .. n
    BY <1>1, <2>2, <2>3
  <2>5. PrefixOf(h, longer)
    BY <1>1, <2>2, <2>3, <2>4 DEF PrefixOf
  <2> QED
    BY <2>1, <2>5 DEF LinkedTo, h
<1>5. ASSUME NEW i \in 1 .. Len(longer)
      PROVE  \E e \in events \union {new} : Len(e.event_hash) = i
  <2>1. CASE i = n + 1
    BY <1>1, <2>1 DEF longer
  <2>2. CASE i # n + 1
    <3>1. i \in 1 .. n
      BY <1>1, <2>2
    <3> QED
      BY <3>1 DEF ReadsAs
  <2> QED
    BY <2>1, <2>2
<1> QED
  BY <1>3, <1>4, <1>5 DEF ReadsAs, longer

LEMMA NewEventRecords ==
  ASSUME NEW s \in Sessions
  PROVE  Records(NewEvent(s), tx[s].call) /\ NewEvent(s).id = tx[s].event_id
         /\ NewEvent(s).policy_id = tx[s].call.policy_id
BY DEF Records, SameKey, NewEvent

LogNext(p) == ReadChain(ChainOf(p, policy_events'))

(* The premium the calls of session s and those before it leave. *)
PremiumLeft(s) ==
  IF IsEndorsement(tx[s].call) THEN tx[s].call.new_annual_premium_cents
  ELSE policies[tx[s].call.policy_id].annual_premium_cents

LEMMA LogGrows ==
  ASSUME BillingInv, ServiceInv, NEW s \in Sessions, tx[s].pc = "inserted",
         policy_events' = policy_events \union {NewEvent(s)}
  PROVE  LET p == tx[s].call.policy_id IN
         /\ LogNext(p) = Append(LogOf(p), tx[s].call)
         /\ \A q : q # p => LogNext(q) = LogOf(q)
         /\ PremiumOn(p, ChainOf(p, policy_events')) = PremiumLeft(s)
<1> DEFINE p == tx[s].call.policy_id
           c == tx[s].call
<1>1. c \in Calls /\ p \in PolicyIds
  BY ReadyToCommit
<1>2. ChainOf(p, policy_events) \in Hashes /\ LogOf(p) \in Seq(Calls)
      /\ Service!PremiumAfterCalls(p, LogOf(p)) = policies[p].annual_premium_cents
  BY <1>1, LogFacts
<1>3. ChainOf(p, policy_events') = Digest(CanonicalPayload(c), ChainOf(p, policy_events))
      /\ \A q : q # p => RowsOf(q, policy_events') = RowsOf(q, policy_events)
  BY ChainAfterCommit
<1>4. ReadChain(ChainOf(p, policy_events')) = Append(LogOf(p), c)
  BY <1>1, <1>2, <1>3, ReadChainGrows DEF LogOf
<1>5. \A q : q # p => ChainOf(q, policy_events') = ChainOf(q, policy_events)
  BY <1>3 DEF ChainOf
<1>6. PremiumOn(p, ChainOf(p, policy_events')) = PremiumLeft(s)
  BY <1>1, <1>2, <1>4, PremiumGrows DEF PremiumOn, PremiumLeft
<1> QED
  BY <1>4, <1>5, <1>6 DEF LogOf, LogNext

(* The rows still hold what their calls were charged. *)
LEMMA RowsStillCharge ==
  ASSUME BillingInv, RowsInv, PremiumInv, ServiceInv,
         NEW s \in Sessions, tx[s].pc = "inserted",
         NEW rows, rows \subseteq billing_documents \union payments,
         RowsCharge(rows, policy_events)
  PROVE  RowsCharge(rows, policy_events \union {NewEvent(s)})
<1>1. \A row \in rows : row.policy_event_id # NewEvent(s).id
  BY NewEventRecords DEF RowsInv
<1> QED
  BY <1>1 DEF RowsCharge

LEMMA NewRowCharges ==
  ASSUME BillingInv, RowsInv, PremiumInv, ServiceInv,
         NEW s \in Sessions, tx[s].pc = "inserted",
         NEW row, row.policy_event_id = tx[s].event_id,
         row.amount_cents = Service!Charge(tx[s].call,
                              policies[tx[s].call.policy_id].annual_premium_cents)
  PROVE  RowsCharge({row}, policy_events \union {NewEvent(s)})
<1> DEFINE p == tx[s].call.policy_id
           new == NewEvent(s)
<1>1. /\ CallOf(new.payload_canonical) = tx[s].call
      /\ new.policy_id = p /\ new.id = tx[s].event_id
  BY ReadyToCommit, NewEventRecords, CallOfText DEF Records
<1>2. new.previous_hash = ChainOf(p, policy_events)
  <2>1. tx[s].previous_hash = ChainOf(p, policy_events)
    BY DEF BillingInv, SessionConsistent, ChainOf, RowsOf, EventsOf
  <2> QED
    BY <2>1 DEF NewEvent
<1>3. PremiumOn(p, new.previous_hash) = policies[p].annual_premium_cents
  BY <1>2, ReadyToCommit DEF ServiceInv
<1>4. row.amount_cents = ChargedFor(new)
  BY <1>1, <1>3 DEF ChargedFor
<1>5. \A e \in policy_events : e.id # new.id \/ e = new
  BY FreshId
<1> QED
  BY <1>1, <1>4, <1>5 DEF RowsCharge

LEMMA ServiceCommit ==
  ASSUME BillingInv, RowsInv, PremiumInv, ServiceInv,
         NEW s \in Sessions, tx[s].pc = "inserted",
         policy_events' = policy_events \union {NewEvent(s)},
         NEW row, row.policy_event_id = tx[s].event_id,
         row.amount_cents = Service!Charge(tx[s].call,
                              policies[tx[s].call.policy_id].annual_premium_cents),
         billing_documents' = billing_documents \union
           (IF IsEndorsement(tx[s].call) THEN {row} ELSE {}),
         payments' = payments \union (IF IsEndorsement(tx[s].call) THEN {} ELSE {row}),
         \A q \in PolicyIds : policies'[q].annual_premium_cents =
           IF q = tx[s].call.policy_id THEN PremiumLeft(s) ELSE policies[q].annual_premium_cents,
         \A o \in Sessions \ {s} : tx'[o] = tx[o],
         Ruled(tx'[s])
  PROVE  ServiceInv'
<1> DEFINE c == tx[s].call
           p == c.policy_id
<1>1. c \in Calls /\ p \in PolicyIds
  BY ReadyToCommit
<1>2. \A q : q # p => RowsOf(q, policy_events') = RowsOf(q, policy_events)
  BY ChainAfterCommit
<1>3. ASSUME NEW q \in PolicyIds
      PROVE  ReadsAs(RowsOf(q, policy_events'), ChainOf(q, policy_events'))
  <2>1. CASE q # p
    BY <1>2, <2>1 DEF ServiceInv, ChainOf
  <2>2. CASE q = p
    <3>1. /\ ReadsAs(RowsOf(p, policy_events), ChainOf(p, policy_events))
          /\ ChainOf(p, policy_events) \in Hashes
      BY <1>1, LogFacts DEF ServiceInv
    <3>2. /\ RowsOf(p, policy_events') = RowsOf(p, policy_events) \union {NewEvent(s)}
          /\ NewEvent(s).previous_hash = ChainOf(p, policy_events)
          /\ NewEvent(s).event_hash = Digest(CanonicalPayload(c), ChainOf(p, policy_events))
          /\ ChainOf(p, policy_events') = Digest(CanonicalPayload(c), ChainOf(p, policy_events))
      BY ChainAfterCommit
    <3>3. Records(NewEvent(s), c)
      BY NewEventRecords
    <3> HIDE DEF c, p
    <3> QED
      BY <1>1, <2>2, <3>1, <3>2, <3>3, ReadsGrow
  <2> QED
    BY <2>1, <2>2
<1>4. ASSUME NEW q \in PolicyIds
      PROVE  /\ policies'[q].annual_premium_cents = PremiumOn(q, ChainOf(q, policy_events'))
             /\ policies'[q].annual_premium_cents <= MaxBigint
  <2>1. CASE q # p
    <3>1. policies'[q].annual_premium_cents = policies[q].annual_premium_cents
      BY <2>1
    <3>2. ChainOf(q, policy_events') = ChainOf(q, policy_events)
      BY <1>2, <2>1 DEF ChainOf
    <3> QED
      BY <3>1, <3>2 DEF ServiceInv
  <2>2. CASE q = p
    <3>1. policies'[p].annual_premium_cents = PremiumLeft(s)
      BY <1>1
    <3>2. PremiumOn(p, ChainOf(p, policy_events')) = PremiumLeft(s)
      BY LogGrows
    <3>3. PremiumLeft(s) <= MaxBigint
      <4>1. IsEndorsement(c) => c.new_annual_premium_cents \in 0 .. MaxBigint
        BY <1>1, CallKinds, CallsAssumption
      <4> QED
        BY <1>1, <4>1, BigintAssumption DEF PremiumLeft, ServiceInv
    <3> QED
      BY <2>2, <3>1, <3>2, <3>3
  <2> QED
    BY <2>1, <2>2
<1>5. /\ RowsCharge(billing_documents, policy_events')
      /\ RowsCharge(payments, policy_events')
      /\ RowsCharge({row}, policy_events')
  BY RowsStillCharge, NewRowCharges DEF ServiceInv
<1>6. RowsCharge(billing_documents', policy_events') /\ RowsCharge(payments', policy_events')
  BY <1>5 DEF RowsCharge
<1>7. \A o \in Sessions : Ruled(tx'[o])
  BY DEF ServiceInv
<1>8. /\ \A q \in PolicyIds : ReadsAs(RowsOf(q, policy_events'), ChainOf(q, policy_events'))
      /\ \A q \in PolicyIds :
           /\ policies'[q].annual_premium_cents = PremiumOn(q, ChainOf(q, policy_events'))
           /\ policies'[q].annual_premium_cents <= MaxBigint
  BY <1>3, <1>4
<1> QED
  BY <1>6, <1>7, <1>8 DEF ServiceInv, ReadsAs, LinkedTo, Records, SameKey, RowsCharge,
     ChargedFor, Ruled

-----------------------------------------------------------------------------
(* Every step is a step of the service, or none *)

TheLog == [p \in PolicyIds |-> AppliedCalls(p)]
TheRequests == [s \in Sessions |-> tx[s].call]
VerdictOf(t) ==
  IF t.pc = "ended"
  THEN [code |-> t.result.code, premium |-> t.result.premium, amount |-> t.result.amount]
  ELSE [code |-> "pending", premium |-> 0, amount |-> 0]
TheVerdicts == [s \in Sessions |-> VerdictOf(tx[s])]

Serves == [Service!ServiceNext]_Service!serviceVars

LEMMA TheLogIs ==
  /\ TheLog = [p \in PolicyIds |-> LogOf(p)]
  /\ TheLog' = [p \in PolicyIds |-> LogNext(p)]
<1>1. ASSUME NEW p
      PROVE  AppliedCalls(p) = LogOf(p) /\ AppliedCalls(p)' = LogNext(p)
  BY DEF AppliedCalls, LogOf, LogNext, ChainOf, RowsOf, EventsOf, ReadChain
<1> QED
  BY <1>1 DEF TheLog

LEMMA LogUnchanged ==
  ASSUME policy_events' = policy_events
  PROVE  TheLog' = TheLog
BY TheLogIs DEF LogOf, LogNext

(* What a session shows of itself. *)
LEMMA SessionShows ==
  ASSUME BillingInv, NEW s \in Sessions, NEW new, tx' = [tx EXCEPT ![s] = new]
  PROVE  /\ TheRequests' = [TheRequests EXCEPT ![s] = new.call]
         /\ TheVerdicts' = [TheVerdicts EXCEPT ![s] = VerdictOf(new)]
         /\ \A o \in Sessions \ {s} : tx'[o] = tx[o]
         /\ tx'[s] = new
BY StepTypes DEF TheRequests, TheVerdicts, VerdictOf

LEMMA ShowsNothing ==
  ASSUME BillingInv, NEW s \in Sessions, NEW new, tx' = [tx EXCEPT ![s] = new],
         new.call = tx[s].call, VerdictOf(new) = VerdictOf(tx[s]),
         policy_events' = policy_events
  PROVE  Serves
<1>1. TheRequests' = TheRequests
  BY SessionShows DEF TheRequests
<1>2. TheVerdicts' = TheVerdicts
  BY SessionShows DEF TheVerdicts
<1> QED
  BY <1>1, <1>2, LogUnchanged
     DEF Serves, Service!serviceVars, TheLog, TheRequests, TheVerdicts, VerdictOf

LEMMA ShowsInvoke ==
  ASSUME BillingInv, ServiceInv, NEW s \in Sessions, NEW new, tx' = [tx EXCEPT ![s] = new],
         tx[s].pc = "idle", new.call \in Calls, new.pc = "begun",
         policy_events' = policy_events
  PROVE  Serves
<1>1. TheRequests[s] = NoCall /\ TheRequests' = [TheRequests EXCEPT ![s] = new.call]
  BY SessionShows DEF TheRequests, ServiceInv, Ruled
<1>2. TheVerdicts' = TheVerdicts
  BY SessionShows DEF TheVerdicts, VerdictOf
<1>3. Service!Invoke(s, new.call)
  BY <1>1, <1>2, LogUnchanged DEF Service!Invoke, TheLog, TheRequests, TheVerdicts, VerdictOf
<1> QED
  BY <1>3 DEF Serves, Service!ServiceNext

LEMMA ShowsClose ==
  ASSUME BillingInv, NEW s \in Sessions, tx' = [tx EXCEPT ![s] = IdleTx],
         tx[s].pc # "idle", policy_events' = policy_events
  PROVE  Serves
<1>1. IdleTx.call = NoCall /\ VerdictOf(IdleTx) = Service!Pending
  BY DEF IdleTx, Fresh, VerdictOf, Service!Pending, Service!Told
<1>2. TheRequests[s] # NoCall /\ TheRequests' = [TheRequests EXCEPT ![s] = NoCall]
  <2>1. tx[s].call # NoCall
    BY NullAssumption DEF BillingInv, SessionConsistent
  <2> QED
    BY <1>1, <2>1, SessionShows DEF TheRequests
<1>3. TheVerdicts' = [TheVerdicts EXCEPT ![s] = Service!Pending]
  BY <1>1, SessionShows
<1>4. Service!Close(s)
  BY <1>2, <1>3, LogUnchanged DEF Service!Close, TheLog, TheRequests, TheVerdicts, VerdictOf
<1> QED
  BY <1>4 DEF Serves, Service!ServiceNext

LEMMA DecideIs ==
  ASSUME NEW s \in Sessions, TheRequests[s] = tx[s].call, tx[s].call # NoCall,
         TheVerdicts[s] = Service!Pending, TheRequests' = TheRequests,
         NEW v, TheVerdicts' = [TheVerdicts EXCEPT ![s] = v],
         tx[s].call.policy_id \notin PolicyIds =>
           v = Service!Refused("BLB01") /\ TheLog' = TheLog,
         tx[s].call.policy_id \in PolicyIds =>
           /\ v = Service!Verdict(tx[s].call, TheLog[tx[s].call.policy_id])
           /\ TheLog' = IF v.code = "applied"
                        THEN [TheLog EXCEPT ![tx[s].call.policy_id] = Append(@, tx[s].call)]
                        ELSE TheLog
  PROVE  Service!Decide(s)
BY DEF Service!Decide, TheLog, TheRequests, TheVerdicts, VerdictOf, PolicyIds

(* A call that ends is decided, with the outcome its session holds. *)
LEMMA ShowsDecide ==
  ASSUME BillingInv, NEW s \in Sessions, NEW outcome, End(s, outcome),
         tx[s].pc \notin {"idle", "ended"},
         tx[s].call.policy_id \notin PolicyIds =>
           /\ Service!Told(outcome.code, outcome.premium, outcome.amount)
                = Service!Refused("BLB01")
           /\ TheLog' = TheLog,
         tx[s].call.policy_id \in PolicyIds =>
           /\ Service!Told(outcome.code, outcome.premium, outcome.amount)
                = Service!Verdict(tx[s].call, LogOf(tx[s].call.policy_id))
           /\ TheLog' = IF outcome.code = "applied"
                        THEN [TheLog EXCEPT ![tx[s].call.policy_id] = Append(@, tx[s].call)]
                        ELSE TheLog
  PROVE  Serves
<1> DEFINE new == Fresh("ended", tx[s].call, tx[s].started, tx[s].served, outcome)
           v == Service!Told(outcome.code, outcome.premium, outcome.amount)
<1>1. /\ tx' = [tx EXCEPT ![s] = new] /\ new.call = tx[s].call /\ VerdictOf(new) = v
      /\ v.code = outcome.code
  BY DEF End, Fresh, VerdictOf, Service!Told
<1> HIDE DEF new, v
<1>2. /\ TheRequests[s] = tx[s].call /\ TheRequests' = TheRequests
      /\ TheVerdicts' = [TheVerdicts EXCEPT ![s] = v]
  <2>1. /\ TheRequests' = [TheRequests EXCEPT ![s] = new.call]
        /\ TheVerdicts' = [TheVerdicts EXCEPT ![s] = VerdictOf(new)]
    BY <1>1, SessionShows
  <2>2. TheRequests[s] = tx[s].call /\ DOMAIN TheRequests = Sessions
    BY DEF TheRequests
  <2>3. TheRequests' = [TheRequests EXCEPT ![s] = tx[s].call]
    BY <1>1, <2>1
  <2>4. [TheRequests EXCEPT ![s] = tx[s].call] = TheRequests
    BY <2>2 DEF TheRequests
  <2> QED
    BY <1>1, <2>1, <2>2, <2>3, <2>4
<1>3. TheVerdicts[s] = Service!Pending
  BY DEF TheVerdicts, VerdictOf, Service!Pending, Service!Told
<1>4. tx[s].call # NoCall
  BY NullAssumption DEF BillingInv, SessionConsistent
<1>5. tx[s].call.policy_id \in PolicyIds =>
        TheLog[tx[s].call.policy_id] = LogOf(tx[s].call.policy_id)
  BY TheLogIs
<1>6. tx[s].call.policy_id \notin PolicyIds => v = Service!Refused("BLB01") /\ TheLog' = TheLog
  BY DEF v
<1>7. tx[s].call.policy_id \in PolicyIds =>
           /\ v = Service!Verdict(tx[s].call, TheLog[tx[s].call.policy_id])
           /\ TheLog' = IF v.code = "applied"
                        THEN [TheLog EXCEPT ![tx[s].call.policy_id] = Append(@, tx[s].call)]
                        ELSE TheLog
  BY <1>1, <1>5 DEF v
<1>8. Service!Decide(s)
  BY <1>2, <1>3, <1>4, <1>6, <1>7, DecideIs
<1> QED
  BY <1>8 DEF Serves, Service!ServiceNext

LEMMA ServesQuietly ==
  ASSUME BillingInv, ServiceInv, NEW s \in Sessions, UNCHANGED tables,
         NEW new, tx' = [tx EXCEPT ![s] = new], new.call = tx[s].call,
         VerdictOf(new) = VerdictOf(tx[s]), Ruled(new)
  PROVE  ServiceInv' /\ Serves
<1>1. tx'[s] = new /\ \A o \in Sessions \ {s} : tx'[o] = tx[o]
  BY SessionShows
<1>2. ServiceInv'
  BY <1>1, ServiceUntouched DEF tables
<1> QED
  BY <1>2, ShowsNothing DEF tables

(* A call that ends without having been applied. *)
LEMMA ServesRefusal ==
  ASSUME BillingInv, ServiceInv, NEW s \in Sessions, UNCHANGED tables,
         NEW outcome, End(s, outcome), outcome.code # "applied",
         tx[s].pc \notin {"idle", "ended"},
         Service!Told(outcome.code, outcome.premium, outcome.amount) =
           IF tx[s].call.policy_id \in PolicyIds
           THEN Service!Verdict(tx[s].call, LogOf(tx[s].call.policy_id))
           ELSE Service!Refused("BLB01")
  PROVE  ServiceInv' /\ Serves
<1> DEFINE new == Fresh("ended", tx[s].call, tx[s].started, tx[s].served, outcome)
<1>1. tx' = [tx EXCEPT ![s] = new] /\ Ruled(new)
  BY DEF End, Fresh, Ruled, Writing
<1> HIDE DEF new
<1>2. ServiceInv'
  BY <1>1, SessionShows, ServiceUntouched DEF tables
<1>3. TheLog' = TheLog
  BY LogUnchanged DEF tables
<1>4. Serves
  BY <1>3, ShowsDecide
<1> QED
  BY <1>2, <1>4

LEMMA RefusedIs ==
  ASSUME NEW code
  PROVE  /\ Service!Told(Failure(code).code, Failure(code).premium, Failure(code).amount)
              = Service!Refused(code)
         /\ Failure(code).code = code
BY DEF Failure, Service!Refused, Service!Told

LEMMA OldPremium ==
  ASSUME PremiumInv, NEW s \in Sessions, tx[s].pc \in Critical
  PROVE  tx[s].old_premium = policies[tx[s].call.policy_id].annual_premium_cents
BY DEF PremiumInv

LEMMA RejectionCode ==
  ASSUME NEW c, NEW old
  PROVE  RejectionOf(c, old) # "applied"
BY DEF RejectionOf

LEMMA ServesRejections ==
  ASSUME BillingInv, RowsInv, PremiumInv, ServiceInv, NEW s \in Sessions,
         \/ PolicyNotFound(s) \/ RejectConflict(s) \/ RejectCall(s) \/ AnswerReplay(s)
  PROVE  ServiceInv' /\ Serves
<1> DEFINE c == tx[s].call
           p == c.policy_id
<1>1. CASE PolicyNotFound(s)
  <2>1. /\ tx[s].pc = "begun" /\ p \notin PolicyIds /\ End(s, Failure("BLB01"))
        /\ UNCHANGED tables
    BY <1>1 DEF PolicyNotFound
  <2> QED
    BY <2>1, RefusedIs, ServesRefusal
<1>2. CASE tx[s].pc = "locked"
  <2>1. /\ c \in Calls /\ p \in PolicyIds
        /\ tx[s].old_premium = policies[p].annual_premium_cents
    BY <1>2, OldPremium DEF BillingInv, SessionConsistent, Critical
  <2>2. CASE RejectConflict(s)
    <3>1. /\ End(s, Failure("BLB04")) /\ UNCHANGED tables
          /\ \E e \in Earlier(c) : e.payload_canonical # CanonicalPayload(c)
      BY <2>2 DEF RejectConflict
    <3>2. Service!Verdict(c, LogOf(p)) = Service!Refused("BLB04")
      BY <2>1, <3>1, ConflictVerdict
    <3> QED
      BY <1>2, <2>1, <3>1, <3>2, RefusedIs, ServesRefusal
  <2>3. CASE RejectCall(s)
    <3> DEFINE code == RejectionOf(c, tx[s].old_premium)
    <3>1. /\ End(s, Failure(code)) /\ UNCHANGED tables /\ Earlier(c) = {} /\ code # "none"
      BY <2>3 DEF RejectCall
    <3>2. Service!Verdict(c, LogOf(p)) = Service!Refused(code)
      BY <2>1, <3>1, NewVerdict
    <3>3. code # "applied"
      BY RejectionCode
    <3> HIDE DEF code
    <3> QED
      BY <1>2, <2>1, <3>1, <3>2, <3>3, RefusedIs, ServesRefusal
  <2>4. CASE AnswerReplay(s)
    <3>1. PICK e \in Earlier(c) : /\ e.payload_canonical = CanonicalPayload(c)
                                  /\ End(s, ReplayOf(e, c))
      BY <2>4 DEF AnswerReplay
    <3>2. UNCHANGED tables
      BY <2>4 DEF AnswerReplay
    <3>3. ReplayOf(e, c).code = "duplicate_ignored"
      BY DEF ReplayOf
    <3>4. Service!Verdict(c, LogOf(p)) =
            Service!Told("duplicate_ignored", ReplayOf(e, c).premium, ReplayOf(e, c).amount)
      BY <2>1, <3>1, ReplayVerdict
    <3> QED
      BY <1>2, <2>1, <3>1, <3>2, <3>3, <3>4, ServesRefusal
  <2>5. CASE PolicyNotFound(s)
    BY <1>1, <2>5
  <2> QED
    BY <2>2, <2>3, <2>4, <2>5
<1> QED
  BY <1>1, <1>2 DEF RejectConflict, RejectCall, AnswerReplay

(* The verdict of the service on a call about to commit. *)
LEMMA CommitVerdict ==
  ASSUME BillingInv, PremiumInv, ServiceInv, NEW s \in Sessions, tx[s].pc = "inserted"
  PROVE  LET c == tx[s].call IN
         /\ c \in Calls /\ c.policy_id \in PolicyIds
         /\ tx[s].old_premium = policies[c.policy_id].annual_premium_cents
         /\ tx[s].old_premium \in Nat
         /\ Service!Verdict(c, LogOf(c.policy_id)) =
              Service!Told("applied",
                IF IsEndorsement(c) THEN c.new_annual_premium_cents ELSE 0,
                IF IsEndorsement(c) THEN Delta(c, tx[s].old_premium) ELSE c.amount_cents)
         /\ Service!Charge(c, tx[s].old_premium) =
              IF IsEndorsement(c) THEN Delta(c, tx[s].old_premium) ELSE c.amount_cents
<1>1. /\ tx[s].call \in Calls /\ tx[s].call.policy_id \in PolicyIds
      /\ tx[s].old_premium \in Nat
  BY ReadyToCommit
<1>2. tx[s].old_premium = policies[tx[s].call.policy_id].annual_premium_cents
  BY OldPremium DEF Critical
<1>3. Earlier(tx[s].call) = {} /\ RejectionOf(tx[s].call, tx[s].old_premium) = "none"
  BY DEF BillingInv, SessionConsistent, ServiceInv, Ruled, Writing
<1> QED
  BY <1>1, <1>2, <1>3, NewVerdict, ChargesAgree

(* A commit decides its call, and the log grows by it. *)
LEMMA ServesCommit ==
  ASSUME BillingInv, RowsInv, PremiumInv, ServiceInv,
         NEW s \in Sessions, tx[s].pc = "inserted",
         policy_events' = policy_events \union {NewEvent(s)},
         NEW outcome, End(s, outcome), outcome.code = "applied",
         Service!Told("applied", outcome.premium, outcome.amount)
           = Service!Verdict(tx[s].call, LogOf(tx[s].call.policy_id))
  PROVE  Serves /\ Ruled(tx'[s]) /\ \A o \in Sessions \ {s} : tx'[o] = tx[o]
<1> DEFINE new == Fresh("ended", tx[s].call, tx[s].started, tx[s].served, outcome)
           p == tx[s].call.policy_id
<1>1. tx' = [tx EXCEPT ![s] = new] /\ Ruled(new)
  BY DEF End, Fresh, Ruled, Writing
<1> HIDE DEF new
<1>2. Ruled(tx'[s]) /\ \A o \in Sessions \ {s} : tx'[o] = tx[o]
  BY <1>1, SessionShows
<1>3. p \in PolicyIds
  BY ReadyToCommit
<1>4. /\ LogNext(p) = Append(LogOf(p), tx[s].call)
      /\ \A q : q # p => LogNext(q) = LogOf(q)
  BY LogGrows
<1>5. TheLog' = [TheLog EXCEPT ![p] = Append(@, tx[s].call)]
  <2> HIDE DEF p
  <2> QED
    BY <1>3, <1>4, TheLogIs
<1>6. Serves
  BY <1>3, <1>5, ShowsDecide
<1> QED
  BY <1>2, <1>6

LEMMA ServesCommitEndorsement ==
  ASSUME BillingInv, RowsInv, PremiumInv, ServiceInv, NEW s \in Sessions, CommitEndorsement(s)
  PROVE  ServiceInv' /\ Serves
<1> DEFINE c == tx[s].call
           delta == Delta(c, tx[s].old_premium)
           entries == EndorsementEntries(nextval.transaction, delta)
           document == [id |-> nextval.document, policy_id |-> c.policy_id,
                        policy_event_id |-> tx[s].event_id, amount_cents |-> delta,
                        created_at |-> tx[s].started]
           outcome == [code |-> "applied", premium |-> c.new_annual_premium_cents,
                       id |-> nextval.document, amount |-> delta]
<1>1. tx[s].pc = "inserted" /\ IsEndorsement(c) /\ payments' = payments
  BY DEF CommitEndorsement
<1>2. /\ c \in Calls /\ c.policy_id \in PolicyIds
      /\ Service!Verdict(c, LogOf(c.policy_id))
           = Service!Told("applied", c.new_annual_premium_cents, delta)
      /\ Service!Charge(c, policies[c.policy_id].annual_premium_cents) = delta
  BY <1>1, CommitVerdict
<1>3. delta \in Int
  BY <1>1, <1>2, ReadyToCommit, DeltaType, CallKinds
<1>4. Balanced(entries)
  <2> HIDE DEF delta
  <2> QED
    BY <1>3, EndorsementBalances
<1>5. /\ policy_events' = policy_events \union {NewEvent(s)}
      /\ billing_documents' = billing_documents \union {document}
      /\ policies' = [policies EXCEPT ![c.policy_id] =
           [annual_premium_cents |-> c.new_annual_premium_cents, updated_at |-> tx[s].started]]
      /\ End(s, outcome)
  BY <1>4 DEF CommitEndorsement, RecordEvent, PremiumAfter
<1>6. /\ document.policy_event_id = tx[s].event_id /\ document.amount_cents = delta
      /\ outcome.code = "applied" /\ outcome.premium = c.new_annual_premium_cents
      /\ outcome.amount = delta
  OBVIOUS
<1>7. \A q \in PolicyIds : policies'[q].annual_premium_cents =
        IF q = c.policy_id THEN PremiumLeft(s) ELSE policies[q].annual_premium_cents
  BY <1>1, <1>2, <1>5 DEF PremiumLeft, BillingInv, TypeOK
<1> HIDE DEF delta, entries, document, outcome
<1>8. Serves /\ Ruled(tx'[s]) /\ \A o \in Sessions \ {s} : tx'[o] = tx[o]
  BY <1>1, <1>2, <1>5, <1>6, ServesCommit
<1>9. ServiceInv'
  BY <1>1, <1>2, <1>5, <1>6, <1>7, <1>8, ServiceCommit
<1> QED
  BY <1>8, <1>9

LEMMA ServesCommitPayment ==
  ASSUME BillingInv, RowsInv, PremiumInv, ServiceInv, NEW s \in Sessions, CommitPayment(s)
  PROVE  ServiceInv' /\ Serves
<1> DEFINE c == tx[s].call
           entries == PaymentEntries(nextval.transaction, c.amount_cents)
           payment == [id |-> nextval.payment, policy_id |-> c.policy_id,
                       policy_event_id |-> tx[s].event_id,
                       external_payment_id |-> c.external_payment_id,
                       amount_cents |-> c.amount_cents, created_at |-> tx[s].started]
           outcome == [code |-> "applied", premium |-> 0,
                       id |-> nextval.payment, amount |-> c.amount_cents]
<1>1. /\ tx[s].pc = "inserted" /\ ~ IsEndorsement(c)
      /\ policies' = policies /\ billing_documents' = billing_documents
  BY DEF CommitPayment
<1>2. /\ c \in Calls /\ c.policy_id \in PolicyIds
      /\ Service!Verdict(c, LogOf(c.policy_id)) = Service!Told("applied", 0, c.amount_cents)
      /\ Service!Charge(c, policies[c.policy_id].annual_premium_cents) = c.amount_cents
  BY <1>1, CommitVerdict
<1>3. c.amount_cents \in Int
  BY <1>1, <1>2, CallKinds, CallsAssumption
<1>4. Balanced(entries)
  BY <1>3, PaymentBalances
<1>5. /\ policy_events' = policy_events \union {NewEvent(s)}
      /\ payments' = payments \union {payment}
      /\ End(s, outcome)
  BY <1>4 DEF CommitPayment, RecordEvent
<1>6. /\ payment.policy_event_id = tx[s].event_id /\ payment.amount_cents = c.amount_cents
      /\ outcome.code = "applied" /\ outcome.premium = 0 /\ outcome.amount = c.amount_cents
  OBVIOUS
<1>7. \A q \in PolicyIds : policies'[q].annual_premium_cents =
        IF q = c.policy_id THEN PremiumLeft(s) ELSE policies[q].annual_premium_cents
  BY <1>1 DEF PremiumLeft
<1> HIDE DEF entries, payment, outcome
<1>8. Serves /\ Ruled(tx'[s]) /\ \A o \in Sessions \ {s} : tx'[o] = tx[o]
  BY <1>1, <1>2, <1>5, <1>6, ServesCommit
<1>9. ServiceInv'
  BY <1>1, <1>2, <1>5, <1>6, <1>7, <1>8, ServiceCommit
<1> QED
  BY <1>8, <1>9

LEMMA ServesStep ==
  ASSUME BillingInv, RowsInv, PremiumInv, ServiceInv, Next
  PROVE  ServiceInv' /\ Serves
<1> PICK s \in Sessions : \/ \E c \in Calls : Begin(s, c)
                          \/ LockPolicy(s)
                          \/ Statement(s)
                          \/ Abort(s)
                          \/ Disconnect(s)
                          \/ Reply(s)
  BY DEF Next
<1>t. tx[s] \in TxStates /\ Ruled(tx[s])
  BY StepTypes DEF ServiceInv
<1>1. CASE \E c \in Calls : Begin(s, c)
  <2> PICK c \in Calls : Begin(s, c)
    BY <1>1
  <2> DEFINE new == Fresh("begun", c, clock + 1, TRUE, NoOutcome)
  <2>1. /\ tx' = [tx EXCEPT ![s] = new] /\ new.pc = "begun" /\ new.call = c /\ Ruled(new)
        /\ tx[s].pc = "idle" /\ UNCHANGED tables
    BY DEF Begin, Fresh, Ruled, Writing
  <2> HIDE DEF new
  <2>2. ServiceInv'
    BY <2>1, SessionShows, ServiceUntouched DEF tables
  <2>3. Serves
    BY <2>1, ShowsInvoke DEF tables
  <2> QED
    BY <2>2, <2>3
<1>2. CASE LockPolicy(s)
  <2> DEFINE new == [tx[s] EXCEPT !.pc = "locked",
                       !.old_premium = policies[tx[s].call.policy_id].annual_premium_cents]
  <2>1. tx' = [tx EXCEPT ![s] = new] /\ UNCHANGED tables /\ tx[s].pc = "begun"
    BY <1>2 DEF LockPolicy
  <2>2. new.pc = "locked" /\ new.call = tx[s].call
    BY <1>t DEF TxStates
  <2> HIDE DEF new
  <2> QED
    BY <2>1, <2>2, ServesQuietly DEF VerdictOf, Ruled, Writing
<1>3. CASE AcceptCall(s)
  <2> DEFINE new == [tx[s] EXCEPT !.pc = "accepted"]
  <2>1. /\ tx' = [tx EXCEPT ![s] = new] /\ UNCHANGED tables /\ tx[s].pc = "locked"
        /\ RejectionOf(tx[s].call, tx[s].old_premium) = "none"
    BY <1>3 DEF AcceptCall
  <2>2. new.pc = "accepted" /\ new.call = tx[s].call /\ new.old_premium = tx[s].old_premium
    BY <1>t DEF TxStates
  <2> HIDE DEF new
  <2> QED
    BY <2>1, <2>2, ServesQuietly DEF VerdictOf, Ruled, Writing
<1>4. CASE ReadChainHead(s)
  <2> DEFINE new == [tx[s] EXCEPT !.pc = "chained",
                       !.previous_hash = HeadHash(EventsOf(tx[s].call.policy_id))]
  <2>1. tx' = [tx EXCEPT ![s] = new] /\ UNCHANGED tables /\ tx[s].pc = "accepted"
    BY <1>4 DEF ReadChainHead
  <2>2. new.pc = "chained" /\ new.call = tx[s].call /\ new.old_premium = tx[s].old_premium
    BY <1>t DEF TxStates
  <2> HIDE DEF new
  <2> QED
    BY <1>t, <2>1, <2>2, ServesQuietly DEF VerdictOf, Ruled, Writing
<1>5. CASE InsertEvent(s)
  <2> DEFINE new == [tx[s] EXCEPT !.pc = "inserted", !.event_id = nextval.event]
  <2>1. Earlier(tx[s].call) = {} /\ tx[s].pc = "chained"
    BY <1>5 DEF InsertEvent, BillingInv, SessionConsistent, Writing
  <2>2. tx' = [tx EXCEPT ![s] = new] /\ UNCHANGED tables
    BY <1>5, <2>1 DEF InsertEvent
  <2>3. new.pc = "inserted" /\ new.call = tx[s].call /\ new.old_premium = tx[s].old_premium
    BY <1>t DEF TxStates
  <2> HIDE DEF new
  <2> QED
    BY <1>t, <2>1, <2>2, <2>3, ServesQuietly DEF VerdictOf, Ruled, Writing
<1>6. CASE PolicyNotFound(s) \/ RejectConflict(s) \/ RejectCall(s) \/ AnswerReplay(s)
  BY <1>6, ServesRejections
<1>7. CASE CommitEndorsement(s)
  BY <1>7, ServesCommitEndorsement
<1>8. CASE CommitPayment(s)
  BY <1>8, ServesCommitPayment
<1>9. CASE Disconnect(s)
  <2> DEFINE new == [tx[s] EXCEPT !.served = FALSE]
  <2>1. tx' = [tx EXCEPT ![s] = new] /\ UNCHANGED tables
    BY <1>9 DEF Disconnect
  <2>2. /\ new.pc = tx[s].pc /\ new.call = tx[s].call /\ new.old_premium = tx[s].old_premium
        /\ new.result = tx[s].result
    BY <1>t DEF TxStates
  <2> HIDE DEF new
  <2> QED
    BY <1>t, <2>1, <2>2, ServesQuietly DEF VerdictOf, Ruled, Writing
<1>10. CASE Abort(s) \/ Reply(s)
  <2>1. /\ tx' = [tx EXCEPT ![s] = IdleTx] /\ UNCHANGED tables /\ tx[s].pc # "idle"
    BY <1>10 DEF Abort, Reply
  <2>2. Ruled(IdleTx)
    BY DEF IdleTx, Fresh, Ruled, Writing
  <2> HIDE DEF IdleTx
  <2>3. ServiceInv'
    BY <2>1, <2>2, SessionShows, ServiceUntouched DEF tables
  <2>4. Serves
    BY <2>1, ShowsClose DEF tables
  <2> QED
    BY <2>3, <2>4
<1> QED
  BY <1>1, <1>2, <1>3, <1>4, <1>5, <1>6, <1>7, <1>8, <1>9, <1>10 DEF Statement

LEMMA ServiceStarts ==
  ASSUME Init
  PROVE  ServiceInv /\ Service!ServiceInit
<1>1. ASSUME NEW p \in PolicyIds
      PROVE  /\ RowsOf(p, policy_events) = {} /\ ChainOf(p, policy_events) = << >>
             /\ ReadChain(<< >>) = << >>
  BY DEF Init, RowsOf, ChainOf, HeadHash, GenesisHash, ReadChain
<1>2. \A p \in PolicyIds : ReadsAs(RowsOf(p, policy_events), ChainOf(p, policy_events))
  BY <1>1 DEF ReadsAs
<1>3. \A p \in PolicyIds :
        /\ policies[p].annual_premium_cents = PremiumOn(p, ChainOf(p, policy_events))
        /\ policies[p].annual_premium_cents <= MaxBigint
  BY <1>1, PremiumAtFirst, ColumnsAssumption DEF Init, PremiumOn
<1>4. \A s \in Sessions : tx[s] = IdleTx /\ Ruled(tx[s])
  BY DEF Init, IdleTx, Fresh, Ruled, Writing
<1>5. ServiceInv
  BY <1>2, <1>3, <1>4 DEF Init, ServiceInv, RowsCharge
<1>6. TheLog = [p \in DOMAIN Seed |-> << >>]
  BY <1>1, TheLogIs DEF LogOf, PolicyIds
<1>7. /\ TheRequests = [s \in Sessions |-> NoCall]
      /\ TheVerdicts = [s \in Sessions |-> Service!Pending]
  BY <1>4 DEF TheRequests, TheVerdicts, VerdictOf, IdleTx, Fresh, Service!Pending, Service!Told
<1>8. Service!ServiceInit
  BY <1>6, <1>7 DEF Service!ServiceInit, TheLog, TheRequests, TheVerdicts, VerdictOf
<1> QED
  BY <1>5, <1>8

(* The concurrent functions are linearizable: whatever the sessions, the    *)
(* policies and the calls, every behaviour is one of the service that       *)
(* decides one call at a time.                                              *)
THEOREM Linearizable == Spec => RefinesService
<1>1. Init => RowsInv /\ PremiumInv /\ ServiceInv /\ Service!ServiceInit
  BY PremiumStarts, ServiceStarts
<1>2. BillingInv /\ RowsInv /\ PremiumInv /\ ServiceInv /\ [Next]_vars
        => /\ RowsInv' /\ PremiumInv' /\ ServiceInv'
           /\ [Service!ServiceNext]_Service!serviceVars
  <2> SUFFICES ASSUME BillingInv, RowsInv, PremiumInv, ServiceInv, [Next]_vars
               PROVE  RowsInv' /\ PremiumInv' /\ ServiceInv' /\ Serves
    BY DEF Serves
  <2>1. CASE UNCHANGED vars
    <3>1. RowsInv' /\ PremiumInv'
      BY <2>1, PremiumStutters
    <3>2. ServiceInv'
      BY <2>1 DEF vars, tables, ServiceInv, ReadsAs, LinkedTo, Records, SameKey, RowsCharge,
         ChargedFor, Ruled
    <3>3. TheLog' = TheLog /\ TheRequests' = TheRequests /\ TheVerdicts' = TheVerdicts
      BY <2>1, LogUnchanged DEF vars, tables, TheRequests, TheVerdicts, VerdictOf
    <3>4. Serves
      BY <3>3 DEF Serves, Service!serviceVars, TheLog, TheRequests, TheVerdicts, VerdictOf
    <3> QED
      BY <3>1, <3>2, <3>4
  <2>2. CASE Next
    BY <2>2, StepMoves, RowsStep, PremiumStep, ServesStep
  <2> QED
    BY <2>1, <2>2
<1> QED
  BY <1>1, <1>2, BillingInvariant, PTL DEF Spec, RefinesService, Service!ServiceSpec

-----------------------------------------------------------------------------
(* EndorsementSequence: cents over many endorsements of one policy *)

(* Cents stay integers: no step of the arithmetic leaves its type. *)
THEOREM SequenceTypeCorrect == SequenceSpec => []SequenceTypeOK
<1>1. SequenceInit => SequenceTypeOK
  BY PremiumAssumption DEF SequenceInit, SequenceTypeOK
<1>2. SequenceTypeOK /\ [SequenceNext]_sequenceVars => SequenceTypeOK'
  <2> SUFFICES ASSUME SequenceTypeOK, [SequenceNext]_sequenceVars PROVE SequenceTypeOK'
    OBVIOUS
  <2>1. CASE UNCHANGED sequenceVars
    BY <2>1 DEF sequenceVars, SequenceTypeOK
  <2>2. CASE SequenceNext
    <3> PICK new \in Premiums, remaining \in 0 .. TermDays : Endorse(new, remaining)
      BY <2>2 DEF SequenceNext
    <3>1. new \in Nat /\ remaining \in Int /\ TermDays > 0
      BY PremiumAssumption, TermAssumption
    <3>2. Numerator(annual_premium_cents, new, remaining) \in Int
      BY <3>1 DEF Numerator, SequenceTypeOK
    <3>3. DeltaCents(annual_premium_cents, new, remaining, TermDays) \in Int
      BY <3>1, <3>2, TermAssumption, RoundHalfAwayNearest DEF DeltaCents
    <3> QED
      BY <3>1, <3>2, <3>3 DEF Endorse, SequenceTypeOK
  <2> QED
    BY <2>1, <2>2
<1> QED
  BY <1>1, <1>2, PTL DEF SequenceSpec

(* After k endorsements, in any order and on any dates of the term, the     *)
(* billed sum is within k/2 cents of the exact prorated premium.            *)
THEOREM DriftIsBounded == SequenceSpec => []DriftBounded
<1>1. SequenceInit => DriftBounded
  <2>1. TermDays * 0 = 0 /\ 0 * TermDays = 0
    BY TermAssumption
  <2> QED
    BY <2>1 DEF SequenceInit, DriftBounded, Distance
<1>2. SequenceTypeOK /\ DriftBounded /\ [SequenceNext]_sequenceVars => DriftBounded'
  <2> SUFFICES ASSUME SequenceTypeOK, DriftBounded, [SequenceNext]_sequenceVars PROVE DriftBounded'
    OBVIOUS
  <2>1. CASE UNCHANGED sequenceVars
    BY <2>1 DEF sequenceVars, DriftBounded
  <2>2. CASE SequenceNext
    <3> PICK new \in Premiums, remaining \in 0 .. TermDays : Endorse(new, remaining)
      BY <2>2 DEF SequenceNext
    <3> DEFINE n == Numerator(annual_premium_cents, new, remaining)
               delta == DeltaCents(annual_premium_cents, new, remaining, TermDays)
    <3>1. TermDays \in Nat /\ TermDays > 0 /\ billed \in Int /\ exact \in Int /\ steps \in Nat
      BY TermAssumption DEF SequenceTypeOK
    <3>2. n \in Int
      BY PremiumAssumption DEF Numerator, SequenceTypeOK
    <3>3. delta \in Int /\ 2 * Distance(delta * TermDays, n) <= TermDays
      BY <3>1, <3>2, RoundHalfAwayNearest DEF DeltaCents
    <3>4. billed' = billed + delta /\ exact' = exact + n /\ steps' = steps + 1
      BY DEF Endorse
    <3> HIDE DEF n, delta
    <3>5. /\ (billed + delta) * TermDays = billed * TermDays + delta * TermDays
          /\ TermDays * (steps + 1) = TermDays * steps + TermDays
      BY <3>1, <3>3, SMT
    <3>6. /\ billed * TermDays \in Int /\ delta * TermDays \in Int
          /\ TermDays * steps \in Nat
      BY <3>1, <3>3
    <3>7. Distance(billed * TermDays + delta * TermDays, exact + n)
            <= Distance(billed * TermDays, exact) + Distance(delta * TermDays, n)
      BY <3>1, <3>2, <3>6, DistanceAdds
    <3>8. 2 * Distance(billed * TermDays, exact) <= TermDays * steps
      BY DEF DriftBounded
    <3>9. /\ Distance(billed * TermDays + delta * TermDays, exact + n) \in Int
          /\ Distance(billed * TermDays, exact) \in Int
          /\ Distance(delta * TermDays, n) \in Int
      BY <3>1, <3>2, <3>6 DEF Distance
    <3>10. 2 * Distance(billed * TermDays + delta * TermDays, exact + n)
             <= TermDays * steps + TermDays
      BY <3>1, <3>3, <3>6, <3>7, <3>8, <3>9
    <3> QED
      BY <3>4, <3>5, <3>10 DEF DriftBounded
  <2> QED
    BY <2>1, <2>2
<1> QED
  BY <1>1, <1>2, SequenceTypeCorrect, PTL DEF SequenceSpec

(* Undoing a premium change on its own date bills exactly its opposite. *)
THEOREM ReversalsCancel == SequenceSpec => []ReversalCancels
<1>1. SequenceTypeOK => ReversalCancels
  <2> SUFFICES ASSUME SequenceTypeOK, NEW new \in Premiums, NEW remaining \in 0 .. TermDays
               PROVE  DeltaCents(annual_premium_cents, new, remaining, TermDays)
                        + DeltaCents(new, annual_premium_cents, remaining, TermDays) = 0
    BY DEF ReversalCancels
  <2> DEFINE n == Numerator(annual_premium_cents, new, remaining)
  <2>1. annual_premium_cents \in Nat /\ new \in Nat /\ remaining \in Int
        /\ TermDays \in Nat /\ TermDays > 0
    BY PremiumAssumption, TermAssumption DEF SequenceTypeOK
  <2>2. n \in Int /\ Numerator(new, annual_premium_cents, remaining) = -n
    BY <2>1, SMT DEF Numerator
  <2>3. RoundHalfAway(-n, TermDays) = -RoundHalfAway(n, TermDays)
    BY <2>1, <2>2, RoundHalfAwayOdd
  <2>4. RoundHalfAway(n, TermDays) \in Int
    BY <2>1, <2>2, RoundHalfAwayNearest
  <2> QED
    BY <2>2, <2>3, <2>4 DEF DeltaCents
<1> QED
  BY <1>1, SequenceTypeCorrect, PTL

(* Every endorsement bills between nothing and the whole premium change. *)
THEOREM StepsBillWithinChange == SequenceSpec => BillsWithinChange
<1> DEFINE Within == LET change == annual_premium_cents' - annual_premium_cents
                         delta == billed' - billed
                     IN \/ 0 <= delta /\ delta <= change
                        \/ change <= delta /\ delta <= 0
<1>1. SequenceTypeOK /\ [SequenceNext]_sequenceVars => [Within]_sequenceVars
  <2> SUFFICES ASSUME SequenceTypeOK, SequenceNext PROVE Within
    OBVIOUS
  <2> PICK new \in Premiums, remaining \in 0 .. TermDays : Endorse(new, remaining)
    BY DEF SequenceNext
  <2> DEFINE d == DeltaCents(annual_premium_cents, new, remaining, TermDays)
  <2>1. /\ annual_premium_cents \in Nat /\ new \in Nat /\ billed \in Int
        /\ TermDays \in Nat /\ TermDays > 0
    BY PremiumAssumption, TermAssumption DEF SequenceTypeOK
  <2>2. \/ 0 <= d /\ d <= new - annual_premium_cents
        \/ new - annual_premium_cents <= d /\ d <= 0
    BY <2>1, DeltaWithinChange
  <2>3. d \in Int
    <3>1. Numerator(annual_premium_cents, new, remaining) \in Int
      BY <2>1 DEF Numerator
    <3> QED
      BY <2>1, <3>1, RoundHalfAwayNearest DEF DeltaCents
  <2>4. annual_premium_cents' = new /\ billed' = billed + d
    BY DEF Endorse
  <2> HIDE DEF d
  <2> QED
    BY <2>1, <2>2, <2>3, <2>4
<1> QED
  BY <1>1, SequenceTypeCorrect, PTL DEF SequenceSpec, BillsWithinChange
=============================================================================
