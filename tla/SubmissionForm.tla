---------------------------- MODULE SubmissionForm ----------------------------
(***************************************************************************)
(* A form of the page, EndorsementForm or PaymentForm, with its hooks: the *)
(* states of a submission, the life of the idempotency key, the reset, and *)
(* the API as the form sees it.  Attempts whose answer the form no longer  *)
(* waits for may still reach the API, in any order.                        *)
(***************************************************************************)
EXTENDS Integers

CONSTANTS Entries,      \* what the operator can type into the other fields
          Invalid,      \* those the API refuses: a field, or a business rule
          NoEntry,      \* fields that are empty, and a key without an event
          MaxKeys,      \* bound: keys generated in a behaviour
          MaxAttempts   \* bound: submissions in a behaviour

ASSUME EntryAssumption == Invalid \subseteq Entries /\ NoEntry \notin Entries
ASSUME BoundAssumption == MaxKeys \in Nat \ {0} /\ MaxAttempts \in Nat

NoKey == 0
Keys == 1 .. MaxKeys

VARIABLES mounted,     \* the page shows the form
          status,      \* state.status of the submission hook
          key, entry,  \* idempotencyKey and the other fields
          generated,   \* keys generated so far: 1 .. generated
          submitted,   \* the key and the entry of the latest submission
          awaited,     \* attempt the hook awaits, 0 for none
          attempts,    \* submissions so far, numbered from 1
          requests,    \* attempts on their way to the API, or answered by it
          recorded,    \* per key: the entry that took effect under it
          told,        \* keys the operator was shown a success for
          abandoned    \* keys that left the form otherwise: overwritten or unmounted

formVars == <<mounted, status, key, entry, submitted, awaited, abandoned>>
vars == <<formVars, generated, attempts, requests, recorded, told>>

-----------------------------------------------------------------------------
(* useIdempotencyKey generates a key when a form is mounted. *)
Init ==
  /\ mounted = TRUE
  /\ status = "idle"
  /\ key = 1 /\ generated = 1
  /\ entry = NoEntry
  /\ submitted = [key |-> NoKey, entry |-> NoEntry]
  /\ awaited = 0
  /\ attempts = 0
  /\ requests = {}
  /\ recorded = [k \in Keys |-> NoEntry]
  /\ told = {}
  /\ abandoned = {}

(* Inputs are disabled while a submission is in flight. *)
Editable == mounted /\ status # "loading"

Edit(e) ==
  /\ Editable
  /\ entry' = e
  /\ UNCHANGED <<mounted, status, key, submitted, awaited, abandoned,
                 generated, attempts, requests, recorded, told>>

(* The operator clears the key or types one seen before. *)
EditKey(k) ==
  /\ Editable
  /\ k \in NoKey .. generated /\ k # key
  /\ key' = k
  /\ abandoned' = abandoned \union {key}
  /\ UNCHANGED <<mounted, status, entry, submitted, awaited,
                 generated, attempts, requests, recorded, told>>

(* handleSubmit, past its local checks, and submit() up to its await. *)
Submit ==
  /\ Editable
  /\ key # NoKey /\ entry # NoEntry
  /\ attempts < MaxAttempts
  /\ attempts' = attempts + 1
  /\ status' = "loading"
  /\ submitted' = [key |-> key, entry |-> entry]
  /\ awaited' = attempts + 1
  /\ requests' = requests \union
       {[id |-> attempts + 1, key |-> key, entry |-> entry, answer |-> "none"]}
  /\ UNCHANGED <<mounted, key, entry, abandoned, generated, recorded, told>>

(* Mutant of Decision: the prior payload is not compared. *)
DecisionByKey(q) ==
  IF q.entry \in Invalid THEN "refused"
  ELSE IF recorded[q.key] = NoEntry THEN "applied" ELSE "duplicate_ignored"

(* What the API decides about an attempt.  A field or a business rule       *)
(* refuses it, or the key was used for another entry (idempotency_conflict): *)
(* classifyError treats these alike, whichever is checked first.            *)
Decision(q) ==
  IF q.entry = recorded[q.key] THEN "duplicate_ignored"
  ELSE IF q.entry \in Invalid \/ recorded[q.key] # NoEntry THEN "refused"
  ELSE "applied"

Answered(q, answer) == (requests \ {q}) \union {[q EXCEPT !.answer = answer]}

(* The API decides the call. *)
Decide(q) ==
  /\ q.answer = "none"
  /\ requests' = Answered(q, Decision(q))
  /\ recorded' = IF Decision(q) = "applied"
                 THEN [recorded EXCEPT ![q.key] = q.entry] ELSE recorded
  /\ UNCHANGED <<formVars, generated, attempts, told>>

(* 401, 404, 429 or 500 without any effect. *)
Decline(q) ==
  /\ q.answer = "none"
  /\ requests' = Answered(q, "declined")
  /\ UNCHANGED <<formVars, generated, attempts, recorded, told>>

(* An attempt nobody waits for gets lost, or its answer reaches nobody. *)
Drop(q) ==
  /\ q.id # awaited
  /\ requests' = requests \ {q}
  /\ UNCHANGED <<formVars, generated, attempts, recorded, told>>

(* classifyError, and the two ways to succeed. *)
StatusOf(answer) ==
  CASE answer \in {"applied", "duplicate_ignored"} -> "success"
    [] answer = "refused" -> "validation_error"
    [] OTHER -> "server_error"

(* submit() resumes with the answer. *)
Deliver(q) ==
  /\ q.id = awaited
  /\ q.answer # "none"
  /\ requests' = requests \ {q}
  /\ awaited' = 0
  /\ status' = StatusOf(q.answer)
  /\ told' = IF status' = "success" THEN told \union {q.key} ELSE told
  /\ UNCHANGED <<mounted, key, entry, submitted, abandoned, generated, attempts, recorded>>

(* fetch rejects; the API may have the request all the same. *)
ConnectionFails ==
  /\ awaited # 0
  /\ awaited' = 0
  /\ status' = "server_error"
  /\ UNCHANGED <<mounted, key, entry, submitted, abandoned,
                 generated, attempts, requests, recorded, told>>

(* Mutant of Resettable: every answer arms the timer. *)
AfterAnyAnswer == {"success", "validation_error", "server_error"}

(* Where there is a reset button, and a timer that presses it. *)
Resettable == {"success"}

(* handleReset *)
Reset ==
  /\ mounted
  /\ status \in Resettable
  /\ generated < MaxKeys
  /\ generated' = generated + 1
  /\ key' = generated + 1
  /\ entry' = NoEntry
  /\ status' = "idle"
  /\ UNCHANGED <<mounted, submitted, awaited, abandoned, attempts, requests, recorded, told>>

(* A GET of the page fails: the error replaces the forms. *)
Unmount ==
  /\ mounted
  /\ mounted' = FALSE
  /\ awaited' = 0
  /\ abandoned' = abandoned \union {key}
  /\ UNCHANGED <<status, key, entry, submitted, generated, attempts, requests, recorded, told>>

(* The operator loads the page again. *)
Mount ==
  /\ ~ mounted
  /\ generated < MaxKeys
  /\ mounted' = TRUE
  /\ generated' = generated + 1
  /\ key' = generated + 1
  /\ entry' = NoEntry
  /\ status' = "idle"
  /\ UNCHANGED <<submitted, awaited, abandoned, attempts, requests, recorded, told>>

Next ==
  \/ \E e \in Entries : Edit(e)
  \/ \E k \in NoKey .. MaxKeys : EditKey(k)
  \/ Submit
  \/ \E q \in requests : Decide(q) \/ Decline(q) \/ Drop(q) \/ Deliver(q)
  \/ ConnectionFails
  \/ Reset
  \/ Unmount
  \/ Mount

Spec == Init /\ [][Next]_vars

-----------------------------------------------------------------------------
(* Properties *)

Statuses == {"idle", "loading", "success", "validation_error", "server_error"}
AnswerCodes ==
  {"none", "applied", "duplicate_ignored", "refused", "declined"}
Requests == [id : 1 .. attempts, key : Keys, entry : Entries, answer : AnswerCodes]

(* Type invariant. *)
TypeOK ==
  /\ mounted \in BOOLEAN
  /\ status \in Statuses
  /\ generated \in Keys
  /\ key \in NoKey .. generated
  /\ entry \in Entries \union {NoEntry}
  /\ submitted \in [key : NoKey .. generated, entry : Entries \union {NoEntry}]
  /\ attempts \in 0 .. MaxAttempts
  /\ awaited \in 0 .. attempts
  /\ requests \subseteq Requests
  /\ recorded \in [Keys -> Entries \union {NoEntry}]
  /\ told \subseteq Keys
  /\ abandoned \subseteq NoKey .. generated

(* Money that took effect without the operator being shown is still under   *)
(* the key in the form, so pressing submit again cannot double it, unless   *)
(* the operator overwrote the key or the page unmounted the form.           *)
UnseenEffectKeepsItsKey ==
  \A k \in Keys : recorded[k] # NoEntry => k \in told \union abandoned \union {key}

(* A success panel means that the entry as submitted took effect under its  *)
(* key, a validation error that it did not and no attempt on its way will   *)
(* make it: the operator may correct the fields and submit.                 *)
StatusTellsTheTruth ==
  /\ status = "success" => recorded[submitted.key] = submitted.entry
  /\ status = "validation_error" =>
       /\ recorded[submitted.key] # submitted.entry
       /\ \A q \in requests :
            q.key = submitted.key /\ q.entry = submitted.entry /\ q.answer = "none"
            => Decision(q) # "applied"

(* Entry e can no longer take effect under key k. *)
Ruled(k, e) == e \in Invalid \/ recorded[k] \notin {NoEntry, e}

(* An attempt on its way: a key of the form, and an answer that holds. *)
RequestConsistent(q) ==
  /\ q.key <= generated
  /\ q.answer \in {"applied", "duplicate_ignored"} => recorded[q.key] = q.entry
  /\ q.answer = "refused" => Ruled(q.key, q.entry)

(* The attempt the hook awaits is the latest submission, of the form as it   *)
(* stands, its inputs being disabled.                                        *)
AwaitedConsistent ==
  awaited # 0 =>
    /\ mounted
    /\ status = "loading"
    /\ submitted.key = key
    /\ \A q \in requests :
         q.id = awaited => q.key = submitted.key /\ q.entry = submitted.entry

(* A key only leaves the form once it was shown a success, was overwritten,  *)
(* or went with the form; until then it is in the form.                      *)
KeyConsistent ==
  /\ 1 .. generated \subseteq told \union abandoned \union {key}
  /\ status = "success" => key \in told \union abandoned \union {NoKey}
  /\ ~ mounted => key \in abandoned
  /\ \A k \in Keys : recorded[k] # NoEntry => k <= generated

(* The inductive invariant behind the theorems. *)
FormInv ==
  /\ TypeOK
  /\ AwaitedConsistent
  /\ KeyConsistent
  /\ \A q \in requests : RequestConsistent(q)
  /\ \A k \in Keys : recorded[k] \notin Invalid
  /\ status # "idle" => submitted \in [key : Keys, entry : Entries]
  /\ status = "success" => recorded[submitted.key] = submitted.entry
  /\ status = "validation_error" => Ruled(submitted.key, submitted.entry)
=============================================================================
