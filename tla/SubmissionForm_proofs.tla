------------------------- MODULE SubmissionForm_proofs -------------------------
(***************************************************************************)
(* FormInv holds in every state of a form, for any entries, any number of  *)
(* keys and any number of attempts on their way.                           *)
(***************************************************************************)
EXTENDS SubmissionForm, TLAPS

LEMMA InitConsistent == Init => FormInv
<1> SUFFICES ASSUME Init PROVE FormInv
  OBVIOUS
<1>1. TypeOK
  BY BoundAssumption DEF Init, TypeOK, Statuses, Keys, NoKey
<1>2. AwaitedConsistent  BY DEF Init, AwaitedConsistent
<1>3. KeyConsistent  BY DEF Init, KeyConsistent, Keys
<1> QED  BY <1>1, <1>2, <1>3, EntryAssumption DEF Init, FormInv

-----------------------------------------------------------------------------
(* Steps of the operator and the page: nothing the API holds changes. *)

LEMMA EditConsistent ==
  ASSUME FormInv, NEW e \in Entries, Edit(e)
  PROVE  FormInv'
BY DEF FormInv, Edit, Editable, TypeOK, AwaitedConsistent, KeyConsistent, RequestConsistent,
       Ruled, Requests

LEMMA EditKeyConsistent ==
  ASSUME FormInv, NEW k \in NoKey .. MaxKeys, EditKey(k)
  PROVE  FormInv'
<1> USE DEF FormInv, EditKey, Editable
<1>1. TypeOK'  BY DEF TypeOK, Requests
<1>2. AwaitedConsistent'  BY DEF AwaitedConsistent
<1>3. KeyConsistent'
  BY BoundAssumption DEF KeyConsistent, TypeOK, Keys, NoKey
<1> QED  BY <1>1, <1>2, <1>3 DEF RequestConsistent, Ruled

LEMMA SubmitConsistent ==
  ASSUME FormInv, Submit
  PROVE  FormInv'
<1> USE DEF FormInv, Submit, Editable
<1> DEFINE new == [id |-> attempts + 1, key |-> key, entry |-> entry, answer |-> "none"]
<1>1. /\ attempts \in Nat /\ MaxAttempts \in Nat /\ generated \in Nat
      /\ key \in Keys /\ key <= generated /\ entry \in Entries
  BY BoundAssumption DEF TypeOK, Keys, NoKey
<1>2. \A q \in requests : q \in Requests /\ q.id \in 1 .. attempts
  BY DEF TypeOK, Requests
<1>3. TypeOK'
  <2>1. Requests \subseteq Requests'  BY <1>1 DEF Requests
  <2>2. new \in Requests'  BY <1>1 DEF Requests, AnswerCodes
  <2>3. requests' \subseteq Requests'  BY <1>2, <2>1, <2>2
  <2> QED  BY <1>1, <2>3 DEF TypeOK, Statuses, Keys
<1>4. AwaitedConsistent'  BY <1>1, <1>2 DEF AwaitedConsistent
<1>5. KeyConsistent'  BY DEF KeyConsistent
<1>6. ASSUME NEW q \in requests' PROVE RequestConsistent(q)'
  <2>1. CASE q \in requests  BY <2>1 DEF RequestConsistent, Ruled
  <2>2. CASE q = new  BY <1>1, <2>2 DEF RequestConsistent
  <2> QED  BY <2>1, <2>2
<1> QED  BY <1>1, <1>3, <1>4, <1>5, <1>6

LEMMA ConnectionFailsConsistent ==
  ASSUME FormInv, ConnectionFails
  PROVE  FormInv'
<1> USE DEF FormInv, ConnectionFails
<1>1. TypeOK'  BY DEF TypeOK, Requests, Statuses
<1>2. AwaitedConsistent'  BY DEF AwaitedConsistent
<1>3. KeyConsistent'  BY DEF KeyConsistent
<1> QED  BY <1>1, <1>2, <1>3 DEF RequestConsistent, Ruled, AwaitedConsistent

(* A form begins anew with the next key. *)
LEMMA NextKeyConsistent ==
  ASSUME FormInv,
         generated < MaxKeys, generated' = generated + 1, key' = generated + 1,
         key \in told \union abandoned \union {NoKey},
         entry' = NoEntry, status' = "idle", awaited = 0, mounted' = TRUE,
         UNCHANGED <<submitted, awaited, abandoned, attempts, requests, recorded, told>>
  PROVE  FormInv'
<1> USE DEF FormInv
<1>1. generated \in Nat /\ MaxKeys \in Nat  BY BoundAssumption DEF TypeOK, Keys
<1>2. TypeOK'  BY <1>1 DEF TypeOK, Requests, Statuses, Keys, NoKey
<1>3. AwaitedConsistent'  BY DEF AwaitedConsistent
<1>4. KeyConsistent'
  BY <1>1 DEF KeyConsistent, TypeOK, Keys, NoKey
<1>5. \A q \in requests' : RequestConsistent(q)'
  BY <1>1 DEF RequestConsistent, Ruled, TypeOK, Requests, Keys
<1> QED  BY <1>2, <1>3, <1>4, <1>5

LEMMA ResetConsistent ==
  ASSUME FormInv, Reset
  PROVE  FormInv'
<1>1. status = "success" /\ mounted = TRUE /\ awaited = 0
  BY DEF FormInv, Reset, Resettable, AwaitedConsistent, TypeOK
<1>2. key \in told \union abandoned \union {NoKey}
  BY <1>1 DEF FormInv, KeyConsistent
<1> QED  BY <1>1, <1>2, NextKeyConsistent DEF Reset

LEMMA MountConsistent ==
  ASSUME FormInv, Mount
  PROVE  FormInv'
<1>1. awaited = 0 /\ key \in abandoned
  BY DEF FormInv, Mount, AwaitedConsistent, KeyConsistent
<1> QED  BY <1>1, NextKeyConsistent DEF Mount

LEMMA UnmountConsistent ==
  ASSUME FormInv, Unmount
  PROVE  FormInv'
<1> USE DEF FormInv, Unmount
<1>1. TypeOK'
  <2>1. attempts \in Nat  BY BoundAssumption DEF TypeOK
  <2>2. awaited' \in 0 .. attempts'  BY <2>1
  <2> QED  BY <2>2 DEF TypeOK, Requests
<1>2. AwaitedConsistent'  BY DEF AwaitedConsistent
<1>3. KeyConsistent'  BY DEF KeyConsistent
<1> QED  BY <1>1, <1>2, <1>3 DEF RequestConsistent, Ruled

-----------------------------------------------------------------------------
(* Steps of the API. *)

(* What takes effect stays: answers given before still hold. *)
LEMMA DecideConsistent ==
  ASSUME FormInv, NEW q \in requests, Decide(q)
  PROVE  FormInv'
<1> USE DEF FormInv
<1> DEFINE m == [q EXCEPT !.answer = Decision(q)]
<1>1. /\ q \in Requests /\ q.key \in Keys /\ q.entry \in Entries /\ q.key <= generated
      /\ recorded \in [Keys -> Entries \union {NoEntry}]
      /\ NoEntry \notin Entries
  BY EntryAssumption DEF TypeOK, Requests, RequestConsistent
<1>2. /\ m \in Requests /\ m.id = q.id /\ m.key = q.key /\ m.entry = q.entry
      /\ m.answer = Decision(q) /\ requests' = (requests \ {q}) \union {m}
  BY <1>1 DEF Requests, AnswerCodes, Decision, Decide, Answered
<1>3. /\ recorded' \in [Keys -> Entries \union {NoEntry}]
      /\ \A k \in Keys : recorded[k] # NoEntry => recorded'[k] = recorded[k]
      /\ \A k \in Keys : recorded'[k] # recorded[k] =>
           k = q.key /\ recorded'[k] = q.entry /\ q.entry \notin Invalid
  BY <1>1 DEF Decide, Decision
<1>4. \A k \in Keys, e \in Entries :
        /\ recorded[k] = e => recorded'[k] = e
        /\ Ruled(k, e) => Ruled(k, e)'
  BY <1>1, <1>3 DEF Ruled
<1>5. TypeOK'  BY <1>2, <1>3 DEF TypeOK, Requests, Decide, formVars
<1>6. AwaitedConsistent'
  BY <1>2 DEF AwaitedConsistent, Decide, formVars
<1>7. KeyConsistent'
  BY <1>1, <1>3 DEF KeyConsistent, Decide, formVars
<1>8. ASSUME NEW p \in requests' PROVE RequestConsistent(p)'
  <2>1. CASE p \in requests
    <3>1. p.key \in Keys /\ p.entry \in Entries /\ RequestConsistent(p)
      BY <2>1 DEF TypeOK, Requests
    <3> QED  BY <1>4, <3>1 DEF RequestConsistent, Decide
  <2>2. CASE p = m
    <3>1. Decision(q) = "applied" => recorded'[q.key] = q.entry
      BY <1>1 DEF Decide
    <3>2. Decision(q) = "duplicate_ignored" => recorded'[q.key] = q.entry
      BY <1>1, <1>3 DEF Decision
    <3>3. Decision(q) = "refused" => Ruled(q.key, q.entry)'
      BY <1>1, <1>4 DEF Decision, Ruled
    <3> QED  BY <1>1, <1>2, <2>2, <3>1, <3>2, <3>3 DEF RequestConsistent, Decide, Ruled
  <2> QED  BY <1>2, <2>1, <2>2
<1>9. \A k \in Keys : recorded'[k] \notin Invalid  BY <1>3
<1>10. /\ status = "success" => recorded'[submitted.key] = submitted.entry
       /\ status = "validation_error" => Ruled(submitted.key, submitted.entry)'
  <2>1. status # "idle" => submitted.key \in Keys /\ submitted.entry \in Entries
    OBVIOUS
  <2>2. submitted' = submitted  BY DEF Decide, formVars
  <2> QED  BY <1>4, <2>1, <2>2
<1> QED  BY <1>5, <1>6, <1>7, <1>8, <1>9, <1>10 DEF Decide, formVars

(* One request is answered without effect, or gone: the rest stands. *)
LEMMA DeclineConsistent ==
  ASSUME FormInv, NEW q \in requests, Decline(q)
  PROVE  FormInv'
<1> USE DEF FormInv, Decline, formVars
<1> DEFINE m == [q EXCEPT !.answer = "declined"]
<1>1. /\ q \in Requests /\ m \in Requests /\ m.id = q.id /\ m.key = q.key
      /\ m.entry = q.entry /\ m.answer = "declined"
      /\ requests' = (requests \ {q}) \union {m}
  BY DEF TypeOK, Requests, AnswerCodes, Answered
<1>2. TypeOK'  BY <1>1 DEF TypeOK, Requests
<1>3. AwaitedConsistent'  BY <1>1 DEF AwaitedConsistent
<1>4. KeyConsistent'  BY DEF KeyConsistent
<1>5. \A p \in requests' : RequestConsistent(p)'
  BY <1>1 DEF RequestConsistent, Ruled
<1> QED  BY <1>2, <1>3, <1>4, <1>5 DEF Ruled

LEMMA DropConsistent ==
  ASSUME FormInv, NEW q \in requests, Drop(q)
  PROVE  FormInv'
BY DEF FormInv, Drop, formVars, TypeOK, Requests, AwaitedConsistent, KeyConsistent,
       RequestConsistent, Ruled

LEMMA DeliverConsistent ==
  ASSUME FormInv, NEW q \in requests, Deliver(q)
  PROVE  FormInv'
<1> USE DEF FormInv, Deliver
<1>1. /\ q \in Requests /\ q.key \in Keys /\ q.id = awaited /\ awaited # 0
  BY DEF TypeOK, Requests
<1>2. /\ mounted /\ status = "loading" /\ submitted.key = key
      /\ q.key = key /\ q.key = submitted.key /\ q.entry = submitted.entry
      /\ submitted \in [key : Keys, entry : Entries]
  BY <1>1 DEF AwaitedConsistent
<1>3. status' \in {"success", "validation_error", "server_error"}
  BY DEF StatusOf
<1>4. TypeOK'  BY <1>1, <1>3 DEF TypeOK, Requests, Statuses
<1>5. AwaitedConsistent'  BY DEF AwaitedConsistent
<1>6. KeyConsistent'  BY <1>2 DEF KeyConsistent
<1>7. \A p \in requests' : RequestConsistent(p)'
  BY DEF RequestConsistent, Ruled
<1>8. /\ status' = "success" => recorded[submitted.key] = submitted.entry
      /\ status' = "validation_error" => Ruled(submitted.key, submitted.entry)
  BY <1>2 DEF StatusOf, RequestConsistent
<1> QED  BY <1>2, <1>4, <1>5, <1>6, <1>7, <1>8 DEF Ruled

-----------------------------------------------------------------------------
(* The inductive invariant: every key generated is shown a success, given    *)
(* up, or in the form, and answers given about a key hold for ever.          *)
THEOREM FormInvariant == Spec => []FormInv
<1>1. Init => FormInv  BY InitConsistent
<1>2. FormInv /\ [Next]_vars => FormInv'
  <2> SUFFICES ASSUME FormInv, [Next]_vars PROVE FormInv'
    OBVIOUS
  <2>1. ASSUME NEW e \in Entries, Edit(e) PROVE FormInv'
    BY <2>1, EditConsistent
  <2>2. ASSUME NEW k \in NoKey .. MaxKeys, EditKey(k) PROVE FormInv'
    BY <2>2, EditKeyConsistent
  <2>3. CASE Submit  BY <2>3, SubmitConsistent
  <2>4. ASSUME NEW q \in requests, Decide(q) PROVE FormInv'
    BY <2>4, DecideConsistent
  <2>5. ASSUME NEW q \in requests, Decline(q) PROVE FormInv'
    BY <2>5, DeclineConsistent
  <2>6. ASSUME NEW q \in requests, Drop(q) PROVE FormInv'
    BY <2>6, DropConsistent
  <2>7. ASSUME NEW q \in requests, Deliver(q) PROVE FormInv'
    BY <2>7, DeliverConsistent
  <2>8. CASE ConnectionFails  BY <2>8, ConnectionFailsConsistent
  <2>9. CASE Reset  BY <2>9, ResetConsistent
  <2>10. CASE Unmount  BY <2>10, UnmountConsistent
  <2>11. CASE Mount  BY <2>11, MountConsistent
  <2>12. CASE UNCHANGED vars
    BY <2>12 DEF FormInv, vars, formVars, TypeOK, Requests, AwaitedConsistent,
                 KeyConsistent, RequestConsistent, Ruled
  <2> QED  BY <2>1, <2>2, <2>3, <2>4, <2>5, <2>6, <2>7, <2>8, <2>9, <2>10, <2>11, <2>12
           DEF Next
<1> QED  BY <1>1, <1>2, PTL DEF Spec

(* An effect the operator was not shown stays under the key in the form. *)
THEOREM UnseenEffectsKeepTheirKey == Spec => []UnseenEffectKeepsItsKey
<1>1. FormInv => UnseenEffectKeepsItsKey
  <2> SUFFICES ASSUME FormInv, NEW k \in Keys, recorded[k] # NoEntry
               PROVE  k \in told \union abandoned \union {key}
    BY DEF UnseenEffectKeepsItsKey
  <2>1. k \in 1 .. generated
    BY DEF FormInv, KeyConsistent, TypeOK, Keys
  <2> QED  BY <2>1 DEF FormInv, KeyConsistent
<1> QED  BY <1>1, FormInvariant, PTL

(* What a form says of a submission is so, and stays so. *)
THEOREM StatusIsTrue == Spec => []StatusTellsTheTruth
<1>1. FormInv => StatusTellsTheTruth
  <2> SUFFICES ASSUME FormInv PROVE StatusTellsTheTruth
    OBVIOUS
  <2>1. status = "validation_error" =>
          submitted.entry \in Entries /\ Ruled(submitted.key, submitted.entry)
    BY DEF FormInv
  <2>2. ASSUME status = "validation_error"
        PROVE  recorded[submitted.key] # submitted.entry
    BY <2>1, <2>2, EntryAssumption DEF FormInv, Ruled
  <2>3. ASSUME status = "validation_error", NEW q \in requests,
               q.key = submitted.key, q.entry = submitted.entry
        PROVE  Decision(q) # "applied"
    BY <2>1, <2>3 DEF Ruled, Decision
  <2> QED  BY <2>2, <2>3 DEF FormInv, StatusTellsTheTruth
<1> QED  BY <1>1, FormInvariant, PTL
=============================================================================
