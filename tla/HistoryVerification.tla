-------------------------- MODULE HistoryVerification --------------------------
(***************************************************************************)
(* fn_verify_policy_history, row by row, over the snapshot its SELECT      *)
(* takes, while calls append rows and somebody with the rights of the      *)
(* owner alters or removes rows by hand.  Rows are the ones HashChain      *)
(* describes; "follows" is the row the writer saw as the head.             *)
(***************************************************************************)
EXTENDS HashChain

CONSTANTS Payloads,       \* payload_canonical
          OtherPayload,   \* one nobody writes
          MaxEvents,      \* bound: rows written
          MaxChanges      \* bound: changes by hand

ASSUME PayloadAssumption == OtherPayload \notin Payloads
ASSUME BoundAssumption == MaxEvents \in Nat /\ MaxChanges \in Nat

VARIABLES events,    \* rows of policy_events, as stored
          written,   \* rows as their writers left them
          changes,
          loop       \* the variables of the function, the rows it reads and those to come

vars == <<events, written, changes, loop>>

NoEvent == 0
Idle == [pc |-> "idle", snapshot |-> {}, rows |-> {}, v_expected_previous_hash |-> GenesisHash,
         v_event_count |-> 0, v_first_broken_event_id |-> NoEvent, v_valid |-> TRUE]

Init ==
  /\ events = {}
  /\ written = {}
  /\ changes = 0
  /\ loop = Idle

HeadId(rows) == IF rows = {} THEN NoEvent ELSE LatestEvent(rows).id

(* The event fn_apply_endorsement and fn_record_payment insert. *)
Write(payload) ==
  LET row == [id |-> Cardinality(written) + 1, follows |-> HeadId(events),
              payload_canonical |-> payload, previous_hash |-> HeadHash(events),
              event_hash |-> Digest(payload, HeadHash(events))] IN
  /\ Cardinality(written) < MaxEvents
  /\ events' = events \union {row}
  /\ written' = written \union {row}
  /\ UNCHANGED <<changes, loop>>

Change(rows) ==
  /\ changes < MaxChanges
  /\ changes' = changes + 1
  /\ events' = rows
  /\ UNCHANGED <<written, loop>>

(* One field of a row is altered, to something nobody writes. *)
Alterations(e) ==
  {[e EXCEPT !.payload_canonical = OtherPayload],
   [e EXCEPT !.previous_hash = <<OtherPayload>>],
   [e EXCEPT !.event_hash = <<OtherPayload>>]}

Alter(e) ==
  /\ e \in written
  /\ \E altered \in Alterations(e) : Change((events \ {e}) \union {altered})

RemoveRow(e) == Change(events \ {e})

(* The SELECT. *)
Start ==
  /\ loop.pc = "idle"
  /\ loop' = [Idle EXCEPT !.pc = "loop", !.snapshot = events, !.rows = events]
  /\ UNCHANGED <<events, written, changes>>

(* Mutant of Mismatch: only the row's own hash is recomputed. *)
HashMismatch(e, expected) == e.event_hash # Digest(e.payload_canonical, expected)

Mismatch(e, expected) ==
  \/ e.previous_hash # expected
  \/ e.event_hash # Digest(e.payload_canonical, expected)

(* Mutant of Expected: the chain goes on from the link of the row. *)
LinkOf(e) == e.previous_hash

(* What the next row is to link to. *)
Expected(e) == e.event_hash

(* ORDER BY id ASC *)
FirstRow(rows) == CHOOSE e \in rows : \A f \in rows : e.id <= f.id

(* One turn: a row after the first broken one is only counted. *)
Turn ==
  LET e == FirstRow(loop.rows)
      broken == loop.v_valid /\ Mismatch(e, loop.v_expected_previous_hash) IN
  /\ loop.pc = "loop"
  /\ loop.rows # {}
  /\ loop' = [loop EXCEPT
       !.rows = @ \ {e},
       !.v_event_count = @ + 1,
       !.v_valid = @ /\ ~ broken,
       !.v_first_broken_event_id = IF broken THEN e.id ELSE @,
       !.v_expected_previous_hash = IF loop.v_valid THEN Expected(e) ELSE @]
  /\ UNCHANGED <<events, written, changes>>

Return ==
  /\ loop.pc = "loop"
  /\ loop.rows = {}
  /\ loop' = [loop EXCEPT !.pc = "returned"]
  /\ UNCHANGED <<events, written, changes>>

Next ==
  \/ \E payload \in Payloads : Write(payload)
  \/ \E e \in events : Alter(e) \/ RemoveRow(e)
  \/ Start
  \/ Turn
  \/ Return

Spec == Init /\ [][Next]_vars

-----------------------------------------------------------------------------
(* Properties *)

Hashes == Seq(Payloads \union {OtherPayload})
Rows ==
  [id : Nat \ {0}, follows : Nat, payload_canonical : Payloads \union {OtherPayload},
   previous_hash : Hashes, event_hash : Hashes]

TypeOK ==
  /\ events \subseteq Rows /\ IsFiniteSet(events)
  /\ written \subseteq Rows /\ IsFiniteSet(written)
  /\ changes \in Nat
  /\ loop \in [pc : {"idle", "loop", "returned"}, snapshot : SUBSET Rows, rows : SUBSET Rows,
               v_expected_previous_hash : Hashes, v_event_count : Nat,
               v_first_broken_event_id : Nat, v_valid : BOOLEAN]

(* The loop, with its flag and its running hash, returns what HashChain     *)
(* says of the rows as a whole.                                             *)
LoopComputesVerification ==
  loop.pc = "returned" =>
    [valid |-> loop.v_valid, event_count |-> loop.v_event_count,
     first_broken_event_id |-> loop.v_first_broken_event_id] = VerifyHistory(loop.snapshot)

(* Rows that were altered, or whose predecessor is gone. *)
WrongedIn(rows) ==
  {e \in rows : e \notin written \/ e.follows # HeadId(EventsBefore(e, rows))}
Wronged == WrongedIn(loop.snapshot)

(* The row reported is the first one altered, or the first whose            *)
(* predecessor was removed: never a row that is as it was written and       *)
(* follows what it followed, however many were written since.               *)
BlamesTheFirstWronged ==
  loop.pc = "returned" =>
    /\ loop.v_valid <=> Wronged = {}
    /\ ~ loop.v_valid =>
         \E e \in Wronged :
           /\ e.id = loop.v_first_broken_event_id
           /\ \A f \in Wronged : e.id <= f.id

(* Every row has an id of its own and stands for the row somebody wrote     *)
(* under that id, as it was or altered once.                                *)
RowsConsistent ==
  /\ \A w \in written : /\ w.id <= Cardinality(written)
                        /\ w.payload_canonical \in Payloads
                        /\ w.event_hash = Digest(w.payload_canonical, w.previous_hash)
  /\ \A v, w \in written : v.id = w.id => v = w
  /\ \A e, f \in events : e.id = f.id => e = f
  /\ \A e \in events : e \in written \/ \E w \in written : e \in Alterations(w)

Clean(hash) == \A i \in 1 .. Len(hash) : hash[i] # OtherPayload

(* What the links of written rows tell of the rows that are still there.    *)
LinksConsistent ==
  \A w \in written :
    /\ w.follows < w.id
    /\ w.follows = NoEvent <=> w.previous_hash = GenesisHash
    /\ w.follows # NoEvent =>
         \/ w.previous_hash = <<OtherPayload>>
         \/ \E g \in written : g.id = w.follows /\ w.previous_hash = g.event_hash
    /\ \A h \in events : h.id < w.id => h.id <= w.follows
    /\ \A h \in events \intersect written :
         /\ w.follows = h.id => w.previous_hash = h.event_hash
         /\ h.id < w.id /\ Clean(h.event_hash) =>
              ~ Clean(w.event_hash) \/ Len(h.event_hash) < Len(w.event_hash)

(* The rows read so far, and what the loop makes of them. *)
LoopConsistent ==
  LET read == loop.snapshot \ loop.rows
      broken == {e \in read : ~ IntactEvent(e, loop.snapshot)} IN
  /\ IsFiniteSet(loop.snapshot) /\ loop.rows \subseteq loop.snapshot
  /\ \A e, f \in loop.snapshot : e.id = f.id => e = f
  /\ \A e \in read, f \in loop.rows : e.id < f.id
  /\ loop.v_event_count = Cardinality(read)
  /\ loop.v_valid <=> broken = {}
  /\ loop.v_valid => /\ loop.v_expected_previous_hash = HeadHash(read)
                     /\ loop.v_first_broken_event_id = NoEvent
  /\ ~ loop.v_valid => \E e \in broken : /\ e.id = loop.v_first_broken_event_id
                                        /\ \A f \in broken : e.id <= f.id
  /\ loop.pc = "returned" => loop.rows = {}

(* A row after rows that are not wronged is intact unless it is wronged. *)
FirstWrongIsSeen(rows) ==
  \A e \in rows :
    (\A f \in rows : f.id < e.id => f \notin WrongedIn(rows)) =>
      (IntactEvent(e, rows) <=> e \notin WrongedIn(rows))

HistoryInv ==
  /\ TypeOK /\ RowsConsistent /\ LinksConsistent /\ LoopConsistent
  /\ \A e \in loop.snapshot : e.id <= Cardinality(written)
  /\ FirstWrongIsSeen(loop.snapshot)
=============================================================================
