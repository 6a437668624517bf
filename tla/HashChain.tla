------------------------------ MODULE HashChain ------------------------------
(***************************************************************************)
(* The hash chain over the rows of policy_events.  SHA-256 is idealised as *)
(* collision free: a digest is represented by what it digests, so the hash *)
(* of an event is the sequence of the canonical payloads up to it.         *)
(***************************************************************************)
EXTENDS Integers, Sequences, FiniteSets

(* fn_genesis_hash(): the previous_hash of a policy's first event. *)
GenesisHash == << >>

(* encode(digest(payload || previous_hash, 'sha256'), 'hex') *)
Digest(payload, previousHash) == Append(previousHash, payload)

(* The row ORDER BY id DESC LIMIT 1 returns. *)
LatestEvent(events) == CHOOSE e \in events : \A f \in events : f.id <= e.id

(* The hash the next event links to. *)
HeadHash(events) ==
  IF events = {} THEN GenesisHash ELSE LatestEvent(events).event_hash

EventsBefore(e, events) == {f \in events : f.id < e.id}

(* One turn of the loop of fn_verify_policy_history: the row links to the  *)
(* stored hash of the row before it, and its own hash recomputes.          *)
IntactEvent(e, events) ==
  LET expected == HeadHash(EventsBefore(e, events))
  IN /\ e.previous_hash = expected
     /\ e.event_hash = Digest(e.payload_canonical, expected)

(* fn_verify_policy_history over the rows of one policy. *)
VerifyHistory(events) ==
  LET broken == {e \in events : ~ IntactEvent(e, events)}
  IN [ valid |-> broken = {},
       event_count |-> Cardinality(events),
       first_broken_event_id |->
         IF broken = {} THEN 0
         ELSE (CHOOSE e \in broken : \A f \in broken : e.id <= f.id).id ]

=============================================================================
