---------------------------- MODULE ServerLifecycle ----------------------------
(***************************************************************************)
(* One process of the API: callers that send one request after another on  *)
(* connections kept alive, the pg pool their requests queue for, the row   *)
(* lock of the one policy they write to, callers that hang up, a database  *)
(* that drops its connections, and the shutdown on a signal: server.close, *)
(* then pool.end, then process.exit.                                       *)
(***************************************************************************)
EXTENDS Integers, Sequences, FiniteSets

CONSTANTS Writes, Reads,   \* callers: of POSTs, one query each, and of GETs
          Queries,         \* how many queries a GET runs, one after another
          PoolMax,         \* PG_POOL_MAX
          MaxSignals,      \* bound: SIGTERM and SIGINT received
          MaxDrops         \* bound: times the database drops its connections

Callers == Writes \union Reads

ASSUME CallersAssumption == Writes \intersect Reads = {} /\ IsFiniteSet(Callers)
ASSUME PoolAssumption == PoolMax \in Nat \ {0} /\ Queries \in Nat \ {0}
ASSUME BoundAssumption == MaxSignals \in Nat /\ MaxDrops \in Nat

VARIABLES phase,     \* of the process
          signals, drops,
          state,     \* per caller: its connection, or what its request does
          left,      \* per caller: queries its request has still to run
          attached,  \* callers that wait for an answer on their connection
          queue,     \* _pendingQueue of the pool
          idle,      \* connected clients nobody uses
          row        \* the writes that run: the first has the row lock, the rest wait

poolVars == <<queue, idle, row>>
vars == <<phase, signals, drops, state, left, attached, poolVars>>

(* away; connected: nothing sent yet; queued, running: its request, also    *)
(* when it hung up since; kept: its connection is alive after an answer.    *)
States == {"away", "connected", "queued", "running", "kept"}

(* listening; closing: server.close waits for connections; draining:        *)
(* pool.end waits for clients; exited: process.exit(0); crashed: an error   *)
(* nobody catches ended the process.                                        *)
Up == phase \in {"listening", "closing", "draining"}

Init ==
  /\ phase = "listening"
  /\ signals = 0 /\ drops = 0
  /\ state = [i \in Callers |-> "away"]
  /\ left = [i \in Callers |-> 0]
  /\ attached = {}
  /\ queue = << >>
  /\ idle = 0
  /\ row = << >>

Running == {i \in Callers : state[i] = "running"}

(* Mutant of HasClient: one client more than the pool is configured for. *)
HasOneMore == Cardinality(Running) <= PoolMax

HasClient == Cardinality(Running) < PoolMax

(* The pool hands out clients in the turn of the event loop that frees them. *)
Dispatched == queue = << >> \/ ~ HasClient

-----------------------------------------------------------------------------
(* Callers *)

(* Only a server that was not closed accepts connections. *)
Connect(i) ==
  /\ phase = "listening"
  /\ state[i] = "away"
  /\ state' = [state EXCEPT ![i] = "connected"]
  /\ UNCHANGED <<phase, signals, drops, left, attached, poolVars>>

(* The process takes in a request, on a new connection or one it kept, and  *)
(* its handler calls pool.query.  server.close does not refuse it.          *)
Accept(i) ==
  /\ phase \in {"listening", "closing"}
  /\ state[i] \in {"connected", "kept"}
  /\ state' = [state EXCEPT ![i] = "queued"]
  /\ left' = [left EXCEPT ![i] = IF i \in Writes THEN 1 ELSE Queries]
  /\ attached' = attached \union {i}
  /\ queue' = Append(queue, i)
  /\ UNCHANGED <<phase, signals, drops, idle, row>>

(* The caller closes a connection it does not wait on, or it times out: one *)
(* kept alive after keepAliveTimeout, which a further request stops.        *)
Leave(i) ==
  /\ Up
  /\ state[i] \in {"connected", "kept"}
  /\ state' = [state EXCEPT ![i] = "away"]
  /\ UNCHANGED <<phase, signals, drops, left, attached, poolVars>>

(* The answer leaves the connection alive: nothing sets Connection: close. *)
AfterAnswer(i) == IF i \in attached THEN "kept" ELSE "away"

IdleAfterDispatch == IF idle > 0 THEN idle - 1 ELSE 0

(* _pulseQueue: the first in the queue gets an idle client or a new one. *)
Dispatch ==
  /\ phase \in {"listening", "closing"}
  /\ queue # << >>
  /\ HasClient
  /\ LET i == Head(queue) IN
     /\ state' = [state EXCEPT ![i] = "running"]
     /\ row' = IF i \in Writes THEN Append(row, i) ELSE row
  /\ queue' = Tail(queue)
  /\ idle' = IdleAfterDispatch
  /\ UNCHANGED <<phase, signals, drops, left, attached>>

(* Mutant of CanFinish: a call asks for a second client while it has one. *)
NeedsSecondClient(i) ==
  (i \in Writes => i = Head(row)) /\ HasClient

(* The database ends the query of i; only the lock is waited for. *)
CanFinish(i) == i \in Writes => i = Head(row)

(* A result or an error: the client goes back to the pool, and the handler  *)
(* runs its next query or answers.  An ending pool closes the client and    *)
(* rejects the next query.                                                  *)
FinishQuery(i) ==
  LET goesOn == left[i] > 1 /\ phase # "draining" IN
  /\ Up
  /\ state[i] = "running"
  /\ CanFinish(i)
  /\ row' = IF i \in Writes THEN Tail(row) ELSE row
  /\ idle' = IF phase = "draining" THEN 0 ELSE idle + 1
  /\ left' = [left EXCEPT ![i] = @ - 1]
  /\ state' = [state EXCEPT ![i] = IF goesOn THEN "queued" ELSE AfterAnswer(i)]
  /\ queue' = IF goesOn THEN Append(queue, i) ELSE queue
  /\ attached' = IF goesOn THEN attached ELSE attached \ {i}
  /\ UNCHANGED <<phase, signals, drops>>

(* The caller gives up; its handler runs on, and its query with it. *)
HangUp(i) ==
  /\ Up
  /\ i \in attached
  /\ attached' = attached \ {i}
  /\ UNCHANGED <<phase, signals, drops, state, left, poolVars>>

(* idleTimeoutMillis *)
IdleTimeout ==
  /\ Up
  /\ idle > 0
  /\ idle' = idle - 1
  /\ UNCHANGED <<phase, signals, drops, state, left, attached, queue, row>>

-----------------------------------------------------------------------------
(* Shutdown and failures *)

(* Mutant of AfterSignal: the pool is ended without waiting for server.close. *)
EndPoolAtOnce == "draining"

AfterSignal == "closing"

(* shutdown(): the first one closes the server.  A later one registers its  *)
(* callback too: the second pool.end() rejects, which nobody catches, and   *)
(* that ends the process unless process.exit(0) has.  Each closes the       *)
(* connections that are kept alive just then, not one whose request is on   *)
(* its way; one that never carried a request may be spared.                 *)
Signal ==
  /\ Up
  /\ phase = "draining" => Running # {}
  /\ signals < MaxSignals
  /\ signals' = signals + 1
  /\ phase' = CASE phase = "listening" -> AfterSignal
                [] phase = "closing" -> "closing"
                [] phase = "draining" -> "crashed"
  /\ \E spared \in SUBSET {i \in Callers : state[i] = "connected"} :
       state' = [i \in Callers |->
         IF state[i] \in {"connected", "kept"} /\ i \notin spared THEN "away" ELSE state[i]]
  /\ UNCHANGED <<drops, left, attached, poolVars>>

(* The last connection is closed: every callback of server.close runs       *)
(* pool.end, which closes the idle clients and serves the queue no longer.  *)
ServerClosed ==
  /\ phase = "closing"
  /\ Dispatched
  /\ attached = {}
  /\ \A i \in Callers : state[i] \notin {"connected", "kept"}
  /\ phase' = IF signals > 1 /\ Running # {} THEN "crashed" ELSE "draining"
  /\ idle' = 0
  /\ UNCHANGED <<signals, drops, state, left, attached, queue, row>>

(* Every client is back: pool.end resolves, process.exit(0). *)
Exit ==
  /\ phase = "draining"
  /\ Running = {}
  /\ phase' = "exited"
  /\ UNCHANGED <<signals, drops, state, left, attached, poolVars>>

(* The database restarts.  Queries that run are rejected and answered 500;  *)
(* an idle client emits an error that the pool, having no listener, throws: *)
(* then only the answers that were quicker leave the process.               *)
ConnectionsDrop ==
  /\ Up
  /\ phase # "draining" => Dispatched
  /\ drops < MaxDrops
  /\ drops' = drops + 1
  /\ phase' = IF idle > 0 THEN "crashed" ELSE phase
  /\ idle' = 0
  /\ row' = << >>
  /\ \E quick \in SUBSET Running :
       /\ idle = 0 => quick = Running
       /\ state' = [i \in Callers |-> IF i \in quick THEN AfterAnswer(i) ELSE state[i]]
       /\ attached' = attached \ quick
  /\ UNCHANGED <<signals, left, queue>>

Next ==
  \/ \E i \in Callers : Connect(i) \/ Accept(i) \/ FinishQuery(i) \/ HangUp(i) \/ Leave(i)
  \/ Dispatch
  \/ IdleTimeout
  \/ Signal
  \/ ServerClosed
  \/ Exit
  \/ ConnectionsDrop

Spec == Init /\ [][Next]_vars

(* The event loop and the database go on, and a connection kept alive for   *)
(* nothing times out; nobody has to call, to hang up or to signal.          *)
Fairness ==
  /\ WF_vars(Dispatch) /\ WF_vars(ServerClosed) /\ WF_vars(Exit)
  /\ \A i \in Callers :
       WF_vars(FinishQuery(i)) /\ WF_vars(state[i] = "kept" /\ Leave(i))

FairSpec == Spec /\ Fairness

-----------------------------------------------------------------------------
(* Properties *)

(* The pool never has more connections than PG_POOL_MAX, in whatever order  *)
(* clients are taken, returned, timed out and dropped.                      *)
PoolIsBounded == Up => idle \in 0 .. PoolMax - Cardinality(Running)

TypeOK ==
  /\ phase \in {"listening", "closing", "draining", "exited", "crashed"}
  /\ signals \in 0 .. MaxSignals /\ drops \in 0 .. MaxDrops
  /\ state \in [Callers -> States]
  /\ left \in [Callers -> Int]
  /\ attached \subseteq Callers
  /\ queue \in Seq(Callers)
  /\ idle \in Nat
  /\ row \in Seq(Writes)

Lined == {row[k] : k \in DOMAIN row}

(* The inductive invariant behind the theorems: a client is idle, in use or *)
(* closed, a write that runs has or awaits the row lock, and pool.end       *)
(* begins when no caller is connected any more.                             *)
LifecycleInv ==
  /\ TypeOK
  /\ Up => Writes \intersect Running \subseteq Lined
  /\ Up => idle + Cardinality(Running) <= PoolMax
  /\ phase = "draining" => attached = {} /\ idle = 0

(* Only connections that drop while one is idle leave callers unanswered:   *)
(* neither a shutdown nor a second signal in the midst of one, which ends   *)
(* the pool twice, cuts off a caller that waits in the pool's queue, behind *)
(* the row lock or between two queries.                                     *)
OnlyDropsLoseCallers == [][Up /\ ~ Up' /\ attached' # {} => drops' # drops]_vars

(* A caller that holds on is answered, though calls that wait for one row   *)
(* lock fill the pool and everything else queues behind them.               *)
EveryCallerIsServed ==
  \A i \in Callers : i \in attached ~> i \notin attached \/ ~ Up

(* From some time on nobody sends on a connection that outlived the signal, *)
(* nor holds one that nothing was ever sent on: of the code, nothing ends   *)
(* either.                                                                  *)
CallersLetGo ==
  /\ <>[][\A i \in Callers : ~ Accept(i)]_vars
  /\ \A i \in Callers : []<>(state[i] # "connected")

(* A signal ends the process once callers let it, whatever is queued,       *)
(* running, abandoned or kept alive.                                        *)
ShutdownEnds == CallersLetGo => (signals > 0 ~> ~ Up)
=============================================================================
