----------------------- MODULE ServerLifecycle_proofs -----------------------
(***************************************************************************)
(* Theorems of ServerLifecycle, for every set of callers, every size of    *)
(* the pool and every number of signals and drops.                         *)
(* They rest on LifecycleInv, shown inductive one action at a time.        *)
(***************************************************************************)
EXTENDS ServerLifecycle, FiniteSetTheorems, TLAPS

(* The callers whose request runs are counted by a number. *)
LEMMA RunningIsFinite ==
  IsFiniteSet(Running) /\ Cardinality(Running) \in Nat
<1>1. Running \in SUBSET Callers
  BY DEF Running
<1> QED
  BY <1>1, CallersAssumption, FS_Subset, FS_CardinalityType

(* Starting a request takes one client at most. *)
LEMMA OneMoreRuns ==
  ASSUME TypeOK, NEW i \in Callers, state' = [state EXCEPT ![i] = "running"]
  PROVE  Cardinality(Running') <= Cardinality(Running) + 1 /\ Cardinality(Running') \in Nat
<1>1. Running' = Running \union {i}
  BY DEF TypeOK, Running
<1>2. IsFiniteSet(Running) /\ Cardinality(Running) \in Nat
  BY RunningIsFinite
<1>3. Cardinality(Running \union {i})
        = IF i \in Running THEN Cardinality(Running) ELSE Cardinality(Running) + 1
  BY <1>2, FS_AddElement
<1> QED
  BY <1>1, <1>2, <1>3

(* A request that runs and stops gives one client back. *)
LEMMA OneLessRuns ==
  ASSUME TypeOK, NEW i \in Callers, state[i] = "running",
         NEW next \in States \ {"running"}, state' = [state EXCEPT ![i] = next]
  PROVE  Cardinality(Running') = Cardinality(Running) - 1 /\ Cardinality(Running') \in Nat
<1>1. Running' = Running \ {i} /\ i \in Running
  BY DEF TypeOK, Running
<1>2. IsFiniteSet(Running) /\ Cardinality(Running) \in Nat
  BY RunningIsFinite
<1>3. /\ IsFiniteSet(Running \ {i})
      /\ Cardinality(Running \ {i}) = Cardinality(Running) - 1
  BY <1>1, <1>2, FS_RemoveElement
<1> QED
  BY <1>1, <1>2, <1>3, FS_CardinalityType

LEMMA NoMoreRun ==
  ASSUME Running' \subseteq Running
  PROVE  Cardinality(Running') <= Cardinality(Running) /\ Cardinality(Running') \in Nat
<1>1. IsFiniteSet(Running) /\ Cardinality(Running) \in Nat
  BY RunningIsFinite
<1>2. Running' \in SUBSET Running
  OBVIOUS
<1> QED
  BY <1>1, <1>2, FS_Subset, FS_CardinalityType

(* The lock queue: whoever is in it stays when one joins, and all but the   *)
(* first stay when the first leaves.                                        *)
LEMMA LineGrows ==
  ASSUME NEW line \in Seq(Writes), NEW i \in Writes
  PROVE  /\ Append(line, i) \in Seq(Writes)
         /\ \A k \in DOMAIN line : Append(line, i)[k] = line[k] /\ k \in DOMAIN Append(line, i)
         /\ Append(line, i)[Len(line) + 1] = i
         /\ Len(line) + 1 \in DOMAIN Append(line, i)
OBVIOUS

LEMMA LineShrinks ==
  ASSUME NEW line \in Seq(Writes), line # << >>
  PROVE  /\ Tail(line) \in Seq(Writes)
         /\ \A k \in DOMAIN line : line[k] # Head(line) =>
              k - 1 \in DOMAIN Tail(line) /\ Tail(line)[k - 1] = line[k]
OBVIOUS

-----------------------------------------------------------------------------
(* One lemma per action that touches the pool or the callers. *)

LEMMA AcceptKeepsInv ==
  ASSUME LifecycleInv, NEW i \in Callers, Accept(i)
  PROVE  LifecycleInv'
<1>1. TypeOK'
  BY PoolAssumption DEF LifecycleInv, TypeOK, States, Accept
<1>2. Running' \subseteq Running
  BY DEF LifecycleInv, TypeOK, States, Accept, Running
<1>3. Lined' = Lined
  BY DEF Accept, Lined
<1>4. idle' = idle /\ idle \in Nat /\ phase' = phase /\ phase \in {"listening", "closing"}
  BY DEF LifecycleInv, TypeOK, States, Accept
<1>5. idle + Cardinality(Running') <= PoolMax
  BY <1>2, <1>4, NoMoreRun, RunningIsFinite, PoolAssumption DEF LifecycleInv, Up
<1>6. Writes \intersect Running' \subseteq Lined'
  BY <1>2, <1>3, <1>4 DEF LifecycleInv, Up
<1> QED
  BY <1>1, <1>4, <1>5, <1>6 DEF LifecycleInv

LEMMA DispatchKeepsInv ==
  ASSUME LifecycleInv, Dispatch
  PROVE  LifecycleInv'
<1> DEFINE i == Head(queue)
<1>1. i \in Callers /\ Tail(queue) \in Seq(Callers)
  BY DEF LifecycleInv, TypeOK, Dispatch
<1>2. idle \in Nat /\ IdleAfterDispatch \in Nat
  BY DEF LifecycleInv, TypeOK, IdleAfterDispatch
<1>3. state' = [state EXCEPT ![i] = "running"]
  BY DEF Dispatch
<1>4. row' = IF i \in Writes THEN Append(row, i) ELSE row
  BY DEF Dispatch
<1>5. row' \in Seq(Writes) /\ Lined \subseteq Lined' /\ (i \in Writes => i \in Lined')
  <2>1. row \in Seq(Writes)
    BY DEF LifecycleInv, TypeOK
  <2>2. CASE i \in Writes
    BY <1>4, <2>1, <2>2, LineGrows DEF Lined
  <2>3. CASE i \notin Writes
    BY <1>4, <2>1, <2>3 DEF Lined
  <2> QED
    BY <2>2, <2>3
<1>6. TypeOK'
  BY <1>1, <1>2, <1>3, <1>5 DEF LifecycleInv, TypeOK, States, Dispatch
<1>7. Cardinality(Running') <= Cardinality(Running) + 1 /\ Cardinality(Running') \in Nat
  BY <1>1, <1>3, OneMoreRuns DEF LifecycleInv
<1>8. Cardinality(Running) < PoolMax /\ idle + Cardinality(Running) <= PoolMax
  BY DEF LifecycleInv, Dispatch, HasClient, Up
<1>9. idle' + Cardinality(Running') <= PoolMax
  BY <1>2, <1>7, <1>8, RunningIsFinite, PoolAssumption DEF Dispatch, IdleAfterDispatch
<1>10. Writes \intersect Running' \subseteq Lined'
  <2>1. Running' \subseteq Running \union {i}
    BY <1>3 DEF LifecycleInv, TypeOK, Running
  <2>2. Writes \intersect Running \subseteq Lined
    BY DEF LifecycleInv, Dispatch, Up
  <2> QED
    BY <1>5, <2>1, <2>2
<1> QED
  BY <1>6, <1>9, <1>10 DEF LifecycleInv, Dispatch, Up

LEMMA FinishQueryKeepsInv ==
  ASSUME LifecycleInv, NEW i \in Callers, FinishQuery(i)
  PROVE  LifecycleInv'
<1>1. PICK next \in States \ {"running"} : state' = [state EXCEPT ![i] = next]
  <2> DEFINE goesOn == left[i] > 1 /\ phase # "draining"
             next == IF goesOn THEN "queued" ELSE AfterAnswer(i)
  <2>1. state' = [state EXCEPT ![i] = next]
    BY DEF FinishQuery
  <2>2. next \in States \ {"running"}
    BY DEF AfterAnswer, States
  <2> QED
    BY <2>1, <2>2
<1>2. row \in Seq(Writes) /\ Up /\ Writes \intersect Running \subseteq Lined /\ i \in Running
  BY DEF LifecycleInv, TypeOK, FinishQuery, Running
<1>3. row' \in Seq(Writes) /\ \A j \in Lined : j # i => j \in Lined'
  <2>1. CASE i \in Writes
    <3>1. row # << >> /\ i = Head(row) /\ row' = Tail(row)
      BY <1>2, <2>1 DEF FinishQuery, CanFinish, Lined
    <3> QED
      BY <1>2, <3>1, LineShrinks DEF Lined
  <2>2. CASE i \notin Writes
    BY <1>2, <2>2 DEF FinishQuery, Lined
  <2> QED
    BY <2>1, <2>2
<1>4. left' \in [Callers -> Int]
  BY DEF LifecycleInv, TypeOK, FinishQuery
<1>5. queue' \in Seq(Callers) /\ attached' \subseteq attached
  BY DEF LifecycleInv, TypeOK, FinishQuery
<1>6. idle \in Nat /\ idle' \in Nat /\ idle' <= idle + 1
  BY DEF LifecycleInv, TypeOK, FinishQuery
<1>7. TypeOK'
  BY <1>1, <1>3, <1>4, <1>5, <1>6 DEF LifecycleInv, TypeOK, FinishQuery
<1>8. Cardinality(Running') = Cardinality(Running) - 1 /\ Cardinality(Running') \in Nat
  BY <1>1, OneLessRuns DEF LifecycleInv, FinishQuery
<1>9. Up /\ phase' = phase /\ idle + Cardinality(Running) <= PoolMax
  BY DEF LifecycleInv, FinishQuery
<1>10. idle' + Cardinality(Running') <= PoolMax
  BY <1>6, <1>8, <1>9, RunningIsFinite, PoolAssumption
<1>11. Writes \intersect Running' \subseteq Lined'
  <2>1. Running' \subseteq Running \ {i}
    BY <1>1 DEF LifecycleInv, TypeOK, Running
  <2> QED
    BY <1>2, <1>3, <2>1
<1> QED
  BY <1>5, <1>7, <1>9, <1>10, <1>11 DEF LifecycleInv, FinishQuery

LEMMA SignalKeepsInv ==
  ASSUME LifecycleInv, Signal
  PROVE  LifecycleInv'
<1>1. phase' \in {"closing", "crashed"} /\ (phase' = "closing" => Up)
  BY DEF Signal, AfterSignal, Up
<1>2. signals' \in 0 .. MaxSignals
  BY BoundAssumption DEF LifecycleInv, TypeOK, Signal
<1>3. TypeOK'
  BY <1>1, <1>2 DEF LifecycleInv, TypeOK, States, Signal, poolVars
<1>4. Running' = Running /\ idle' = idle /\ Lined' = Lined
  BY DEF LifecycleInv, TypeOK, Signal, poolVars, Running, Lined
<1> QED
  BY <1>1, <1>3, <1>4 DEF LifecycleInv, Up

LEMMA ServerClosedKeepsInv ==
  ASSUME LifecycleInv, ServerClosed
  PROVE  LifecycleInv'
<1>1. TypeOK'
  BY DEF LifecycleInv, TypeOK, ServerClosed
<1>2. Running' = Running /\ Lined' = Lined /\ Writes \intersect Running \subseteq Lined
  BY DEF LifecycleInv, Up, ServerClosed, Running, Lined
<1>3. idle + Cardinality(Running) <= PoolMax /\ idle \in Nat
  BY DEF LifecycleInv, TypeOK, ServerClosed, Up
<1>4. 0 + Cardinality(Running) <= PoolMax
  BY <1>3, RunningIsFinite, PoolAssumption
<1> QED
  BY <1>1, <1>2, <1>4 DEF LifecycleInv, ServerClosed

LEMMA ConnectionsDropKeepsInv ==
  ASSUME LifecycleInv, ConnectionsDrop
  PROVE  LifecycleInv'
<1>1. PICK quick \in SUBSET Running :
        /\ state' = [i \in Callers |-> IF i \in quick THEN AfterAnswer(i) ELSE state[i]]
        /\ attached' = attached \ quick
  BY DEF ConnectionsDrop
<1>2. Running' \subseteq Running
  BY <1>1 DEF Running, AfterAnswer
<1>3. TypeOK'
  BY <1>1, BoundAssumption DEF LifecycleInv, TypeOK, States, ConnectionsDrop, AfterAnswer
<1>4. idle + Cardinality(Running) <= PoolMax /\ idle \in Nat /\ idle' = 0
  BY DEF LifecycleInv, TypeOK, ConnectionsDrop
<1>5. idle' + Cardinality(Running') <= PoolMax
  BY <1>2, <1>4, NoMoreRun, RunningIsFinite, PoolAssumption
<1>6. Up' => Running' = {}
  BY <1>1, <1>4 DEF ConnectionsDrop, LifecycleInv, TypeOK, Running, Up, AfterAnswer
<1> QED
  BY <1>1, <1>3, <1>5, <1>6 DEF LifecycleInv, ConnectionsDrop

(* A connection is opened or closed: its request is in no client. *)
LEMMA ConnectionsKeepInv ==
  ASSUME LifecycleInv, NEW i \in Callers, Connect(i) \/ Leave(i)
  PROVE  LifecycleInv'
<1>1. TypeOK'
  BY DEF LifecycleInv, TypeOK, States, Connect, Leave, poolVars
<1>2. Running' = Running /\ Lined' = Lined /\ Up
  BY DEF LifecycleInv, TypeOK, Connect, Leave, poolVars, Running, Lined, Up
<1> QED
  BY <1>1, <1>2 DEF LifecycleInv, Connect, Leave, poolVars

(* The rest: a caller hangs up, a client times out, the process exits. *)
LEMMA OtherStepsKeepInv ==
  ASSUME LifecycleInv,
         (\E i \in Callers : HangUp(i)) \/ IdleTimeout \/ Exit \/ UNCHANGED vars
  PROVE  LifecycleInv'
<1>1. Running' = Running /\ Lined' = Lined /\ (Up' => Up)
  BY DEF HangUp, IdleTimeout, Exit, vars, poolVars, Running, Lined, Up
<1>2. TypeOK'
  BY DEF LifecycleInv, TypeOK, HangUp, IdleTimeout, Exit, vars, poolVars
<1>3. idle \in Nat /\ idle' \in Nat /\ idle' <= idle
  BY DEF LifecycleInv, TypeOK, HangUp, IdleTimeout, Exit, vars, poolVars
<1>4. Up' => idle' + Cardinality(Running') <= PoolMax
  BY <1>1, <1>3, RunningIsFinite, PoolAssumption DEF LifecycleInv
<1>5. phase' = "draining" => attached' = {} /\ idle' = 0
  BY <1>3 DEF LifecycleInv, HangUp, IdleTimeout, Exit, vars, poolVars
<1> QED
  BY <1>1, <1>2, <1>4, <1>5 DEF LifecycleInv

-----------------------------------------------------------------------------
(* Types, the clients counted and the callers of an ending pool hold in     *)
(* every reachable state.                                                   *)
THEOREM LifecycleCorrect == Spec => []LifecycleInv
<1>1. Init => LifecycleInv
  <2> SUFFICES ASSUME Init PROVE LifecycleInv
    OBVIOUS
  <2>1. Running = {}
    BY DEF Init, Running
  <2>2. Cardinality(Running) = 0
    BY <2>1, FS_EmptySet
  <2>3. TypeOK
    BY BoundAssumption, PoolAssumption DEF Init, TypeOK, States
  <2> QED
    BY <2>1, <2>2, <2>3, PoolAssumption DEF Init, LifecycleInv
<1>2. LifecycleInv /\ [Next]_vars => LifecycleInv'
  <2> SUFFICES ASSUME LifecycleInv, [Next]_vars PROVE LifecycleInv'
    OBVIOUS
  <2>1. ASSUME NEW i \in Callers, Accept(i) PROVE LifecycleInv'
    BY <2>1, AcceptKeepsInv
  <2>2. ASSUME NEW i \in Callers, FinishQuery(i) PROVE LifecycleInv'
    BY <2>2, FinishQueryKeepsInv
  <2>7. ASSUME NEW i \in Callers, Connect(i) \/ Leave(i) PROVE LifecycleInv'
    BY <2>7, ConnectionsKeepInv
  <2>3. CASE Dispatch
    BY <2>3, DispatchKeepsInv
  <2>4. CASE Signal
    BY <2>4, SignalKeepsInv
  <2>5. CASE ServerClosed
    BY <2>5, ServerClosedKeepsInv
  <2>6. CASE ConnectionsDrop
    BY <2>6, ConnectionsDropKeepsInv
  <2> QED
    BY <2>1, <2>2, <2>3, <2>4, <2>5, <2>6, <2>7, OtherStepsKeepInv DEF Next
<1> QED
  BY <1>1, <1>2, PTL DEF Spec

(* Neither dispatch, nor a client given back, nor a timeout, nor a drop     *)
(* makes the pool hold more clients than PG_POOL_MAX.                       *)
THEOREM PoolStaysBounded == Spec => []PoolIsBounded
<1>1. LifecycleInv => PoolIsBounded
  BY RunningIsFinite, PoolAssumption DEF LifecycleInv, TypeOK, PoolIsBounded
<1> QED
  BY <1>1, LifecycleCorrect, PTL

(* A process that goes down while a caller waits lost its connections: a    *)
(* signal, however many came before, never cuts a caller off.               *)
THEOREM ShutdownsKeepCallers == Spec => OnlyDropsLoseCallers
<1> DEFINE Loses == Up /\ ~ Up' /\ attached' # {} => drops' # drops
<1>1. LifecycleInv /\ [Next]_vars => [Loses]_vars
  <2> SUFFICES ASSUME LifecycleInv, Next, Up, ~ Up', attached' # {}
               PROVE  drops' # drops
    OBVIOUS
  <2>1. ASSUME NEW i \in Callers,
               Connect(i) \/ Accept(i) \/ FinishQuery(i) \/ HangUp(i) \/ Leave(i)
        PROVE  FALSE
    BY <2>1 DEF Connect, Accept, FinishQuery, HangUp, Leave, Up
  <2>2. ASSUME Dispatch \/ IdleTimeout PROVE FALSE
    BY <2>2 DEF Dispatch, IdleTimeout, Up
  <2>3. ASSUME Signal PROVE FALSE
    <3>1. phase = "draining"
      BY <2>3 DEF Signal, AfterSignal, Up
    <3> QED
      BY <2>3, <3>1 DEF Signal, LifecycleInv
  <2>4. ASSUME ServerClosed \/ Exit PROVE FALSE
    BY <2>4 DEF ServerClosed, Exit, LifecycleInv
  <2>5. CASE ConnectionsDrop
    BY <2>5 DEF ConnectionsDrop, LifecycleInv, TypeOK
  <2> QED
    BY <2>1, <2>2, <2>3, <2>4, <2>5 DEF Next
<1> QED
  BY <1>1, LifecycleCorrect, PTL DEF Spec, OnlyDropsLoseCallers
=============================================================================
