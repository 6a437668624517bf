------------------------------ MODULE ApiPipeline ------------------------------
(***************************************************************************)
(* The middlewares of createApp in their order: CORS, JSON parsing, the    *)
(* rate limiter with its fixed window per X-API-Key, authorization, the    *)
(* route with its validation, and the error handler.  A handler awaits the *)
(* repository while other requests are taken in.                           *)
(***************************************************************************)
EXTENDS Integers, Sequences, FiniteSets

CONSTANTS Keys,          \* X-API-Key headers in use; a request without one counts by its address
          ApiKey,        \* the one that is configured
          Kinds,         \* kinds of requests sent, see AllKinds
          Window, Limit, \* WINDOW_MS, MAX_REQUESTS_PER_WINDOW
          MaxRequests,   \* bound: requests in a behaviour
          MaxTime,       \* bound: the clock
          MaxRestarts    \* bound: restarts of the process

(* A GET; a POST whose body is as it should be, lacks a field, is no JSON,   *)
(* or passes the schemas with a value the database cannot take (a day that   *)
(* does not exist, an integer beyond BIGINT); a CORS preflight.              *)
AllKinds == {"get", "post", "invalid", "unparsable", "impossible", "preflight"}

ASSUME KeyAssumption == ApiKey \in Keys
ASSUME KindAssumption == Kinds \subseteq AllKinds
ASSUME LimitAssumption == Window \in Nat \ {0} /\ Limit \in Nat \ {0}
ASSUME BoundAssumption == MaxRequests \in Nat /\ MaxTime \in Nat /\ MaxRestarts \in Nat

VARIABLES now,
          process,   \* which start of the process runs
          windows,   \* the limiter's MemoryStore
          requests   \* in the order they were sent, with what became of them

vars == <<now, process, windows, requests>>

Never == -1
NoStatus == 0
FreshWindow == [hits |-> 0, resetTime |-> 0]

Init ==
  /\ now = 0
  /\ process = 0
  /\ windows = [k \in Keys |-> FreshWindow]
  /\ requests = << >>

(* corsMiddleware answers a preflight itself. *)
Send(k, kind) ==
  /\ Len(requests) < MaxRequests
  /\ requests' = Append(requests,
       [key |-> k, kind |-> kind, process |-> process, counted |-> Never,
        stage |-> IF kind = "preflight" THEN "answered" ELSE "received",
        status |-> IF kind = "preflight" THEN 204 ELSE NoStatus])
  /\ UNCHANGED <<now, process, windows>>

Answered(i, status) == [requests[i] EXCEPT !.stage = "answered", !.status = status]

(* express.json() passes its error over the other middlewares to errorHandler. *)
RejectUnparsable(i) ==
  /\ requests[i].stage = "received"
  /\ requests[i].kind = "unparsable"
  /\ requests' = [requests EXCEPT ![i] = Answered(i, 500)]
  /\ UNCHANGED <<now, process, windows>>

(* MemoryStore.increment *)
Counted(w) ==
  IF w.resetTime <= now THEN [hits |-> 1, resetTime |-> now + Window]
  ELSE [w EXCEPT !.hits = @ + 1]

(* Mutant of Bucket: the key falls back to the address of the one proxy. *)
SharedBucket(k) == ApiKey

(* keyGenerator *)
Bucket(k) == k

(* Mutants of Exceeded: off by one, either way. *)
ReachedTwice(hits) == hits > Limit + 1
Reached(hits) == hits >= Limit

Exceeded(hits) == hits > Limit

(* auth and the schemas of the route: the status they answer, if any. *)
Refusal(q) ==
  CASE q.key # ApiKey -> 401
    [] q.key = ApiKey /\ q.kind = "invalid" -> 400
    [] OTHER -> NoStatus

(* From the parsed body to the call of the repository nothing is awaited    *)
(* but the increment of the store in memory.                                *)
Admit(i) ==
  LET q == requests[i]
      w == Counted(windows[Bucket(q.key)])
      status == IF Exceeded(w.hits) THEN 429 ELSE Refusal(q) IN
  /\ q.stage = "received"
  /\ q.kind # "unparsable"
  /\ windows' = [windows EXCEPT ![Bucket(q.key)] = w]
  /\ requests' = [requests EXCEPT ![i] =
       [q EXCEPT !.counted = now, !.status = status,
                 !.stage = IF status = NoStatus THEN "handling" ELSE "answered"]]
  /\ UNCHANGED <<now, process>>

(* Mutant of Results: without try and catch a failure reaches no one. *)
UncaughtResults(kind) ==
  CASE kind = "get" -> {200, 304, 404}
    [] kind = "post" -> {200, 404, 409, 422}
    [] OTHER -> {}

(* What the repository returns or throws, as the route and errorHandler     *)
(* answer it.  No rule maps what the database says to an impossible value.  *)
Results(kind) ==
  CASE kind = "get" -> {200, 304, 404, 500}
    [] kind = "post" -> {200, 404, 409, 422, 500}
    [] OTHER -> {500}

Handle(i) ==
  /\ requests[i].stage = "handling"
  /\ \E status \in Results(requests[i].kind) :
       requests' = [requests EXCEPT ![i] = Answered(i, status)]
  /\ UNCHANGED <<now, process, windows>>

Tick ==
  /\ now < MaxTime
  /\ now' = now + 1
  /\ UNCHANGED <<process, windows, requests>>

(* The process ends and is started again: the counts were in its memory. *)
Restart ==
  /\ process < MaxRestarts
  /\ process' = process + 1
  /\ windows' = [k \in Keys |-> FreshWindow]
  /\ requests' = [i \in DOMAIN requests |->
       IF requests[i].stage = "answered" THEN requests[i]
       ELSE [requests[i] EXCEPT !.stage = "lost"]]
  /\ UNCHANGED now

Serve(i) == RejectUnparsable(i) \/ Admit(i) \/ Handle(i)

Next ==
  \/ \E k \in Keys, kind \in Kinds : Send(k, kind)
  \/ \E i \in DOMAIN requests : Serve(i)
  \/ Tick
  \/ Restart

Spec == Init /\ [][Next]_vars

(* The event loop goes on and the repository settles what it was asked. *)
Fairness == \A i \in 1 .. MaxRequests : WF_vars(i \in DOMAIN requests /\ Serve(i))

FairSpec == Spec /\ Fairness

-----------------------------------------------------------------------------
(* Properties *)

Stages == {"received", "handling", "answered", "lost"}
Statuses == {NoStatus, 200, 204, 304, 400, 401, 404, 409, 422, 429, 500}
RequestRecords ==
  [key : Keys, kind : AllKinds, process : Nat, counted : Int, stage : Stages,
   status : Statuses]

(* Type invariant. *)
TypeOK ==
  /\ now \in Nat
  /\ process \in Nat
  /\ windows \in [Keys -> [hits : Nat, resetTime : Int]]
  /\ requests \in Seq(RequestRecords)

Limited(i) == requests[i].status = 429
Passed(i) == requests[i].counted # Never /\ ~ Limited(i)

(* The requests with header k that process p counted in the span. *)
InSpan(k, p, from, to) ==
  {j \in DOMAIN requests : /\ requests[j].key = k
                           /\ requests[j].process = p
                           /\ requests[j].counted # Never
                           /\ requests[j].counted \in from .. to}
PassedInSpan(k, p, from, to) == {j \in InSpan(k, p, from, to) : Passed(j)}

(* Those with the header of i that its process counted. *)
CountedWith(i, from, to) == InSpan(requests[i].key, requests[i].process, from, to)

(* A request is only turned away because of Limit others that carried the   *)
(* same header within a window: what other callers send, and what they are  *)
(* refused, uses up nothing of it.                                          *)
RefusalIsEarned ==
  \A i \in DOMAIN requests : Limited(i) =>
    Limit <= Cardinality(CountedWith(i, requests[i].counted - Window + 1,
                                     requests[i].counted) \ {i})

(* In no span of a window's length do more than twice Limit requests of one *)
(* header get past the limiter of a process, wherever its windows fall.     *)
BurstIsBounded ==
  \A i \in DOMAIN requests : Passed(i) =>
    Cardinality(PassedInSpan(requests[i].key, requests[i].process, requests[i].counted,
                             requests[i].counted + Window - 1)) <= 2 * Limit

(* retry_after_seconds is enough: of the requests counted since a refusal,  *)
(* one passed by the time a window's length is over, even for a caller that *)
(* never stopped asking.                                                    *)
NobodyIsLockedOut ==
  \A i, j \in DOMAIN requests :
    /\ Limited(i)
    /\ j \in CountedWith(i, requests[i].counted + Window, now)
    => \E m \in CountedWith(i, requests[i].counted, requests[j].counted) : Passed(m)

RequestIsSound(i) ==
  LET q == requests[i] IN
  /\ q.process <= process
  /\ q.counted \in {Never} \union 0 .. now
  /\ q.stage \in {"received", "handling"} => q.process = process /\ q.status = NoStatus
  /\ q.stage = "received" => q.counted = Never
  /\ q.counted = Never => ~ Limited(i)

(* The window that refused a request is over within its length, unless one  *)
(* passed since.                                                            *)
WindowEnds(i) ==
  Limited(i) /\ requests[i].process = process =>
    \/ windows[Bucket(requests[i].key)].resetTime <= requests[i].counted + Window
    \/ \E m \in CountedWith(i, requests[i].counted, now) : Passed(m)

(* The inductive invariant behind the theorems. *)
LimiterInv ==
  /\ TypeOK
  /\ \A k \in Keys : windows[k].resetTime <= now + Window
  /\ \A i \in DOMAIN requests : RequestIsSound(i) /\ WindowEnds(i)
  /\ NobodyIsLockedOut

(* What the counter of header k stands for: the requests counted since its  *)
(* window began.  Of these no more than Limit passed, and no more than      *)
(* Limit in a window's length before, where one earlier window reaches.     *)
WindowCounts(k) ==
  LET w == windows[k]
      start == w.resetTime - Window IN
  /\ InSpan(k, process, w.resetTime, now) = {}
  /\ w.hits = Cardinality(InSpan(k, process, start, now))
  /\ Cardinality(PassedInSpan(k, process, start, now)) <= Limit
  /\ Cardinality(PassedInSpan(k, process, start - Window, start - 1)) <= Limit

CountingInv ==
  /\ LimiterInv
  /\ \A k \in Keys : WindowCounts(k)
  /\ RefusalIsEarned
  /\ BurstIsBounded

(* Every request the process takes in is answered, whatever fails, unless   *)
(* the process ends first.                                                  *)
EveryRequestIsAnswered ==
  \A i \in 1 .. MaxRequests :
    i \in DOMAIN requests ~> i \in DOMAIN requests /\ requests[i].stage \in {"answered", "lost"}
=============================================================================
