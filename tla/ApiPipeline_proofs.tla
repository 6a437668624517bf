-------------------------- MODULE ApiPipeline_proofs --------------------------
(***************************************************************************)
(* For any limit, window, callers and order of requests: a fixed window    *)
(* locks nobody out (LimiterInv is inductive), and refuses and lets past   *)
(* what it should (CountingInv, inductive on top of it).                   *)
(***************************************************************************)
EXTENDS ApiPipeline, SequenceTheorems, FiniteSetTheorems, TLAPS

LEMMA InitialState == Init => LimiterInv
<1> SUFFICES ASSUME Init PROVE LimiterInv
  OBVIOUS
<1>1. TypeOK
  BY DEF Init, TypeOK, FreshWindow
<1>2. \A k \in Keys : windows[k].resetTime <= now + Window
  BY LimitAssumption DEF Init, FreshWindow
<1>3. DOMAIN requests = {}
  BY DEF Init
<1> QED
  BY <1>1, <1>2, <1>3 DEF LimiterInv, NobodyIsLockedOut

LEMMA CountedType ==
  ASSUME TypeOK, NEW k \in Keys
  PROVE  /\ Counted(windows[k]) \in [hits : Nat, resetTime : Int]
         /\ \/ windows[k].resetTime > now /\ Counted(windows[k]).resetTime = windows[k].resetTime
            \/ /\ Counted(windows[k]).hits = 1
               /\ Counted(windows[k]).resetTime = now + Window
  BY LimitAssumption DEF TypeOK, Counted

LEMMA RefusalType == \A q : Refusal(q) \in Statuses /\ Refusal(q) # 429
  BY DEF Refusal, Statuses, NoStatus

LEMMA ResultsType == \A kind : Results(kind) \subseteq Statuses \ {NoStatus, 429}
  BY DEF Results, Statuses, NoStatus

(* A step changes request i alone, and leaves its key and its process.      *)
OnlyChanges(i) ==
  /\ requests' \in Seq(RequestRecords)
  /\ DOMAIN requests' = DOMAIN requests
  /\ \A j \in DOMAIN requests \ {i} : requests'[j] = requests[j]
  /\ requests'[i].key = requests[i].key
  /\ requests'[i].process = requests[i].process

LEMMA ReplaceRequest ==
  ASSUME TypeOK, NEW i \in DOMAIN requests, NEW e \in RequestRecords,
         requests' = [requests EXCEPT ![i] = e],
         e.key = requests[i].key, e.process = requests[i].process
  PROVE  OnlyChanges(i) /\ requests'[i] = e
<1>1. requests \in Seq(RequestRecords) /\ DOMAIN requests = 1 .. Len(requests)
  BY LenProperties DEF TypeOK
<1>2. requests' \in Seq(RequestRecords) /\ Len(requests') = Len(requests)
  BY <1>1, ExceptSeq
<1>3. DOMAIN requests' = DOMAIN requests
  BY <1>1, <1>2, LenProperties
<1>4. \A j \in DOMAIN requests : requests'[j] = IF j = i THEN e ELSE requests[j]
  BY <1>1, ExceptSeq
<1> QED
  BY <1>2, <1>3, <1>4 DEF OnlyChanges

LEMMA RequestType ==
  ASSUME TypeOK, NEW i \in DOMAIN requests
  PROVE  requests[i] \in RequestRecords
  BY ElementOfSeq, LenProperties DEF TypeOK

LEMMA RejectFacts ==
  ASSUME TypeOK, NEW i \in DOMAIN requests, RejectUnparsable(i)
  PROVE  /\ OnlyChanges(i) /\ UNCHANGED <<now, process, windows>>
         /\ requests[i].stage = "received"
         /\ requests'[i].counted = requests[i].counted
         /\ requests'[i].stage = "answered" /\ requests'[i].status = 500
<1>1. requests[i] \in RequestRecords
  BY RequestType
<1>0. 500 \in Statuses /\ "answered" \in Stages
  BY DEF Statuses, Stages
<1>2. Answered(i, 500) \in RequestRecords
  BY <1>0, <1>1 DEF Answered, RequestRecords
<1>3. Answered(i, 500).key = requests[i].key /\ Answered(i, 500).process = requests[i].process
  BY <1>1 DEF Answered, RequestRecords
<1>4. requests' = [requests EXCEPT ![i] = Answered(i, 500)]
  BY DEF RejectUnparsable
<1>5. OnlyChanges(i) /\ requests'[i] = Answered(i, 500)
  BY <1>2, <1>3, <1>4, ReplaceRequest
<1> QED
  BY <1>1, <1>5 DEF RejectUnparsable, Answered, RequestRecords

LEMMA HandleFacts ==
  ASSUME TypeOK, NEW i \in DOMAIN requests, Handle(i)
  PROVE  /\ OnlyChanges(i) /\ UNCHANGED <<now, process, windows>>
         /\ requests[i].stage = "handling"
         /\ requests'[i].counted = requests[i].counted
         /\ requests'[i].stage = "answered" /\ requests'[i].status # 429
<1>1. requests[i] \in RequestRecords
  BY RequestType
<1>2. PICK status \in Results(requests[i].kind) :
        requests' = [requests EXCEPT ![i] = Answered(i, status)]
  BY DEF Handle
<1>3. status \in Statuses \ {429}
  BY ResultsType
<1>4. /\ Answered(i, status) \in RequestRecords
      /\ Answered(i, status).key = requests[i].key
      /\ Answered(i, status).process = requests[i].process
      /\ Answered(i, status).counted = requests[i].counted
      /\ Answered(i, status).stage = "answered" /\ Answered(i, status).status = status
  BY <1>1, <1>3 DEF Answered, RequestRecords, Stages
<1>5. OnlyChanges(i) /\ requests'[i] = Answered(i, status)
  BY <1>2, <1>4, ReplaceRequest
<1> QED
  BY <1>3, <1>4, <1>5 DEF Handle

LEMMA AdmitFacts ==
  ASSUME TypeOK, NEW i \in DOMAIN requests, Admit(i)
  PROVE  LET k == requests[i].key
             w == Counted(windows[k]) IN
         /\ OnlyChanges(i) /\ UNCHANGED <<now, process>>
         /\ k \in Keys /\ windows' = [windows EXCEPT ![k] = w]
         /\ requests[i].stage = "received"
         /\ requests'[i].counted = now
         /\ requests'[i].status = 429 <=> Exceeded(w.hits)
         /\ requests'[i].stage \in {"handling", "answered"}
         /\ requests'[i].stage = "handling" => requests'[i].status = NoStatus
<1> DEFINE w == Counted(windows[requests[i].key])
           status == IF Exceeded(w.hits) THEN 429 ELSE Refusal(requests[i])
           stage == IF status = NoStatus THEN "handling" ELSE "answered"
           e == [requests[i] EXCEPT !.counted = now, !.status = status, !.stage = stage]
<1>1. requests[i] \in RequestRecords
  BY RequestType
<1>2. status \in Statuses /\ (status = 429 <=> Exceeded(w.hits))
  BY RefusalType DEF Statuses
<1>3. requests' = [requests EXCEPT ![i] = e] /\ windows' = [windows EXCEPT ![requests[i].key] = w]
  BY DEF Admit, Bucket
<1>4. requests[i].stage = "received" /\ UNCHANGED <<now, process>>
  BY DEF Admit
<1>0. /\ stage \in Stages /\ stage \in {"handling", "answered"} /\ now \in Int
      /\ stage = "handling" => status = NoStatus
  BY DEF Stages, TypeOK
<1> HIDE DEF w, status, stage
<1>5. /\ e \in RequestRecords
      /\ e.key = requests[i].key /\ e.process = requests[i].process
      /\ e.counted = now /\ e.status = status
      /\ e.stage = stage
  <2> HIDE DEF e
  <2>1. e = [requests[i] EXCEPT !.counted = now, !.status = status, !.stage = stage]
    BY DEF e
  <2>2. /\ now \in Int /\ stage \in Stages /\ status \in Statuses
        /\ requests[i] \in RequestRecords
    BY <1>0, <1>1, <1>2
  <2> QED
    BY ONLY <2>1, <2>2 DEF RequestRecords
<1> HIDE DEF e
<1>6. OnlyChanges(i) /\ requests'[i] = e
  BY <1>3, <1>5, ReplaceRequest
<1> QED
  BY <1>0, <1>1, <1>2, <1>3, <1>4, <1>5, <1>6 DEF RequestRecords, w

(* A new request comes last, uncounted and without a refusal. *)
LEMMA SendFacts ==
  ASSUME TypeOK, NEW k \in Keys, NEW kind \in Kinds, Send(k, kind)
  PROVE  LET n == Len(requests) + 1 IN
         /\ UNCHANGED <<now, process, windows>>
         /\ requests' \in Seq(RequestRecords)
         /\ DOMAIN requests' = DOMAIN requests \union {n} /\ n \notin DOMAIN requests
         /\ \A j \in DOMAIN requests : requests'[j] = requests[j]
         /\ requests'[n].process = process /\ requests'[n].counted = Never
         /\ requests'[n].status \in {NoStatus, 204}
         /\ requests'[n].stage \in {"received", "handling"} => requests'[n].status = NoStatus
<1> DEFINE q == [key |-> k, kind |-> kind, process |-> process, counted |-> Never,
        stage |-> IF kind = "preflight" THEN "answered" ELSE "received",
        status |-> IF kind = "preflight" THEN 204 ELSE NoStatus]
<1>1. q \in RequestRecords
  BY KindAssumption DEF RequestRecords, Stages, Statuses, Never, NoStatus, TypeOK
<1>2. requests' = Append(requests, q) /\ UNCHANGED <<now, process, windows>>
  BY DEF Send
<1>3. /\ q.process = process /\ q.counted = Never /\ q.status \in {NoStatus, 204}
      /\ q.stage \in {"received", "handling"} => q.status = NoStatus
  OBVIOUS
<1> HIDE DEF q
<1>4. requests \in Seq(RequestRecords) /\ DOMAIN requests = 1 .. Len(requests) /\ Len(requests) \in Nat
  BY LenProperties DEF TypeOK
<1>5. requests' \in Seq(RequestRecords) /\ Len(requests') = Len(requests) + 1
  BY <1>1, <1>2, <1>4, AppendProperties
<1>6. DOMAIN requests' = 1 .. (Len(requests) + 1)
  BY <1>5, LenProperties
<1>7. /\ requests'[Len(requests) + 1] = q
      /\ \A j \in 1 .. Len(requests) : requests'[j] = requests[j]
  BY <1>1, <1>2, <1>4, AppendProperties
<1>8. DOMAIN requests' = DOMAIN requests \union {Len(requests) + 1}
      /\ Len(requests) + 1 \notin DOMAIN requests
  BY <1>4, <1>6
<1> QED
  BY <1>2, <1>3, <1>4, <1>5, <1>7, <1>8

(* A restart changes what is not answered to lost, and nothing else of it. *)
LEMMA RestartFacts ==
  ASSUME TypeOK, Restart
  PROVE  /\ now' = now /\ process' = process + 1
         /\ windows' = [k \in Keys |-> FreshWindow]
         /\ requests' \in Seq(RequestRecords) /\ DOMAIN requests' = DOMAIN requests
         /\ \A j \in DOMAIN requests :
              /\ requests'[j].key = requests[j].key
              /\ requests'[j].process = requests[j].process
              /\ requests'[j].counted = requests[j].counted
              /\ requests'[j].status = requests[j].status
              /\ requests'[j].stage \in {"answered", "lost"}
<1> DEFINE After(j) == IF requests[j].stage = "answered" THEN requests[j]
                       ELSE [requests[j] EXCEPT !.stage = "lost"]
<1>1. requests \in Seq(RequestRecords) /\ DOMAIN requests = 1 .. Len(requests) /\ Len(requests) \in Nat
  BY LenProperties DEF TypeOK
<1>2. ASSUME NEW j \in DOMAIN requests
      PROVE  /\ After(j) \in RequestRecords
             /\ After(j).key = requests[j].key
             /\ After(j).process = requests[j].process
             /\ After(j).counted = requests[j].counted
             /\ After(j).status = requests[j].status
             /\ After(j).stage \in {"answered", "lost"}
  <2>1. requests[j] \in RequestRecords
    BY RequestType
  <2> QED
    BY <2>1 DEF RequestRecords, Stages
<1>3. requests' = [j \in DOMAIN requests |-> After(j)]
  BY DEF Restart
<1> HIDE DEF After
<1>4. requests' \in [1 .. Len(requests) -> RequestRecords]
  BY <1>1, <1>2, <1>3
<1>5. requests' \in Seq(RequestRecords)
  BY <1>1, <1>4, SeqDef
<1> QED
  BY <1>2, <1>3, <1>5 DEF Restart

LEMMA TypeStep == TypeOK /\ [Next]_vars => TypeOK'
<1> SUFFICES ASSUME TypeOK, [Next]_vars PROVE TypeOK'
  OBVIOUS
<1> USE DEF TypeOK
<1>1. ASSUME NEW k \in Keys, NEW kind \in Kinds, Send(k, kind) PROVE TypeOK'
  BY <1>1, SendFacts
<1>2. ASSUME NEW i \in DOMAIN requests, Serve(i) PROVE TypeOK'
  <2>1. CASE RejectUnparsable(i)
    BY <2>1, RejectFacts DEF OnlyChanges
  <2>2. CASE Admit(i)
    <3> DEFINE w == Counted(windows[requests[i].key])
    <3>1. /\ windows' = [windows EXCEPT ![requests[i].key] = w] /\ requests[i].key \in Keys
          /\ UNCHANGED <<now, process>> /\ requests' \in Seq(RequestRecords)
      BY <2>2, AdmitFacts DEF OnlyChanges
    <3>2. w \in [hits : Nat, resetTime : Int]
      BY <3>1, CountedType
    <3> HIDE DEF w
    <3> QED
      BY <3>1, <3>2
  <2>3. CASE Handle(i)
    BY <2>3, HandleFacts DEF OnlyChanges
  <2> QED
    BY <1>2, <2>1, <2>2, <2>3 DEF Serve
<1>3. CASE Tick
  BY <1>3 DEF Tick
<1>4. CASE Restart
  BY <1>4, RestartFacts DEF FreshWindow
<1>5. CASE UNCHANGED vars
  BY <1>5 DEF vars
<1> QED
  BY <1>1, <1>2, <1>3, <1>4, <1>5 DEF Next

(* What every step leaves of a request that was counted. *)
Kept(j) ==
  /\ j \in DOMAIN requests'
  /\ requests'[j].key = requests[j].key /\ requests'[j].process = requests[j].process
  /\ requests[j].counted # Never =>
       /\ requests'[j].counted = requests[j].counted
       /\ requests'[j].status = 429 <=> requests[j].status = 429

(* In rs, request m carries the header of i, was counted by its process in  *)
(* the span, and passed.                                                    *)
PassedIn(rs, i, m, from, to) ==
  /\ m \in DOMAIN rs
  /\ rs[m].key = rs[i].key /\ rs[m].process = rs[i].process
  /\ rs[m].counted \in from .. to /\ rs[m].counted # Never
  /\ rs[m].status # 429

LEMMA SpanKept ==
  ASSUME NEW i \in DOMAIN requests, NEW m, NEW from \in Nat, NEW to \in Int,
         Kept(i), Kept(m), PassedIn(requests, i, m, from, to)
  PROVE  PassedIn(requests', i, m, from, to)
  BY DEF Kept, PassedIn

LEMMA SpanGrows ==
  ASSUME NEW rs, NEW i, NEW m, NEW from \in Int, NEW to \in Int, NEW later \in Int,
         to <= later, PassedIn(rs, i, m, from, to)
  PROVE  PassedIn(rs, i, m, from, later)
  BY DEF PassedIn

(* The invariants, in these terms. *)
LEMMA WindowEndsMeans ==
  ASSUME NEW i \in DOMAIN requests
  PROVE  WindowEnds(i) <=>
           (requests[i].status = 429 /\ requests[i].process = process =>
             \/ windows[requests[i].key].resetTime <= requests[i].counted + Window
             \/ \E m : PassedIn(requests, i, m, requests[i].counted, now))
  BY DEF WindowEnds, PassedIn, Limited, Passed, CountedWith, InSpan, Bucket

LEMMA WindowEndsMeansNext ==
  ASSUME NEW i \in DOMAIN requests'
  PROVE  WindowEnds(i)' <=>
           (requests'[i].status = 429 /\ requests'[i].process = process' =>
             \/ windows'[requests'[i].key].resetTime <= requests'[i].counted + Window
             \/ \E m : PassedIn(requests', i, m, requests'[i].counted, now'))
  BY DEF WindowEnds, PassedIn, Limited, Passed, CountedWith, InSpan, Bucket

Unlocked(rs, i, j) ==
  /\ rs[i].status = 429
  /\ rs[j].key = rs[i].key /\ rs[j].process = rs[i].process
  /\ rs[i].counted + Window <= rs[j].counted
  => \E m : PassedIn(rs, i, m, rs[i].counted, rs[j].counted)

LEMMA UnlockedMeans ==
  ASSUME TypeOK, \A i \in DOMAIN requests : RequestIsSound(i)
  PROVE  NobodyIsLockedOut <=> \A i, j \in DOMAIN requests : Unlocked(requests, i, j)
<1>1. \A i \in DOMAIN requests : requests[i].counted \in -1 .. now /\ now \in Nat
  BY DEF TypeOK, RequestIsSound, Never
<1>2. ASSUME NEW i \in DOMAIN requests, NEW j \in DOMAIN requests
      PROVE  /\ j \in CountedWith(i, requests[i].counted + Window, now) <=>
                  /\ requests[j].key = requests[i].key
                  /\ requests[j].process = requests[i].process
                  /\ requests[i].counted + Window <= requests[j].counted
             /\ (\E m \in CountedWith(i, requests[i].counted, requests[j].counted) : Passed(m))
                <=> \E m : PassedIn(requests, i, m, requests[i].counted, requests[j].counted)
  BY <1>1, LimitAssumption DEF CountedWith, InSpan, PassedIn, Never, Passed, Limited
<1> QED
  BY <1>2 DEF NobodyIsLockedOut, Unlocked, Limited

LEMMA UnlockedMeansNext ==
  ASSUME TypeOK', \A i \in DOMAIN requests' : RequestIsSound(i)'
  PROVE  NobodyIsLockedOut' <=> \A i, j \in DOMAIN requests' : Unlocked(requests', i, j)
<1>1. \A i \in DOMAIN requests' : requests'[i].counted \in -1 .. now' /\ now' \in Nat
  BY DEF TypeOK, RequestIsSound, Never
<1>2. ASSUME NEW i \in DOMAIN requests', NEW j \in DOMAIN requests'
      PROVE  /\ j \in CountedWith(i, requests[i].counted + Window, now)' <=>
                  /\ requests'[j].key = requests'[i].key
                  /\ requests'[j].process = requests'[i].process
                  /\ requests'[i].counted + Window <= requests'[j].counted
             /\ (\E m \in CountedWith(i, requests[i].counted, requests[j].counted) : Passed(m))'
                <=> \E m : PassedIn(requests', i, m, requests'[i].counted, requests'[j].counted)
  BY <1>1, LimitAssumption DEF CountedWith, InSpan, PassedIn, Never, Passed, Limited
<1> QED
  BY <1>2 DEF NobodyIsLockedOut, Unlocked, Limited

(* A step that counts nothing keeps what is said of windows and refusals.   *)
LEMMA QuietStep ==
  ASSUME LimiterInv, TypeOK', now <= now',
         \A j \in DOMAIN requests : Kept(j),
         \A j \in DOMAIN requests' : RequestIsSound(j)',
         \A j \in DOMAIN requests' :
           requests'[j].counted # Never =>
             j \in DOMAIN requests /\ requests[j].counted = requests'[j].counted,
         \/ windows' = windows /\ process' = process
         \/ process < process'
  PROVE  NobodyIsLockedOut' /\ \A j \in DOMAIN requests' : WindowEnds(j)'
<1>0. TypeOK /\ now \in Nat /\ now' \in Nat /\ process \in Nat /\ process' \in Nat
  BY DEF LimiterInv, TypeOK
<1>1. \A j \in DOMAIN requests : RequestIsSound(j) /\ WindowEnds(j)
  BY DEF LimiterInv
<1>2. ASSUME NEW j \in DOMAIN requests', requests'[j].counted # Never
      PROVE  /\ j \in DOMAIN requests /\ requests[j].counted \in Nat
             /\ requests'[j].counted = requests[j].counted
             /\ requests'[j].key = requests[j].key /\ requests'[j].process = requests[j].process
             /\ requests'[j].status = 429 <=> requests[j].status = 429
  <2>1. j \in DOMAIN requests /\ requests[j].counted = requests'[j].counted /\ Kept(j)
    BY <1>2
  <2>2. requests[j].counted \in Nat
    BY <1>0, <1>1, <1>2, <2>1 DEF RequestIsSound
  <2> QED
    BY <1>2, <2>1, <2>2 DEF Kept
<1>3. ASSUME NEW j \in DOMAIN requests', requests'[j].status = 429
      PROVE  requests'[j].counted # Never
  BY <1>3 DEF RequestIsSound, Limited
<1>4. ASSUME NEW j \in DOMAIN requests' PROVE WindowEnds(j)'
  <2> SUFFICES ASSUME requests'[j].status = 429, requests'[j].process = process'
      PROVE  \/ windows'[requests'[j].key].resetTime <= requests'[j].counted + Window
             \/ \E m : PassedIn(requests', j, m, requests'[j].counted, now')
    BY WindowEndsMeansNext
  <2>1. /\ j \in DOMAIN requests /\ requests[j].counted \in Nat
        /\ requests'[j].counted = requests[j].counted
        /\ requests'[j].key = requests[j].key /\ requests'[j].process = requests[j].process
        /\ requests[j].status = 429
    BY <1>2, <1>3
  <2>2. windows' = windows /\ process' = process
    BY <1>0, <1>1, <2>1 DEF RequestIsSound
  <2>3. CASE \E m : PassedIn(requests, j, m, requests[j].counted, now)
    <3>1. PICK m : PassedIn(requests, j, m, requests[j].counted, now)
      BY <2>3
    <3>2. PassedIn(requests', j, m, requests[j].counted, now)
      BY <1>0, <2>1, <3>1, SpanKept DEF PassedIn
    <3>3. PassedIn(requests', j, m, requests[j].counted, now')
      BY <1>0, <2>1, <3>2, SpanGrows
    <3> QED
      BY <2>1, <3>3
  <2>4. CASE windows[requests[j].key].resetTime <= requests[j].counted + Window
    BY <2>1, <2>2, <2>4
  <2>5. requests[j].process = process
    BY <2>1, <2>2
  <2> QED
    BY <1>1, <2>1, <2>3, <2>4, <2>5, WindowEndsMeans
<1>5. \A i, j \in DOMAIN requests : Unlocked(requests, i, j)
  BY <1>0, <1>1, UnlockedMeans DEF LimiterInv
<1>6. ASSUME NEW i \in DOMAIN requests', NEW j \in DOMAIN requests'
      PROVE  Unlocked(requests', i, j)
  <2> SUFFICES ASSUME requests'[i].status = 429, requests'[j].key = requests'[i].key,
                      requests'[j].process = requests'[i].process,
                      requests'[i].counted + Window <= requests'[j].counted
      PROVE  \E m : PassedIn(requests', i, m, requests'[i].counted, requests'[j].counted)
    BY DEF Unlocked
  <2>1. /\ i \in DOMAIN requests /\ requests[i].counted \in Nat
        /\ requests'[i].counted = requests[i].counted
        /\ requests'[i].key = requests[i].key /\ requests'[i].process = requests[i].process
        /\ requests[i].status = 429
    BY <1>2, <1>3
  <2>2. requests'[j].counted # Never
    BY <2>1, LimitAssumption DEF Never
  <2>3. /\ j \in DOMAIN requests /\ requests[j].counted \in Nat
        /\ requests'[j].counted = requests[j].counted
        /\ requests'[j].key = requests[j].key /\ requests'[j].process = requests[j].process
    BY <1>2, <2>2
  <2>4. PICK m : PassedIn(requests, i, m, requests[i].counted, requests[j].counted)
    BY <1>5, <2>1, <2>3 DEF Unlocked
  <2>5. PassedIn(requests', i, m, requests[i].counted, requests[j].counted)
    BY <2>1, <2>3, <2>4, SpanKept DEF PassedIn
  <2> QED
    BY <2>1, <2>3, <2>5
<1> QED
  BY <1>4, <1>6, UnlockedMeansNext

LEMMA SendStep ==
  ASSUME LimiterInv, TypeOK', NEW k \in Keys, NEW kind \in Kinds, Send(k, kind)
  PROVE  LimiterInv'
<1> DEFINE n == Len(requests) + 1
<1>0. TypeOK /\ now \in Nat /\ process \in Nat
  BY DEF LimiterInv, TypeOK
<1>1. /\ UNCHANGED <<now, process, windows>>
      /\ DOMAIN requests' = DOMAIN requests \union {n} /\ n \notin DOMAIN requests
      /\ \A j \in DOMAIN requests : requests'[j] = requests[j]
      /\ requests'[n].process = process /\ requests'[n].counted = Never
      /\ requests'[n].status \in {NoStatus, 204}
      /\ requests'[n].stage \in {"received", "handling"} => requests'[n].status = NoStatus
  BY <1>0, SendFacts
<1> HIDE DEF n
<1>2. \A j \in DOMAIN requests : Kept(j)
  BY <1>1 DEF Kept
<1>3. ASSUME NEW j \in DOMAIN requests' PROVE RequestIsSound(j)'
  <2>1. CASE j = n
    BY <1>0, <1>1, <2>1 DEF RequestIsSound, Limited, NoStatus
  <2>2. CASE j \in DOMAIN requests
    BY <1>1, <2>2 DEF LimiterInv, RequestIsSound, Limited
  <2> QED
    BY <1>1, <2>1, <2>2
<1>4. \A j \in DOMAIN requests' : requests'[j].counted # Never =>
        j \in DOMAIN requests /\ requests[j].counted = requests'[j].counted
  BY <1>1
<1>5. NobodyIsLockedOut' /\ \A j \in DOMAIN requests' : WindowEnds(j)'
  BY <1>0, <1>1, <1>2, <1>3, <1>4, QuietStep
<1> QED
  BY <1>1, <1>3, <1>5 DEF LimiterInv

(* A request that is rejected or handled was counted or not before. *)
LEMMA AnswerStep ==
  ASSUME LimiterInv, TypeOK', NEW i \in DOMAIN requests, OnlyChanges(i),
         UNCHANGED <<now, process, windows>>,
         requests[i].stage \in {"received", "handling"},
         requests'[i].counted = requests[i].counted,
         requests'[i].stage = "answered", requests'[i].status # 429
  PROVE  LimiterInv'
<1>0. TypeOK /\ now \in Nat
  BY DEF LimiterInv, TypeOK
<1>1. requests[i].status # 429
  BY DEF LimiterInv, RequestIsSound, NoStatus
<1>2. \A j \in DOMAIN requests : Kept(j)
  BY <1>1 DEF Kept, OnlyChanges
<1>3. ASSUME NEW j \in DOMAIN requests' PROVE RequestIsSound(j)'
  <2>1. j \in DOMAIN requests /\ RequestIsSound(j)
    BY DEF OnlyChanges, LimiterInv
  <2>2. CASE j = i
    BY <2>1, <2>2 DEF RequestIsSound, Limited, OnlyChanges
  <2>3. CASE j # i
    BY <2>1, <2>3 DEF RequestIsSound, Limited, OnlyChanges
  <2> QED
    BY <2>2, <2>3
<1>4. \A j \in DOMAIN requests' : requests'[j].counted # Never =>
        j \in DOMAIN requests /\ requests[j].counted = requests'[j].counted
  BY DEF OnlyChanges
<1>5. NobodyIsLockedOut' /\ \A j \in DOMAIN requests' : WindowEnds(j)'
  BY <1>0, <1>2, <1>3, <1>4, QuietStep
<1> QED
  BY <1>3, <1>5 DEF LimiterInv

(* The step that counts.  A refusal leaves its window as it was, to end     *)
(* within its length; the first request of a window passes.                 *)
LEMMA AdmitStep ==
  ASSUME LimiterInv, TypeOK', NEW i \in DOMAIN requests, Admit(i)
  PROVE  LimiterInv'
<1> DEFINE k == requests[i].key
           w == Counted(windows[k])
<1>0. TypeOK /\ now \in Nat /\ process \in Nat
  BY DEF LimiterInv, TypeOK
<1>1. /\ OnlyChanges(i) /\ now' = now /\ process' = process
      /\ k \in Keys /\ windows' = [windows EXCEPT ![k] = w]
      /\ requests[i].stage = "received" /\ requests'[i].counted = now
      /\ requests'[i].status = 429 <=> Exceeded(w.hits)
      /\ requests'[i].stage \in {"handling", "answered"}
      /\ requests'[i].stage = "handling" => requests'[i].status = NoStatus
  BY <1>0, AdmitFacts
<1>2. \/ w.resetTime = windows[k].resetTime /\ windows[k].resetTime > now
      \/ w.resetTime = now + Window /\ requests'[i].status # 429
  BY <1>0, <1>1, CountedType, LimitAssumption DEF Exceeded
<1>3. windows \in [Keys -> [hits : Nat, resetTime : Int]]
  BY <1>0 DEF TypeOK
<1> HIDE DEF w
<1>4. windows'[k] = w /\ \A key \in Keys \ {k} : windows'[key] = windows[key]
  BY <1>1, <1>3
<1>5. \A key \in Keys : windows'[key].resetTime <= now' + Window
  BY <1>0, <1>1, <1>2, <1>3, <1>4, LimitAssumption DEF LimiterInv
<1>6. /\ requests[i].counted = Never /\ requests[i].process = process
      /\ requests[i].status # 429
  BY <1>1 DEF LimiterInv, RequestIsSound, NoStatus
<1>7. /\ DOMAIN requests' = DOMAIN requests
      /\ requests'[i].key = k /\ requests'[i].process = process
      /\ \A j \in DOMAIN requests : Kept(j)
      /\ \A j \in DOMAIN requests \ {i} : requests'[j] = requests[j]
  BY <1>1, <1>6 DEF OnlyChanges, Kept
<1>8. \A j \in DOMAIN requests :
        /\ RequestIsSound(j) /\ WindowEnds(j) /\ requests[j].key \in Keys
        /\ requests[j].status = 429 => requests[j].counted \in 0 .. now
  BY <1>0, RequestType DEF LimiterInv, RequestIsSound, Limited, RequestRecords
<1>9. ASSUME NEW j \in DOMAIN requests' PROVE RequestIsSound(j)'
  <2>1. CASE j = i
    BY <1>0, <1>1, <1>7, <2>1 DEF RequestIsSound, Limited, Never
  <2>2. CASE j # i
    BY <1>1, <1>7, <1>8, <2>2 DEF RequestIsSound, Limited
  <2> QED
    BY <2>1, <2>2
<1>10. ASSUME NEW j \in DOMAIN requests' PROVE WindowEnds(j)'
  <2> SUFFICES ASSUME requests'[j].status = 429, requests'[j].process = process'
      PROVE  \/ windows'[requests'[j].key].resetTime <= requests'[j].counted + Window
             \/ \E m : PassedIn(requests', j, m, requests'[j].counted, now')
    BY WindowEndsMeansNext
  <2>1. CASE j = i
    BY <1>0, <1>1, <1>2, <1>3, <1>4, <1>7, <2>1 DEF LimiterInv
  <2>2. CASE j # i /\ requests[j].key = k
    <3>1. requests'[j] = requests[j] /\ requests[j].counted \in 0 .. now /\ requests[j].process = process
      BY <1>1, <1>7, <1>8, <2>2
    <3>2. CASE w.resetTime = now + Window /\ requests'[i].status # 429
      <4>1. PassedIn(requests', j, i, requests'[j].counted, now')
        BY <1>0, <1>1, <1>7, <2>2, <3>1, <3>2 DEF PassedIn, Never
      <4> QED
        BY <4>1
    <3>3. CASE w.resetTime = windows[k].resetTime
      <4>1. CASE windows[k].resetTime <= requests[j].counted + Window
        BY <1>4, <2>2, <3>1, <3>3, <4>1
      <4>2. ASSUME NEW m, PassedIn(requests, j, m, requests[j].counted, now)
            PROVE  PassedIn(requests', j, m, requests[j].counted, now)
        BY <1>0, <1>7, <3>1, <4>2, SpanKept DEF PassedIn
      <4> QED
        BY <1>1, <1>7, <1>8, <2>2, <3>1, <4>1, <4>2, WindowEndsMeans
    <3> QED
      BY <1>2, <3>2, <3>3
  <2>3. CASE j # i /\ requests[j].key # k
    <3>1. requests'[j] = requests[j] /\ requests[j].counted \in 0 .. now /\ requests[j].process = process
      BY <1>1, <1>7, <1>8, <2>3
    <3>2. windows'[requests[j].key] = windows[requests[j].key]
      BY <1>4, <1>7, <1>8, <2>3
    <3>3. ASSUME NEW m, PassedIn(requests, j, m, requests[j].counted, now)
          PROVE  PassedIn(requests', j, m, requests[j].counted, now)
      BY <1>0, <1>7, <3>1, <3>3, SpanKept DEF PassedIn
    <3> QED
      BY <1>1, <1>7, <1>8, <3>1, <3>2, <3>3, WindowEndsMeans
  <2> QED
    BY <2>1, <2>2, <2>3
<1>11. \A a, b \in DOMAIN requests : Unlocked(requests, a, b)
  BY <1>0, <1>8, UnlockedMeans DEF LimiterInv
<1>12. ASSUME NEW a \in DOMAIN requests', NEW b \in DOMAIN requests'
       PROVE  Unlocked(requests', a, b)
  <2> SUFFICES ASSUME requests'[a].status = 429, requests'[b].key = requests'[a].key,
                      requests'[b].process = requests'[a].process,
                      requests'[a].counted + Window <= requests'[b].counted
      PROVE  \E m : PassedIn(requests', a, m, requests'[a].counted, requests'[b].counted)
    BY DEF Unlocked
  <2>1. requests'[b].counted \in Int /\ requests'[b].counted <= now
    <3>1. requests'[b].counted \in {Never} \union 0 .. now
      BY <1>1, <1>9 DEF RequestIsSound
    <3> QED
      BY <1>0, <3>1 DEF Never
  <2>2. a # i
    <3>1. requests'[i].counted = now
      BY <1>1
    <3> QED
      BY <1>0, <2>1, <3>1, LimitAssumption
  <2>3. requests'[a] = requests[a] /\ requests[a].counted \in 0 .. now
    BY <1>7, <1>8, <2>2
  <2>4. CASE b # i
    <3>1. requests'[b] = requests[b] /\ requests[b].counted \in Nat
      <4>1. b \in DOMAIN requests /\ requests'[b] = requests[b]
        BY <1>7, <2>4
      <4>2. requests[a].counted + Window <= requests[b].counted
        BY <2>3, <4>1
      <4>3. requests[b].counted \in {Never} \union 0 .. now
        BY <1>8, <4>1 DEF LimiterInv, RequestIsSound
      <4> QED
        BY <1>0, <2>3, <4>1, <4>2, <4>3, LimitAssumption DEF Never
    <3>2. PICK m : PassedIn(requests, a, m, requests[a].counted, requests[b].counted)
      BY <1>7, <1>11, <2>3, <3>1 DEF Unlocked
    <3>3. PassedIn(requests', a, m, requests[a].counted, requests[b].counted)
      BY <1>7, <2>3, <3>1, <3>2, SpanKept DEF PassedIn
    <3> QED
      BY <2>3, <3>1, <3>3
  <2>5. CASE b = i
    <3>1. requests[a].key = k /\ requests[a].process = process /\ requests[a].counted + Window <= now
      BY <1>1, <1>7, <2>3, <2>5
    <3>2. CASE requests'[i].status # 429
      <4>1. PassedIn(requests', a, i, requests'[a].counted, requests'[b].counted)
        BY <1>0, <1>1, <1>7, <2>3, <2>5, <3>1, <3>2 DEF PassedIn, Never
      <4> QED
        BY <4>1
    <3>3. CASE requests'[i].status = 429
      <4>1. ~ (windows[k].resetTime <= requests[a].counted + Window)
        BY <1>0, <1>1, <1>2, <1>3, <2>3, <3>1, <3>3, LimitAssumption
      <4>2. PICK m : PassedIn(requests, a, m, requests[a].counted, now)
        BY <1>7, <1>8, <2>3, <3>1, <4>1, WindowEndsMeans
      <4>3. PassedIn(requests', a, m, requests[a].counted, now)
        BY <1>0, <1>7, <2>3, <4>2, SpanKept DEF PassedIn
      <4> QED
        BY <1>1, <2>3, <2>5, <4>3
    <3> QED
      BY <3>2, <3>3
  <2> QED
    BY <2>4, <2>5
<1>13. NobodyIsLockedOut'
  BY <1>9, <1>12, UnlockedMeansNext
<1> QED
  BY <1>5, <1>9, <1>10, <1>13 DEF LimiterInv

LEMMA Inductive == LimiterInv /\ [Next]_vars => LimiterInv'
<1> SUFFICES ASSUME LimiterInv, [Next]_vars PROVE LimiterInv'
  OBVIOUS
<1>0. TypeOK /\ TypeOK' /\ now \in Nat /\ process \in Nat
  BY TypeStep DEF LimiterInv, TypeOK
<1>1. ASSUME NEW k \in Keys, NEW kind \in Kinds, Send(k, kind) PROVE LimiterInv'
  BY <1>0, <1>1, SendStep
<1>2. ASSUME NEW i \in DOMAIN requests, Serve(i) PROVE LimiterInv'
  <2>1. CASE RejectUnparsable(i)
    <3>1. /\ OnlyChanges(i) /\ UNCHANGED <<now, process, windows>>
          /\ requests[i].stage = "received"
          /\ requests'[i].counted = requests[i].counted
          /\ requests'[i].stage = "answered" /\ requests'[i].status # 429
      BY <1>0, <2>1, RejectFacts
    <3> QED
      BY <1>0, <3>1, AnswerStep
  <2>2. CASE Admit(i)
    BY <1>0, <2>2, AdmitStep
  <2>3. CASE Handle(i)
    BY <1>0, <2>3, HandleFacts, AnswerStep
  <2> QED
    BY <1>2, <2>1, <2>2, <2>3 DEF Serve
<1>3. CASE Tick
  <2>1. /\ now' = now + 1 /\ UNCHANGED <<process, windows, requests>>
    BY <1>3 DEF Tick
  <2>2. \A j \in DOMAIN requests' : RequestIsSound(j)'
    BY <1>0, <2>1 DEF LimiterInv, RequestIsSound, Limited, Never
  <2>3. \A j \in DOMAIN requests : Kept(j)
    BY <2>1 DEF Kept
  <2>4. NobodyIsLockedOut' /\ \A j \in DOMAIN requests' : WindowEnds(j)'
    BY <1>0, <2>1, <2>2, <2>3, QuietStep
  <2>5. \A k \in Keys : windows'[k].resetTime <= now' + Window
    BY <1>0, <2>1, LimitAssumption DEF LimiterInv, TypeOK
  <2> QED
    BY <1>0, <2>2, <2>4, <2>5 DEF LimiterInv
<1>4. CASE Restart
  <2>1. /\ now' = now /\ process' = process + 1
        /\ windows' = [k \in Keys |-> FreshWindow]
        /\ DOMAIN requests' = DOMAIN requests
        /\ \A j \in DOMAIN requests :
             /\ requests'[j].key = requests[j].key
             /\ requests'[j].process = requests[j].process
             /\ requests'[j].counted = requests[j].counted
             /\ requests'[j].status = requests[j].status
             /\ requests'[j].stage \in {"answered", "lost"}
    BY <1>0, <1>4, RestartFacts
  <2>2. ASSUME NEW j \in DOMAIN requests' PROVE RequestIsSound(j)'
    <3>1. RequestIsSound(j) /\ requests[j] \in RequestRecords
      BY <1>0, <2>1, RequestType DEF LimiterInv
    <3> QED
      BY <1>0, <2>1, <3>1 DEF RequestIsSound, Limited, RequestRecords
  <2>3. \A j \in DOMAIN requests : Kept(j)
    BY <2>1 DEF Kept
  <2>4. NobodyIsLockedOut' /\ \A j \in DOMAIN requests' : WindowEnds(j)'
    BY <1>0, <2>1, <2>2, <2>3, QuietStep
  <2>5. \A k \in Keys : windows'[k].resetTime <= now' + Window
    BY <1>0, <2>1, LimitAssumption DEF FreshWindow
  <2> QED
    BY <1>0, <2>2, <2>4, <2>5 DEF LimiterInv
<1>5. CASE UNCHANGED vars
  <2>1. UNCHANGED <<now, process, windows, requests>>
    BY <1>5 DEF vars
  <2>2. \A j \in DOMAIN requests' : RequestIsSound(j)'
    BY <2>1 DEF LimiterInv, RequestIsSound, Limited
  <2>3. \A j \in DOMAIN requests : Kept(j)
    BY <2>1 DEF Kept
  <2>4. NobodyIsLockedOut' /\ \A j \in DOMAIN requests' : WindowEnds(j)'
    BY <1>0, <2>1, <2>2, <2>3, QuietStep
  <2>5. \A k \in Keys : windows'[k].resetTime <= now' + Window
    BY <2>1 DEF LimiterInv
  <2> QED
    BY <1>0, <2>2, <2>4, <2>5 DEF LimiterInv
<1> QED
  BY <1>1, <1>2, <1>3, <1>4, <1>5 DEF Next

(* Whatever callers send and however often the process restarts, the        *)
(* windows and the refusals stay consistent.                                *)
THEOREM LimiterInvariant == Spec => []LimiterInv
<1>1. Init => LimiterInv
  BY InitialState
<1>2. LimiterInv /\ [Next]_vars => LimiterInv'
  BY Inductive
<1> QED
  BY <1>1, <1>2, PTL DEF Spec

(* A caller that keeps asking is let through within a window of a refusal.  *)
THEOREM FixedWindowLocksNobodyOut == Spec => []NobodyIsLockedOut
<1>1. LimiterInv => NobodyIsLockedOut
  BY DEF LimiterInv
<1> QED
  BY <1>1, LimiterInvariant, PTL

-----------------------------------------------------------------------------
(* Counting: what InSpan and PassedInSpan are in a given list of requests.  *)

Span(rs, k, p, from, to) ==
  {j \in DOMAIN rs : /\ rs[j].key = k /\ rs[j].process = p
                     /\ rs[j].counted # Never /\ rs[j].counted \in from .. to}
PassedSpan(rs, k, p, from, to) == {j \in Span(rs, k, p, from, to) : rs[j].status # 429}

LEMMA CountedIsInt ==
  ASSUME NEW rs \in Seq(RequestRecords), NEW j \in DOMAIN rs
  PROVE  rs[j].counted \in Int
<1>1. rs[j] \in RequestRecords
  BY ElementOfSeq, LenProperties
<1> QED
  BY <1>1 DEF RequestRecords

LEMMA SpanMeans ==
  ASSUME NEW k, NEW p, NEW from, NEW to
  PROVE  /\ InSpan(k, p, from, to) = Span(requests, k, p, from, to)
         /\ PassedInSpan(k, p, from, to) = PassedSpan(requests, k, p, from, to)
  BY DEF InSpan, PassedInSpan, Passed, Limited, Span, PassedSpan

LEMMA SpanFinite ==
  ASSUME NEW rs \in Seq(RequestRecords), NEW k, NEW p, NEW from, NEW to
  PROVE  /\ IsFiniteSet(Span(rs, k, p, from, to))
         /\ IsFiniteSet(PassedSpan(rs, k, p, from, to))
         /\ PassedSpan(rs, k, p, from, to) \in SUBSET Span(rs, k, p, from, to)
         /\ Cardinality(Span(rs, k, p, from, to)) \in Nat
         /\ Cardinality(PassedSpan(rs, k, p, from, to)) \in Nat
         /\ Cardinality(PassedSpan(rs, k, p, from, to)) <= Cardinality(Span(rs, k, p, from, to))
<1>1. DOMAIN rs = 1 .. Len(rs) /\ Len(rs) \in Nat
  BY LenProperties
<1>2. IsFiniteSet(DOMAIN rs)
  BY <1>1, FS_Interval
<1>3. Span(rs, k, p, from, to) \in SUBSET DOMAIN rs
  BY DEF Span
<1>4. IsFiniteSet(Span(rs, k, p, from, to))
  BY <1>2, <1>3, FS_Subset
<1>5. PassedSpan(rs, k, p, from, to) \in SUBSET Span(rs, k, p, from, to)
  BY DEF PassedSpan
<1> QED
  BY <1>4, <1>5, FS_Subset, FS_CardinalityType

(* No more requests passed in a span than in one around it. *)
LEMMA SpanInside ==
  ASSUME NEW rs \in Seq(RequestRecords), NEW k, NEW p,
         NEW from \in Int, NEW to \in Int, NEW outerFrom \in Int, NEW outerTo \in Int,
         outerFrom <= from, to <= outerTo
  PROVE  Cardinality(PassedSpan(rs, k, p, from, to))
           <= Cardinality(PassedSpan(rs, k, p, outerFrom, outerTo))
<1>1. \A j \in DOMAIN rs : rs[j].counted \in Int
  BY CountedIsInt
<1>2. PassedSpan(rs, k, p, from, to) \in SUBSET PassedSpan(rs, k, p, outerFrom, outerTo)
  <2>1. ASSUME NEW c \in Int, c \in from .. to PROVE c \in outerFrom .. outerTo
    BY <2>1
  <2> QED
    BY <1>1, <2>1 DEF PassedSpan, Span
<1>3. IsFiniteSet(PassedSpan(rs, k, p, outerFrom, outerTo))
  BY SpanFinite
<1> QED
  BY <1>2, <1>3, FS_Subset

(* A span split at a point. *)
LEMMA SpanSplit ==
  ASSUME NEW rs \in Seq(RequestRecords), NEW k, NEW p,
         NEW from \in Int, NEW at \in Int, NEW to \in Int
  PROVE  Cardinality(PassedSpan(rs, k, p, from, to))
           <= Cardinality(PassedSpan(rs, k, p, from, at - 1))
                + Cardinality(PassedSpan(rs, k, p, at, to))
<1> DEFINE left == PassedSpan(rs, k, p, from, at - 1)
           right == PassedSpan(rs, k, p, at, to)
           whole == PassedSpan(rs, k, p, from, to)
<1>1. \A j \in DOMAIN rs : rs[j].counted \in Int
  BY CountedIsInt
<1>2. whole \in SUBSET (left \union right)
  <2>1. ASSUME NEW c \in Int, c \in from .. to PROVE c \in from .. at - 1 \/ c \in at .. to
    BY <2>1
  <2> QED
    BY <1>1, <2>1 DEF PassedSpan, Span
<1>3. /\ IsFiniteSet(left) /\ IsFiniteSet(right)
      /\ Cardinality(left) \in Nat /\ Cardinality(right) \in Nat
  BY SpanFinite
<1> HIDE DEF left, right, whole
<1>4. /\ IsFiniteSet(left \union right)
      /\ Cardinality(left \union right)
           = Cardinality(left) + Cardinality(right) - Cardinality(left \intersect right)
  BY <1>3, FS_Union
<1>5. left \intersect right \in SUBSET left
  OBVIOUS
<1>6. Cardinality(left \intersect right) \in Nat
  BY <1>3, <1>5, FS_Subset, FS_CardinalityType
<1>7. Cardinality(whole) <= Cardinality(left \union right)
  BY <1>2, <1>4, FS_Subset
<1>8. IsFiniteSet(whole) /\ Cardinality(whole) \in Nat
  BY <1>2, <1>4, FS_Subset, FS_CardinalityType
<1> QED
  BY <1>3, <1>4, <1>6, <1>7, <1>8 DEF left, right, whole

(* The invariants, in these terms. *)
Counts(rs, ws, p, t, k) ==
  LET start == ws[k].resetTime - Window IN
  /\ Span(rs, k, p, ws[k].resetTime, t) = {}
  /\ ws[k].hits = Cardinality(Span(rs, k, p, start, t))
  /\ Cardinality(PassedSpan(rs, k, p, start, t)) <= Limit
  /\ Cardinality(PassedSpan(rs, k, p, start - Window, start - 1)) <= Limit

Earned(rs, i) ==
  rs[i].status = 429 =>
    Limit <= Cardinality(Span(rs, rs[i].key, rs[i].process,
                              rs[i].counted - Window + 1, rs[i].counted) \ {i})

Bounded(rs, i) ==
  rs[i].counted # Never /\ rs[i].status # 429 =>
    Cardinality(PassedSpan(rs, rs[i].key, rs[i].process, rs[i].counted,
                           rs[i].counted + Window - 1)) <= 2 * Limit

LEMMA CountingMeans ==
  /\ \A k \in Keys : WindowCounts(k) <=> Counts(requests, windows, process, now, k)
  /\ RefusalIsEarned <=> \A i \in DOMAIN requests : Earned(requests, i)
  /\ BurstIsBounded <=> \A i \in DOMAIN requests : Bounded(requests, i)
  BY SpanMeans DEF WindowCounts, Counts, RefusalIsEarned, Earned, BurstIsBounded, Bounded,
                   CountedWith, Passed, Limited

LEMMA CountingMeansNext ==
  /\ \A k \in Keys : WindowCounts(k)' <=> Counts(requests', windows', process', now', k)
  /\ RefusalIsEarned' <=> \A i \in DOMAIN requests' : Earned(requests', i)
  /\ BurstIsBounded' <=> \A i \in DOMAIN requests' : Bounded(requests', i)
<1>1. \A k \in Keys : WindowCounts(k)' <=> Counts(requests', windows', process', now', k)
  BY DEF WindowCounts, Counts, InSpan, PassedInSpan, Passed, Limited, Span, PassedSpan
<1>2. RefusalIsEarned' <=> \A i \in DOMAIN requests' : Earned(requests', i)
  BY DEF RefusalIsEarned, Earned, CountedWith, Passed, Limited, InSpan, Span
<1>3. BurstIsBounded' <=> \A i \in DOMAIN requests' : Bounded(requests', i)
  BY DEF BurstIsBounded, Bounded, InSpan, PassedInSpan, Passed, Limited, Span, PassedSpan
<1> QED
  BY <1>1, <1>2, <1>3

(* A step that counts nothing: every span stays what it was. *)
LEMMA QuietSpan ==
  ASSUME \A j \in DOMAIN requests : Kept(j),
         \A j \in DOMAIN requests' :
           requests'[j].counted # Never =>
             j \in DOMAIN requests /\ requests[j].counted = requests'[j].counted,
         NEW k, NEW p, NEW from, NEW to
  PROVE  /\ Span(requests', k, p, from, to) = Span(requests, k, p, from, to)
         /\ PassedSpan(requests', k, p, from, to) = PassedSpan(requests, k, p, from, to)
<1>1. ASSUME NEW j
      PROVE  /\ j \in Span(requests', k, p, from, to) <=> j \in Span(requests, k, p, from, to)
             /\ j \in Span(requests, k, p, from, to) =>
                  (requests'[j].status = 429 <=> requests[j].status = 429)
  <2>1. ASSUME j \in Span(requests', k, p, from, to)
        PROVE  j \in Span(requests, k, p, from, to)
    <3>1. j \in DOMAIN requests /\ requests[j].counted = requests'[j].counted /\ Kept(j)
      BY <2>1 DEF Span
    <3> QED
      BY <2>1, <3>1, Zenon DEF Span, Kept
  <2>2. ASSUME j \in Span(requests, k, p, from, to)
        PROVE  /\ j \in Span(requests', k, p, from, to)
               /\ requests'[j].status = 429 <=> requests[j].status = 429
    <3>1. j \in DOMAIN requests /\ requests[j].counted # Never /\ Kept(j)
      BY <2>2 DEF Span
    <3>2. /\ j \in DOMAIN requests' /\ requests'[j].counted = requests[j].counted
          /\ requests'[j].key = requests[j].key /\ requests'[j].process = requests[j].process
          /\ requests'[j].status = 429 <=> requests[j].status = 429
      BY <3>1 DEF Kept
    <3> QED
      BY <2>2, <3>2, Zenon DEF Span
  <2> QED
    BY <2>1, <2>2
<1>2. Span(requests', k, p, from, to) = Span(requests, k, p, from, to)
  BY <1>1, Zenon
<1>3. ASSUME NEW j
      PROVE  j \in PassedSpan(requests', k, p, from, to) <=> j \in PassedSpan(requests, k, p, from, to)
  <2>1. CASE j \in Span(requests, k, p, from, to)
    <3>1. j \in Span(requests', k, p, from, to) /\ (requests'[j].status = 429 <=> requests[j].status = 429)
      BY <1>1, <2>1
    <3> QED
      BY <2>1, <3>1 DEF PassedSpan
  <2>2. CASE j \notin Span(requests, k, p, from, to)
    BY <1>1, <2>2 DEF PassedSpan
  <2> QED
    BY <2>1, <2>2
<1> QED
  BY <1>2, <1>3, Zenon

LEMMA QuietCounting ==
  ASSUME \A j \in DOMAIN requests : Kept(j),
         \A j \in DOMAIN requests' : RequestIsSound(j)',
         \A j \in DOMAIN requests' :
           requests'[j].counted # Never =>
             j \in DOMAIN requests /\ requests[j].counted = requests'[j].counted,
         RefusalIsEarned, BurstIsBounded
  PROVE  RefusalIsEarned' /\ BurstIsBounded'
<1>1. ASSUME NEW j \in DOMAIN requests', requests'[j].counted # Never
      PROVE  /\ j \in DOMAIN requests
             /\ requests'[j].counted = requests[j].counted
             /\ requests'[j].key = requests[j].key /\ requests'[j].process = requests[j].process
             /\ requests'[j].status = 429 <=> requests[j].status = 429
  BY <1>1 DEF Kept
<1>2. ASSUME NEW j \in DOMAIN requests', requests'[j].status = 429
      PROVE  requests'[j].counted # Never
  BY <1>2 DEF RequestIsSound, Limited
<1>3. ASSUME NEW j \in DOMAIN requests' PROVE Earned(requests', j)
  BY <1>1, <1>2, QuietSpan, CountingMeans DEF Earned
<1>4. ASSUME NEW j \in DOMAIN requests' PROVE Bounded(requests', j)
  BY <1>1, QuietSpan, CountingMeans DEF Bounded
<1> QED
  BY <1>3, <1>4, CountingMeansNext

(* Nothing is counted in the future. *)
LEMMA SpanUntil ==
  ASSUME NEW rs \in Seq(RequestRecords), NEW t \in Int, NEW u \in Int,
         \A j \in DOMAIN rs : rs[j].counted <= t,
         NEW k, NEW p, NEW from \in Int, t <= u
  PROVE  /\ Span(rs, k, p, from, u) = Span(rs, k, p, from, t)
         /\ PassedSpan(rs, k, p, from, u) = PassedSpan(rs, k, p, from, t)
<1>1. ASSUME NEW j \in DOMAIN rs
      PROVE  rs[j].counted \in from .. u <=> rs[j].counted \in from .. t
  <2>1. rs[j].counted \in Int /\ rs[j].counted <= t
    BY CountedIsInt
  <2> QED
    BY <2>1
<1>2. Span(rs, k, p, from, u) = Span(rs, k, p, from, t)
  BY <1>1, Zenon DEF Span
<1> QED
  BY <1>2 DEF PassedSpan

(* The step that counts request i adds it to the spans it is in. *)
LEMMA AdmitSpan ==
  ASSUME NEW i \in DOMAIN requests, OnlyChanges(i), now \in Nat,
         requests[i].counted = Never, requests'[i].counted = now,
         NEW k, NEW p, NEW from \in Int, NEW to \in Int
  PROVE  LET in == requests[i].key = k /\ requests[i].process = p /\ now \in from .. to IN
         /\ i \notin Span(requests, k, p, from, to)
         /\ in => Span(requests', k, p, from, to) = Span(requests, k, p, from, to) \union {i}
         /\ ~ in => Span(requests', k, p, from, to) = Span(requests, k, p, from, to)
         /\ ~ in \/ requests'[i].status = 429 =>
              PassedSpan(requests', k, p, from, to) = PassedSpan(requests, k, p, from, to)
<1> DEFINE in == requests[i].key = k /\ requests[i].process = p /\ now \in from .. to
<1>1. /\ i \notin Span(requests, k, p, from, to)
      /\ i \in Span(requests', k, p, from, to) <=> in
  BY DEF Span, OnlyChanges, Never
<1>2. ASSUME NEW j, j # i
      PROVE  /\ j \in Span(requests', k, p, from, to) <=> j \in Span(requests, k, p, from, to)
             /\ j \in PassedSpan(requests', k, p, from, to) <=> j \in PassedSpan(requests, k, p, from, to)
  <2>1. CASE j \in DOMAIN requests
    <3>1. requests'[j] = requests[j] /\ j \in DOMAIN requests'
      BY <1>2, <2>1 DEF OnlyChanges
    <3> QED
      BY <2>1, <3>1, Zenon DEF Span, PassedSpan
  <2>2. CASE j \notin DOMAIN requests
    BY <2>2 DEF Span, PassedSpan, OnlyChanges
  <2> QED
    BY <2>1, <2>2
<1>3. /\ i \notin PassedSpan(requests, k, p, from, to)
      /\ i \in PassedSpan(requests', k, p, from, to) <=> in /\ requests'[i].status # 429
  BY <1>1 DEF PassedSpan
<1> HIDE DEF in
<1>4. /\ in => Span(requests', k, p, from, to) = Span(requests, k, p, from, to) \union {i}
      /\ ~ in => Span(requests', k, p, from, to) = Span(requests, k, p, from, to)
  BY <1>1, <1>2
<1>5. ~ in \/ requests'[i].status = 429 =>
        PassedSpan(requests', k, p, from, to) = PassedSpan(requests, k, p, from, to)
  BY <1>2, <1>3
<1> QED
  BY <1>1, <1>4, <1>5 DEF in

(* What a counted request does to the window of its header. *)
LEMMA AdmitWindow ==
  ASSUME CountingInv, LimiterInv', NEW i \in DOMAIN requests, Admit(i)
  PROVE  LET k == requests[i].key
             w == windows'[k]
             start == w.resetTime - Window IN
         /\ Counts(requests', windows', process, now, k)
         /\ k \in Keys /\ w.resetTime \in Int /\ start \in now - Window + 1 .. now
         /\ requests'[i].status = 429 => w.hits >= Limit + 1
<1> DEFINE k == requests[i].key
           old == windows[k]
           w == Counted(old)
           start == w.resetTime - Window
<1>0. TypeOK /\ now \in Nat /\ process \in Nat /\ Limit \in Nat /\ Limit >= 1 /\ Window \in Nat /\ Window >= 1
  BY LimitAssumption DEF CountingInv, LimiterInv, TypeOK
<1>1. /\ OnlyChanges(i) /\ now' = now /\ process' = process
      /\ k \in Keys /\ windows' = [windows EXCEPT ![k] = w]
      /\ requests[i].stage = "received" /\ requests'[i].counted = now
      /\ requests'[i].status = 429 <=> Exceeded(w.hits)
  BY <1>0, AdmitFacts
<1>2. requests[i].counted = Never /\ requests[i].process = process
  BY <1>1 DEF CountingInv, LimiterInv, RequestIsSound
<1>3. windows'[k] = w /\ windows \in [Keys -> [hits : Nat, resetTime : Int]]
  BY <1>0, <1>1 DEF TypeOK
<1>4. old.hits \in Nat /\ old.resetTime \in Int /\ Counts(requests, windows, process, now, k)
  BY <1>1, <1>3, CountingMeans DEF CountingInv
<1>5. requests' \in Seq(RequestRecords) /\ requests \in Seq(RequestRecords)
  BY <1>0, <1>1 DEF OnlyChanges, TypeOK
<1>6. w.resetTime <= now + Window
  BY <1>1, <1>3 DEF LimiterInv
<1>7. CASE old.resetTime > now
  <2>1. w.resetTime = old.resetTime /\ w.hits = old.hits + 1
    BY <1>0, <1>1, <1>3, <1>4, <1>7 DEF Counted
  <2>2. start \in Int /\ start <= now /\ start >= now - Window + 1 /\ w.resetTime \in Int
    BY <1>0, <1>4, <1>6, <1>7, <2>1
  <2> DEFINE before == Span(requests, k, process, start, now)
             after == Span(requests', k, process, start, now)
  <2>3. after = before \union {i} /\ i \notin before
    <3>1. now \in start .. now
      BY <1>0, <2>2
    <3>2. /\ OnlyChanges(i) /\ requests[i].counted = Never /\ requests'[i].counted = now
          /\ now \in Nat /\ requests[i].key = k /\ requests[i].process = process
      BY <1>0, <1>1, <1>2
    <3> HIDE DEF start, k
    <3>3. /\ i \notin Span(requests, k, process, start, now)
          /\ requests[i].key = k /\ requests[i].process = process /\ now \in start .. now =>
               Span(requests', k, process, start, now) = Span(requests, k, process, start, now) \union {i}
      BY <2>2, <3>2, AdmitSpan
    <3> QED
      BY <3>1, <3>2, <3>3
  <2>4. IsFiniteSet(before) /\ Cardinality(before) \in Nat /\ Cardinality(before) = old.hits
    BY <1>4, <1>5, <2>1, SpanFinite DEF Counts
  <2>5. Cardinality(after) = w.hits
    BY <2>1, <2>3, <2>4, FS_AddElement
  <2>6. Cardinality(PassedSpan(requests', k, process, start, now)) <= Limit
    <3>1. CASE requests'[i].status = 429
      <4>1. PassedSpan(requests', k, process, start, now) = PassedSpan(requests, k, process, start, now)
        BY <1>0, <1>1, <1>2, <2>2, <3>1, AdmitSpan
      <4> QED
        BY <1>4, <2>1, <4>1 DEF Counts
    <3>2. CASE requests'[i].status # 429
      <4>1. w.hits <= Limit /\ w.hits \in Nat
        BY <1>0, <1>1, <1>4, <2>1, <3>2 DEF Exceeded
      <4> QED
        BY <1>0, <1>5, <2>5, <4>1, SpanFinite
    <3> QED
      BY <3>1, <3>2
  <2>7. Cardinality(PassedSpan(requests', k, process, start - Window, start - 1)) <= Limit
    <3>1. now \notin start - Window .. start - 1 /\ start - Window \in Int /\ start - 1 \in Int
      BY <1>0, <2>2
    <3>2. PassedSpan(requests', k, process, start - Window, start - 1)
            = PassedSpan(requests, k, process, start - Window, start - 1)
      BY <1>0, <1>1, <1>2, <3>1, AdmitSpan
    <3> QED
      BY <1>4, <2>1, <3>2 DEF Counts
  <2>8. Span(requests', k, process, w.resetTime, now) = {}
    <3>1. w.resetTime .. now = {}
      BY <1>0, <1>4, <1>7, <2>1
    <3> QED
      BY <3>1 DEF Span
  <2>9. requests'[i].status = 429 => w.hits >= Limit + 1
    BY <1>0, <1>1, <1>4, <2>1 DEF Exceeded
  <2> HIDE DEF w, before, after
  <2> QED
    BY <1>0, <1>1, <1>3, <2>2, <2>5, <2>6, <2>7, <2>8, <2>9 DEF Counts, after
<1>8. CASE old.resetTime <= now
  <2>1. w.resetTime = now + Window /\ w.hits = 1
    BY <1>8 DEF Counted
  <2>2. start = now
    BY <1>0, <2>1
  <2>3. Span(requests, k, process, now, now) = {}
    <3>1. Span(requests, k, process, old.resetTime, now) = {}
      BY <1>4 DEF Counts
    <3>2. now \in old.resetTime .. now /\ now .. now = {now}
      BY <1>0, <1>4, <1>8
    <3> QED
      BY <3>1, <3>2 DEF Span
  <2>4. Span(requests', k, process, now, now) = {i}
    <3>1. now \in now .. now
      BY <1>0
    <3> QED
      BY <1>0, <1>1, <1>2, <2>3, <3>1, AdmitSpan
  <2>5. Cardinality(Span(requests', k, process, now, now)) = 1
    BY <2>4, FS_Singleton
  <2>6. Cardinality(PassedSpan(requests', k, process, now, now)) <= Limit
    BY <1>0, <1>5, <2>5, SpanFinite
  <2>7. Cardinality(PassedSpan(requests', k, process, now - Window, now - 1)) <= Limit
    <3>1. now \notin now - Window .. now - 1 /\ now - Window \in Int /\ now - 1 \in Int
      BY <1>0
    <3>2. PassedSpan(requests', k, process, now - Window, now - 1)
            = PassedSpan(requests, k, process, now - Window, now - 1)
      BY <1>0, <1>1, <1>2, <3>1, AdmitSpan
    <3>3. /\ old.resetTime - Window \in Int /\ now \in Int
          /\ old.resetTime - Window <= now - Window /\ now - 1 <= now
      BY <1>0, <1>4, <1>8
    <3>4. Cardinality(PassedSpan(requests, k, process, now - Window, now - 1))
            <= Cardinality(PassedSpan(requests, k, process, old.resetTime - Window, now))
      BY <1>5, <3>1, <3>3, SpanInside
    <3>5. Cardinality(PassedSpan(requests, k, process, old.resetTime - Window, now)) <= Limit
      BY <1>4 DEF Counts
    <3> QED
      BY <1>0, <1>5, <3>2, <3>4, <3>5, SpanFinite
  <2>8. Span(requests', k, process, now + Window, now) = {}
    <3>1. now + Window .. now = {}
      BY <1>0
    <3> QED
      BY <3>1 DEF Span
  <2>9. requests'[i].status # 429
    BY <1>0, <1>1, <2>1 DEF Exceeded
  <2> HIDE DEF w
  <2>10. now + Window - Window = now
    BY <1>0
  <2>11. Counts(requests', windows', process, now, k)
    <3>1. windows'[k].resetTime = now + Window /\ windows'[k].hits = 1
      BY <1>3, <2>1
    <3> DEFINE ws == windows'
    <3>2. ws[k].resetTime = now + Window /\ ws[k].hits = 1
      BY <3>1
    <3>3. ws[k].resetTime - Window = now
      BY <1>0, <3>2
    <3> HIDE DEF ws
    <3>4. Counts(requests', ws, process, now, k)
      BY <2>5, <2>6, <2>7, <2>8, <3>2, <3>3, Zenon DEF Counts
    <3> QED
      BY <3>4 DEF ws
  <2> QED
    BY <1>0, <1>1, <1>3, <2>1, <2>2, <2>9, <2>11
<1> QED
  BY <1>0, <1>4, <1>7, <1>8

(* A counted request leaves what is said of every window and every earlier  *)
(* request.                                                                 *)
LEMMA AdmitCounting ==
  ASSUME CountingInv, LimiterInv', NEW i \in DOMAIN requests, Admit(i)
  PROVE  CountingInv'
<1> DEFINE k == requests[i].key
           w == windows'[k]
           start == w.resetTime - Window
<1>0. /\ TypeOK /\ TypeOK' /\ now \in Nat /\ process \in Nat /\ LimiterInv
      /\ Limit \in Nat /\ Limit >= 1 /\ Window \in Nat /\ Window >= 1
  BY LimitAssumption DEF CountingInv, LimiterInv, TypeOK
<1>1. /\ OnlyChanges(i) /\ now' = now /\ process' = process
      /\ k \in Keys /\ windows' = [windows EXCEPT ![k] = Counted(windows[k])]
      /\ requests[i].stage = "received" /\ requests'[i].counted = now
  BY <1>0, AdmitFacts
<1>2. /\ requests[i].counted = Never /\ requests[i].process = process
      /\ requests[i].key = k
      /\ \A j \in DOMAIN requests' : requests'[j].counted \in -1 .. now
  BY <1>0, <1>1 DEF LimiterInv, RequestIsSound, Never
<1>3. /\ Counts(requests', windows', process, now, k)
      /\ w.resetTime \in Int /\ start \in now - Window + 1 .. now
      /\ requests'[i].status = 429 => w.hits >= Limit + 1
  BY AdmitWindow
<1>4. requests' \in Seq(RequestRecords) /\ requests \in Seq(RequestRecords)
  BY <1>0 DEF TypeOK
<1>5. /\ start \in Int /\ start <= now /\ now - Window + 1 <= start
      /\ start - Window \in Int /\ start - 1 \in Int
      /\ now - Window + 1 \in Int
  BY <1>0, <1>3
<1>6. /\ w.hits = Cardinality(Span(requests', k, process, start, now))
      /\ Cardinality(PassedSpan(requests', k, process, start, now)) <= Limit
      /\ Cardinality(PassedSpan(requests', k, process, start - Window, start - 1)) <= Limit
  BY <1>3 DEF Counts
<1> HIDE DEF w, start
<1>7. ASSUME NEW key \in Keys PROVE Counts(requests', windows', process, now, key)
  <2>1. CASE key = k
    BY <1>3, <2>1
  <2>2. CASE key # k
    <3>1. windows'[key] = windows[key] /\ windows[key].resetTime \in Int
      BY <1>0, <1>1, <2>2 DEF TypeOK
    <3>2. Counts(requests, windows, process, now, key)
      BY <1>0, CountingMeans DEF CountingInv
    <3>3. ASSUME NEW from \in Int, NEW to \in Int
          PROVE  /\ Span(requests', key, process, from, to) = Span(requests, key, process, from, to)
                 /\ PassedSpan(requests', key, process, from, to)
                      = PassedSpan(requests, key, process, from, to)
      BY <1>0, <1>1, <1>2, <2>2, AdmitSpan
    <3> DEFINE reset == windows[key].resetTime
    <3>4. /\ reset \in Int /\ reset - Window \in Int /\ reset - Window - Window \in Int
          /\ reset - Window - 1 \in Int /\ now \in Int
      BY <1>0, <3>1
    <3> QED
      BY <3>1, <3>2, <3>3, <3>4 DEF Counts
  <2> QED
    BY <2>1, <2>2
<1>8. ASSUME NEW j \in DOMAIN requests' PROVE Earned(requests', j)
  <2> SUFFICES ASSUME requests'[j].status = 429
               PROVE  Limit <= Cardinality(Span(requests', requests'[j].key, requests'[j].process,
                                requests'[j].counted - Window + 1, requests'[j].counted) \ {j})
    BY DEF Earned
  <2> DEFINE c == requests'[j].counted
             after == Span(requests', requests'[j].key, requests'[j].process, c - Window + 1, c)
  <2>1. IsFiniteSet(after) /\ Cardinality(after) \in Nat
    BY <1>4, SpanFinite
  <2>2. CASE j = i
    <3>1. requests'[j].key = k /\ requests'[j].process = process /\ c = now
      BY <1>1, <1>2, <2>2 DEF OnlyChanges
    <3> DEFINE inner == Span(requests', k, process, start, now)
    <3>2. inner \in SUBSET after
      <4>1. ASSUME NEW x \in DOMAIN requests', requests'[x].counted \in start .. now
            PROVE  requests'[x].counted \in c - Window + 1 .. c
        BY <1>5, <3>1, <4>1, <1>0
      <4> QED
        BY <3>1, <4>1 DEF Span
    <3>3. Cardinality(inner) >= Limit + 1 /\ Cardinality(inner) \in Nat
      BY <1>3, <1>4, <1>6, <2>2, SpanFinite
    <3>4. Cardinality(inner) <= Cardinality(after)
      BY <2>1, <3>2, FS_Subset
    <3>5. j \in after
      BY <1>0, <2>2, <3>1, <1>1 DEF Span, Never, OnlyChanges
    <3>6. Cardinality(after \ {j}) = Cardinality(after) - 1
      BY <2>1, <3>5, FS_RemoveElement
    <3> HIDE DEF inner, after
    <3> QED
      BY <1>0, <2>1, <3>3, <3>4, <3>6 DEF after
  <2>3. CASE j # i
    <3>1. requests'[j] = requests[j] /\ j \in DOMAIN requests
      BY <1>1, <2>3 DEF OnlyChanges
    <3> DEFINE before == Span(requests, requests'[j].key, requests'[j].process, c - Window + 1, c)
    <3>2. Limit <= Cardinality(before \ {j})
      BY <3>1, CountingMeans DEF CountingInv, Earned
    <3>3. c \in Int /\ c - Window + 1 \in Int
      BY <1>0, <1>2
    <3>4. before \in SUBSET after
      <4>1. ASSUME NEW key, NEW p, NEW from \in Int, NEW to \in Int
            PROVE  Span(requests, key, p, from, to) \in SUBSET Span(requests', key, p, from, to)
        BY <1>0, <1>1, <1>2, AdmitSpan
      <4> QED
        BY <3>3, <4>1
    <3>5. before \ {j} \in SUBSET (after \ {j}) /\ after \ {j} \in SUBSET after
      BY <3>4
    <3>6. IsFiniteSet(after \ {j}) /\ Cardinality(after \ {j}) \in Nat
      BY <2>1, <3>5, FS_Subset, FS_CardinalityType
    <3>7. Cardinality(before \ {j}) <= Cardinality(after \ {j}) /\ IsFiniteSet(before \ {j})
      BY <3>5, <3>6, FS_Subset
    <3>8. Cardinality(before \ {j}) \in Nat
      BY <3>7, FS_CardinalityType
    <3> HIDE DEF before, after
    <3> QED
      BY <1>0, <3>2, <3>6, <3>7, <3>8 DEF after
  <2> QED
    BY <2>2, <2>3
<1>9. ASSUME NEW j \in DOMAIN requests' PROVE Bounded(requests', j)
  <2> DEFINE c == requests'[j].counted
             end == c + Window - 1
             key == requests'[j].key
             p == requests'[j].process
  <2> SUFFICES ASSUME c # Never, requests'[j].status # 429
               PROVE  Cardinality(PassedSpan(requests', key, p, c, end)) <= 2 * Limit
    BY DEF Bounded
  <2>1. c \in Int /\ c <= now /\ end \in Int
    BY <1>0, <1>2
  <2>2. CASE key = k /\ p = process /\ now \in c .. end
    <3>1. start - Window <= c /\ start - 1 <= start - 1
      BY <1>0, <1>5, <2>1, <2>2
    <3> HIDE DEF c, end, key, p
    <3>2. Cardinality(PassedSpan(requests', k, process, c, end))
            <= Cardinality(PassedSpan(requests', k, process, c, start - 1))
                 + Cardinality(PassedSpan(requests', k, process, start, end))
      BY <1>4, <1>5, <2>1, SpanSplit
    <3>3. Cardinality(PassedSpan(requests', k, process, c, start - 1))
            <= Cardinality(PassedSpan(requests', k, process, start - Window, start - 1))
      BY <1>4, <1>5, <2>1, <3>1, SpanInside
    <3>4. PassedSpan(requests', k, process, start, end) = PassedSpan(requests', k, process, start, now)
      <4>1. now \in Int /\ now <= end /\ \A x \in DOMAIN requests' : requests'[x].counted <= now
        BY <1>0, <1>2, <2>1, <2>2
      <4> QED
        BY <1>4, <1>5, <2>1, <4>1, SpanUntil
    <3>5. /\ Cardinality(PassedSpan(requests', k, process, c, end)) \in Nat
          /\ Cardinality(PassedSpan(requests', k, process, c, start - 1)) \in Nat
          /\ Cardinality(PassedSpan(requests', k, process, start, end)) \in Nat
          /\ Cardinality(PassedSpan(requests', k, process, start - Window, start - 1)) \in Nat
      BY <1>4, SpanFinite
    <3> QED
      BY <1>0, <1>6, <2>2, <3>2, <3>3, <3>4, <3>5
  <2>3. CASE ~ (key = k /\ p = process /\ now \in c .. end)
    <3>1. j # i
      <4>1. now \in now .. now + Window - 1
        BY <1>0
      <4> QED
        BY <1>1, <1>2, <2>3, <4>1 DEF OnlyChanges
    <3>2. requests'[j] = requests[j] /\ j \in DOMAIN requests
      BY <1>1, <3>1 DEF OnlyChanges
    <3>3. Cardinality(PassedSpan(requests, key, p, c, end)) <= 2 * Limit
      BY <3>2, CountingMeans DEF CountingInv, Bounded
    <3>4. PassedSpan(requests', key, p, c, end) = PassedSpan(requests, key, p, c, end)
      <4> HIDE DEF c, end, key, p
      <4> QED
        BY <1>0, <1>1, <1>2, <2>1, <2>3, AdmitSpan
    <3> HIDE DEF c, end, key, p
    <3> QED
      BY <3>3, <3>4
  <2> QED
    BY <2>2, <2>3
<1>10. \A key \in Keys : WindowCounts(key)'
  BY <1>1, <1>7, CountingMeansNext
<1> QED
  BY <1>8, <1>9, <1>10, CountingMeansNext DEF CountingInv

(* A step that counts nothing, in the same process, whatever the clock does. *)
LEMMA QuietWindows ==
  ASSUME CountingInv, LimiterInv', now' \in {now, now + 1},
         UNCHANGED <<process, windows>>,
         \A j \in DOMAIN requests : Kept(j),
         \A j \in DOMAIN requests' :
           requests'[j].counted # Never =>
             j \in DOMAIN requests /\ requests[j].counted = requests'[j].counted
  PROVE  CountingInv'
<1>0. /\ TypeOK /\ LimiterInv /\ now \in Nat /\ now' \in Nat /\ Window \in Nat
      /\ requests \in Seq(RequestRecords)
      /\ \A j \in DOMAIN requests' : RequestIsSound(j)'
      /\ \A j \in DOMAIN requests : requests[j].counted <= now
  BY LimitAssumption DEF CountingInv, LimiterInv, TypeOK, RequestIsSound, Never
<1>1. RefusalIsEarned' /\ BurstIsBounded'
  BY <1>0, QuietCounting DEF CountingInv
<1>2. ASSUME NEW k \in Keys PROVE Counts(requests', windows', process', now', k)
  <2> DEFINE reset == windows[k].resetTime
             start == reset - Window
  <2>1. windows[k] \in [hits : Nat, resetTime : Int]
    BY <1>0 DEF TypeOK
  <2>2. reset \in Int /\ start \in Int
    BY <1>0, <2>1
  <2>3. Counts(requests, windows, process, now, k)
    BY CountingMeans DEF CountingInv
  <2>4. ASSUME NEW p, NEW from, NEW to
        PROVE  /\ Span(requests', k, p, from, to) = Span(requests, k, p, from, to)
               /\ PassedSpan(requests', k, p, from, to) = PassedSpan(requests, k, p, from, to)
    BY QuietSpan
  <2>5. ASSUME NEW p, NEW from \in Int
        PROVE  /\ Span(requests, k, p, from, now') = Span(requests, k, p, from, now)
               /\ PassedSpan(requests, k, p, from, now') = PassedSpan(requests, k, p, from, now)
    <3>1. now \in Int /\ now' \in Int /\ now <= now'
      BY <1>0
    <3> QED
      BY <1>0, <3>1, SpanUntil
  <2>6. /\ Span(requests', k, process, reset, now') = {}
        /\ windows[k].hits = Cardinality(Span(requests', k, process, start, now'))
        /\ Cardinality(PassedSpan(requests', k, process, start, now')) <= Limit
        /\ Cardinality(PassedSpan(requests', k, process, start - Window, start - 1)) <= Limit
    BY <2>2, <2>3, <2>4, <2>5 DEF Counts
  <2>7. Counts(requests', windows, process, now', k)
    BY <2>6 DEF Counts
  <2> QED
    BY <2>7
<1>3. \A k \in Keys : WindowCounts(k)'
  BY <1>2, CountingMeansNext
<1> QED
  BY <1>1, <1>3 DEF CountingInv

(* A restart forgets the counts: the new process has counted nothing.       *)
LEMMA RestartCounting ==
  ASSUME CountingInv, LimiterInv', Restart
  PROVE  CountingInv'
<1>0. /\ TypeOK /\ LimiterInv /\ now \in Nat /\ process \in Nat
      /\ Window \in Nat /\ Limit \in Nat
      /\ \A j \in DOMAIN requests' : RequestIsSound(j)'
  BY LimitAssumption DEF CountingInv, LimiterInv, TypeOK
<1>1. /\ now' = now /\ process' = process + 1
      /\ windows' = [k \in Keys |-> FreshWindow]
      /\ DOMAIN requests' = DOMAIN requests
      /\ \A j \in DOMAIN requests :
           /\ requests'[j].key = requests[j].key
           /\ requests'[j].process = requests[j].process
           /\ requests'[j].counted = requests[j].counted
           /\ requests'[j].status = requests[j].status
  BY <1>0, RestartFacts
<1>2. \A j \in DOMAIN requests : Kept(j)
  BY <1>1 DEF Kept
<1>3. \A j \in DOMAIN requests' : requests'[j].counted # Never =>
        j \in DOMAIN requests /\ requests[j].counted = requests'[j].counted
  BY <1>1
<1>4. RefusalIsEarned' /\ BurstIsBounded'
  BY <1>0, <1>2, <1>3, QuietCounting DEF CountingInv
<1>5. ASSUME NEW j \in DOMAIN requests' PROVE requests'[j].process # process'
  <2>1. j \in DOMAIN requests /\ requests[j] \in RequestRecords /\ requests[j].process <= process
    BY <1>0, <1>1, RequestType DEF LimiterInv, RequestIsSound
  <2>2. requests[j].process \in Nat
    BY <2>1 DEF RequestRecords
  <2> QED
    BY <1>0, <1>1, <2>1, <2>2
<1>6. ASSUME NEW k, NEW from, NEW to
      PROVE  Span(requests', k, process', from, to) = {} /\ PassedSpan(requests', k, process', from, to) = {}
  BY <1>5 DEF Span, PassedSpan
<1>7. Cardinality({}) = 0
  BY FS_EmptySet
<1>8. ASSUME NEW k \in Keys PROVE Counts(requests', windows', process', now', k)
  <2>1. windows'[k].hits = 0
    BY <1>1 DEF FreshWindow
  <2> DEFINE ws == windows'
  <2>2. ws[k].hits = 0
    BY <2>1
  <2>3. 0 <= Limit
    BY <1>0
  <2> HIDE DEF ws
  <2>4. Counts(requests', ws, process', now', k)
    BY <1>6, <1>7, <2>2, <2>3, Zenon DEF Counts
  <2> QED
    BY <2>4 DEF ws
<1>9. \A k \in Keys : WindowCounts(k)'
  BY <1>8, CountingMeansNext
<1> QED
  BY <1>4, <1>9 DEF CountingInv

LEMMA InitialCounts == Init => CountingInv
<1> SUFFICES ASSUME Init PROVE CountingInv
  OBVIOUS
<1>1. DOMAIN requests = {}
  BY DEF Init
<1>2. ASSUME NEW k, NEW p, NEW from, NEW to
      PROVE  Span(requests, k, p, from, to) = {} /\ PassedSpan(requests, k, p, from, to) = {}
  BY <1>1 DEF Span, PassedSpan
<1>3. Cardinality({}) = 0
  BY FS_EmptySet
<1>4. ASSUME NEW k \in Keys PROVE Counts(requests, windows, process, now, k)
  <2>1. windows[k].hits = 0
    BY DEF Init, FreshWindow
  <2>2. 0 <= Limit
    BY LimitAssumption
  <2> QED
    BY <1>2, <1>3, <2>1, <2>2, Zenon DEF Counts
<1> QED
  BY <1>1, <1>4, InitialState, CountingMeans DEF CountingInv, RefusalIsEarned, BurstIsBounded

LEMMA CountingIsInductive == CountingInv /\ [Next]_vars => CountingInv'
<1> SUFFICES ASSUME CountingInv, [Next]_vars PROVE CountingInv'
  OBVIOUS
<1>0. TypeOK /\ LimiterInv /\ LimiterInv' /\ now \in Nat
  BY Inductive DEF CountingInv, LimiterInv, TypeOK
<1>1. ASSUME NEW k \in Keys, NEW kind \in Kinds, Send(k, kind) PROVE CountingInv'
  <2> DEFINE n == Len(requests) + 1
  <2>1. /\ UNCHANGED <<now, process, windows>>
        /\ DOMAIN requests' = DOMAIN requests \union {n} /\ n \notin DOMAIN requests
        /\ \A j \in DOMAIN requests : requests'[j] = requests[j]
        /\ requests'[n].counted = Never
    BY <1>0, <1>1, SendFacts
  <2> HIDE DEF n
  <2>2. \A j \in DOMAIN requests : Kept(j)
    BY <2>1 DEF Kept
  <2>3. \A j \in DOMAIN requests' : requests'[j].counted # Never =>
          j \in DOMAIN requests /\ requests[j].counted = requests'[j].counted
    BY <2>1
  <2> QED
    BY <1>0, <2>1, <2>2, <2>3, QuietWindows
<1>2. ASSUME NEW i \in DOMAIN requests, RejectUnparsable(i) \/ Handle(i) PROVE CountingInv'
  <2>1. /\ OnlyChanges(i) /\ UNCHANGED <<now, process, windows>>
        /\ requests[i].stage \in {"received", "handling"}
        /\ requests'[i].counted = requests[i].counted
        /\ requests'[i].status # 429
    BY <1>0, <1>2, RejectFacts, HandleFacts
  <2>2. requests[i].status # 429
    BY <1>0, <2>1 DEF LimiterInv, RequestIsSound, NoStatus
  <2>3. \A j \in DOMAIN requests : Kept(j)
    BY <2>1, <2>2 DEF Kept, OnlyChanges
  <2>4. \A j \in DOMAIN requests' : requests'[j].counted # Never =>
          j \in DOMAIN requests /\ requests[j].counted = requests'[j].counted
    BY <2>1 DEF OnlyChanges
  <2> QED
    BY <1>0, <2>1, <2>3, <2>4, QuietWindows
<1>3. ASSUME NEW i \in DOMAIN requests, Admit(i) PROVE CountingInv'
  BY <1>0, <1>3, AdmitCounting
<1>4. CASE Tick \/ UNCHANGED vars
  <2>1. now' \in {now, now + 1} /\ UNCHANGED <<process, windows, requests>>
    BY <1>4 DEF Tick, vars
  <2>2. \A j \in DOMAIN requests : Kept(j)
    BY <2>1 DEF Kept
  <2> QED
    BY <1>0, <2>1, <2>2, QuietWindows
<1>5. CASE Restart
  BY <1>0, <1>5, RestartCounting
<1> QED
  BY <1>1, <1>2, <1>3, <1>4, <1>5 DEF Next, Serve

(* The counters of the limiter count what they are believed to count.       *)
THEOREM CountingInvariant == Spec => []CountingInv
<1>1. Init => CountingInv
  BY InitialCounts
<1>2. CountingInv /\ [Next]_vars => CountingInv'
  BY CountingIsInductive
<1> QED
  BY <1>1, <1>2, PTL DEF Spec

(* Whoever is refused was let through, or refused, Limit times before with   *)
(* the same header in a window's length.                                    *)
THEOREM RefusalsAreEarned == Spec => []RefusalIsEarned
<1>1. CountingInv => RefusalIsEarned
  BY DEF CountingInv
<1> QED
  BY <1>1, CountingInvariant, PTL

(* A span of a window's length meets two windows at most, each lets Limit   *)
(* requests of a header past.                                               *)
THEOREM BurstsAreBounded == Spec => []BurstIsBounded
<1>1. CountingInv => BurstIsBounded
  BY DEF CountingInv
<1> QED
  BY <1>1, CountingInvariant, PTL
=============================================================================
