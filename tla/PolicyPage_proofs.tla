--------------------------- MODULE PolicyPage_proofs ---------------------------
(***************************************************************************)
(* PageInv holds in every state of the page, whatever the forms and the    *)
(* bounds, and with it what the operator can rely on.                      *)
(***************************************************************************)
EXTENDS PolicyPage, TLAPS

(* A body read by now is a body, and is not null. *)
LEMMA BodyIsSome ==
  ASSUME TypeOK, NEW r \in Resources, NEW from \in 0 .. version,
         NEW body \in Bodies(r, from, version)
  PROVE  body \in AnyBody /\ body \in Bodies(r, 0, version) /\ body # NoBody
<1>1. /\ version \in Nat /\ version <= MaxVersion /\ MaxVersion \in Nat
      /\ from .. version \subseteq 0 .. version
      /\ 0 .. version \subseteq 0 .. MaxVersion
  BY BoundAssumption DEF TypeOK
<1>2. body \in [Parts[r] -> from .. version]  BY DEF Bodies
<1>3. body \in [Parts[r] -> 0 .. version]  BY <1>1, <1>2, Zenon
<1>4. body \in [Parts[r] -> 0 .. MaxVersion]  BY <1>1, <1>3, Zenon
<1>5. NoBody \notin [Parts[r] -> 0 .. MaxVersion]
  BY NoBodyAssumption DEF Bodies
<1> QED  BY <1>3, <1>4, <1>5 DEF AnyBody, Bodies

(* A commit only adds bodies. *)
LEMMA BodiesGrow ==
  ASSUME TypeOK, version' \in {version, version + 1}
  PROVE  /\ AnyBody \subseteq AnyBody'
         /\ MaybeBody \subseteq MaybeBody'
         /\ 0 .. version \subseteq 0 .. version'
         /\ \A r \in Resources, from \in 0 .. version :
              Bodies(r, from, version) \subseteq Bodies(r, from, version')
<1>1. /\ version \in Nat /\ version' \in Nat
      /\ \A from \in 0 .. version : from .. version \subseteq from .. version'
  BY BoundAssumption DEF TypeOK
<1>2. \A r \in Resources, from \in 0 .. version :
        Bodies(r, from, version) \subseteq Bodies(r, from, version')
  BY <1>1, Zenon DEF Bodies
<1>3. 0 \in 0 .. version  BY <1>1
<1>4. AnyBody \subseteq AnyBody'  BY <1>2, <1>3 DEF AnyBody
<1> QED  BY <1>1, <1>2, <1>4 DEF MaybeBody

LEMMA RecordsGrow ==
  ASSUME TypeOK, version' \in {version, version + 1}
  PROVE  LoadRecords \subseteq LoadRecords'
<1>1. MaybeBody \subseteq MaybeBody' /\ 0 .. version \subseteq 0 .. version'
  BY BodiesGrow
<1>2. AnswerRecords \subseteq AnswerRecords'  BY <1>1 DEF AnswerRecords
<1>3. [Resources -> AnswerRecords] \subseteq [Resources -> AnswerRecords'] 
  BY <1>2, Zenon
<1>4. [Resources -> MaybeBody] \subseteq [Resources -> MaybeBody']
  BY <1>1, Zenon
<1> QED  BY <1>1, <1>3, <1>4 DEF LoadRecords

LEMMA RecordsStay ==
  ASSUME version' = version
  PROVE  MaybeBody' = MaybeBody /\ LoadRecords' = LoadRecords
BY DEF MaybeBody, AnyBody, LoadRecords, AnswerRecords

(* Calls commit and forms send them or hear of errors: what the page holds  *)
(* stays consistent, as the version only grows.                             *)
LEMMA QuietStep ==
  ASSUME PageInv,
         version' \in {version, version + 1}, version' <= MaxVersion,
         posts' \in [Forms -> {"none", "sent", "committed"}],
         UNCHANGED <<loads, view, isRefetching, refetchDue, etag, lastData, notified>>
  PROVE  PageInv'
<1> USE DEF PageInv
<1>1. TypeOK'
  <2>1. version' \in 0 .. MaxVersion /\ notified' \in 0 .. version'
    BY BoundAssumption DEF TypeOK
  <2>2. loads' \subseteq LoadRecords'  BY RecordsGrow DEF TypeOK
  <2>3. etag' \in [Resources -> MaybeBody'] /\ lastData' \in [Resources -> MaybeBody']
    <3>1. MaybeBody \subseteq MaybeBody'  BY BodiesGrow
    <3> QED  BY <3>1, Zenon DEF TypeOK
  <2> QED  BY <2>1, <2>2, <2>3 DEF TypeOK
<1>2. KeptConsistent'
  <2>1. 0 \in 0 .. version  BY BoundAssumption DEF TypeOK
  <2>2. \A r \in Resources : Bodies(r, 0, version) \subseteq Bodies(r, 0, version')
    BY <2>1, BodiesGrow
  <2> QED  BY <2>2 DEF KeptConsistent, HasData, Live, DataSince
<1>3. ASSUME NEW l \in Live' PROVE LoadConsistent(l)'
  <2>1. l \in Live /\ l \in loads  BY DEF Live
  <2>2. LoadConsistent(l)  BY <2>1
  <2>3. l.from \in 0 .. version  BY <2>1 DEF TypeOK, LoadRecords
  <2>4. \A r \in Resources : Bodies(r, l.from, version) \subseteq Bodies(r, l.from, version')
    BY <2>3, BodiesGrow
  <2> QED  BY <2>2, <2>4 DEF LoadConsistent, AnswerConsistent, HasData, DataUntil
<1>4. (\A l, m \in Live : l = m)' /\ IndicatorIsHonest'
  BY DEF Live, IndicatorIsHonest
<1> QED  BY <1>1, <1>2, <1>3, <1>4

-----------------------------------------------------------------------------
(* The request of load l about r is settled, one way or another. *)
LEMMA RequestStep ==
  ASSUME PageInv, NEW l \in loads, NEW r \in Resources,
         NEW answer \in AnswerRecords,
         LET m == [l EXCEPT !.answer[r] = answer]
         IN loads' = Replaced(l, m) /\ AnswerConsistent(m, r),
         UNCHANGED <<version, view, isRefetching, refetchDue, etag, lastData, posts, notified>>
  PROVE  PageInv'
<1> DEFINE m == [l EXCEPT !.answer[r] = answer]
<1> USE DEF PageInv
<1>1. /\ l \in LoadRecords /\ m \in LoadRecords
      /\ m.cancelled = l.cancelled /\ m.from = l.from /\ m.sent = l.sent
      /\ m.answer = [l.answer EXCEPT ![r] = answer]
  BY DEF TypeOK, LoadRecords
<1>2. Live' = (Live \ {l}) \union (IF l.cancelled THEN {} ELSE {m})
  BY <1>1 DEF Live, Replaced
<1>3. Live' = {} <=> Live = {}
  BY <1>2 DEF Live
<1>4. MaybeBody' = MaybeBody /\ LoadRecords' = LoadRecords
  BY RecordsStay
<1>5. TypeOK'
  BY <1>1, <1>4 DEF TypeOK, Replaced
<1>6. KeptConsistent'
  BY <1>3 DEF KeptConsistent, HasData, DataSince
<1>7. \A k, n \in Live' : k = n
  BY <1>2 DEF Live
<1>8. ASSUME NEW k \in Live' PROVE LoadConsistent(k)'
  <2>1. CASE k \in Live
    BY <2>1 DEF LoadConsistent, AnswerConsistent, HasData, DataUntil
  <2>2. CASE k = m /\ ~ l.cancelled
    <3>1. LoadConsistent(l)  BY <2>2 DEF Live
    <3>2. ASSUME NEW q \in Resources PROVE AnswerConsistent(m, q)
      <4>1. CASE q = r  BY <4>1
      <4>2. CASE q # r
        <5>1. m.answer[q] = l.answer[q]  BY <1>1, <4>2 DEF LoadRecords
        <5> QED  BY <1>1, <3>1, <5>1 DEF LoadConsistent, AnswerConsistent
      <4> QED  BY <4>1, <4>2
    <3> QED  BY <1>1, <2>2, <3>1, <3>2
         DEF LoadConsistent, AnswerConsistent, HasData, DataUntil
  <2> QED  BY <1>2, <2>1, <2>2
<1>9. IndicatorIsHonest'
  BY <1>3 DEF IndicatorIsHonest
<1> QED  BY <1>5, <1>6, <1>7, <1>8, <1>9

LEMMA AnswerConsistentStep ==
  ASSUME PageInv, NEW l \in loads, NEW r \in Resources, Answer(l, r)
  PROVE  PageInv'
<1>1. PICK body \in Bodies(r, l.from, version) :
        loads' = Replaced(l, [l EXCEPT !.answer[r] = Response(body, l.sent[r])])
  BY DEF Answer
<1> DEFINE answer == Response(body, l.sent[r])
           m == [l EXCEPT !.answer[r] = answer]
<1>2. l \in LoadRecords /\ TypeOK  BY DEF PageInv, TypeOK
<1>3. body \in AnyBody /\ body # NoBody
  BY <1>2, BodyIsSome DEF LoadRecords
<1>4. answer \in AnswerRecords
  BY <1>3 DEF Response, AnswerRecords, MaybeBody, Statuses
<1>5. m.answer[r] = answer /\ m.from = l.from /\ m.sent = l.sent
  BY <1>2 DEF LoadRecords
<1>6. AnswerConsistent(m, r)
  BY <1>5 DEF AnswerConsistent, Response
<1> QED  BY <1>1, <1>4, <1>6, RequestStep DEF Answer

LEMMA FailRequestConsistent ==
  ASSUME PageInv, NEW l \in loads, NEW r \in Resources, FailRequest(l, r)
  PROVE  PageInv'
<1> DEFINE answer == [l.answer[r] EXCEPT !.status = "failed"]
           m == [l EXCEPT !.answer[r] = answer]
<1>1. l \in LoadRecords  BY DEF PageInv, TypeOK
<1>2. answer \in AnswerRecords /\ answer.status = "failed"
  BY <1>1 DEF LoadRecords, AnswerRecords, Statuses
<1>3. m.answer[r] = answer /\ m = [l EXCEPT !.answer[r].status = "failed"]
  BY <1>1 DEF LoadRecords
<1>4. AnswerConsistent(m, r)
  BY <1>2, <1>3 DEF AnswerConsistent
<1> QED  BY <1>2, <1>3, <1>4, RequestStep DEF FailRequest

-----------------------------------------------------------------------------
(* What a load that counts resolves to: a body per GET, read after the load *)
(* began, and the one its ETag is about.                                    *)
LEMMA ResolvedIsAnswered ==
  ASSUME PageInv, NEW l \in Live, Answered(l)
  PROVE  /\ Resolved(l) = NewEtags(l)
         /\ \A r \in Resources : /\ Resolved(l)[r] \in Bodies(r, l.from, version)
                                 /\ Resolved(l)[r] \in Bodies(r, 0, version)
                                 /\ Resolved(l)[r] \in AnyBody
                                 /\ Resolved(l)[r] # NoBody
<1>1. /\ TypeOK /\ LoadConsistent(l) /\ etag = lastData /\ l.from \in 0 .. version
  BY DEF PageInv, TypeOK, KeptConsistent, Live, LoadRecords
<1>2. ASSUME NEW r \in Resources
      PROVE  /\ Resolved(l)[r] = l.answer[r].etag
             /\ l.answer[r].etag \in Bodies(r, l.from, version)
             /\ l.answer[r].etag \in Bodies(r, 0, version)
             /\ l.answer[r].etag \in AnyBody
             /\ l.answer[r].etag # NoBody
  <2>1. l.answer[r].etag \in Bodies(r, l.from, version)
    BY <1>1 DEF Answered, LoadConsistent, AnswerConsistent
  <2>2. /\ l.answer[r].etag \in AnyBody /\ l.answer[r].etag # NoBody
        /\ l.answer[r].etag \in Bodies(r, 0, version)
    BY <1>1, <2>1, BodyIsSome
  <2>3. Resolved(l)[r] = l.answer[r].etag
    BY <1>1, <2>2 DEF Resolved, Answered, LoadConsistent, AnswerConsistent
  <2> QED  BY <2>1, <2>2, <2>3
<1> QED  BY <1>2 DEF Resolved, NewEtags

(* A cancelled load ends: it leaves no trace. *)
LEMMA CancelledLoadEnds ==
  ASSUME PageInv, NEW l \in loads, l.cancelled, loads' = loads \ {l},
         UNCHANGED <<version, view, isRefetching, refetchDue, etag, lastData, posts, notified>>
  PROVE  PageInv'
<1>1. Live' = Live  BY DEF Live
<1>2. TypeOK'
  BY RecordsStay DEF PageInv, TypeOK
<1>3. KeptConsistent' /\ IndicatorIsHonest'
  BY <1>1 DEF PageInv, KeptConsistent, IndicatorIsHonest, HasData, DataSince
<1>4. \A k \in Live' : LoadConsistent(k)'
  BY <1>1 DEF PageInv, LoadConsistent, AnswerConsistent, HasData, DataUntil
<1> QED  BY <1>1, <1>2, <1>3, <1>4 DEF PageInv

LEMMA FinishLoadConsistent ==
  ASSUME PageInv, NEW l \in loads, FinishLoad(l)
  PROVE  PageInv'
<1>1. CASE l.cancelled
  BY <1>1, CancelledLoadEnds DEF FinishLoad, EtagsAfter
<1>2. CASE ~ l.cancelled
  <2>1. l \in Live /\ l \in LoadRecords  BY <1>2 DEF Live, PageInv, TypeOK
  <2> DEFINE data == Resolved(l)
  <2>2. /\ data = NewEtags(l)
        /\ \A r \in Resources : /\ data[r] \in Bodies(r, l.from, version)
                                /\ data[r] \in Bodies(r, 0, version)
                                /\ data[r] \in AnyBody
                                /\ data[r] # NoBody
    BY <2>1, ResolvedIsAnswered DEF FinishLoad
  <2>3. /\ loads' = loads \ {l} /\ etag' = data /\ lastData' = data
        /\ view' = "success" /\ isRefetching' = FALSE
        /\ UNCHANGED <<version, refetchDue, posts, notified>>
    BY <1>2, <2>2 DEF FinishLoad, EtagsAfter
  <2>4. Live' = {}  BY <2>1, <2>3 DEF PageInv, Live
  <2>5. TypeOK'
    <3>1. data \in [Resources -> MaybeBody]
      BY <2>2 DEF Resolved, MaybeBody
    <3> HIDE DEF data
    <3> QED  BY <2>3, <3>1, RecordsStay DEF PageInv, TypeOK
  <2>6. KeptConsistent'
    <3>1. DataSince(notified)' \/ refetchDue
      <4>1. notified \in Int /\ version \in Int /\ l.from \in Int
        BY <2>1, BoundAssumption DEF PageInv, TypeOK, LoadRecords
      <4>2. notified <= l.from \/ refetchDue
        BY <2>1 DEF PageInv, LoadConsistent
      <4>3. ASSUME NEW r \in Resources, NEW part \in Parts[r]
            PROVE  data[r][part] \in l.from .. version
        BY <2>2 DEF Bodies
      <4> QED  BY <2>3, <4>1, <4>2, <4>3 DEF DataSince
    <3> QED  BY <2>2, <2>3, <3>1 DEF KeptConsistent, HasData
  <2>7. IndicatorIsHonest'  BY <2>3, <2>4 DEF IndicatorIsHonest
  <2> QED  BY <2>4, <2>5, <2>6, <2>7 DEF PageInv
<1> QED  BY <1>1, <1>2

LEMMA FailLoadConsistent ==
  ASSUME PageInv, NEW l \in loads, FailLoad(l)
  PROVE  PageInv'
<1>1. CASE l.cancelled
  BY <1>1, CancelledLoadEnds DEF FailLoad
<1>2. CASE ~ l.cancelled
  <2>1. l \in Live  BY <1>2 DEF Live
  <2>2. Live' = {}  BY <2>1 DEF PageInv, Live, FailLoad
  <2>3. TypeOK'
    BY <1>2, RecordsStay DEF PageInv, TypeOK, FailLoad
  <2>4. KeptConsistent'
    BY <1>2 DEF PageInv, KeptConsistent, HasData, FailLoad
  <2>5. IndicatorIsHonest'  BY <1>2, <2>2 DEF IndicatorIsHonest, FailLoad
  <2> QED  BY <2>2, <2>3, <2>4, <2>5 DEF PageInv
<1> QED  BY <1>1, <1>2

-----------------------------------------------------------------------------
LEMMA StartLoadConsistent ==
  ASSUME PageInv, StartLoad
  PROVE  PageInv'
<1>0. PICK new : new = NewLoad(etag)  OBVIOUS
<1>1. /\ version \in Nat /\ new \in LoadRecords
  <2>1. Waiting \in AnswerRecords
    BY DEF Waiting, AnswerRecords, Statuses, MaybeBody
  <2> QED  BY <1>0, <2>1, BoundAssumption DEF PageInv, TypeOK, NewLoad, LoadRecords
<1>2. /\ new.cancelled = FALSE /\ new.from = version /\ new.sent = etag
      /\ \A r \in Resources : new.answer[r].status = "waiting"
  BY <1>0 DEF NewLoad, Waiting
<1>3. /\ Cancelled(loads) \subseteq LoadRecords
      /\ \A k \in Cancelled(loads) : k.cancelled = TRUE
  BY DEF PageInv, TypeOK, Cancelled, LoadRecords
<1>4. Live' = {new}
  BY <1>0, <1>2, <1>3 DEF StartLoad, LoadsAfterRefetch, Live
<1>5. TypeOK'
  BY <1>0, <1>1, <1>3, RecordsStay DEF PageInv, TypeOK, StartLoad, LoadsAfterRefetch
<1>6. KeptConsistent'
  BY <1>4 DEF PageInv, KeptConsistent, HasData, StartLoad
<1>7. LoadConsistent(new)'
  <2>1. HasData => DataUntil(version)
    <3> SUFFICES ASSUME HasData, NEW r \in Resources, NEW part \in Parts[r]
                 PROVE  lastData[r][part] <= version
      BY DEF DataUntil
    <3>1. lastData[r] \in Bodies(r, 0, version)
      BY DEF PageInv, KeptConsistent, HasData, NoData
    <3> QED  BY <1>1, <3>1 DEF Bodies
  <2>2. notified <= version  BY DEF PageInv, TypeOK
  <2>3. \A r \in Resources : AnswerConsistent(new, r)'
    BY <1>2 DEF AnswerConsistent
  <2> QED  BY <1>2, <2>1, <2>2, <2>3 DEF LoadConsistent, HasData, DataUntil, StartLoad
<1>8. IndicatorIsHonest'
  BY <1>4 DEF PageInv, KeptConsistent, IndicatorIsHonest, StartLoad
<1> QED  BY <1>4, <1>5, <1>6, <1>7, <1>8 DEF PageInv

LEMMA SubmissionSucceedsConsistent ==
  ASSUME PageInv, NEW f \in Forms, SubmissionSucceeds(f)
  PROVE  PageInv'
<1>1. Live' = Live  BY DEF Live, SubmissionSucceeds
<1>2. TypeOK'
  BY BoundAssumption, RecordsStay DEF PageInv, TypeOK, SubmissionSucceeds
<1>3. KeptConsistent' /\ IndicatorIsHonest'
  BY <1>1 DEF PageInv, KeptConsistent, IndicatorIsHonest, HasData, SubmissionSucceeds
<1>4. \A k \in Live' : LoadConsistent(k)'
  BY <1>1 DEF PageInv, LoadConsistent, AnswerConsistent, HasData, DataUntil, SubmissionSucceeds
<1> QED  BY <1>1, <1>2, <1>3, <1>4 DEF PageInv

LEMMA InitConsistent == Init => PageInv
<1> SUFFICES ASSUME Init PROVE PageInv
  OBVIOUS
<1> DEFINE first == NewLoad(NoData)
<1>1. version = 0 /\ MaxVersion \in Nat  BY BoundAssumption DEF Init
<1>2. /\ first \in LoadRecords /\ [first EXCEPT !.cancelled = TRUE] \in LoadRecords
  <2>1. Waiting \in AnswerRecords
    BY DEF Waiting, AnswerRecords, Statuses, MaybeBody
  <2>2. NoData \in [Resources -> MaybeBody]  BY DEF NoData, MaybeBody
  <2>3. first \in LoadRecords  BY <1>1, <2>1, <2>2 DEF NewLoad, LoadRecords
  <2> HIDE DEF first
  <2> QED  BY <2>3 DEF LoadRecords
<1>3. Live = {first}
  BY DEF Init, Live, NewLoad
<1>4. TypeOK
  <2>1. NoData \in [Resources -> MaybeBody]  BY DEF NoData, MaybeBody
  <2>2. loads \in {{first}, {[first EXCEPT !.cancelled = TRUE], first}}  BY DEF Init
  <2>3. loads \subseteq LoadRecords
    <3> HIDE DEF first
    <3> QED  BY <1>2, <2>2
  <2>4. /\ view = "loading" /\ isRefetching = FALSE /\ refetchDue = FALSE
        /\ etag = NoData /\ lastData = NoData /\ notified = 0
        /\ posts = [f \in Forms |-> "none"]
    BY DEF Init
  <2>5. /\ version \in 0 .. MaxVersion /\ notified \in 0 .. version
        /\ posts \in [Forms -> {"none", "sent", "committed"}]
    BY <1>1, <2>4
  <2> QED  BY <2>1, <2>3, <2>4, <2>5 DEF TypeOK
<1>5. Resources # {}  BY DEF Resources
<1>6. ~ HasData  BY <1>5 DEF Init, HasData, NoData
<1>7. KeptConsistent  BY DEF Init, KeptConsistent
<1>8. LoadConsistent(first)
  BY <1>1, <1>6 DEF Init, LoadConsistent, AnswerConsistent, NewLoad, Waiting
<1>9. IndicatorIsHonest  BY DEF Init, IndicatorIsHonest
<1> QED  BY <1>3, <1>4, <1>7, <1>8, <1>9 DEF PageInv

-----------------------------------------------------------------------------
(* The inductive invariant: the load that counts is newer than what is kept, *)
(* asked about what is kept, and is answered about what it asked.           *)
THEOREM PageInvariant == Spec => []PageInv
<1>1. Init => PageInv  BY InitConsistent
<1>2. PageInv /\ [Next]_vars => PageInv'
  <2> SUFFICES ASSUME PageInv, [Next]_vars PROVE PageInv'
    OBVIOUS
  <2>1. TypeOK  BY DEF PageInv
  <2>2. ASSUME NEW l \in loads, NEW r \in Resources, Answer(l, r) PROVE PageInv'
    BY <2>2, AnswerConsistentStep
  <2>3. ASSUME NEW l \in loads, NEW r \in Resources, FailRequest(l, r) PROVE PageInv'
    BY <2>3, FailRequestConsistent
  <2>4. ASSUME NEW l \in loads, Settle(l) PROVE PageInv'
    BY <2>4, FinishLoadConsistent, FailLoadConsistent DEF Settle
  <2>5. CASE StartLoad  BY <2>5, StartLoadConsistent
  <2>6. CASE CommitElsewhere
    BY <2>1, <2>6, QuietStep, BoundAssumption DEF CommitElsewhere, TypeOK
  <2>7. ASSUME NEW f \in Forms, Submit(f) PROVE PageInv'
    BY <2>1, <2>7, QuietStep, BoundAssumption DEF Submit, TypeOK
  <2>8. ASSUME NEW f \in Forms, Commit(f) PROVE PageInv'
    BY <2>1, <2>8, QuietStep, BoundAssumption DEF Commit, TypeOK
  <2>9. ASSUME NEW f \in Forms, SubmissionFails(f) PROVE PageInv'
    BY <2>1, <2>9, QuietStep, BoundAssumption DEF SubmissionFails, TypeOK
  <2>10. ASSUME NEW f \in Forms, SubmissionSucceeds(f) PROVE PageInv'
    BY <2>10, SubmissionSucceedsConsistent
  <2>11. CASE UNCHANGED vars
    BY <2>1, <2>11, QuietStep, BoundAssumption DEF vars, TypeOK
  <2> QED  BY <2>2, <2>3, <2>4, <2>5, <2>6, <2>7, <2>8, <2>9, <2>10, <2>11 DEF Next
<1> QED  BY <1>1, <1>2, PTL DEF Spec

(* A 304 is resolved against the body it is about, for any number of loads. *)
THEOREM NotModifiedIsAboutTheData == Spec => []NotModifiedMatchesData
<1>1. PageInv => NotModifiedMatchesData
  BY DEF PageInv, NotModifiedMatchesData, KeptConsistent, LoadConsistent, AnswerConsistent
<1> QED  BY <1>1, PageInvariant, PTL

(* A settled page shows every success a form was told of. *)
THEOREM SettledPageIsFresh == Spec => []SettledShowsSubmissions
<1>1. PageInv => SettledShowsSubmissions
  BY DEF PageInv, SettledShowsSubmissions, KeptConsistent, IndicatorIsHonest
<1> QED  BY <1>1, PageInvariant, PTL

(* What the page shows never goes back, in whatever order loads end. *)
THEOREM DataOnlyAdvances == Spec => NeverGoesBack
<1> DEFINE Advances ==
      HasData => \A r \in Resources : \A part \in Parts[r] :
                   lastData'[r][part] >= lastData[r][part]
<1>1. PageInv /\ [Next]_vars => [Advances]_vars
  <2> SUFFICES ASSUME PageInv, Next, HasData, NEW r \in Resources, NEW part \in Parts[r]
               PROVE  lastData'[r][part] >= lastData[r][part]
    OBVIOUS
  <2>1. lastData[r] \in Bodies(r, 0, version) /\ version \in Nat
    BY BoundAssumption DEF PageInv, TypeOK, KeptConsistent, HasData, NoData
  <2>2. lastData[r][part] \in Int  BY <2>1 DEF Bodies
  <2>3. CASE lastData' = lastData  BY <2>2, <2>3
  <2>4. ASSUME NEW l \in loads, FinishLoad(l), lastData' # lastData
        PROVE  lastData'[r][part] >= lastData[r][part]
    <3>1. l \in Live /\ Answered(l) /\ lastData' = Resolved(l)
      BY <2>4 DEF FinishLoad, Live
    <3>2. Resolved(l)[r] \in Bodies(r, l.from, version)
      BY <3>1, ResolvedIsAnswered
    <3>3. l.from \in 0 .. version /\ DataUntil(l.from)
      BY <3>1 DEF PageInv, TypeOK, LoadRecords, LoadConsistent, Live
    <3> QED  BY <2>1, <2>2, <3>1, <3>2, <3>3 DEF Bodies, DataUntil
  <2>5. lastData' = lastData \/ \E l \in loads : FinishLoad(l)
    BY DEF Next, Answer, FailRequest, Settle, FailLoad, StartLoad, CommitElsewhere,
           Submit, Commit, SubmissionFails, SubmissionSucceeds
  <2> QED  BY <2>3, <2>4, <2>5
<1> QED  BY <1>1, PageInvariant, PTL DEF Spec, NeverGoesBack

(* The page says it is refreshing exactly while a load over its data runs,  *)
(* for any number of overlapping loads and submissions.                     *)
THEOREM IndicatorIsTrue == Spec => []IndicatorIsHonest
BY PageInvariant, PTL DEF PageInv
=============================================================================
