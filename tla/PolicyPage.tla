------------------------------ MODULE PolicyPage ------------------------------
(***************************************************************************)
(* The read side of the page: the hook usePolicy with its overlapping      *)
(* loads, conditional GETs and cancelled results, and the two forms whose  *)
(* successes make it load again.  The server's data is a version, the      *)
(* number of calls committed; the body of a GET is put together from       *)
(* queries that each see some version between its request and its answer.  *)
(* A body stands for its own ETag, which is a hash of it.                  *)
(***************************************************************************)
EXTENDS Integers, FiniteSets

CONSTANTS Forms,       \* the forms mounted under the page
          NoBody,      \* null
          MaxVersion,  \* bound: calls committed in a behaviour
          MaxLoads     \* bound: loads in flight at a time

Resources == {"policy", "ledger"}

(* The queries behind each GET: v_policy_summary and the rows listed beside *)
(* it; v_ledger_summary.                                                    *)
Parts == [policy |-> {"summary", "rows"}, ledger |-> {"transactions"}]

Bodies(r, from, to) == [Parts[r] -> from .. to]

ASSUME BoundAssumption == MaxVersion \in Nat /\ MaxLoads \in Nat
ASSUME NoBodyAssumption ==
  \A r \in Resources : NoBody \notin Bodies(r, 0, MaxVersion)

VARIABLES version,       \* calls committed on the policy
          loads,         \* runs of load() whose requests are not settled
          view,          \* state.status
          isRefetching,
          refetchDue,    \* refetchToken is bumped and its effect has not run
          etag,          \* policyEtagRef, ledgerEtagRef
          lastData,      \* lastDataRef; the data shown while view is "success"
          posts,         \* per form: the submission in flight
          notified       \* version when a form was last told of success

vars == <<version, loads, view, isRefetching, refetchDue, etag, lastData, posts,
          notified>>

-----------------------------------------------------------------------------
(* Loads *)

Waiting == [status |-> "waiting", etag |-> NoBody, data |-> NoBody]

(* A run of load(): its two requests, each with its If-None-Match. *)
NewLoad(sent) ==
  [cancelled |-> FALSE, from |-> version, sent |-> sent,
   answer |-> [r \in Resources |-> Waiting]]

HasData == \A r \in Resources : lastData[r] # NoBody

(* Mutant of Cancelled: the cleanup of the effect is missing. *)
NeverCancelled(all) == all

(* The cleanup of the effect: cancelled = true. *)
Cancelled(all) == {[l EXCEPT !.cancelled = TRUE] : l \in all}

Live == {l \in loads : ~ l.cancelled}

(* Mutant of LoadsAfterRefetch: a refetch during a load is dropped. *)
LoadsUnlessLoading == IF Live = {} THEN Cancelled(loads) \union {NewLoad(etag)} ELSE loads

LoadsAfterRefetch == Cancelled(loads) \union {NewLoad(etag)}

(* React renders the bumped token, however many bumps it stands for, and    *)
(* runs the cleanup of the last effect, then the effect: load() up to its   *)
(* await.                                                                   *)
StartLoad ==
  /\ refetchDue
  /\ refetchDue' = FALSE
  /\ loads' = LoadsAfterRefetch
  /\ isRefetching' = (isRefetching \/ HasData)
  /\ view' = IF HasData THEN view ELSE "loading"
  /\ UNCHANGED <<version, etag, lastData, posts, notified>>

NoData == [r \in Resources |-> NoBody]

(* The first effect; StrictMode runs it, its cleanup and again the effect. *)
Init ==
  /\ version = 0
  /\ view = "loading"
  /\ isRefetching = FALSE
  /\ refetchDue = FALSE
  /\ etag = NoData
  /\ lastData = NoData
  /\ posts = [f \in Forms |-> "none"]
  /\ notified = 0
  /\ LET first == NewLoad(NoData) IN
     loads \in {{first}, {[first EXCEPT !.cancelled = TRUE], first}}

Replaced(l, m) == (loads \ {l}) \union {m}

(* respondNotModifiedIfMatching: 304 with the ETag alone when the body is   *)
(* the one the client named, 200 with both otherwise.                       *)
Response(body, sent) ==
  IF body = sent THEN [status |-> "not_modified", etag |-> body, data |-> NoBody]
  ELSE [status |-> "ok", etag |-> body, data |-> body]

Answer(l, r) ==
  /\ l.answer[r] = Waiting
  /\ \E body \in Bodies(r, l.from, version) :
       loads' = Replaced(l, [l EXCEPT !.answer[r] = Response(body, l.sent[r])])
  /\ UNCHANGED <<version, view, isRefetching, refetchDue, etag, lastData, posts, notified>>

(* An error status, or a connection that fails. *)
FailRequest(l, r) ==
  /\ l.answer[r] = Waiting
  /\ loads' = Replaced(l, [l EXCEPT !.answer[r].status = "failed"])
  /\ UNCHANGED <<version, view, isRefetching, refetchDue, etag, lastData, posts, notified>>

Answered(l) == \A r \in Resources : l.answer[r].status \in {"ok", "not_modified"}
Failed(l) == \E r \in Resources : l.answer[r].status = "failed"

(* `data ?? lastDataRef.current?.[resource] ?? null` *)
Resolved(l) ==
  [r \in Resources |-> IF l.answer[r].data # NoBody THEN l.answer[r].data ELSE lastData[r]]

NewEtags(l) == [r \in Resources |-> l.answer[r].etag]

(* Mutant of EtagsAfter: the ETags are kept before `if (cancelled) return`. *)
EtagsOfEveryLoad(l) == NewEtags(l)

EtagsAfter(l) == IF l.cancelled THEN etag ELSE NewEtags(l)

(* Both GETs are answered: the rest of load(). *)
FinishLoad(l) ==
  LET data == Resolved(l) IN
  /\ Answered(l)
  /\ loads' = loads \ {l}
  /\ etag' = EtagsAfter(l)
  /\ IF l.cancelled
     THEN UNCHANGED <<lastData, view, isRefetching>>
     ELSE /\ isRefetching' = FALSE
          /\ IF \E r \in Resources : data[r] = NoBody
             THEN view' = "error" /\ UNCHANGED lastData
             ELSE view' = "success" /\ lastData' = data
  /\ UNCHANGED <<version, refetchDue, posts, notified>>

(* Promise.all rejects: the catch of load().  The page replaces the forms   *)
(* by an error message; what they have in flight reaches nobody.            *)
FailLoad(l) ==
  /\ Failed(l)
  /\ loads' = loads \ {l}
  /\ IF l.cancelled
     THEN UNCHANGED <<view, isRefetching, posts>>
     ELSE /\ view' = "error"
          /\ isRefetching' = FALSE
          /\ posts' = [f \in Forms |-> "none"]
  /\ UNCHANGED <<version, refetchDue, etag, lastData, notified>>

-----------------------------------------------------------------------------
(* Submissions *)

(* Somebody else's call commits. *)
CommitElsewhere ==
  /\ version < MaxVersion
  /\ version' = version + 1
  /\ UNCHANGED <<loads, view, isRefetching, refetchDue, etag, lastData, posts, notified>>

(* The operator submits a form; its button is disabled until the answer. *)
Submit(f) ==
  /\ view = "success"
  /\ posts[f] = "none"
  /\ version < MaxVersion
  /\ posts' = [posts EXCEPT ![f] = "sent"]
  /\ UNCHANGED <<version, loads, view, isRefetching, refetchDue, etag, lastData, notified>>

(* The call commits, or replays one that did. *)
Commit(f) ==
  /\ posts[f] = "sent"
  /\ version' \in {version, version + 1} /\ version' <= MaxVersion
  /\ posts' = [posts EXCEPT ![f] = "committed"]
  /\ UNCHANGED <<loads, view, isRefetching, refetchDue, etag, lastData, notified>>

(* The form is told of an error, whatever became of the call. *)
SubmissionFails(f) ==
  /\ posts[f] # "none"
  /\ posts' = [posts EXCEPT ![f] = "none"]
  /\ UNCHANGED <<version, loads, view, isRefetching, refetchDue, etag, lastData, notified>>

(* The form is told of success and calls onApplied or onRecorded: refetch(). *)
SubmissionSucceeds(f) ==
  /\ posts[f] = "committed"
  /\ Cardinality(loads) < MaxLoads
  /\ posts' = [posts EXCEPT ![f] = "none"]
  /\ notified' = version
  /\ refetchDue' = TRUE
  /\ UNCHANGED <<version, loads, view, isRefetching, etag, lastData>>

Settle(l) == FinishLoad(l) \/ FailLoad(l)

Next ==
  \/ \E l \in loads : (\E r \in Resources : Answer(l, r) \/ FailRequest(l, r)) \/ Settle(l)
  \/ StartLoad
  \/ CommitElsewhere
  \/ \E f \in Forms : \/ Submit(f)
                      \/ Commit(f)
                      \/ SubmissionFails(f)
                      \/ SubmissionSucceeds(f)

Spec == Init /\ [][Next]_vars

(* A request the browser sent is answered or fails, and the event loop runs *)
(* what is ready; nothing obliges the operator or other clients to act.     *)
Fairness ==
  /\ WF_vars(\E l \in loads, r \in Resources : Answer(l, r) \/ FailRequest(l, r))
  /\ WF_vars(\E l \in loads : Settle(l))
  /\ WF_vars(StartLoad)

FairSpec == Spec /\ Fairness

-----------------------------------------------------------------------------
(* Properties *)

AnyBody == UNION {Bodies(r, 0, version) : r \in Resources}
MaybeBody == AnyBody \union {NoBody}
Statuses == {"waiting", "ok", "not_modified", "failed"}
AnswerRecords == [status : Statuses, etag : MaybeBody, data : MaybeBody]
LoadRecords ==
  [cancelled : BOOLEAN, from : 0 .. version, sent : [Resources -> MaybeBody],
   answer : [Resources -> AnswerRecords]]

(* Type invariant: what is held anywhere is a body some committed version   *)
(* could have been answered with.                                           *)
TypeOK ==
  /\ version \in 0 .. MaxVersion
  /\ loads \subseteq LoadRecords
  /\ view \in {"loading", "success", "error"}
  /\ isRefetching \in BOOLEAN
  /\ refetchDue \in BOOLEAN
  /\ etag \in [Resources -> MaybeBody]
  /\ lastData \in [Resources -> MaybeBody]
  /\ posts \in [Forms -> {"none", "sent", "committed"}]
  /\ notified \in 0 .. version

(* A 304 is only ever resolved against the body it is about: the data kept  *)
(* for its resource is the one whose ETag the server found unchanged.       *)
NotModifiedMatchesData ==
  \A l \in Live, r \in Resources :
    l.answer[r].status = "not_modified" => lastData[r] = l.answer[r].etag

(* Every query behind the data the page keeps saw version v or a later one. *)
DataSince(v) == \A r \in Resources : \A part \in Parts[r] : v <= lastData[r][part]
DataUntil(v) == \A r \in Resources : \A part \in Parts[r] : lastData[r][part] <= v

(* When the page shows data, does not say it is refreshing and has no       *)
(* refetch due, every query behind the data ran after the last success a    *)
(* form was told of.                                                        *)
SettledShowsSubmissions ==
  view = "success" /\ ~ isRefetching /\ ~ refetchDue => DataSince(notified)

(* The page says it is refreshing while a load over the data it shows runs,  *)
(* and never once no load runs that could end it.                           *)
IndicatorIsHonest ==
  /\ isRefetching => Live # {}
  /\ view = "success" /\ Live # {} => isRefetching

(* What the page shows never goes back to an earlier state of any query,    *)
(* in whatever order overlapping loads are answered.                        *)
NeverGoesBack ==
  [][HasData => \A r \in Resources : \A part \in Parts[r] :
                  lastData'[r][part] >= lastData[r][part]]_vars

(* What is kept: an ETag and the body it is about, for all GETs or for none. *)
KeptConsistent ==
  /\ etag = lastData
  /\ lastData = NoData \/ \A r \in Resources : lastData[r] \in Bodies(r, 0, version)
  /\ view = "success" => HasData
  /\ view = "success" /\ Live = {} /\ ~ refetchDue => DataSince(notified)

(* A request of a load that counts is answered about a body it may have read. *)
AnswerConsistent(l, r) ==
  LET answer == l.answer[r] IN
  /\ answer.status = "ok" =>
       answer.data = answer.etag /\ answer.etag \in Bodies(r, l.from, version)
  /\ answer.status = "not_modified" =>
       /\ answer.data = NoBody
       /\ answer.etag = l.sent[r]
       /\ answer.etag \in Bodies(r, l.from, version)

(* The load that counts sent the ETags kept now, and began after the data   *)
(* kept now was read and after the last success a form was told of, unless  *)
(* a refetch is due.                                                        *)
LoadConsistent(l) ==
  /\ l.sent = etag
  /\ HasData => DataUntil(l.from)
  /\ notified <= l.from \/ refetchDue
  /\ \A r \in Resources : AnswerConsistent(l, r)

(* The inductive invariant behind the theorems.                             *)
PageInv ==
  /\ TypeOK
  /\ KeptConsistent
  /\ \A l, m \in Live : l = m
  /\ \A l \in Live : LoadConsistent(l)
  /\ IndicatorIsHonest

(* A success a form was told of ends up on the page, or the page reports an *)
(* error, once the operator lets the page load: every submission cancels    *)
(* the load that runs, so an endless series of them would starve it.        *)
SubmissionShows ==
  <>[](\A f \in Forms : posts[f] = "none") =>
    \A v \in 1 .. MaxVersion :
      notified = v ~>
        \/ view = "error"
        \/ HasData /\ DataSince(v)
=============================================================================
