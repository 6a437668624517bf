# Verification of the policy billing core

The repository is a small policy billing system: a PostgreSQL database whose
functions apply endorsements and record payments, an Express API in front of
it, and a React page for the operator. This directory holds TLA+ models of its
parts, TLC configurations that check them on small instances, and TLAPS proofs
of what matters most for every instance.

## 1. Inventory

Paths are relative to `src/`. `backend` stands for `packages/backend/src`,
`frontend` for `packages/frontend/src`.

| Part | State | Operations | Hard because |
|---|---|---|---|
| Billing functions, `db/migrations/007` | tables of 001-006: policies, policy_events, billing_documents, payments, ledger_transactions, ledger_entries; sequences; row locks | `fn_apply_endorsement`, `fn_record_payment` | concurrent calls read a premium and a chain head and write later; idempotency; rollback; integer rounding and BIGINT |
| Hash chain, 007 and 002 | `previous_hash`, `event_hash` of policy_events | append under the row lock, `fn_verify_policy_history` | ids are drawn before commit and burnt by rollbacks |
| Read views, 008 | none | v_policy_summary, v_policy_billing_documents, v_policy_payments, v_ledger_summary | derived balance; `created_at` is the start of a transaction, not its commit |
| Repository, `backend/db/repository.ts`, `errors.ts` | none | one SQL call per request, SQLSTATE to HTTP status | a lost connection after COMMIT; one GET is four queries with four snapshots |
| Request pipeline, `backend/app.ts`, `middleware/`, `routes/`, `validation/` | rate-limit counters | CORS, JSON, rate limit, auth, validation, error handler | the order of the middlewares; refused requests are counted; a fixed window; a rejection Express 4 does not see |
| Conditional GET, `backend/http/conditionalGet.ts` | none | ETag of a body, 200 or 304 | a 304 is only as good as what the client kept |
| Pool and life cycle, `backend/db/pool.ts`, `server.ts` | ten connections, the HTTP server | acquire, release, shutdown on a signal | a pool full of lock waiters; callers that hang up; connections kept alive through a shutdown; a second signal; an error event nobody listens for |
| Policy page, `frontend/hooks/usePolicy.ts`, `pages/PolicyPage.tsx`, `api/client.ts` | ETag refs, last data, state, refetch token, cancelled flags | load, refetch, cleanup | loads overlap and end in any order |
| Submission forms, `frontend/components/*Form.tsx`, `hooks/use{ApplyEndorsement,RecordPayment,IdempotencyKey}.ts` | fields, key, submission state, timer | submit, classify an error, notify, reset | who keeps the key after a failure, a reset timer, unmounting |
| Migration runner, `db/migrate.ts` | schema_migrations | create the table, list what is pending, apply it file by file | two runners with one list; a crash between a file and its record |

How they interact. The page's forms POST a call with an idempotency key; the
API checks it, takes a connection from its pool and runs **one** `SELECT * FROM
fn_...` in its own implicit transaction. The function takes the row lock of
the policy, looks the key up, checks the business rules, links an event to the
head of the policy's hash chain and writes document or payment and ledger. Its
row, or the SQLSTATE it raised, becomes the HTTP answer. A success makes the
form call `refetch`, which makes the page load the policy and its ledger again
with the ETags it last saw.

What makes each part correct:

- functions: calls on a policy behave as if run one at a time; a key takes
  effect once; an answer tells whether its call took effect; nothing of an
  aborted call is visible; documents, payments and ledger agree; every call ends;
- chain: intact in every committed state, growing only at its end;
- arithmetic: no bias, reversals cancel, overflow fails whole;
- reads: a body never masks a call somebody was told of, its balance is never
  ahead of its rows, and a 304 never vouches for less than a 200 would have;
- pipeline: every request is answered; a caller is refused for its own requests
  only, and not for ever;
- process: the pool keeps its bound, everybody who waits is served, a signal cuts
  nobody off and ends the process once callers let go of their connections;
- migrations: what is recorded took effect once and in order, exit code 0 means a
  complete schema, and competing runners do not all fail;
- page: what is shown is never older than what the operator was told, never
  goes backwards, and a 304 is resolved against the data it is about;
- form: what took effect unseen can be retried under its key, and the status
  shown says what happened to the submission.

`PROJECT.json` lists every component with its status, and every hazard of the
code at its line with the properties that cover it. What is not modelled, and
why, is in section 7.

## 2. Modules

    Proration            the arithmetic
      EndorsementSequence    calls one after another     PolicyBilling_proofs
      PolicyBilling          the functions, concurrently PolicyBilling_proofs
    HashChain            what an intact chain is (extended by PolicyBilling)
      HistoryVerification    its verification, row by row HistoryVerification_proofs
    BillingService       what the functions promise, refined by PolicyBilling
      PolicyReads            the GETs over the log       PolicyReads_proofs
    ApiPipeline          the middlewares                 ApiPipeline_proofs
    ServerLifecycle      pool, callers, shutdown         ServerLifecycle_proofs
    MigrationRunner      npm run migrate                 MigrationRunner_proofs
    PolicyPage           the read side of the page       PolicyPage_proofs
    SubmissionForm       a form and its key              SubmissionForm_proofs

**Proration** holds the operators of one endorsement's arithmetic
(007:136-153): `Numerator`, `RoundHalfAway`, `DeltaCents`, and `ProrationFits`,
the condition under which no BIGINT intermediate overflows. `MaxBigint` is
2^63-1 in PostgreSQL and a constant here, so that an instance overflows soon.

**HashChain** is the chain over a policy's events and
`fn_verify_policy_history`. SHA-256 is idealised as collision free: a digest is
represented by what it digests, so an event hash is the sequence of canonical
payloads up to the event.

**PolicyBilling** is the core. A table is a set of rows; a session of the pool
runs one call, and each SQL statement of a function that touches a table is an
action:

| Action | Code |
|---|---|
| `Begin` | the API's `pool.query`; `now()` is fixed here, before any lock is waited for |
| `LockPolicy`, `PolicyNotFound` | `SELECT ... FOR UPDATE` and `IF NOT FOUND` |
| `AnswerReplay`, `RejectConflict` | the lookup of the key and its two outcomes |
| `RejectCall`, `AcceptCall` | the business rules in their order, and BIGINT overflow |
| `ReadChainHead`, `InsertEvent` | the chain head, the event id from the sequence, the unique index (it waits for an uncommitted row with the key, and raises 23505 for a committed one) |
| `CommitEndorsement`, `CommitPayment` | document or payment, ledger, premium, the deferred balance trigger, COMMIT |
| `Abort` | the session dies before COMMIT; sequences stay advanced |
| `Disconnect` | API or client stop waiting; the session runs on |
| `Reply` | the row or SQLSTATE becomes an HTTP answer |

The isolation level is READ COMMITTED: rows a call writes stay in `tx` until its
commit, and every statement reads the committed tables. The later inserts of a
call are one action with its COMMIT because no other session can see them or be
blocked by them before it: the only index other sessions can collide on is the
key of policy_events, and that insert is an action of its own. `answers` is a
history variable: what clients were told, with the start time of the call.

**BillingService** is the abstract specification: a policy is the list of calls
applied to it, and a call is decided at one instant between its request and its
answer. The premium, the charge (nearest integer, by definition rather than by
the code's formula), refusals and replays are functions of that list. It has no
sessions, locks, rows or hashes.

**EndorsementSequence** runs endorsements of one policy one after another, as
the row lock makes them, and keeps the exact bill beside the rounded one.

**HistoryVerification** is the loop of `fn_verify_policy_history`: one action for
the SELECT, one for each row (`Turn`), one for the return, with the function's own
variables. Rows are written as the two functions write them, and altered or
removed by hand before or after. A field is altered to something no row has, as a
forged digest would be; the row a writer saw as the head is kept beside each row,
so that "its predecessor is gone" can be said without the hashes. The rows to come
are a set of which the loop takes the one with the lowest id, as `ORDER BY` does.

**PolicyReads** is the three GETs. Writers are the log of `BillingService`, the
abstract service that `PolicyBilling` implements, and a row of a view is
identified by the position of its call in the log; the order rows are listed in is
not part of it. Each query of a GET is an action that sees what is committed then:
`getPolicySummary` awaits the summary row and only then asks for documents and
payments, while the verification runs beside all of them (`Ready`). A response is
200 or 304 by comparing the ETag of the new body with the one named. The reader
keeps a body and goes on with it on a 304. `told` is what any client has been told
took effect, `due` what had been told when a GET began, `damaged` the policies with
a row altered by hand.

**ApiPipeline** is `createApp`: `Send` (with the preflight CORS answers itself),
`RejectUnparsable` (the error of `express.json` passes over everything to
`errorHandler`), `Admit` (from the limiter through authorization and validation to
the call of the repository nothing is awaited), `Handle` (the repository returns or
throws), `Tick`, and `Restart`, which forgets the counts and loses what is in
flight. The limiter's store is a package outside the repository, modelled as the
fixed window per header its options ask for. An unset `API_KEY`, which turns every
request into a 500, is left out.

**ServerLifecycle** is one process of the API with the pg pool: a FIFO queue without
a timeout, clients in use and idle, the row lock of the one policy all writes go
to, callers that hang up while their handler runs on, a database that drops its
connections, and `shutdown`: `server.close`, then `pool.end`, then `process.exit`.
A caller connects (`Connect`), sends requests one after another (`Accept`), and its
connection is kept alive after each answer until it closes or times out (`Leave`):
`app.ts` sets no `Connection: close`. `server.close` is that of Node 22 (`package.json:10`): it takes no
new connections and closes those kept alive just then. A connection whose request
runs stays, is kept alive after the answer, and may carry further requests, so
`Accept` is possible while closing too. Whether one that never carried a request is
closed is left open (`spared`): that is the runtime's affair.
The queries of a GET run one after another here; that two of them run together
changes how soon the queue moves, not who is in it.

**MigrationRunner** is `db/migrate.ts` with any number of runners. `CREATE TABLE IF
NOT EXISTS` is two steps, since of two runners that see no table one fails on the
catalog. The list is read once. The statements of a file wait for a transaction
that runs the same file; then they fail on what is there, unless the file is
repeatable (007 to 010), which fails at the latest at the primary key of
`schema_migrations`. A runner that dies after COMMIT and before it hears of it is
`Die` after `Commit`. A file with a variable that is not set throws before BEGIN.

**PolicyPage** models `usePolicy` with overlapping loads. The server's data is a
version, the number of calls committed; a body of a GET maps each query behind
it (`v_policy_summary` and the rows beside it, `v_ledger_summary`) to the
version it saw, any version between the request and its answer, so torn bodies
are included. A body stands for its own ETag. Actions: a form submits, the call
commits (or replays one that did), the form is told of success or of an error;
success bumps the token (`refetchDue`); React runs the cleanup of the last
effect and the next effect (`StartLoad`); a request is answered with 200 or 304
or fails; a load ends (`FinishLoad`, `FailLoad`) whether or not it was
cancelled. A failed load replaces the forms by an error, and what they had in
flight reaches nobody.

**SubmissionForm** models either form with its submission hook, which differ only
in their fields. An entry stands for everything the operator types but the key.
Fields and key can be edited while nothing is in flight; `Submit` is the handler
up to its `await`; `Deliver` and `ConnectionFails` are its two ways to resume;
`Reset` is the button of the success panel and the timer that presses it;
`Unmount` is the page's error that replaces the forms, `Mount` the page loaded
anew. The API is what the form can see of it: `Decide` applies, replays or
refuses an attempt (a refusal is an entry in `Invalid`, for a 400 or a business
rule, or an idempotency conflict), `Decline` answers 401, 404, 429 or 500 with
no effect, and an attempt nobody waits for is decided late, in any order, or
lost (`Drop`). An effect whose answer is lost is `ConnectionFails` before
`Decide`, or after it with the answer dropped. `recorded`, `told` and `abandoned`
are what the properties speak of: the entry in effect under a key, the keys a
success was shown for, and the keys that left the form otherwise.

## 3. Runs

Passing runs check for deadlock, and have a `Quiescent` step (the form also
`Spent`) that allows exactly the rest their instance comes to and no other.
`history` and `migrations` do not: one verification is enough, and nobody has to
start another runner. `reads` needs no such step, as a reader may ask for ever.

| Run | Instance | Shows |
|---|---|---|
| `competing` | 2 sessions, 4 calls drawn from 5 on one policy, symmetry | chain, premiums, ledger, keys, answers, append-only, and that the functions are linearizable |
| `rules` | 2 sessions, 2 calls drawn from 12 on two policies, one of them cancelled, and one that does not exist | every refusal at its boundary gets the code and status of the first rule that objects; only overflow is a 500; every call ends |
| `drift` | 4 endorsements in a 6-day term | half a cent a step, reversals cancel |
| `reads` | 1 reader of a known and an unknown policy, an endorsement and a payment, damage at any time | what bodies and 304s may say |
| `history` | 4 rows, 2 alterations or removals at any time | the loop computes what the chain as a whole says, and blames the first wronged row |
| `pipeline` | 4 requests of 2 headers, limit 1 in 2 ticks, 3 ticks, 1 restart | refusals, bursts, nobody locked out, every request answered |
| `lifecycle` | 3 callers of POSTs and one of a GET of 2 queries, each again and again, 2 clients, 2 signals, 1 drop | the bound of the pool, service, shutdown |
| `migrations` | 3 runners, 4 runs, 3 files of which some are repeatable and one has a variable | record, order, completeness, somebody succeeds, every run ends |
| `page` | 2 forms, 2 commits, 2 loads in flight | freshness, 304s, the indicator, monotonicity, a success reaches the page |
| `form` | 2 keys, 3 attempts, 3 entries of which one invalid, symmetry | unseen money keeps its key, the status is true |
| `replay`, `external_payment` | 1 session, 2 or 3 calls | what a document says and the code does not do (section 4) |

Why the bounds are enough. Two sessions suffice for every race on a policy: the
lock has one holder, and a third session only queues behind it. The calls of
`competing` are a rise, a fall with a rounding tie, the first key with other
contents, a payment under an endorsement's key and the same money under a key of
its own; four of them allow an endorsement, another, a replay of the first and a
conflict. In `rules` every refusal is decided by one call and what one other did
before or beside it. Dates are the days of a term of four, `MaxBigint` is small so
that overflow is reachable in `rules` and out of reach in `competing`.

In `reads` the two calls have amounts of which every subset has another sum, so that
a torn body shows; readers do not affect each other. In `history` four rows leave
room for a change before, at and after the row that is blamed, and a second change
that could hide the first. In `pipeline` two requests of one header overrun a limit
of one, and three ticks hold more than a window; a body that is no JSON fails before it is
counted, the impossible value after; the other kinds differ from these in the
status they end in. In `lifecycle` two writes fill the pool, a third and the GET's
second query wait in its queue, and a signal comes before, between and after them, with
further requests on connections that outlive it.
In `migrations` the third runner is one that comes late, the fourth run one that
repairs what the others left. Two loads in flight of a page are the one that counts
and one cancelled; StrictMode starts with two. Two keys and three attempts of a
form are a retry overtaken by the attempt it repeats, with a corrected entry under
the same key or under a fresh one after a reset.

The inductive invariants of section 5 (`BillingInv`, `ReadsInv`, `LimiterInv`,
`CountingInv`, `LifecycleInv`, `HistoryInv`, `MigrationInv`, `PageInv`, `FormInv`)
hold on these instances too; the runs check what follows from them, and leave the invariants themselves to the proofs.

Bounds are named constants: `MaxCalls`, `MaxSteps`, `MaxVersion`, `MaxLoads`,
`MaxKeys`, `MaxAttempts`, `MaxRequests`, `MaxTime`, `MaxRestarts`, `MaxSignals`,
`MaxDrops`, `MaxRuns`, `MaxEvents`, `MaxChanges`. `reads` needs none: a call takes
effect once.

What `answers` does not hold: a call whose client lost its connection was told
nothing that can be trusted (the API answers 500 when the database connection
fails), so `AnswersTellTheTruth` and `ServerErrorsExplained` speak of answers the
database gave. `OneEventPerKey` and the chain cover the others.

### Fairness

`PolicyBilling`: PostgreSQL executes a statement it has been given and the API
sends its answer (weak fairness of `Statement` and `Reply`); the row lock is
queued for, so a waiter is not passed over for ever (strong fairness of
`LockPolicy`). Nobody has to call, and no connection has to fail.

`PolicyPage`: a request the browser sent is answered or fails, and the event loop
runs continuations and effects that are ready. Nothing obliges the operator or
other clients. An operator who submits for ever would cancel every load before
it ends, in the code as in the model, so `SubmissionShows` assumes that from some
point on no submission is in flight.

`ApiPipeline`: the event loop takes up what it received, and the repository settles
what it was asked. `ServerLifecycle`: the same, and the database ends a query unless
it waits for the row lock; nobody has to call, hang up or signal, and no
connection has to drop. A connection kept alive closes at last unless a further
request comes on it (`keepAliveTimeout` of `node:http`, five seconds, which `server.ts` leaves
as it is). `ShutdownEnds` assumes besides that callers let go (`CallersLetGo`): from some
point on nobody sends a request, and nobody holds for ever a connection that never
carried one. Without either half it fails, see section 4.

`MigrationRunner`: a runner goes on while it runs; nobody has to start one, and none
has to die. Weak fairness of each runner's step is enough, though it waits for
transactions of others: runs are finitely many, so a transaction it waits for is not
followed by others for ever.

`SubmissionForm`, `EndorsementSequence`, `PolicyReads` and `HistoryVerification` have
safety properties only, and no fairness.

## 4. Where documents and code disagree

Two of them have a run that TLC ends with a counterexample, and a finding in
`PROJECT.json` with the quoted lines.

- A replay is answered with the policy's premium *now*, not "the original result
  verbatim" (`replay`).
- A payment with a known external id under a new key is applied again, against
  FR-009 (`external_payment`).

The others were met while modelling; the models have the code's behaviour, and no
run of their own. Paths under `docs/BLAB-...` are shortened to BLAB-001 and BLAB-002.

- Payment keys: a key resubmitted with another payload is a conflict (007:282);
  BLAB-001 `spec.md:164` says the original result is returned "whether or not the
  resubmitted payload is byte-identical".
- Order of documents: 008:45 says "newest first", and 008:55 sorts by `created_at`,
  the start of a transaction. Of two overlapping calls the one that began first
  may take the lock last; it posts the newest document, which is listed as older.
- ETag: BLAB-001 `contracts/rest-api.md:136` says "derived from the policy's latest
  `updated_at`/event-count", and `repository.ts:221` that the field is "folded into
  the route's ETag basis"; `conditionalGet.ts:16` hashes the body, and `updatedAt` is
  read but not used. The code is the safer of the two: with the documented ETag
  `ShowsWhatWasTold` fails, as a torn body could be confirmed by a 304 (the operator
  `VersionEtag` of PolicyReads).
- Authorization: `contracts/rest-api.md:10` says "Missing/invalid key → `401` before
  any other processing"; `app.ts` parses the body and counts the request first, so
  that a wrong key is answered 500 for a body that is no JSON and 429 over the limit.
- Server errors: BLAB-001 `spec.md:260` says the term "covers any failure not
  attributable to caller input"; a body that is no JSON, a day that does not exist
  and an integer beyond BIGINT reach the last branch of `errorHandler.ts:36`, 500.
  `EveryRequestIsAnswered` asks for an answer, not for its status, so it holds.
- Shutdown: `pool.ts:29` calls it graceful. Every signal registers one more callback
  of `server.close`, each of which ends the pool; the second rejects, nobody
  catches it, and the process ends with an error if a call whose caller hung up
  still runs. `OnlyDropsLoseCallers` shows that nobody who waits is cut off by it.
- Shutdown, its end: `server.close` (`server.ts:26`) waits for every connection and has no
  deadline. A connection active at the signal is kept alive after its answer, so one
  caller that sends request after request on it, each before the timeout, is served on
  and the process never ends; so does one that holds a connection open on which it
  never sent anything. `ShutdownEnds` therefore says that a signal ends the process
  *if* callers let go; TLC finds it violated when either half of `CallersLetGo` is left
  out.
- Dropped connections: `contracts/rest-api.md:23` promises 500 for an unexpected failure;
  the pool (`pool.ts:27`) has no listener for `error`, so that a database that drops an
  idle connection ends the process, and the requests it holds get no answer.
  `OnlyDropsLoseCallers` excepts this case: it says that nothing else has that effect.
- Spent keys: BLAB-002 `spec.md:133` scopes a key to "until a successful submission"; the
  form keeps it until the reset, five seconds later (`PaymentForm.tsx:117`), and what
  is submitted in between goes out under the spent key, a conflict.

## 5. What is proved

Of `PolicyBilling` (module `PolicyBilling_proofs`), for any finite or infinite
set of sessions, any policies, any calls and any bound, from the assumptions of
the module (the seed has terms of at least a day and premiums that are not
negative, requests carry integers, the null values are no sessions or calls; for the
refinement also that a call is exactly its function's arguments, that the seeded
premium is a BIGINT, and that twice the days of a term, an INTEGER, are one):

- `BillingInvariant`: `Spec => []BillingInv`
- `TypeCorrect`, `ChainsStayIntact`, `KeysTakeEffectOnce`: its consequences
- `HistoryGrowsAtItsEnd`: `AppendOnly`, as an event is committed by a session that
  is consistent with the history
- `AnswersNameRows`, `AnswersAreTrue`: what clients are told, of rows and of effects
- `PremiumsNeverSkip`: `PremiumsTelescope`
- `LedgerAgrees`: `OpenBalanceAgrees`, a sum over tables of any size
- `ErrorsAreExplained`: `ServerErrorsExplained`
- `Linearizable`: `RefinesService`, every behaviour is one of `BillingService`

`ChainIntact` and `OneEventPerKey` are not inductive: nothing in them says that
a session about to insert read the *current* head, or that its key is still new.
`BillingInv` adds what each session relies on (`SessionConsistent`): from the
lock to the commit it holds the row lock of its policy; from `AcceptCall` on its
key is new; from `ReadChainHead` on its `previous_hash` is the head; once it has
drawn an event id, that id is below the sequence and above every id of its
policy. `HistoryConsistent` adds that every event has its row, that ids are below
the sequence, and that a history that is not empty has a latest event. The proof
has one lemma per action. Those of actions that write no table rest on
`InnerStep`, `EndStep` and `IdleStep`; the two commits rest on `HistoryExtends`
(appending an event that links to the head keeps the chain intact) and on
`OthersAfterCommit` (a session of another policy is not disturbed, and one of the
same policy has not the lock).

The properties of answers and premiums need more, each an invariant on top of
`BillingInv`. `StepMoves` says once what a step does to the session that takes it
(it begins, moves on, draws an id, fails, replays, commits or leaves), and the
invariants of answers are shown case by case of that:

- `RowsInv` and `NamesInv` for rows: event ids are drawn once, an event has one row,
  and whoever was or is being told of a row was told of the one of his key's event.
- `TruthInv` for effects: a start time belongs to one call, and an event dates from it
  exactly when that call ended "applied".
- `PremiumInv` for premiums: the premium a session read under the lock is the one
  `policies` holds until it commits, documents are ordered as their events, and the
  document a commit adds is the latest of its policy.
- `ErrorsInv` for errors: `Earlier` is empty when a key is inserted, so 23505 is not
  raised; what is posted are two lines of one amount or none, so P0001 is not either
  (`SumOfOne` unfolds the fold of the trigger over one line); the codes that are left
  have a status of their own, or are 22003.
- `BalanceInv` for the ledger: ids of documents, payments and transactions are drawn
  once, so a commit adds one row and one transaction with lines nobody else has. The
  sums are folds over a choice of rows; that they exist, and that a row more adds its
  amount wherever the choice falls, is shown without an induction theorem, from the
  smallest subset for which it would fail (`SmallestSubset`, `SumsExist`, `SumRemoves`).

`Linearizable` shows the refinement step by step, for the mapping of `RefinesService`:
the log is the list of calls read off the hash chains. `Begin` is an `Invoke`; the
instant a call takes effect, its `Decide`, is its commit, or the statement that finds
it replayed, in conflict, refused or without a policy; `Reply` and `Abort` are a
`Close`, the rest stutters. That the verdict is the one of the service needs `ServiceInv`,
which says of the tables what they mean in terms of calls:

- the events of a policy are the positions of its chain, each records one call, and
  the payload determines it (`TextIsTheCall`), so the events under a key are the uses
  of the key in the log (`UsesAreEvents`);
- the premium in `policies` is the one the calls on the chain leave, and the amount of
  a row is what its call costs after the calls on the chain *its event links to*: this
  is what makes the answer of a replay, found calls later, the charge of then;
- a session that writes passed the rules against the premium that still holds.

The two sides compute on their own: the integer division of `RoundHalfAway` is the one
integer nearest to the quotient, ties away from zero (`RoundsToNearest`), and the four
overflow checks come down to the one the service states (`FitsIs`).

Of the arithmetic (in the same module), for every
term, premium and number of steps: `RoundHalfAway` is within half a unit and is
odd, hence `DriftIsBounded`, `ReversalsCancel` and `StepsBillWithinChange`.

Of `HistoryVerification` (`HistoryVerification_proofs`), for any number of rows,
payloads and changes by hand: `HistoryInvariant`, and from it `LoopComputesIt` and
`FirstWrongedIsBlamed`. The loop is shown to compute the definition by what it knows
of the rows read so far (`LoopConsistent`); no induction along the chain is needed.
That it blames the right row is a property of the writers: a row was written under
an id above all others, with the hash of the row it saw as the head, and what was
removed since does not come back (`LinksConsistent`). A row that follows another than
the one before it links to a hash that is longer than that one's, or not clean, so
it cannot match by accident; a forged field makes the hashes after it unclean, and
those before the first wronged row are clean (`UnwrongedIsClean`). What is said of the
rows of the SELECT stays true while calls and hands go on (`SnapshotStays`).

Of `PolicyReads` (`PolicyReads_proofs`), for any log and any number of readers:
`ReadsInvariant`, and from it `NothingToldIsMasked` and `BalancesAreListed`. What is
inductive: every snapshot, of a GET in flight or of a body kept, is a prefix of the
log as it grows; none of a GET is older than its beginning; the rows beside a balance
were asked for after it; and an ETag a GET named is that of the body the reader keeps,
which was honest when it was kept. So a 304 is about a body equal to the one the
queries of the GET would have made, and what is due is in it. `QuietReadsAreExact`
(`QuietReadIsExact`) follows without a further invariant but one, that a log holds
calls on policies that exist: a snapshot neither older than the beginning of a GET
nor longer than the log now is the log (`NothingBetween`). That the balance is then the
difference of the rows (`BalanceOfRows`) is a statement about three folds over sets of
any size, and holds since amounts are integers (`AmountIsInteger`: terms last at least
a day, so the nearest integer to a charge exists).

Of `PolicyPage` (`PolicyPage_proofs`), for any set of forms and any number of
loads and commits: `PageInvariant`, and from it `NotModifiedIsAboutTheData`,
`SettledPageIsFresh`, `IndicatorIsTrue` and `DataOnlyAdvances`. What makes it inductive: at most one
load counts, it sent the ETags that are kept *now*, it began after everything
kept was read, and after the last success a form was told of unless a refetch is
due; a request it has answered is about a body it may have read. So a 304 names
the body kept, and the data a load resolves to is newer than what it replaces.

Of `SubmissionForm` (`SubmissionForm_proofs`), for any entries and any number of
keys and attempts: `FormInvariant`, and from it `UnseenEffectsKeepTheirKey` and
`StatusIsTrue`. The first property is not inductive, since an attempt may take
effect long after its key left the form: `FormInv` says that *every* key ever
generated is in the form, was shown a success or was abandoned, whether or not
it has taken effect; that the attempt awaited is of the form as it stands; and
that an answer, once given, holds for ever.

Of `ApiPipeline` (`ApiPipeline_proofs`), for any headers, window, limit and number of
requests: `LimiterInvariant`, and from it `FixedWindowLocksNobodyOut`. That property is
not inductive, since it says nothing of the window that counts now: `LimiterInv`
adds that the window of a header refused in this process resets within a window's
length of the refusal, unless one of the header passed since. A request counted
after that reset opens a window and, the limit being at least one, passes.
`CountingInvariant` adds what a counter stands for: its value is the number of
requests counted since the window began, of which at most the limit passed, as in the
window's length before. So a refusal is due to that many others (`RefusalsAreEarned`),
and a span of a window's length, which meets two windows at most, lets twice the limit
through (`BurstsAreBounded`).

Of `ServerLifecycle` (`ServerLifecycle_proofs`), for any callers, queries, signals, drops
and size of the pool: `LifecycleCorrect`, and from it `PoolStaysBounded` and
`ShutdownsKeepCallers`. What is inductive: idle clients and those in use are no more
than the pool holds, a write that runs is in the line for the row lock, and once the
pool is ended no caller is connected, which is why a second signal harms nobody.

Of `MigrationRunner` (`MigrationRunner_proofs`), for any set of runners, any files and
any number of runs: `MigrationInvariant`, and from it `RecordIsTrue`,
`FilesApplyInOrder`, `ExitZeroIsComplete` and `CompetitorsComplete`. What makes it
inductive: a runner's list lacks only what is recorded and is a tail of the files,
its transaction is about the first file on it, and no two transactions are about
the same file; hence what a runner commits was not recorded and all before it was.
For the last property: unless a runner died, one of them *leads*, its list being
exactly what is not recorded. When another commits before it, that one leads.

## 6. What is only model-checked

Every invariant and every action property of the runs is also proved. Left to TLC are
`EveryCallEnds`, `SubmissionShows`, `EveryRequestIsAnswered`, `EveryCallerIsServed`,
`ShutdownEnds` and `EveryRunEnds`: liveness under fairness, which is out of the
prover's reach. `VerifyHistory` is proved about by what it says of each event, never
by induction along the chain.

## 7. Not modelled, and plan

Not modelled: the components that only render (`App.tsx`, `Timeline.tsx`,
`PolicyStateView.tsx`: no state), `utils/money.ts` (a string conversion, and no
property is about digits), `009_grants.sql` (static privileges that no function runs
into), shared type declarations (erased at run time), markup, tests, load scripts,
containers, documents and the tooling under `.specify` and `skills`.

Done: every part of the table in section 1. Left, most important first:

1. PolicyReads shown to implement the "any version between request and answer" that
   PolicyPage assumes of a body, and the composition of SubmissionForm with
   PolicyPage, whose failed load is what unmounts the form.
