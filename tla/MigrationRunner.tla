---------------------------- MODULE MigrationRunner ----------------------------
(***************************************************************************)
(* npm run migrate: runners that read once which migrations are recorded   *)
(* in schema_migrations and apply the rest in the order of their names,    *)
(* each in a transaction with the row that records it.  Nothing keeps two  *)
(* runners apart but the database's own locks and unique keys; a runner    *)
(* may die anywhere and be started again.                                  *)
(***************************************************************************)
EXTENDS Integers, FiniteSets

CONSTANTS Runners,
          LastFile,     \* the files are 1 .. LastFile, in the order of their names
          Repeatable,   \* files that run again without error: OR REPLACE, IF NOT EXISTS, ON CONFLICT
          NeedsVariable,\* files with a ${VAR_NAME} to substitute
          MaxRuns       \* bound: runs in a behaviour

Files == 1 .. LastFile

ASSUME FilesAssumption == LastFile \in Nat
ASSUME SubsetAssumption == Repeatable \subseteq Files /\ NeedsVariable \subseteq Files
ASSUME RunsAssumption == MaxRuns \in Nat

VARIABLES table,     \* schema_migrations exists
          recorded,  \* its committed rows
          effects,   \* per file: how many times its statements took effect
          pc,        \* per runner: where main is
          pending,   \* per runner: files it has still to apply
          open,      \* per runner: the file of its open transaction
          given,     \* runners whose environment has the variables
          runs,
          spoiled    \* since nobody ran last, a runner died or lacked a variable

vars == <<table, recorded, effects, pc, pending, open, given, runs, spoiled>>

NoFile == 0
Ended == {"off", "done", "failed"}
Idle == \A r \in Runners : pc[r] \in Ended

Init ==
  /\ table = FALSE
  /\ recorded = {}
  /\ effects = [f \in Files |-> 0]
  /\ pc = [r \in Runners |-> "off"]
  /\ pending = [r \in Runners |-> {}]
  /\ open = [r \in Runners |-> NoFile]
  /\ given = {}
  /\ runs = 0
  /\ spoiled = FALSE

Start(r) ==
  /\ pc[r] \in Ended
  /\ runs < MaxRuns
  /\ runs' = runs + 1
  /\ pc' = [pc EXCEPT ![r] = "ensure"]
  /\ pending' = [pending EXCEPT ![r] = {}]
  /\ given' \in {given \union {r}, given \ {r}}
  /\ spoiled' = (spoiled /\ ~ Idle)
  /\ UNCHANGED <<table, recorded, effects, open>>

Goto(r, label) == pc' = [pc EXCEPT ![r] = label]

(* Mutant of TransactionAfterFailure: no ROLLBACK and no client.end. *)
LeftOpen(r) == open[r]

(* catch, ROLLBACK, client.end *)
TransactionAfterFailure(r) == NoFile

Fail(r) ==
  /\ Goto(r, "failed")
  /\ open' = [open EXCEPT ![r] = TransactionAfterFailure(r)]
  /\ UNCHANGED <<table, recorded, effects, pending, given, runs>>

(* Mutant of AfterLook: CREATE TABLE without IF NOT EXISTS. *)
NoLook == "create"

AfterLook == IF table THEN "list" ELSE "create"

(* ensureMigrationsTable: the database looks for the table, then creates    *)
(* it; IF NOT EXISTS does not help the second of two that saw none.         *)
EnsureTable(r) ==
  \/ /\ pc[r] = "ensure"
     /\ Goto(r, AfterLook)
     /\ UNCHANGED <<table, recorded, effects, pending, open, given, runs, spoiled>>
  \/ /\ pc[r] = "create"
     /\ ~ table
     /\ table' = TRUE
     /\ Goto(r, "list")
     /\ UNCHANGED <<recorded, effects, pending, open, given, runs, spoiled>>
  \/ /\ pc[r] = "create"
     /\ table
     /\ Fail(r)
     /\ UNCHANGED spoiled

(* getAppliedFilenames and the filter. *)
ListPending(r) ==
  /\ pc[r] = "list"
  /\ pending' = [pending EXCEPT ![r] = Files \ recorded]
  /\ Goto(r, "next")
  /\ UNCHANGED <<table, recorded, effects, open, given, runs, spoiled>>

(* Mutant of IsNext: the names are not sorted. *)
AnyNext(f, r) == f \in pending[r]

IsNext(f, r) == f \in pending[r] /\ \A g \in pending[r] : f <= g

(* substituteEnvVars throws before BEGIN. *)
LackVariable(r, f) ==
  /\ pc[r] = "next"
  /\ IsNext(f, r)
  /\ f \in NeedsVariable /\ r \notin given
  /\ Fail(r)
  /\ spoiled' = TRUE

(* The statements of a file wait for a transaction that runs the same. *)
Available(r, f) == \A s \in Runners \ {r} : open[s] # f

(* BEGIN, and the statements of the file: unless repeatable they fail on    *)
(* what is there already, and repeatable ones may, having waited.           *)
RunStatements(r, f) ==
  /\ pc[r] = "next"
  /\ IsNext(f, r)
  /\ f \in NeedsVariable => r \in given
  /\ Available(r, f)
  /\ \/ /\ f \notin recorded \/ f \in Repeatable
        /\ open' = [open EXCEPT ![r] = f]
        /\ Goto(r, "ran")
        /\ UNCHANGED <<table, recorded, effects, pending, given, runs>>
     \/ f \in recorded /\ Fail(r)
  /\ UNCHANGED spoiled

(* Mutant of RecordedBy: the row is written on another connection, outside  *)
(* the transaction of the migration.                                        *)
RecordedAtOnce(f) == recorded \union {f}

(* What an INSERT that is not committed yet makes visible. *)
RecordedBy(f) == recorded

(* Mutant of Collides: schema_migrations without its primary key. *)
NeverCollides(f) == FALSE

Collides(f) == f \in recorded

RecordFile(r) ==
  /\ pc[r] = "ran"
  /\ \/ /\ ~ Collides(open[r])
        /\ recorded' = RecordedBy(open[r])
        /\ Goto(r, "recorded")
        /\ UNCHANGED <<table, effects, pending, open, given, runs>>
     \/ Collides(open[r]) /\ Fail(r)
  /\ UNCHANGED spoiled

Commit(r) ==
  LET f == open[r] IN
  /\ pc[r] = "recorded"
  /\ recorded' = recorded \union {f}
  /\ effects' = [effects EXCEPT ![f] = @ + 1]
  /\ pending' = [pending EXCEPT ![r] = @ \ {f}]
  /\ open' = [open EXCEPT ![r] = NoFile]
  /\ Goto(r, "next")
  /\ UNCHANGED <<table, given, runs, spoiled>>

Finish(r) ==
  /\ pc[r] = "next"
  /\ pending[r] = {}
  /\ Goto(r, "done")
  /\ UNCHANGED <<table, recorded, effects, pending, open, given, runs, spoiled>>

(* The runner or its connection dies, or a statement fails for want of       *)
(* space, of rights, of time: the database rolls back.                       *)
Die(r) ==
  /\ pc[r] \notin Ended
  /\ Fail(r)
  /\ spoiled' = TRUE

Step(r) ==
  \/ EnsureTable(r)
  \/ ListPending(r)
  \/ \E f \in Files : LackVariable(r, f) \/ RunStatements(r, f)
  \/ RecordFile(r)
  \/ Commit(r)
  \/ Finish(r)

Next == \E r \in Runners : Start(r) \/ Step(r) \/ Die(r)

Spec == Init /\ [][Next]_vars

(* A runner goes on while it runs; nobody has to start one. *)
Fairness == \A r \in Runners : WF_vars(Step(r))

FairSpec == Spec /\ Fairness

-----------------------------------------------------------------------------
(* Properties *)

Labels == Ended \union {"ensure", "create", "list", "next", "ran", "recorded"}

(* Type invariant. *)
TypeOK ==
  /\ table \in BOOLEAN
  /\ recorded \subseteq Files
  /\ effects \in [Files -> Nat]
  /\ pc \in [Runners -> Labels]
  /\ pending \in [Runners -> SUBSET Files]
  /\ open \in [Runners -> Files \union {NoFile}]
  /\ given \subseteq Runners
  /\ runs \in Nat
  /\ spoiled \in BOOLEAN

(* schema_migrations tells the truth wherever a runner died: what it lists  *)
(* took effect once, what it does not list took no effect.                  *)
SchemaMatchesRecord ==
  \A f \in Files : effects[f] = IF f \in recorded THEN 1 ELSE 0

(* A file never takes effect before one it builds on, whichever runners     *)
(* applied them.                                                            *)
AppliedInOrder == \A f \in recorded, g \in Files : g < f => g \in recorded

(* A runner that exits 0 leaves a schema in which every file took effect,   *)
(* also when the list it worked off was out of date.                        *)
SuccessIsComplete ==
  \A r \in Runners : pc[r] = "done" => \A f \in Files : effects[f] > 0

(* Runners that get in each other's way never all fail: once nobody runs    *)
(* any more and none of them died, the schema is complete.                  *)
SomebodySucceeds ==
  Idle /\ ~ spoiled /\ (\E r \in Runners : pc[r] # "off") => recorded = Files

InTransaction == {"ran", "recorded"}

(* A runner whose list is up to date, or will be. *)
Leads(r) ==
  \/ pc[r] \in {"ensure", "list"}
  \/ pc[r] = "create" /\ ~ table
  \/ pc[r] \in {"next"} \union InTransaction /\ pending[r] = Files \ recorded

(* The list of r lacks only what is recorded, and is a tail of the files;   *)
(* its transaction is about the first on it.                                *)
ListIsSound(r) ==
  /\ pc[r] \in {"next"} \union InTransaction =>
       /\ Files \ pending[r] \subseteq recorded
       /\ \A f \in pending[r], g \in Files : f < g => g \in pending[r]
  /\ pc[r] \in InTransaction => IsNext(open[r], r)
  /\ pc[r] \notin InTransaction => open[r] = NoFile
  /\ pc[r] = "recorded" => open[r] \notin recorded

NoFileShared == \A r, s \in Runners : open[r] = open[s] /\ open[r] # NoFile => r = s

SomebodyLeads ==
  ~ spoiled /\ (\E r \in Runners : pc[r] # "off") =>
    recorded = Files \/ \E r \in Runners : Leads(r)

(* The inductive invariant behind the theorems. *)
MigrationInv ==
  /\ TypeOK
  /\ SchemaMatchesRecord
  /\ AppliedInOrder
  /\ SuccessIsComplete
  /\ \A r \in Runners : ListIsSound(r)
  /\ NoFileShared
  /\ SomebodyLeads

(* Every runner ends: none waits for ever for the transaction of another,   *)
(* also of one that died.                                                   *)
EveryRunEnds == \A r \in Runners : pc[r] \notin Ended ~> pc[r] \in Ended
=============================================================================
