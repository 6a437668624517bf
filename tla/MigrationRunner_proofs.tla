------------------------ MODULE MigrationRunner_proofs ------------------------
(***************************************************************************)
(* That whatever runners interleave or die, schema_migrations is true, the *)
(* files take effect in order and once, and competing runners do not all   *)
(* fail: MigrationInv is inductive, and implies the invariants.            *)
(***************************************************************************)
EXTENDS MigrationRunner, TLAPS

LEMMA InitialState == Init => MigrationInv
<1> SUFFICES ASSUME Init PROVE MigrationInv
  OBVIOUS
<1>1. TypeOK
  BY DEF Init, TypeOK, Labels, Ended
<1>2. SchemaMatchesRecord /\ AppliedInOrder /\ SuccessIsComplete
  BY DEF Init, SchemaMatchesRecord, AppliedInOrder, SuccessIsComplete
<1>3. \A r \in Runners : ListIsSound(r)
  BY DEF Init, ListIsSound, InTransaction
<1>4. NoFileShared /\ SomebodyLeads
  BY DEF Init, NoFileShared, SomebodyLeads
<1> QED
  BY <1>1, <1>2, <1>3, <1>4 DEF MigrationInv

LEMMA TypeStep == MigrationInv /\ [Next]_vars => TypeOK'
<1> SUFFICES ASSUME MigrationInv, [Next]_vars PROVE TypeOK'
  OBVIOUS
<1> USE DEF TypeOK, Labels, Ended
<1>0. TypeOK
  BY DEF MigrationInv
<1>1. ASSUME NEW r \in Runners, Start(r) PROVE TypeOK'
  BY <1>0, <1>1 DEF Start
<1>2. ASSUME NEW r \in Runners, Step(r) PROVE TypeOK'
  <2>1. CASE EnsureTable(r)
    BY <1>0, <2>1 DEF EnsureTable, AfterLook, Goto, Fail, TransactionAfterFailure
  <2>2. CASE ListPending(r)
    BY <1>0, <2>2 DEF ListPending, Goto
  <2>3. ASSUME NEW f \in Files, LackVariable(r, f) PROVE TypeOK'
    BY <1>0, <2>3 DEF LackVariable, Goto, Fail, TransactionAfterFailure
  <2>4. ASSUME NEW f \in Files, RunStatements(r, f) PROVE TypeOK'
    BY <1>0, <2>4 DEF RunStatements, Goto, Fail, TransactionAfterFailure
  <2>5. CASE RecordFile(r)
    BY <1>0, <2>5 DEF RecordFile, RecordedBy, Goto, Fail, TransactionAfterFailure
  <2>6. CASE Commit(r)
    <3>1. open[r] \in Files
      BY <2>6 DEF MigrationInv, ListIsSound, Commit, InTransaction, IsNext
    <3> QED
      BY <1>0, <2>6, <3>1 DEF Commit, Goto
  <2>7. CASE Finish(r)
    BY <1>0, <2>7 DEF Finish, Goto
  <2> QED
    BY <1>2, <2>1, <2>2, <2>3, <2>4, <2>5, <2>6, <2>7 DEF Step
<1>3. ASSUME NEW r \in Runners, Die(r) PROVE TypeOK'
  BY <1>0, <1>3 DEF Die, Goto, Fail, TransactionAfterFailure
<1>4. CASE UNCHANGED vars
  BY <1>0, <1>4 DEF vars
<1> QED
  BY <1>1, <1>2, <1>3, <1>4 DEF Next

(* A runner that fails disturbs nothing but its own place and transaction. *)
LEMMA FailStep ==
  ASSUME MigrationInv, NEW r \in Runners, Fail(r), TypeOK'
  PROVE  /\ SchemaMatchesRecord' /\ AppliedInOrder' /\ SuccessIsComplete'
         /\ (\A s \in Runners : ListIsSound(s))' /\ NoFileShared'
<1> USE DEF Fail, Goto, TransactionAfterFailure, TypeOK
<1>0. TypeOK
  BY DEF MigrationInv
<1>1. SchemaMatchesRecord' /\ AppliedInOrder'
  BY DEF MigrationInv, SchemaMatchesRecord, AppliedInOrder
<1>2. SuccessIsComplete'
  BY <1>0 DEF MigrationInv, SuccessIsComplete
<1>3. ASSUME NEW s \in Runners PROVE ListIsSound(s)'
  <2>1. ListIsSound(s)
    BY DEF MigrationInv
  <2>2. CASE s = r
    BY <1>0, <2>2 DEF ListIsSound, InTransaction
  <2>3. CASE s # r
    BY <1>0, <2>1, <2>3 DEF ListIsSound, InTransaction, IsNext
  <2> QED
    BY <2>2, <2>3
<1>4. NoFileShared'
  BY <1>0 DEF MigrationInv, NoFileShared
<1> QED
  BY <1>1, <1>2, <1>3, <1>4

(* Only a runner that did not lead can fail without spoiling anything. *)
LEMMA LeaderOutlivesOthers ==
  ASSUME MigrationInv, NEW r \in Runners, Fail(r), ~ Leads(r), pc[r] # "off",
         UNCHANGED spoiled, TypeOK'
  PROVE  SomebodyLeads'
<1>0. TypeOK
  BY DEF MigrationInv
<1>1. ASSUME NEW s \in Runners, Leads(s) PROVE Leads(s)'
  BY <1>0, <1>1 DEF Fail, Goto, Leads, TypeOK
<1>2. ~ spoiled => recorded = Files \/ \E s \in Runners : Leads(s)
  BY DEF MigrationInv, SomebodyLeads
<1> QED
  BY <1>1, <1>2 DEF Fail, SomebodyLeads

LEMMA StartStep ==
  ASSUME MigrationInv, NEW r \in Runners, Start(r), TypeOK'
  PROVE  MigrationInv'
<1> USE DEF Start, TypeOK, Ended
<1>0. TypeOK /\ NoFile \notin Files
  BY DEF MigrationInv, NoFile, Files
<1>1. SchemaMatchesRecord' /\ AppliedInOrder'
  BY DEF MigrationInv, SchemaMatchesRecord, AppliedInOrder
<1>2. SuccessIsComplete'
  BY <1>0 DEF MigrationInv, SuccessIsComplete
<1>3. ASSUME NEW s \in Runners PROVE ListIsSound(s)'
  <2>1. ListIsSound(s)
    BY DEF MigrationInv
  <2>2. CASE s = r
    BY <1>0, <2>1, <2>2 DEF ListIsSound, InTransaction
  <2>3. CASE s # r
    BY <1>0, <2>1, <2>3 DEF ListIsSound, InTransaction, IsNext
  <2> QED
    BY <2>2, <2>3
<1>4. NoFileShared'
  BY DEF MigrationInv, NoFileShared
<1>5. SomebodyLeads'
  <2>1. Leads(r)'
    BY <1>0 DEF Leads
  <2> QED
    BY <2>1 DEF SomebodyLeads
<1> QED
  BY <1>1, <1>2, <1>3, <1>4, <1>5 DEF MigrationInv

LEMMA EnsureStep ==
  ASSUME MigrationInv, NEW r \in Runners, EnsureTable(r), TypeOK'
  PROVE  MigrationInv'
<1> USE DEF EnsureTable, AfterLook, Goto, TypeOK
<1>0. TypeOK
  BY DEF MigrationInv
<1>1. CASE Fail(r) /\ pc[r] = "create" /\ table /\ UNCHANGED spoiled
  <2>1. ~ Leads(r)
    BY <1>1 DEF Leads, InTransaction
  <2>2. SomebodyLeads'
    BY <1>1, <2>1, LeaderOutlivesOthers
  <2> QED
    BY <1>1, <2>2, FailStep DEF MigrationInv
<1>2. CASE ~ (Fail(r) /\ pc[r] = "create" /\ table /\ UNCHANGED spoiled)
  <2>1. SchemaMatchesRecord' /\ AppliedInOrder'
    BY <1>2 DEF MigrationInv, SchemaMatchesRecord, AppliedInOrder
  <2>2. SuccessIsComplete'
    BY <1>0, <1>2 DEF MigrationInv, SuccessIsComplete
  <2>3. ASSUME NEW s \in Runners PROVE ListIsSound(s)'
    <3>1. ListIsSound(s)
      BY DEF MigrationInv
    <3>2. CASE s = r
      BY <1>0, <1>2, <3>1, <3>2 DEF ListIsSound, InTransaction
    <3>3. CASE s # r
      BY <1>0, <1>2, <3>1, <3>3 DEF ListIsSound, InTransaction, IsNext
    <3> QED
      BY <3>2, <3>3
  <2>4. NoFileShared'
    BY <1>2 DEF MigrationInv, NoFileShared
  <2>5. SomebodyLeads'
    <3>1. Leads(r)'
      BY <1>0, <1>2 DEF Leads
    <3> QED
      BY <3>1 DEF SomebodyLeads
  <2> QED
    BY <2>1, <2>2, <2>3, <2>4, <2>5 DEF MigrationInv
<1> QED
  BY <1>1, <1>2

LEMMA ListStep ==
  ASSUME MigrationInv, NEW r \in Runners, ListPending(r), TypeOK'
  PROVE  MigrationInv'
<1> USE DEF ListPending, Goto, TypeOK
<1>0. TypeOK /\ Files \subseteq Int
  BY FilesAssumption DEF MigrationInv, Files
<1>1. SchemaMatchesRecord' /\ AppliedInOrder'
  BY DEF MigrationInv, SchemaMatchesRecord, AppliedInOrder
<1>2. SuccessIsComplete'
  BY <1>0 DEF MigrationInv, SuccessIsComplete
<1>3. ASSUME NEW s \in Runners PROVE ListIsSound(s)'
  <2>1. ListIsSound(s)
    BY DEF MigrationInv
  <2>2. CASE s = r
    <3>1. \A f \in pending'[r], g \in Files : f < g => g \in pending'[r]
      BY <1>0 DEF MigrationInv, AppliedInOrder
    <3> QED
      BY <1>0, <2>1, <2>2, <3>1 DEF ListIsSound, InTransaction
  <2>3. CASE s # r
    BY <1>0, <2>1, <2>3 DEF ListIsSound, InTransaction, IsNext
  <2> QED
    BY <2>2, <2>3
<1>4. NoFileShared'
  BY DEF MigrationInv, NoFileShared
<1>5. SomebodyLeads'
  <2>1. Leads(r)'
    BY <1>0 DEF Leads
  <2> QED
    BY <2>1 DEF SomebodyLeads
<1> QED
  BY <1>1, <1>2, <1>3, <1>4, <1>5 DEF MigrationInv

(* A runner that leads has nothing on its list that is recorded. *)
LEMMA RunStep ==
  ASSUME MigrationInv, NEW r \in Runners, NEW f \in Files, RunStatements(r, f), TypeOK'
  PROVE  MigrationInv'
<1> USE DEF RunStatements, Goto, TypeOK
<1>0. TypeOK
  BY DEF MigrationInv
<1>1. CASE Fail(r) /\ f \in recorded
  <2>1. ~ Leads(r) /\ pc[r] # "off"
    BY <1>1 DEF Leads, IsNext
  <2>2. SomebodyLeads'
    BY <1>1, <2>1, LeaderOutlivesOthers
  <2> QED
    BY <1>1, <2>2, FailStep DEF MigrationInv
<1>2. CASE ~ (Fail(r) /\ f \in recorded)
  <2>1. SchemaMatchesRecord' /\ AppliedInOrder'
    BY <1>2 DEF MigrationInv, SchemaMatchesRecord, AppliedInOrder
  <2>2. SuccessIsComplete'
    BY <1>0, <1>2 DEF MigrationInv, SuccessIsComplete
  <2>3. ASSUME NEW s \in Runners PROVE ListIsSound(s)'
    <3>1. ListIsSound(s)
      BY DEF MigrationInv
    <3>2. CASE s = r
      BY <1>0, <1>2, <3>1, <3>2 DEF ListIsSound, InTransaction, IsNext
    <3>3. CASE s # r
      BY <1>0, <1>2, <3>1, <3>3 DEF ListIsSound, InTransaction, IsNext
    <3> QED
      BY <3>2, <3>3
  <2>4. NoFileShared'
    BY <1>0, <1>2 DEF MigrationInv, NoFileShared, Available
  <2>5. SomebodyLeads'
    <3>1. ASSUME NEW s \in Runners, Leads(s) PROVE Leads(s)'
      BY <1>0, <1>2, <3>1 DEF Leads, InTransaction
    <3> QED
      BY <1>2, <3>1 DEF MigrationInv, SomebodyLeads
  <2> QED
    BY <2>1, <2>2, <2>3, <2>4, <2>5 DEF MigrationInv
<1> QED
  BY <1>1, <1>2

LEMMA RecordStep ==
  ASSUME MigrationInv, NEW r \in Runners, RecordFile(r), TypeOK'
  PROVE  MigrationInv'
<1> USE DEF RecordFile, Collides, RecordedBy, Goto, TypeOK
<1>0. TypeOK /\ IsNext(open[r], r)
  BY DEF MigrationInv, ListIsSound, InTransaction
<1>1. CASE Fail(r) /\ open[r] \in recorded
  <2>1. ~ Leads(r) /\ pc[r] # "off"
    BY <1>0, <1>1 DEF Leads, IsNext
  <2>2. SomebodyLeads'
    BY <1>1, <2>1, LeaderOutlivesOthers
  <2> QED
    BY <1>1, <2>2, FailStep DEF MigrationInv
<1>2. CASE ~ (Fail(r) /\ open[r] \in recorded)
  <2>1. SchemaMatchesRecord' /\ AppliedInOrder'
    BY <1>2 DEF MigrationInv, SchemaMatchesRecord, AppliedInOrder
  <2>2. SuccessIsComplete'
    BY <1>0, <1>2 DEF MigrationInv, SuccessIsComplete
  <2>3. ASSUME NEW s \in Runners PROVE ListIsSound(s)'
    <3>1. ListIsSound(s)
      BY DEF MigrationInv
    <3>2. CASE s = r
      BY <1>0, <1>2, <3>1, <3>2 DEF ListIsSound, InTransaction, IsNext
    <3>3. CASE s # r
      BY <1>0, <1>2, <3>1, <3>3 DEF ListIsSound, InTransaction, IsNext
    <3> QED
      BY <3>2, <3>3
  <2>4. NoFileShared'
    BY <1>2 DEF MigrationInv, NoFileShared
  <2>5. SomebodyLeads'
    <3>1. ASSUME NEW s \in Runners, Leads(s) PROVE Leads(s)'
      BY <1>0, <1>2, <3>1 DEF Leads, InTransaction
    <3> QED
      BY <1>2, <3>1 DEF MigrationInv, SomebodyLeads
  <2> QED
    BY <2>1, <2>2, <2>3, <2>4, <2>5 DEF MigrationInv
<1> QED
  BY <1>1, <1>2

(* The runner that commits leads from then on. *)
LEMMA CommitStep ==
  ASSUME MigrationInv, NEW r \in Runners, Commit(r), TypeOK'
  PROVE  MigrationInv'
<1> DEFINE f == open[r]
<1> USE DEF Commit, Goto, TypeOK
<1>0. TypeOK /\ Files \subseteq Int /\ NoFile \notin Files
  BY FilesAssumption DEF MigrationInv, Files, NoFile
<1>1. /\ IsNext(f, r) /\ f \in Files /\ f \notin recorded
      /\ Files \ pending[r] \subseteq recorded
      /\ \A e \in pending[r], g \in Files : e < g => g \in pending[r]
  BY <1>0 DEF MigrationInv, ListIsSound, InTransaction, IsNext
<1>2. SchemaMatchesRecord'
  BY <1>0, <1>1 DEF MigrationInv, SchemaMatchesRecord
<1>3. AppliedInOrder'
  BY <1>0, <1>1 DEF MigrationInv, AppliedInOrder, IsNext
<1>4. SuccessIsComplete'
  BY <1>0, <1>1 DEF MigrationInv, SuccessIsComplete
<1>5. ASSUME NEW s \in Runners PROVE ListIsSound(s)'
  <2>1. ListIsSound(s)
    BY DEF MigrationInv
  <2>2. CASE s = r
    <3>1. \A e \in pending'[r], g \in Files : e < g => g \in pending'[r]
      BY <1>0, <1>1 DEF IsNext
    <3> QED
      BY <1>0, <1>1, <2>2, <3>1 DEF ListIsSound, InTransaction
  <2>3. CASE s # r
    <3>1. open[s] # f
      BY <1>0, <1>1, <2>3 DEF MigrationInv, NoFileShared
    <3> QED
      BY <1>0, <2>1, <2>3, <3>1 DEF ListIsSound, InTransaction, IsNext
  <2> QED
    BY <2>2, <2>3
<1>6. NoFileShared'
  BY <1>0 DEF MigrationInv, NoFileShared
<1>7. SomebodyLeads'
  <2>1. pending[r] = Files \ recorded
    <3>1. ASSUME NEW g \in pending[r] PROVE g \notin recorded
      <4> HIDE DEF f
      <4>0. f \in Files /\ g \in Files /\ f <= g
        BY <1>0, <1>1 DEF IsNext
      <4>1. g = f \/ f < g
        BY <1>0, <4>0
      <4> QED
        BY <1>1, <4>0, <4>1 DEF MigrationInv, AppliedInOrder
    <3> QED
      BY <1>0, <1>1, <3>1
  <2>2. Leads(r)'
    BY <1>0, <1>1, <2>1 DEF Leads
  <2> QED
    BY <2>2 DEF SomebodyLeads
<1> QED
  BY <1>2, <1>3, <1>4, <1>5, <1>6, <1>7 DEF MigrationInv

LEMMA FinishStep ==
  ASSUME MigrationInv, NEW r \in Runners, Finish(r), TypeOK'
  PROVE  MigrationInv'
<1> USE DEF Finish, Goto, TypeOK
<1>0. TypeOK
  BY DEF MigrationInv
<1>1. recorded = Files
  BY <1>0 DEF MigrationInv, ListIsSound
<1>2. SchemaMatchesRecord' /\ AppliedInOrder'
  BY DEF MigrationInv, SchemaMatchesRecord, AppliedInOrder
<1>3. SuccessIsComplete'
  BY <1>0, <1>1, <1>2 DEF SchemaMatchesRecord, SuccessIsComplete
<1>4. ASSUME NEW s \in Runners PROVE ListIsSound(s)'
  <2>1. ListIsSound(s)
    BY DEF MigrationInv
  <2>2. CASE s = r
    BY <1>0, <2>1, <2>2 DEF ListIsSound, InTransaction
  <2>3. CASE s # r
    BY <1>0, <2>1, <2>3 DEF ListIsSound, InTransaction, IsNext
  <2> QED
    BY <2>2, <2>3
<1>5. NoFileShared' /\ SomebodyLeads'
  BY <1>1 DEF MigrationInv, NoFileShared, SomebodyLeads
<1> QED
  BY <1>2, <1>3, <1>4, <1>5 DEF MigrationInv

LEMMA Inductive == MigrationInv /\ [Next]_vars => MigrationInv'
<1> SUFFICES ASSUME MigrationInv, [Next]_vars PROVE MigrationInv'
  OBVIOUS
<1>0. TypeOK'
  BY TypeStep
<1>1. ASSUME NEW r \in Runners, Start(r) PROVE MigrationInv'
  BY <1>0, <1>1, StartStep
<1>2. ASSUME NEW r \in Runners, Step(r) PROVE MigrationInv'
  <2>1. ASSUME NEW f \in Files, LackVariable(r, f) PROVE MigrationInv'
    <3>1. SomebodyLeads'
      BY <2>1 DEF LackVariable, SomebodyLeads
    <3>2. Fail(r)
      BY <2>1 DEF LackVariable
    <3> QED
      BY <1>0, <3>1, <3>2, FailStep DEF MigrationInv
  <2> QED
    BY <1>0, <1>2, <2>1, EnsureStep, ListStep, RunStep, RecordStep, CommitStep, FinishStep
    DEF Step
<1>3. ASSUME NEW r \in Runners, Die(r) PROVE MigrationInv'
  <2>1. SomebodyLeads' /\ Fail(r)
    BY <1>3 DEF Die, SomebodyLeads
  <2> QED
    BY <1>0, <2>1, FailStep DEF MigrationInv
<1>4. CASE UNCHANGED vars
  <2> USE <1>4 DEF vars
  <2>1. SchemaMatchesRecord' /\ AppliedInOrder' /\ SuccessIsComplete' /\ NoFileShared'
    BY DEF MigrationInv, SchemaMatchesRecord, AppliedInOrder, SuccessIsComplete, NoFileShared
  <2>2. (\A r \in Runners : ListIsSound(r))'
    BY DEF MigrationInv, ListIsSound, IsNext
  <2>3. SomebodyLeads'
    BY DEF MigrationInv, SomebodyLeads, Leads
  <2> QED
    BY <1>0, <2>1, <2>2, <2>3 DEF MigrationInv
<1> QED
  BY <1>1, <1>2, <1>3, <1>4 DEF Next

(* Any number of runners, started, interleaved and dying in any way, keep   *)
(* the inductive invariant.                                                 *)
THEOREM MigrationInvariant == Spec => []MigrationInv
<1>1. Init => MigrationInv
  BY InitialState
<1>2. MigrationInv /\ [Next]_vars => MigrationInv'
  BY Inductive
<1> QED
  BY <1>1, <1>2, PTL DEF Spec

(* What schema_migrations lists took effect once, and nothing else did.     *)
THEOREM RecordIsTrue == Spec => []SchemaMatchesRecord
<1>1. MigrationInv => SchemaMatchesRecord
  BY DEF MigrationInv
<1> QED
  BY <1>1, MigrationInvariant, PTL

(* No file takes effect before one it builds on.                            *)
THEOREM FilesApplyInOrder == Spec => []AppliedInOrder
<1>1. MigrationInv => AppliedInOrder
  BY DEF MigrationInv
<1> QED
  BY <1>1, MigrationInvariant, PTL

(* A runner exits 0 only when every file took effect.                       *)
THEOREM ExitZeroIsComplete == Spec => []SuccessIsComplete
<1>1. MigrationInv => SuccessIsComplete
  BY DEF MigrationInv
<1> QED
  BY <1>1, MigrationInvariant, PTL

(* Runners that compete and do not die leave a complete schema behind.      *)
THEOREM CompetitorsComplete == Spec => []SomebodySucceeds
<1>1. MigrationInv => SomebodySucceeds
  BY DEF MigrationInv, SomebodyLeads, SomebodySucceeds, Leads, Idle, Ended, InTransaction
<1> QED
  BY <1>1, MigrationInvariant, PTL
=============================================================================
