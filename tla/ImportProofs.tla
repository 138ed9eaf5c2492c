---------------------------- MODULE ImportProofs ----------------------------
(***************************************************************************)
(* Theorems about Import, for all archives, producers, targets and bounds, *)
(* with their proofs: the lock and the source are there while the import   *)
(* needs them, the graph is exchanged as it was pinned and with every      *)
(* reference counted, and a rollback leaves nothing behind.                *)
(***************************************************************************)
EXTENDS Import, FiniteSetTheorems, TLAPS

OpRecord == [state: OpStates, phase: Phases, result: BOOLEAN]
TaskRecord == [step: Steps, todo: SUBSET Media, known: BOOLEAN]
PlanRecord == [target: Targets \cup {None}, kept: [Item -> Rows \cup {NoRow}],
               pinned: Inventories, ready: BOOLEAN]

(***************************************************************************)
(* The course of an operation: its states go with the phases of its        *)
(* commit, and the work under way with both.                               *)
(***************************************************************************)
OpFits ==
  \/ /\ op.phase = "none" /\ op.result = FALSE
     /\ op.state \in {"none", "uploaded", "validating", "plan_ready", "failed", "cleanup_required"}
  \/ op.phase = "preparing" /\ op.result = FALSE /\ op.state = "committing"
  \/ op.phase = "cleanup_required" /\ op.state = "cleanup_required"
  \/ op.phase = "rolled_back" /\ op.result = FALSE /\ op.state = "rolled_back"
  \/ op.phase \in {"graph_committed", "complete"} /\ op.result = TRUE /\ op.state = "imported"

Ending == task.step \in {"unstage", "unreserve", "settle"}
TaskFits ==
  /\ task.step = "adopt" => op.state = "none"
  /\ task.step \in {"stage", "validated", "invalid"} => op.state = "validating"
  /\ task.step \in {"load", "write", "commit"} => op.state = "committing"
  /\ task.step = "unlink" => op.result = TRUE /\ op.phase # "complete"
  /\ task.step \in {"discard", "discarding"} => op.phase = "cleanup_required" /\ op.result = FALSE
  /\ Ending => op.phase \in {"graph_committed", "cleanup_required"}

LockFits == lock # "none" <=> op.phase \in {"preparing", "graph_committed", "cleanup_required"}

\* a commit is of a plan for one of the targets
PlanFits ==
  /\ plan.ready = TRUE => plan.target \in Targets
  /\ op.state = "committing" => plan.ready = TRUE

\* prepared rows, from the reservation to the end of a rollback
NotPrepared == \A i \in Item : prow[i] \in {"none", "discarded"}
RowsFit ==
  /\ op.phase \in {"none", "preparing"} => \A i \in Item : prow[i] \in {"none", "reserved", "written"}
  /\ task.step \in {"write", "commit"} => \A i \in Item : prow[i] \in {"reserved", "written"}
  /\ op.result = FALSE => \A i \in Item : prow[i] # "committed"
  /\ task.step = "discarding" => \A i \in Item \ task.todo : prow[i] \in {"none", "discarded"}
  /\ op.result = FALSE /\ Ending => NotPrepared
  /\ op.state = "rolled_back" => NotPrepared

\* the source of an operation that has not begun to clean up
SourceFits ==
  /\ task.step = "adopt" => archive = {"reservation"}
  /\ op.state \in {"uploaded", "validating"} => "reservation" \in archive
  /\ task.step = "validated" \/ op.state \in {"plan_ready", "committing"} => SourceThere

CourseInv == OpFits /\ TaskFits /\ LockFits /\ PlanFits /\ RowsFit /\ SourceFits
-----------------------------------------------------------------------------
(***************************************************************************)
(* What the actions do to the operation and to the task.                   *)
(***************************************************************************)
LEMMA Constants ==
  /\ Item \subseteq Upload /\ Targets \subseteq Scope \cup {None} /\ IsFiniteSet(Upload)
  /\ None \notin Upload /\ MaxFaults \in Nat /\ MaxRestart \in Nat
  /\ \A i \in Item : ScopeOf(i) \notin Targets
  BY ImportIsWellFormed, UploadsAreWellFormed

LEMMA UploadType ==
  ASSUME NEW u \in Upload
  PROVE  ContentOf(u) \in Content /\ ScopeOf(u) \in Scope /\ u # None
  BY UploadsAreWellFormed DEF ContentOf, ScopeOf

LEMMA OpOf ==
  ASSUME op \in OpRecord, NEW s \in OpStates, NEW p \in Phases, Becomes(s, p)
  PROVE  op' \in OpRecord /\ op'.state = s /\ op'.phase = p /\ op'.result = op.result
  BY DEF OpRecord, Becomes

LEMMA TaskOf ==
  ASSUME task \in TaskRecord, NEW s \in Steps, Then(s)
  PROVE  task' \in TaskRecord /\ task'.step = s /\ task'.todo = task.todo /\ task'.known = task.known
  BY DEF TaskRecord, Then

LEMMA NewTask ==
  ASSUME NEW s \in Steps, NEW todo \in SUBSET Media, NEW known \in BOOLEAN
  PROVE  /\ Task(s, todo, known) \in TaskRecord /\ Task(s, todo, known).step = s
         /\ Task(s, todo, known).todo = todo /\ Task(s, todo, known).known = known
  BY DEF TaskRecord, Task

LEMMA IdleType == Idle \in TaskRecord /\ Idle.step = "idle" /\ Idle.todo = {}
  BY DEF Idle, Task, TaskRecord, Steps

LEMMA Shrinks ==
  ASSUME task \in TaskRecord, NEW m, task' = [task EXCEPT !.todo = @ \ {m}]
  PROVE  task' \in TaskRecord /\ task'.step = task.step /\ task'.todo = task.todo \ {m}
  BY DEF TaskRecord

\* a failed commit is rolled back, a failed cleanup waits
LEMMA FailOf ==
  ASSUME op \in OpRecord, task \in TaskRecord, Fail
  PROVE  /\ op' \in OpRecord /\ op'.state = "cleanup_required" /\ op'.phase = "cleanup_required"
         /\ op'.result = op.result /\ task' \in TaskRecord
         /\ op.result = TRUE => task'.step = "idle"
         /\ op.result = FALSE => task'.step = "discard"
  <1>1. Becomes("cleanup_required", "cleanup_required")
    BY DEF Fail
  <1>2. op' \in OpRecord /\ op'.state = "cleanup_required" /\ op'.phase = "cleanup_required" /\ op'.result = op.result
    BY <1>1, OpOf DEF OpStates, Phases
  <1>3. CASE op.result = TRUE
    BY <1>2, <1>3, IdleType DEF Fail
  <1>4. CASE op.result = FALSE
    <2>1. task' = [task EXCEPT !.step = "discard", !.todo = {}]
      BY <1>4 DEF Fail
    <2>2. DOMAIN task = {"step", "todo", "known"} /\ task.known \in BOOLEAN
      BY DEF TaskRecord
    <2>3. task' = Task("discard", {}, task.known)
      BY <2>1, <2>2 DEF Task
    <2> QED
      BY <1>2, <1>4, <2>2, <2>3, NewTask DEF Steps
  <1> QED
    BY <1>2, <1>3, <1>4 DEF OpRecord

-----------------------------------------------------------------------------
\* the types of the import's own variables
ImportTypes ==
  /\ op \in OpRecord /\ archive \subseteq {"reservation", "staging"} /\ plan \in PlanRecord
  /\ prow \in [Item -> {"none", "reserved", "written", "committed", "discarded"}]
  /\ lock \in {"none", "draining", "exclusive"}
  /\ ledger \in [Media -> {"none", "pending", "unlinked", "preserved", "blocked"}]
  /\ task \in TaskRecord
  /\ faults \in 0..MaxFaults /\ restarts \in 0..MaxRestart

LEMMA TypesOfImport == TypeOK <=> MediaTypeOK /\ ImportTypes
  BY DEF TypeOK, ImportTypes, OpRecord, PlanRecord, TaskRecord

LEMMA FaultType == ASSUME faults \in 0..MaxFaults, Fault PROVE faults' \in 0..MaxFaults
  BY Constants DEF Fault

(***************************************************************************)
(* The course is kept, action by action: capture and validation.           *)
(***************************************************************************)
LEMMA ValidationCourse ==
  ASSUME ImportTypes, CourseInv,
         \/ Capture \/ Adopt \/ BeginValidation \/ Stage \/ FinishValidation \/ FailValidation
  PROVE  ImportTypes' /\ CourseInv'
  <1>0. op \in OpRecord /\ task \in TaskRecord /\ faults \in 0..MaxFaults
    BY DEF ImportTypes
  <1>1. CASE Capture
    <2>1. task' \in TaskRecord /\ task'.step = "adopt" /\ task.step = "idle"
      BY <1>0, <1>1, TaskOf, IdleType DEF Capture, Steps
    <2>2. archive' = {"reservation"} /\ op.state = "none" /\ UNCHANGED <<op, plan, prow, lock, ledger, faults, restarts>>
      BY <1>1 DEF Capture
    <2>3. ImportTypes'
      BY <2>1, <2>2 DEF ImportTypes
    <2> QED
      BY <2>1, <2>2, <2>3 DEF CourseInv, OpFits, TaskFits, LockFits, PlanFits, RowsFit, SourceFits, Ending, NotPrepared
  <1>2. CASE Adopt
    <2>1. /\ task' \in TaskRecord /\ task'.step = "idle" /\ task.step = "adopt"
          /\ UNCHANGED <<plan, prow, lock, ledger, restarts>>
      BY <1>2, IdleType DEF Adopt
    <2>2. CASE Becomes("uploaded", "none") /\ UNCHANGED <<archive, faults>>
      <3>1. op' \in OpRecord /\ op'.state = "uploaded" /\ op'.phase = "none" /\ op'.result = op.result
        BY <1>0, <2>2, OpOf DEF OpStates, Phases
      <3> QED
        BY <2>1, <2>2, <3>1 DEF ImportTypes, CourseInv, OpFits, TaskFits, LockFits, PlanFits, RowsFit, SourceFits, Ending, NotPrepared
    <2>3. CASE Fault /\ archive' = {} /\ UNCHANGED op
      BY <1>0, <2>1, <2>3, FaultType DEF ImportTypes, CourseInv, OpFits, TaskFits, LockFits, PlanFits, RowsFit, SourceFits, Ending, NotPrepared
    <2> QED
      BY <1>2, <2>2, <2>3 DEF Adopt
  <1>3. CASE BeginValidation
    <2>1. /\ task' \in TaskRecord /\ task'.step = "stage" /\ task.step = "idle"
          /\ op.state \in {"uploaded", "validating"} /\ archive' = archive \ {"staging"}
          /\ UNCHANGED <<plan, prow, lock, ledger, faults, restarts>>
      BY <1>0, <1>3, TaskOf, IdleType DEF BeginValidation, Steps
    <2>2. op' \in OpRecord /\ op'.state = "validating" /\ op'.phase = "none" /\ op'.result = op.result
      BY <1>0, <1>3, OpOf DEF BeginValidation, OpStates, Phases
    <2> QED
      BY <2>1, <2>2 DEF ImportTypes, CourseInv, OpFits, TaskFits, LockFits, PlanFits, RowsFit, SourceFits, Ending, NotPrepared
  <1>4. CASE Stage
    <2>1. task.step = "stage" /\ UNCHANGED <<op, plan, prow, lock, ledger, restarts>> /\ "reservation" \in archive
      BY <1>4 DEF Stage, CourseInv, TaskFits, SourceFits
    <2>2. CASE archive' = archive \cup {"staging"} /\ Then("validated") /\ UNCHANGED faults
      <3>1. task' \in TaskRecord /\ task'.step = "validated"
        BY <1>0, <2>2, TaskOf DEF Steps
      <3>2. archive' = {"reservation", "staging"}
        BY <2>1, <2>2 DEF ImportTypes
      <3> QED
        BY <2>1, <2>2, <3>1, <3>2 DEF ImportTypes, CourseInv, OpFits, TaskFits, LockFits, PlanFits, RowsFit, SourceFits, SourceThere, Ending, NotPrepared
    <2>3. CASE Fault /\ Then("invalid") /\ UNCHANGED archive
      <3>1. task' \in TaskRecord /\ task'.step = "invalid" /\ faults' \in 0..MaxFaults
        BY <1>0, <2>3, TaskOf, FaultType DEF Steps
      <3> QED
        BY <2>1, <2>3, <3>1 DEF ImportTypes, CourseInv, OpFits, TaskFits, LockFits, PlanFits, RowsFit, SourceFits, SourceThere, Ending, NotPrepared
    <2> QED
      BY <1>4, <2>1, <2>2, <2>3 DEF Stage
  <1>5. CASE FinishValidation
    <2>1. /\ task' \in TaskRecord /\ task'.step = "idle" /\ task.step = "validated"
          /\ UNCHANGED <<archive, plan, prow, lock, ledger, faults, restarts>>
      BY <1>5, IdleType DEF FinishValidation
    <2>2. op' \in OpRecord /\ op'.state = "plan_ready" /\ op'.phase = "none" /\ op'.result = op.result
      BY <1>0, <1>5, OpOf DEF FinishValidation, OpStates, Phases
    <2> QED
      BY <2>1, <2>2 DEF ImportTypes, CourseInv, OpFits, TaskFits, LockFits, PlanFits, RowsFit, SourceFits, SourceThere, Ending, NotPrepared
  <1>6. CASE FailValidation
    <2>1. /\ task' \in TaskRecord /\ task'.step = "idle"
          /\ task.step = "invalid" \/ (op.state = "cleanup_required" /\ op.phase = "none" /\ task.step = "idle")
          /\ UNCHANGED <<plan, prow, lock, ledger, restarts>>
      BY <1>6, IdleType DEF FailValidation
    <2>2. op.phase = "none" /\ op.result = FALSE
      BY <2>1 DEF CourseInv, OpFits, TaskFits
    <2>3. /\ op' \in OpRecord /\ op'.state \in {"failed", "cleanup_required"} /\ op'.phase = "none"
          /\ op'.result = op.result
      <3>1. Becomes("failed", "none") \/ Becomes("cleanup_required", "none")
        BY <1>6 DEF FailValidation
      <3> QED
        BY <1>0, <3>1, OpOf DEF OpStates, Phases
    <2>4. archive' \subseteq {"reservation", "staging"} /\ faults' \in 0..MaxFaults
      BY <1>0, <1>6, FaultType DEF FailValidation, ImportTypes
    <2> QED
      BY <2>1, <2>2, <2>3, <2>4 DEF ImportTypes, CourseInv, OpFits, TaskFits, LockFits, PlanFits, RowsFit, SourceFits, SourceThere, Ending, NotPrepared
  <1> QED
    BY <1>1, <1>2, <1>3, <1>4, <1>5, <1>6

-----------------------------------------------------------------------------
(***************************************************************************)
(* Planning and the commit up to the exchange of the graph.                *)
(***************************************************************************)
LEMMA SelectedType ==
  ASSUME MediaTypeOK, NEW s
  PROVE  Selected(s) \in Inventories /\ Documents(s) \in SUBSET Upload
  <1>1. Documents(s) \in SUBSET Upload
    BY DEF Documents
  <1>2. ASSUME NEW m \in Media PROVE Left(Documents(s), m) \in Int
    <2>1. {u \in Documents(s) : doc[u] = m} \in SUBSET Upload /\ ContentOf(m) \in Content
      BY <1>1, UploadType DEF Media
    <2>2. row[ContentOf(m)].refs \in Nat
      BY <2>1 DEF MediaTypeOK, Rows, NoRow
    <2>3. Cardinality({u \in Documents(s) : doc[u] = m}) \in Nat
      BY <2>1, Constants, FS_Subset, FS_CardinalityType
    <2> QED
      BY <2>2, <2>3 DEF Left, ReferencesOf
  <1> QED
    BY <1>1, <1>2 DEF Selected, Inventories

LEMMA PlanningCourse ==
  ASSUME MediaTypeOK, ImportTypes, CourseInv,
         (\E t \in Targets : MakePlan(t)) \/ BeginCommit \/ ResumeCommit
  PROVE  ImportTypes' /\ CourseInv'
  <1>0. op \in OpRecord /\ task \in TaskRecord /\ plan \in PlanRecord
    BY DEF ImportTypes
  <1>1. ASSUME NEW t \in Targets, MakePlan(t) PROVE ImportTypes' /\ CourseInv'
    <2>1. [i \in Item |-> row[ContentOf(i)]] \in [Item -> Rows \cup {NoRow}]
      BY Constants, UploadType DEF MediaTypeOK
    <2>2. NoInventory \in Inventories
      BY DEF NoInventory, Inventories
    <2>3. plan' \in PlanRecord /\ plan'.target = t /\ plan'.ready = TRUE
      BY <1>1, <2>1, <2>2 DEF MakePlan, PlanRecord
    <2>4. UNCHANGED <<op, archive, prow, lock, ledger, task, faults, restarts>> /\ op.state = "plan_ready"
      BY <1>1 DEF MakePlan
    <2> QED
      BY <2>3, <2>4 DEF ImportTypes, CourseInv, OpFits, TaskFits, LockFits, PlanFits, RowsFit, SourceFits, SourceThere, Ending, NotPrepared
  <1>2. CASE BeginCommit
    <2>1. /\ op' \in OpRecord /\ op'.state = "committing" /\ op'.phase = "preparing" /\ op'.result = op.result
          /\ op.state = "plan_ready" /\ plan.ready = TRUE
      BY <1>0, <1>2, OpOf DEF BeginCommit, OpStates, Phases, PlanRecord
    <2>2. task' \in TaskRecord /\ task'.step = "load" /\ task.step = "idle"
      BY <1>0, <1>2, TaskOf, IdleType DEF BeginCommit, Steps
    <2>3. plan' \in PlanRecord /\ plan'.target = plan.target /\ plan'.ready = plan.ready
      BY <1>0, <1>2, SelectedType DEF BeginCommit, PlanRecord, Snapshot
    <2>4. /\ UNCHANGED <<archive, prow, ledger, faults, restarts>>
          /\ lock' \in {"draining", "exclusive"}
      BY <1>2 DEF BeginCommit
    <2>5. op.phase = "none" /\ op.result = FALSE
      BY <2>1 DEF CourseInv, OpFits
    <2> QED
      BY <2>1, <2>2, <2>3, <2>4, <2>5 DEF ImportTypes, CourseInv, OpFits, TaskFits, LockFits, PlanFits, RowsFit, SourceFits, SourceThere, Ending, NotPrepared
  <1>3. CASE ResumeCommit
    <2>1. /\ task' \in TaskRecord /\ task'.step = "load" /\ op.state = "committing"
          /\ UNCHANGED <<op, archive, plan, prow, lock, ledger, faults, restarts>>
      BY <1>0, <1>3, TaskOf DEF ResumeCommit, Steps
    <2> QED
      BY <2>1 DEF ImportTypes, CourseInv, OpFits, TaskFits, LockFits, PlanFits, RowsFit, SourceFits, SourceThere, Ending, NotPrepared
  <1> QED
    BY <1>1, <1>2, <1>3

\* a failure before the exchange leads to the rollback, one after it to a cleanup
LEMMA FailCourse ==
  ASSUME ImportTypes, CourseInv, Fail, faults' \in 0..MaxFaults,
         op.state = "committing" \/ task.step = "unlink",
         UNCHANGED <<archive, plan, prow, lock, ledger, restarts>>
  PROVE  ImportTypes' /\ CourseInv'
  <1>1. /\ op' \in OpRecord /\ op'.state = "cleanup_required" /\ op'.phase = "cleanup_required"
        /\ op'.result = op.result /\ task' \in TaskRecord
        /\ op.result = TRUE => task'.step = "idle"
        /\ op.result = FALSE => task'.step = "discard"
    BY FailOf DEF ImportTypes
  <1>2. op.phase \in {"preparing", "graph_committed", "cleanup_required"} /\ op.result \in BOOLEAN
    BY DEF ImportTypes, OpRecord, CourseInv, OpFits, TaskFits, Phases
  <1>3. ImportTypes'
    BY <1>1 DEF ImportTypes
  <1>4. OpFits' /\ TaskFits' /\ LockFits' /\ PlanFits' /\ SourceFits'
    BY <1>1, <1>2 DEF CourseInv, OpFits, TaskFits, LockFits, PlanFits, SourceFits, SourceThere, Ending
  <1>5. RowsFit'
    BY <1>1, <1>2 DEF CourseInv, RowsFit, Ending, NotPrepared
  <1> QED
    BY <1>3, <1>4, <1>5 DEF CourseInv

LEMMA PreparingCourse ==
  ASSUME ImportTypes, CourseInv,
         LoadAndPin \/ Reload \/ \E i \in Item : BeginItem(i) \/ ItemWritten(i)
  PROVE  ImportTypes' /\ CourseInv'
  <1>0. /\ op \in OpRecord /\ task \in TaskRecord /\ faults \in 0..MaxFaults
        /\ prow \in [Item -> {"none", "reserved", "written", "committed", "discarded"}]
    BY DEF ImportTypes
  <1>1. CASE LoadAndPin
    <2>1. op.state = "committing" /\ UNCHANGED <<archive, plan, lock, ledger, faults, restarts>>
      BY <1>1 DEF LoadAndPin, CourseInv, TaskFits
    <2>2. CASE SourceThere /\ PlanHolds
      <3>1. task' \in TaskRecord /\ task'.step = "write"
        <4>1. task' = Task("write", Item, TRUE)
          BY <1>1, <2>2 DEF LoadAndPin
        <4> QED
          BY <4>1, Constants DEF Task, TaskRecord, Steps, Media
      <3>2. /\ UNCHANGED op /\ op.phase = "preparing"
            /\ prow' = [i \in Item |-> IF prow[i] = "none" THEN "reserved" ELSE prow[i]]
        BY <1>1, <2>1, <2>2 DEF LoadAndPin, CourseInv, OpFits
      <3>3. /\ prow' \in [Item -> {"none", "reserved", "written", "committed", "discarded"}]
            /\ \A i \in Item : prow'[i] \in {"reserved", "written"}
        BY <1>0, <3>2 DEF CourseInv, RowsFit
      <3> QED
        BY <2>1, <3>1, <3>2, <3>3 DEF ImportTypes, CourseInv, OpFits, TaskFits, LockFits, PlanFits, RowsFit, SourceFits, SourceThere, Ending, NotPrepared
    <2>3. CASE ~(SourceThere /\ PlanHolds)
      <3>1. Fail /\ UNCHANGED prow
        BY <1>1, <2>3 DEF LoadAndPin
      <3> QED
        BY <1>0, <2>1, <3>1, FailCourse
    <2> QED
      BY <2>2, <2>3
  <1>2. CASE Reload
    <2>1. task.step = "write" /\ op.state = "committing" /\ UNCHANGED <<archive, plan, prow, lock, ledger, faults, restarts>>
      BY <1>2 DEF Reload, CourseInv, TaskFits
    <2>2. CASE Then("commit") /\ UNCHANGED op
      <3>1. task' \in TaskRecord /\ task'.step = "commit"
        BY <1>0, <2>2, TaskOf DEF Steps
      <3> QED
        BY <2>1, <2>2, <3>1 DEF ImportTypes, CourseInv, OpFits, TaskFits, LockFits, PlanFits, RowsFit, SourceFits, SourceThere, Ending, NotPrepared
    <2>3. CASE Fail
      BY <1>0, <2>1, <2>3, FailCourse
    <2> QED
      BY <1>2, <2>2, <2>3 DEF Reload
  <1>3. ASSUME NEW i \in Item, BeginItem(i) PROVE ImportTypes' /\ CourseInv'
    <2>1. op.state = "committing" /\ UNCHANGED <<archive, plan, prow, lock, ledger, faults, restarts>>
      BY <1>3 DEF BeginItem, CourseInv, TaskFits
    <2>2. CASE UNCHANGED <<op, task>>
      BY <2>1, <2>2 DEF ImportTypes, CourseInv, OpFits, TaskFits, LockFits, PlanFits, RowsFit, SourceFits, SourceThere, Ending, NotPrepared
    <2>3. CASE Fail
      BY <1>0, <2>1, <2>3, FailCourse
    <2> QED
      BY <1>3, <2>2, <2>3 DEF BeginItem
  <1>4. ASSUME NEW i \in Item, ItemWritten(i) PROVE ImportTypes' /\ CourseInv'
    <2>1. task.step = "write" /\ op.state = "committing" /\ UNCHANGED <<archive, plan, lock, ledger, restarts>>
      BY <1>4 DEF ItemWritten, CourseInv, TaskFits
    <2>2. CASE prow' = [prow EXCEPT ![i] = "written"] /\ task' = [task EXCEPT !.todo = @ \ {i}] /\ UNCHANGED <<op, faults>>
      <3>1. task' \in TaskRecord /\ task'.step = task.step
        BY <1>0, <2>2, Shrinks
      <3>2. /\ prow' \in [Item -> {"none", "reserved", "written", "committed", "discarded"}]
            /\ \A j \in Item : prow'[j] \in {"reserved", "written"}
        BY <1>0, <2>1, <2>2 DEF CourseInv, RowsFit
      <3> QED
        BY <2>1, <2>2, <3>1, <3>2 DEF ImportTypes, CourseInv, OpFits, TaskFits, LockFits, PlanFits, RowsFit, SourceFits, SourceThere, Ending, NotPrepared
    <2>3. CASE Fail /\ UNCHANGED prow /\ (Fault \/ UNCHANGED faults)
      BY <1>0, <2>1, <2>3, FaultType, FailCourse
    <2> QED
      BY <1>4, <2>2, <2>3 DEF ItemWritten
  <1> QED
    BY <1>1, <1>2, <1>3, <1>4

-----------------------------------------------------------------------------
(***************************************************************************)
(* Cleanup, rollback and their common end.                                 *)
(***************************************************************************)
LEMMA CleanupCourse ==
  ASSUME ImportTypes, CourseInv,
         FinishCommitted \/ VerifyCleanup \/ \E m \in Media : UnlinkEntry(m)
  PROVE  ImportTypes' /\ CourseInv'
  <1>0. /\ op \in OpRecord /\ task \in TaskRecord /\ faults \in 0..MaxFaults
        /\ ledger \in [Media -> {"none", "pending", "unlinked", "preserved", "blocked"}]
    BY DEF ImportTypes
  <1>1. CASE FinishCommitted
    <2>1. UNCHANGED <<op, archive, plan, prow, lock, ledger, faults, restarts>> /\ op.result = TRUE /\ op.phase # "complete"
      BY <1>0, <1>1 DEF FinishCommitted, Unfinished, OpRecord
    <2>2. task' \in TaskRecord /\ task'.step = "unlink"
      <3>1. task' = Task("unlink", {m \in Media : ledger[m] \in {"pending", "blocked"}}, TRUE)
        BY <1>1 DEF FinishCommitted
      <3> QED
        BY <3>1 DEF Task, TaskRecord, Steps
    <2> QED
      BY <2>1, <2>2 DEF ImportTypes, CourseInv, OpFits, TaskFits, LockFits, PlanFits, RowsFit, SourceFits, SourceThere, Ending, NotPrepared
  <1>2. CASE VerifyCleanup
    <2>1. task.step = "unlink" /\ UNCHANGED <<archive, plan, prow, lock, ledger, faults, restarts>>
      BY <1>2 DEF VerifyCleanup
    <2>2. CASE Then("unstage") /\ UNCHANGED op
      <3>1. task' \in TaskRecord /\ task'.step = "unstage"
        BY <1>0, <2>2, TaskOf DEF Steps
      <3>2. op.result = TRUE /\ op.phase \in {"graph_committed", "cleanup_required"} /\ op.state \in {"imported", "cleanup_required"}
        BY <2>1 DEF CourseInv, TaskFits, OpFits
      <3> QED
        BY <2>1, <2>2, <3>1, <3>2 DEF ImportTypes, CourseInv, OpFits, TaskFits, LockFits, PlanFits, RowsFit, SourceFits, SourceThere, Ending, NotPrepared
    <2>3. CASE Fail
      BY <1>0, <2>1, <2>3, FailCourse
    <2> QED
      BY <1>2, <2>2, <2>3 DEF VerifyCleanup
  <1>3. ASSUME NEW m \in Media, UnlinkEntry(m) PROVE ImportTypes' /\ CourseInv'
    <2>1. task.step = "unlink" /\ UNCHANGED <<op, archive, plan, prow, lock, restarts>>
      BY <1>3 DEF UnlinkEntry
    <2>2. task' \in TaskRecord /\ task'.step = task.step
      BY <1>0, <1>3, Shrinks DEF UnlinkEntry
    <2>3. /\ ledger' \in [Media -> {"none", "pending", "unlinked", "preserved", "blocked"}]
          /\ faults' \in 0..MaxFaults
      BY <1>0, <1>3, FaultType DEF UnlinkEntry
    <2> QED
      BY <2>1, <2>2, <2>3 DEF ImportTypes, CourseInv, OpFits, TaskFits, LockFits, PlanFits, RowsFit, SourceFits, SourceThere, Ending, NotPrepared
  <1> QED
    BY <1>1, <1>2, <1>3

LEMMA RollbackCourse ==
  ASSUME ImportTypes, CourseInv,
         ResumeRollback \/ DiscardRows \/ DiscardDone \/ \E i \in Item : ItemDiscarded(i)
  PROVE  ImportTypes' /\ CourseInv'
  <1>0. /\ op \in OpRecord /\ task \in TaskRecord /\ faults \in 0..MaxFaults
        /\ prow \in [Item -> {"none", "reserved", "written", "committed", "discarded"}]
    BY DEF ImportTypes
  <1>1. CASE ResumeRollback
    <2>1. /\ UNCHANGED <<op, archive, plan, prow, lock, ledger, faults, restarts>>
          /\ op.state = "cleanup_required" /\ op.phase = "cleanup_required" /\ op.result = FALSE
      BY <1>0, <1>1 DEF ResumeRollback, OpRecord
    <2>2. task' \in TaskRecord /\ task'.step = "discard"
      <3>1. task' = Task("discard", {}, FALSE)
        BY <1>1 DEF ResumeRollback
      <3> QED
        BY <3>1 DEF Task, TaskRecord, Steps
    <2> QED
      BY <2>1, <2>2 DEF ImportTypes, CourseInv, OpFits, TaskFits, LockFits, PlanFits, RowsFit, SourceFits, SourceThere, Ending, NotPrepared
  <1>2. CASE DiscardRows
    <2>1. /\ task.step = "discard" /\ op.phase = "cleanup_required" /\ op.result = FALSE /\ op.state = "cleanup_required"
          /\ UNCHANGED <<op, archive, plan, prow, lock, ledger, faults, restarts>>
      BY <1>2 DEF DiscardRows, CourseInv, TaskFits, OpFits
    <2>2. CASE task' = Idle
      BY <2>1, <2>2, IdleType DEF ImportTypes, CourseInv, OpFits, TaskFits, LockFits, PlanFits, RowsFit, SourceFits, SourceThere, Ending, NotPrepared
    <2>3. CASE task' = Task("discarding", {i \in PreparedRows : prow[i] # "discarded"}, TRUE)
      <3>1. {i \in PreparedRows : prow[i] # "discarded"} \in SUBSET Media
        BY Constants DEF PreparedRows, Media
      <3>2. /\ task' \in TaskRecord /\ task'.step = "discarding"
            /\ task'.todo = {i \in PreparedRows : prow[i] # "discarded"}
        BY <2>3, <3>1 DEF Task, TaskRecord, Steps
      <3>3. \A i \in Item \ task'.todo : prow[i] \in {"none", "discarded"}
        BY <3>2 DEF PreparedRows
      <3> QED
        BY <2>1, <3>2, <3>3 DEF ImportTypes, CourseInv, OpFits, TaskFits, LockFits, PlanFits, RowsFit, SourceFits, SourceThere, Ending, NotPrepared
    <2> QED
      BY <1>2, <2>2, <2>3 DEF DiscardRows
  <1>3. CASE DiscardDone
    <2>1. /\ task.step = "discarding" /\ task.todo = {} /\ task' \in TaskRecord /\ task'.step = "unstage"
          /\ UNCHANGED <<op, archive, plan, prow, lock, ledger, faults, restarts>>
      BY <1>0, <1>3, TaskOf DEF DiscardDone, Steps
    <2>2. /\ op.phase = "cleanup_required" /\ op.result = FALSE /\ op.state = "cleanup_required"
          /\ \A i \in Item : prow[i] \in {"none", "discarded"}
      BY <2>1 DEF CourseInv, TaskFits, OpFits, RowsFit
    <2> QED
      BY <2>1, <2>2 DEF ImportTypes, CourseInv, OpFits, TaskFits, LockFits, PlanFits, RowsFit, SourceFits, SourceThere, Ending, NotPrepared
  <1>4. ASSUME NEW i \in Item, ItemDiscarded(i) PROVE ImportTypes' /\ CourseInv'
    <2>1. /\ task.step = "discarding" /\ UNCHANGED <<op, archive, plan, lock, ledger, restarts>>
          /\ op.phase = "cleanup_required" /\ op.result = FALSE /\ op.state = "cleanup_required"
      BY <1>4 DEF ItemDiscarded, CourseInv, TaskFits, OpFits
    <2>2. CASE prow' = [prow EXCEPT ![i] = "discarded"] /\ task' = [task EXCEPT !.todo = @ \ {i}] /\ UNCHANGED faults
      <3>1. task' \in TaskRecord /\ task'.step = task.step /\ task'.todo = task.todo \ {i}
        BY <1>0, <2>2, Shrinks
      <3>2. /\ prow' \in [Item -> {"none", "reserved", "written", "committed", "discarded"}]
            /\ \A j \in Item : prow'[j] = IF j = i THEN "discarded" ELSE prow[j]
        BY <1>0, <2>2
      <3> QED
        BY <2>1, <2>2, <3>1, <3>2 DEF ImportTypes, CourseInv, OpFits, TaskFits, LockFits, PlanFits, RowsFit, SourceFits, SourceThere, Ending, NotPrepared
    <2>3. CASE Fault /\ task' = Idle /\ UNCHANGED prow
      BY <1>0, <2>1, <2>3, FaultType, IdleType DEF ImportTypes, CourseInv, OpFits, TaskFits, LockFits, PlanFits, RowsFit, SourceFits, SourceThere, Ending, NotPrepared
    <2> QED
      BY <1>4, <2>2, <2>3 DEF ItemDiscarded
  <1> QED
    BY <1>1, <1>2, <1>3, <1>4

LEMMA EndingCourse ==
  ASSUME ImportTypes, CourseInv, RemoveSource \/ RemoveSourceFails \/ Settle
  PROVE  ImportTypes' /\ CourseInv'
  <1>0. op \in OpRecord /\ task \in TaskRecord /\ faults \in 0..MaxFaults
    BY DEF ImportTypes
  <1>1. /\ Ending /\ op.phase \in {"graph_committed", "cleanup_required"}
        /\ op.state \in {"imported", "cleanup_required"} /\ op.result \in BOOLEAN
    BY <1>0 DEF RemoveSource, RemoveSourceFails, Settle, Ending, CourseInv, TaskFits, OpFits, OpRecord
  <1>2. CASE RemoveSource
    <2>1. task' \in TaskRecord /\ task'.step \in {"unreserve", "settle"}
      <3>1. Then("unreserve") \/ Then("settle")
        BY <1>2 DEF RemoveSource
      <3> QED
        BY <1>0, <3>1, TaskOf DEF Steps
    <2>2. UNCHANGED <<op, plan, prow, lock, ledger, faults, restarts>> /\ archive' \subseteq archive
      BY <1>2 DEF RemoveSource
    <2>3. ImportTypes'
      BY <2>1, <2>2 DEF ImportTypes
    <2> QED
      BY <1>1, <2>1, <2>2, <2>3 DEF CourseInv, OpFits, TaskFits, LockFits, PlanFits, RowsFit, SourceFits, SourceThere, Ending, NotPrepared
  <1>3. CASE RemoveSourceFails
    <2>1. /\ op' \in OpRecord /\ op'.state = "cleanup_required" /\ op'.phase = "cleanup_required"
          /\ op'.result = op.result /\ task' \in TaskRecord /\ task'.step = "idle" /\ faults' \in 0..MaxFaults
      BY <1>0, <1>3, OpOf, IdleType, FaultType DEF RemoveSourceFails, OpStates, Phases
    <2>2. UNCHANGED <<archive, plan, prow, lock, ledger, restarts>>
      BY <1>3 DEF RemoveSourceFails
    <2> QED
      BY <1>1, <2>1, <2>2 DEF ImportTypes, CourseInv, OpFits, TaskFits, LockFits, PlanFits, RowsFit, SourceFits, SourceThere, Ending, NotPrepared
  <1>4. CASE Settle
    <2>1. /\ task' \in TaskRecord /\ task'.step = "idle" /\ lock' = "none"
          /\ UNCHANGED <<archive, plan, prow, ledger, faults, restarts>>
      BY <1>4, IdleType DEF Settle
    <2>2. CASE op.result = TRUE
      <3>1. op' \in OpRecord /\ op'.state = "imported" /\ op'.phase = "complete" /\ op'.result = op.result
        BY <1>0, <1>4, <2>2, OpOf DEF Settle, OpStates, Phases
      <3> QED
        BY <1>1, <2>1, <2>2, <3>1 DEF ImportTypes, CourseInv, OpFits, TaskFits, LockFits, PlanFits, RowsFit, SourceFits, SourceThere, Ending, NotPrepared
    <2>3. CASE op.result = FALSE
      <3>1. op' \in OpRecord /\ op'.state = "rolled_back" /\ op'.phase = "rolled_back" /\ op'.result = op.result
        BY <1>0, <1>4, <2>3, OpOf DEF Settle, OpStates, Phases
      <3> QED
        BY <1>1, <2>1, <2>3, <3>1 DEF ImportTypes, CourseInv, OpFits, TaskFits, LockFits, PlanFits, RowsFit, SourceFits, SourceThere, Ending, NotPrepared
    <2> QED
      BY <1>1, <2>2, <2>3
  <1> QED
    BY <1>2, <1>3, <1>4

LEMMA RestartCourse ==
  ASSUME ImportTypes, CourseInv, Restart
  PROVE  ImportTypes' /\ CourseInv'
  <1>1. /\ task' \in TaskRecord /\ task'.step = "idle" /\ archive' \subseteq archive
        /\ UNCHANGED <<op, plan, prow, lock, ledger, faults>>
    BY IdleType DEF Restart
  <1>2. restarts' \in 0..MaxRestart
    BY Constants DEF Restart, ImportTypes
  <1>3. op.state \in {"uploaded", "validating", "plan_ready", "committing"} => archive' = archive
    BY DEF Restart, InUse, CourseInv, OpFits
  <1>4. ImportTypes'
    BY <1>1, <1>2 DEF ImportTypes
  <1> QED
    BY <1>1, <1>3, <1>4 DEF CourseInv, OpFits, TaskFits, LockFits, PlanFits, RowsFit, SourceFits, SourceThere, Ending, NotPrepared

-----------------------------------------------------------------------------
(***************************************************************************)
(* The graph: rows, documents and references.                              *)
(***************************************************************************)
Users(m) == {u \in Upload : doc[u] = m}

\* a row bears the id of a media of its content
RowsAreNamed ==
  \A c \in Content : Indexed(c) => row[c].id \in Media /\ ContentOf(row[c].id) = c
\* a document references a media of what its producer made
DocumentsFit == \A u \in Upload : doc[u] # None => ContentOf(doc[u]) = ContentOf(u)
\* any other producer commits at most once, at its end
CommittedOnce == \A u \in Upload \ Item : doc[u] # None => up[u].at = "ended"
\* the media of the archive have documents exactly from the exchange on
GraphFits == \A i \in Item : (doc[i] # None) = op.result

GraphInv == MediaTypeOK /\ RowsAreNamed /\ DocumentsFit /\ CommittedOnce /\ ReferencesCounted /\ GraphFits

LEMMA RowType ==
  ASSUME MediaTypeOK, NEW c \in Content
  PROVE  /\ Indexed(c) => row[c] \in Rows /\ row[c].id \in Media /\ row[c].id # None /\ row[c].refs \in Nat
         /\ ~Indexed(c) => row[c] = NoRow /\ row[c].id = None /\ row[c].refs = 0
  BY UploadsAreWellFormed DEF MediaTypeOK, Indexed, Rows, NoRow, Media

LEMMA SetsAreFinite ==
  ASSUME NEW S \in SUBSET Upload
  PROVE  IsFiniteSet(S) /\ Cardinality(S) \in Nat /\ (Cardinality(S) = 0 <=> S = {})
  <1>1. IsFiniteSet(S) /\ Cardinality(S) \in Nat
    BY Constants, FS_Subset, FS_CardinalityType
  <1> QED
    BY <1>1, FS_EmptySet

\* a document is of the one row there is for its media
LEMMA RowOfDocument ==
  ASSUME GraphInv, NEW u \in Upload, doc[u] # None
  PROVE  LET c == ContentOf(u) IN
         doc[u] \in Media /\ c \in Content /\ Indexed(c) /\ row[c].id = doc[u]
  <1>1. doc[u] \in Media /\ HasRow(doc[u]) /\ ContentOf(doc[u]) = ContentOf(u)
    BY DEF GraphInv, MediaTypeOK, ReferencesCounted, DocumentsFit
  <1>2. ContentOf(u) \in Content
    BY UploadType
  <1> QED
    BY <1>1, <1>2, RowType DEF GraphInv, HasRow

LEMMA CommitKeepsGraph ==
  ASSUME GraphInv, NEW u \in Upload \ Item, CommitPrepared(u), UNCHANGED op
  PROVE  GraphInv' /\ \A c \in Content : Indexed(c) => row'[c].id = row[c].id /\ Indexed(c)'
  <1> DEFINE c == ContentOf(u)
  <1> PICK new : new = Referenced(u)
    OBVIOUS
  <1>1. c \in Content /\ u # None /\ u \in Media /\ u \in Upload
    BY UploadType DEF Media
  <1>2. doc[u] = None
    BY DEF CommitPrepared, GraphInv, CommittedOnce
  <1>3. /\ row' = [row EXCEPT ![c] = new] /\ doc' = [doc EXCEPT ![u] = new.id]
        /\ up' = [up EXCEPT ![u].at = "ended"] /\ held' = Unlocked(u)
        /\ UNCHANGED <<file, closed>>
    BY DEF CommitPrepared, Enter
  <1>4. /\ new \in Rows /\ new.refs > 0 /\ ContentOf(new.id) = c
        /\ Indexed(c) => new.id = row[c].id /\ new.refs = row[c].refs + 1
        /\ ~Indexed(c) => new.id = u /\ new.refs = 1
    BY <1>1, RowType DEF Referenced, GraphInv, RowsAreNamed, Rows
  <1>5. new # NoRow /\ new.id \in Media /\ new.id # None /\ new.refs \in Nat
    BY <1>4, UploadsAreWellFormed DEF Rows, NoRow, Media
  <1>6. MediaTypeOK'
    BY <1>1, <1>3, <1>4, <1>5 DEF GraphInv, MediaTypeOK, Unlocked, Stages
  <1>7. /\ row'[c] = new /\ doc'[u] = new.id /\ Indexed(c)'
        /\ \A d \in Content \ {c} : row'[d] = row[d] /\ (Indexed(d)' <=> Indexed(d))
        /\ \A v \in Upload \ {u} : doc'[v] = doc[v]
    BY <1>1, <1>3, <1>5 DEF GraphInv, MediaTypeOK, Indexed
  <1>8. RowsAreNamed' /\ \A d \in Content : Indexed(d) => row'[d].id = row[d].id /\ Indexed(d)'
    BY <1>4, <1>5, <1>7 DEF GraphInv, RowsAreNamed
  <1>9. CommittedOnce' /\ GraphFits' /\ DocumentsFit'
    BY <1>1, <1>3, <1>4, <1>7, Constants DEF GraphInv, MediaTypeOK, CommittedOnce, GraphFits, DocumentsFit
  <1>10. ASSUME NEW v \in Upload, doc'[v] # None PROVE HasRow(doc[v])'
    <2>1. CASE v = u
      BY <1>4, <1>7, <2>1 DEF HasRow
    <2>2. CASE v # u /\ ContentOf(v) = c
      <3>1. doc'[v] = doc[v] /\ doc[v] # None
        BY <1>7, <1>10, <2>2
      <3>2. Indexed(c) /\ row[c].id = doc[v] /\ ContentOf(doc[v]) = c
        BY <2>2, <3>1, RowOfDocument DEF GraphInv, DocumentsFit
      <3> QED
        BY <1>4, <1>7, <3>1, <3>2 DEF HasRow
    <2>3. CASE v # u /\ ContentOf(v) # c
      <3>1. doc'[v] = doc[v] /\ doc[v] # None
        BY <1>7, <1>10, <2>3
      <3>2. row[ContentOf(v)].id = doc[v] /\ ContentOf(doc[v]) = ContentOf(v) /\ ContentOf(v) \in Content
        BY <3>1, RowOfDocument DEF GraphInv, DocumentsFit
      <3> QED
        BY <1>7, <2>3, <3>1, <3>2 DEF HasRow
    <2> QED
      BY <2>1, <2>2, <2>3
  <1>11. ASSUME NEW d \in Content, Indexed(d)'
         PROVE  row'[d].refs = Cardinality(Users(row[d].id)') /\ row'[d].refs > 0
    <2>1. CASE d # c
      <3>1. Indexed(d) /\ row'[d] = row[d]
        BY <1>7, <1>11, <2>1
      <3>2. row[d].id # new.id /\ row[d].id # None
        BY <1>4, <2>1, <3>1, RowType DEF GraphInv, RowsAreNamed
      <3>3. Users(row[d].id)' = Users(row[d].id)
        BY <1>2, <1>7, <3>1, <3>2 DEF Users
      <3> QED
        BY <3>1, <3>3 DEF GraphInv, ReferencesCounted, Users
    <2>2. CASE d = c
      <3>1. Users(new.id)' = Users(new.id) \cup {u} /\ u \notin Users(new.id) /\ Users(new.id) \in SUBSET Upload
        BY <1>1, <1>2, <1>5, <1>7 DEF Users
      <3>2. Cardinality(Users(new.id)') = Cardinality(Users(new.id)) + 1 /\ Cardinality(Users(new.id)) \in Nat
        BY <3>1, SetsAreFinite, FS_AddElement
      <3>3. CASE Indexed(c)
        <4>1. row[c].refs = Cardinality(Users(row[c].id))
          BY <1>1, <3>3 DEF GraphInv, ReferencesCounted, Users
        <4> QED
          BY <1>4, <1>7, <2>2, <3>2, <3>3, <4>1
      <3>4. CASE ~Indexed(c)
        <4>1. ASSUME NEW v \in Upload, doc[v] = u PROVE FALSE
          <5>1. Indexed(ContentOf(v)) /\ ContentOf(v) = c
            BY <1>1, <4>1, RowOfDocument DEF GraphInv, DocumentsFit
          <5> QED
            BY <3>4, <5>1
        <4>2. Users(new.id) = {}
          BY <1>4, <3>4, <4>1 DEF Users
        <4>3. Cardinality(Users(new.id)) = 0
          BY <4>2, FS_EmptySet
        <4> QED
          BY <1>4, <1>7, <2>2, <3>2, <3>4, <4>3
      <3> QED
        BY <3>3, <3>4
    <2> QED
      BY <2>1, <2>2
  <1>12. ReferencesCounted'
    BY <1>10, <1>11 DEF ReferencesCounted, Users
  <1> QED
    BY <1>6, <1>8, <1>9, <1>12 DEF GraphInv

-----------------------------------------------------------------------------
(***************************************************************************)
(* The exchange of the graph.                                              *)
(***************************************************************************)
MayExchange == GraphInv /\ ImportTypes /\ CourseInv /\ task.step = "commit" /\ MayCommitGraph
NewDoc(u) == IF u \in plan.pinned.docs THEN None ELSE IF u \in Item THEN MediaIdOf(u) ELSE doc[u]
NewUsers(m) == {u \in Upload : NewDoc(u) = m}

LEMMA PinnedDocs ==
  ASSUME MayExchange
  PROVE  LET D == plan.pinned.docs IN
         /\ plan.pinned = Selected(plan.target) /\ D = Documents(plan.target) /\ D \in SUBSET Upload
         /\ \A u \in D : u \in Upload \ Item /\ doc[u] # None
         /\ op.result = FALSE /\ \A i \in Item : doc[i] = None
  <1>1. plan.pinned = Selected(plan.target) /\ plan.pinned.docs = Documents(plan.target)
    BY DEF MayExchange, MayCommitGraph, Snapshot, Selected
  <1>2. plan.target \in Targets /\ op.result = FALSE
    BY DEF MayExchange, CourseInv, TaskFits, PlanFits, OpFits
  <1>3. \A i \in Item : doc[i] = None
    BY <1>2 DEF MayExchange, GraphInv, GraphFits
  <1> QED
    BY <1>1, <1>2, <1>3, Constants DEF Documents

LEMMA MediaOfItem ==
  ASSUME MayExchange, NEW i \in Item
  PROVE  LET c == ContentOf(i) IN
         /\ MediaIdOf(i) \in Media /\ MediaIdOf(i) # None /\ ContentOf(MediaIdOf(i)) = c
         /\ Indexed(c) => MediaIdOf(i) = row[c].id
         /\ ~Indexed(c) => MediaIdOf(i) = i
  <1> DEFINE c == ContentOf(i)
  <1>1. c \in Content /\ i \in Upload /\ i \in Media /\ i # None
    BY Constants, UploadType DEF Media
  <1>2. row[c].id = plan.kept[i].id /\ plan.kept[i] \in Rows \cup {NoRow}
    BY DEF MayExchange, MayCommitGraph, Matches, ImportTypes, PlanRecord
  <1>3. Kept(i) => plan.kept[i].id \in Media
    BY <1>2 DEF Kept, Rows
  <1>4. ~Kept(i) => plan.kept[i].id = None
    BY DEF Kept, NoRow
  <1>5. None \notin Media
    BY Constants DEF Media
  <1>6. Indexed(c) <=> Kept(i)
    BY <1>1, <1>2, <1>3, <1>4, <1>5, RowType DEF MayExchange, GraphInv
  <1> QED
    BY <1>1, <1>2, <1>5, <1>6, RowType DEF MayExchange, GraphInv, RowsAreNamed, MediaIdOf

\* the media that a content has after the exchange, if it has one
NewId(c) == IF Indexed(c) THEN row[c].id ELSE CHOOSE i \in Gained(c) : TRUE

LEMMA GainedOf ==
  ASSUME MayExchange, NEW c \in Content, Indexed(c) \/ Gained(c) # {}
  PROVE  /\ NewId(c) \in Media /\ ContentOf(NewId(c)) = c
         /\ Gained(c) \in SUBSET Upload /\ \A i \in Item : MediaIdOf(i) = NewId(c) <=> i \in Gained(c)
  <1>1. Gained(c) \in SUBSET Upload /\ \A i \in Gained(c) : i \in Item /\ ContentOf(i) = c
    BY Constants DEF Gained
  <1>2. CASE Indexed(c)
    <2>1. NewId(c) = row[c].id /\ NewId(c) \in Media /\ ContentOf(NewId(c)) = c
      BY <1>2 DEF NewId, MayExchange, GraphInv, RowsAreNamed
    <2> QED
      BY <1>1, <1>2, <2>1, MediaOfItem DEF Gained
  <1>3. CASE ~Indexed(c) /\ Gained(c) # {}
    <2>1. NewId(c) \in Gained(c)
      BY <1>3 DEF NewId
    <2>2. NewId(c) \in Item /\ ContentOf(NewId(c)) = c /\ NewId(c) \in Media
      BY <1>1, <2>1, Constants DEF Media
    <2>3. \A i \in Gained(c) : i = NewId(c)
      BY <1>1, <2>2, ImportIsWellFormed
    <2> QED
      BY <1>1, <1>3, <2>2, <2>3, MediaOfItem DEF Gained
  <1> QED
    BY <1>2, <1>3

LEMMA LostOf ==
  ASSUME MayExchange, NEW c \in Content
  PROVE  /\ Lost(c) \in SUBSET Upload
         /\ Indexed(c) => Lost(c) = {u \in plan.pinned.docs : doc[u] = row[c].id}
         /\ ~Indexed(c) => Lost(c) = {}
  <1>1. \A u \in plan.pinned.docs :
          /\ u \in Upload /\ doc[u] # None /\ ContentOf(doc[u]) = ContentOf(u)
          /\ Indexed(ContentOf(u)) /\ row[ContentOf(u)].id = doc[u]
    BY PinnedDocs, RowOfDocument DEF MayExchange, GraphInv, DocumentsFit
  <1>2. Indexed(c) => ContentOf(row[c].id) = c
    BY DEF MayExchange, GraphInv, RowsAreNamed
  <1> QED
    BY <1>1, <1>2 DEF Lost

\* who references the media of a content afterwards
LEMMA NewUsersOf ==
  ASSUME MayExchange, NEW c \in Content, Indexed(c) \/ Gained(c) # {}
  PROVE  /\ NewUsers(NewId(c)) = (Users(NewId(c)) \ Lost(c)) \cup Gained(c)
         /\ Lost(c) \subseteq Users(NewId(c)) /\ Users(NewId(c)) \cap Gained(c) = {}
         /\ Cardinality(Users(NewId(c))) = row[c].refs
  <1> PICK m : m = NewId(c)
    OBVIOUS
  <1>1. /\ m \in Media /\ m # None /\ ContentOf(m) = c /\ Gained(c) \in SUBSET Upload
        /\ \A i \in Item : MediaIdOf(i) = m <=> i \in Gained(c)
    BY GainedOf, Constants DEF Media
  <1>2. /\ \A u \in plan.pinned.docs : u \in Upload \ Item
        /\ \A i \in Item : doc[i] = None
    BY PinnedDocs
  <1>3. Gained(c) \subseteq Item
    BY DEF Gained
  <1>4. Users(m) \cap Gained(c) = {}
    BY <1>1, <1>2, <1>3 DEF Users
  <1>5. CASE Indexed(c)
    <2>1. m = row[c].id /\ Lost(c) = {u \in plan.pinned.docs : doc[u] = m}
      BY <1>5, LostOf DEF NewId
    <2>2. Lost(c) \subseteq Users(m)
      BY <1>2, <2>1 DEF Users
    <2>3. NewUsers(m) = (Users(m) \ Lost(c)) \cup Gained(c)
      BY <1>1, <1>2, <1>3, <2>1 DEF NewUsers, NewDoc, Users
    <2>4. Cardinality(Users(m)) = row[c].refs
      BY <1>5, <2>1 DEF MayExchange, GraphInv, ReferencesCounted, Users
    <2> QED
      BY <1>4, <2>2, <2>3, <2>4
  <1>6. CASE ~Indexed(c)
    <2>1. Lost(c) = {} /\ row[c].refs = 0
      BY <1>6, LostOf, RowType DEF MayExchange, GraphInv
    <2>2. ASSUME NEW u \in Upload, doc[u] = m PROVE FALSE
      <3>1. ContentOf(u) = c /\ Indexed(ContentOf(u))
        BY <1>1, <2>2, RowOfDocument DEF MayExchange, GraphInv, DocumentsFit
      <3> QED
        BY <1>6, <3>1
    <2>3. Users(m) = {} /\ Cardinality(Users(m)) = 0
      BY <2>2, FS_EmptySet DEF Users
    <2>4. NewUsers(m) = Gained(c)
      BY <1>1, <1>2, <1>3, <2>2 DEF NewUsers, NewDoc
    <2> QED
      BY <2>1, <2>3, <2>4
  <1> QED
    BY <1>5, <1>6

\* the row of a content afterwards counts who references its media
LEMMA ExchangedRow ==
  ASSUME MayExchange, NEW c \in Content
  PROVE  LET refs == row[c].refs + Cardinality(Gained(c)) - Cardinality(Lost(c)) IN
         /\ refs \in Nat
         /\ refs = 0 => Exchanged(c) = NoRow
         /\ refs # 0 => /\ Indexed(c) \/ Gained(c) # {}
                        /\ Exchanged(c) = [id |-> NewId(c), refs |-> refs]
         /\ Indexed(c) \/ Gained(c) # {} => refs = Cardinality(NewUsers(NewId(c)))
  <1> PICK refs : refs = row[c].refs + Cardinality(Gained(c)) - Cardinality(Lost(c))
    OBVIOUS
  <1>1. /\ IsFiniteSet(Gained(c)) /\ Cardinality(Gained(c)) \in Nat /\ Gained(c) \subseteq Item
        /\ IsFiniteSet(Lost(c)) /\ Cardinality(Lost(c)) \in Nat /\ Gained(c) \in SUBSET Upload
    <2>1. Gained(c) \in SUBSET Upload /\ Lost(c) \in SUBSET Upload /\ Gained(c) \subseteq Item
      BY Constants, LostOf DEF Gained
    <2> QED
      BY <2>1, SetsAreFinite
  <1>2. row[c].refs \in Nat
    BY RowType DEF MayExchange, GraphInv
  <1>3. CASE Indexed(c) \/ Gained(c) # {}
    <2> PICK m : m = NewId(c)
      OBVIOUS
    <2> DEFINE keep == Users(m) \ Lost(c)
    <2>1. /\ NewUsers(m) = keep \cup Gained(c) /\ Lost(c) = Users(m) \cap Lost(c)
          /\ Users(m) \cap Gained(c) = {} /\ Cardinality(Users(m)) = row[c].refs
      BY <1>3, NewUsersOf
    <2>2. Users(m) \in SUBSET Upload /\ keep \in SUBSET Upload
      BY DEF Users
    <2>3. IsFiniteSet(Users(m)) /\ IsFiniteSet(keep) /\ Cardinality(keep) \in Nat
      BY <2>2, SetsAreFinite
    <2>4. Cardinality(keep) = Cardinality(Users(m)) - Cardinality(Users(m) \cap Lost(c))
      BY <2>3, FS_Difference
    <2>5. keep \cap Gained(c) = {}
      BY <2>1
    <2>6. Cardinality(keep \cup Gained(c)) = Cardinality(keep) + Cardinality(Gained(c))
      <3>1. Cardinality(keep \cap Gained(c)) = 0
        BY <2>5, FS_EmptySet
      <3>2. Cardinality(keep \cup Gained(c)) = Cardinality(keep) + Cardinality(Gained(c)) - Cardinality(keep \cap Gained(c))
        BY <1>1, <2>3, FS_Union
      <3> HIDE DEF keep
      <3> QED
        BY <1>1, <2>3, <3>1, <3>2
    <2> HIDE DEF keep
    <2>7. refs \in Nat /\ refs = Cardinality(NewUsers(m))
      <3>1. Cardinality(NewUsers(m)) = Cardinality(keep) + Cardinality(Gained(c))
        BY <2>1, <2>6
      <3>2. Cardinality(keep) = row[c].refs - Cardinality(Lost(c))
        BY <2>1, <2>4
      <3> QED
        BY <1>1, <1>2, <2>3, <3>1, <3>2
    <2>8. CASE refs = 0
      BY <1>3, <2>7, <2>8 DEF Exchanged
    <2>9. CASE refs # 0 /\ Indexed(c)
      <3>1. Exchanged(c) = [row[c] EXCEPT !.refs = refs] /\ m = row[c].id
        BY <2>7, <2>9 DEF Exchanged, NewId
      <3>2. row[c] \in Rows
        BY <2>9, RowType DEF MayExchange, GraphInv
      <3>3. [row[c] EXCEPT !.refs = refs] = [id |-> row[c].id, refs |-> refs]
        BY <3>2 DEF Rows
      <3> QED
        BY <1>3, <2>7, <2>9, <3>1, <3>3
    <2>10. CASE refs # 0 /\ ~Indexed(c)
      <3>1. Exchanged(c) = [id |-> MediaIdOf(CHOOSE i \in Gained(c) : TRUE), refs |-> refs]
        BY <2>7, <2>10 DEF Exchanged
      <3>2. m = CHOOSE i \in Gained(c) : TRUE
        BY <2>10 DEF NewId
      <3>3. m \in Gained(c) /\ m \in Item
        BY <1>1, <1>3, <2>10, <3>2
      <3>4. MediaIdOf(m) = m
        BY <1>3, <3>3, GainedOf
      <3>5. Exchanged(c) = [id |-> m, refs |-> refs]
        BY <3>1, <3>2, <3>4
      <3> QED
        BY <1>3, <2>7, <2>10, <3>5
    <2> QED
      BY <2>8, <2>9, <2>10
  <1>4. CASE ~Indexed(c) /\ Gained(c) = {}
    <2>1. Cardinality(Gained(c)) = 0 /\ Cardinality(Lost(c)) = 0 /\ row[c].refs = 0
      BY <1>4, LostOf, FS_EmptySet, RowType DEF MayExchange, GraphInv
    <2>2. refs = 0
      BY <2>1
    <2>3. Exchanged(c) = NoRow
      BY <2>2 DEF Exchanged
    <2> QED
      BY <1>4, <2>2, <2>3
  <1> QED
    BY <1>3, <1>4

LEMMA ExchangeKeepsGraph ==
  ASSUME MayExchange, row' = [c \in Content |-> Exchanged(c)], doc' = [u \in Upload |-> NewDoc(u)],
         UNCHANGED <<file, up, held, closed>>, op'.result = TRUE
  PROVE  GraphInv'
  <1>1. ASSUME NEW c \in Content
        PROVE  \/ row'[c] = NoRow /\ (Indexed(c) \/ Gained(c) # {} => NewUsers(NewId(c)) = {})
               \/ /\ row'[c] \in Rows /\ row'[c] # NoRow /\ row'[c].id = NewId(c)
                  /\ NewId(c) \in Media /\ ContentOf(NewId(c)) = c
                  /\ row'[c].refs > 0 /\ row'[c].refs = Cardinality(NewUsers(NewId(c)))
    <2> PICK refs : refs = row[c].refs + Cardinality(Gained(c)) - Cardinality(Lost(c))
      OBVIOUS
    <2>1. /\ row'[c] = Exchanged(c) /\ refs \in Nat
          /\ refs = 0 => Exchanged(c) = NoRow
          /\ refs # 0 => /\ Indexed(c) \/ Gained(c) # {}
                         /\ Exchanged(c) = [id |-> NewId(c), refs |-> refs]
          /\ Indexed(c) \/ Gained(c) # {} => refs = Cardinality(NewUsers(NewId(c)))
      BY ExchangedRow
    <2>2. CASE refs = 0
      <3>1. NewUsers(NewId(c)) \in SUBSET Upload
        BY DEF NewUsers
      <3> QED
        BY <2>1, <2>2, <3>1, SetsAreFinite
    <2>3. CASE refs # 0
      <3>1. NewId(c) \in Media /\ ContentOf(NewId(c)) = c /\ NewId(c) # None
        BY <2>1, <2>3, GainedOf, Constants DEF Media
      <3>2. row'[c] = [id |-> NewId(c), refs |-> refs] /\ refs > 0
        BY <2>1, <2>3
      <3>3. row'[c] \in Rows /\ row'[c] # NoRow /\ row'[c].id = NewId(c) /\ row'[c].refs = refs
        BY <2>1, <3>1, <3>2 DEF Rows, NoRow
      <3> QED
        BY <2>1, <2>3, <3>1, <3>2, <3>3
    <2> QED
      BY <2>2, <2>3
  <1>2. /\ \A u \in plan.pinned.docs : u \in Upload \ Item
        /\ \A i \in Item : MediaIdOf(i) \in Media /\ MediaIdOf(i) # None /\ ContentOf(MediaIdOf(i)) = ContentOf(i)
    BY PinnedDocs, MediaOfItem
  <1>3. ASSUME NEW u \in Upload
        PROVE  /\ doc'[u] \in Media \cup {None}
               /\ doc'[u] # None => ContentOf(doc'[u]) = ContentOf(u)
               /\ doc'[u] # None => doc'[u] = NewId(ContentOf(u))
               /\ doc'[u] # None => Indexed(ContentOf(u)) \/ Gained(ContentOf(u)) # {}
    <2>1. doc'[u] = NewDoc(u) /\ ContentOf(u) \in Content
      BY UploadType
    <2>2. CASE u \in plan.pinned.docs
      BY <2>1, <2>2 DEF NewDoc
    <2>3. CASE u \notin plan.pinned.docs /\ u \in Item
      <3>1. doc'[u] = MediaIdOf(u) /\ u \in Gained(ContentOf(u))
        BY <2>1, <2>3 DEF NewDoc, Gained
      <3>2. MediaIdOf(u) = NewId(ContentOf(u))
        BY <2>1, <2>3, <3>1, GainedOf
      <3> QED
        BY <1>2, <2>3, <3>1, <3>2
    <2>4. CASE u \notin plan.pinned.docs /\ u \notin Item
      <3>1. doc'[u] = doc[u]
        BY <2>1, <2>4 DEF NewDoc
      <3>2. doc[u] # None => /\ doc[u] \in Media /\ Indexed(ContentOf(u)) /\ row[ContentOf(u)].id = doc[u]
                             /\ ContentOf(doc[u]) = ContentOf(u)
        BY RowOfDocument DEF MayExchange, GraphInv, DocumentsFit
      <3> QED
        BY <3>1, <3>2 DEF NewId
    <2> QED
      BY <2>2, <2>3, <2>4
  <1>4. \A m : Users(m)' = NewUsers(m)
    BY DEF Users, NewUsers
  <1>5. MediaTypeOK'
    <2>1. row' \in [Content -> Rows \cup {NoRow}]
      BY <1>1
    <2>2. doc' \in [Upload -> Media \cup {None}]
      BY <1>3
    <2> QED
      BY <2>1, <2>2 DEF MayExchange, GraphInv, MediaTypeOK
  <1>6. RowsAreNamed' /\ DocumentsFit'
    BY <1>1, <1>3 DEF RowsAreNamed, Indexed, DocumentsFit
  <1>7. CommittedOnce'
    <2>1. \A u \in Upload \ Item : doc'[u] # None => doc[u] # None
      BY DEF NewDoc
    <2> QED
      BY <2>1 DEF MayExchange, GraphInv, CommittedOnce
  <1>8. ASSUME NEW u \in Upload, doc'[u] # None
        PROVE  HasRow(doc[u])'
    <2> PICK c : c = ContentOf(u)
      OBVIOUS
    <2>1. /\ c \in Content /\ ContentOf(doc'[u]) = c /\ doc'[u] = NewId(c)
          /\ Indexed(c) \/ Gained(c) # {}
      BY <1>3, <1>8, UploadType
    <2>2. u \in NewUsers(NewId(c))
      BY <2>1 DEF NewUsers
    <2>3. row'[c].id = NewId(c)
      BY <1>1, <2>1, <2>2
    <2> QED
      BY <2>1, <2>3 DEF HasRow
  <1>9. ASSUME NEW c \in Content, Indexed(c)'
        PROVE  row'[c].refs = Cardinality(Users(row[c].id)') /\ row'[c].refs > 0
    <2>1. row'[c] # NoRow
      BY <1>9 DEF Indexed
    <2>2. row'[c].id = NewId(c) /\ row'[c].refs > 0 /\ row'[c].refs = Cardinality(NewUsers(NewId(c)))
      BY <1>1, <2>1
    <2>3. Users(row[c].id)' = NewUsers(row'[c].id)
      BY DEF Users, NewUsers
    <2> QED
      BY <2>2, <2>3
  <1>10. ReferencesCounted'
    BY <1>8, <1>9 DEF ReferencesCounted, Users
  <1>11. GraphFits'
    <2>1. \A i \in Item : doc'[i] = MediaIdOf(i) /\ MediaIdOf(i) # None
      BY <1>2, Constants DEF NewDoc
    <2> QED
      BY <2>1 DEF GraphFits
  <1> QED
    BY <1>5, <1>6, <1>7, <1>10, <1>11 DEF GraphInv

LEMMA CommitGraphKeeps ==
  ASSUME GraphInv, ImportTypes, CourseInv, CommitGraph
  PROVE  /\ GraphInv' /\ ImportTypes' /\ CourseInv'
         /\ op'.result = FALSE => UNCHANGED <<row, doc, file, up, plan, prow>> /\ op.result = FALSE
  <1>1. /\ task.step = "commit" /\ op.state = "committing" /\ op.result = FALSE
        /\ UNCHANGED <<file, up, held, closed, archive, plan, faults, restarts>>
        /\ op \in OpRecord /\ task \in TaskRecord
    BY DEF CommitGraph, CourseInv, TaskFits, OpFits, ImportTypes
  <1>2. CASE MayCommitGraph
    <2>1. /\ row' = [c \in Content |-> Exchanged(c)] /\ doc' = [u \in Upload |-> NewDoc(u)]
          /\ prow' = [i \in Item |-> "committed"] /\ lock' = "exclusive" /\ task' = Idle
          /\ ledger' \in [Media -> {"none", "pending", "unlinked", "preserved", "blocked"}]
          /\ op' = [state |-> "imported", phase |-> "graph_committed", result |-> TRUE]
      BY <1>2 DEF CommitGraph, NewDoc
    <2>2. /\ op' \in OpRecord /\ op'.state = "imported" /\ op'.phase = "graph_committed" /\ op'.result = TRUE
          /\ task' \in TaskRecord /\ task'.step = "idle"
      BY <2>1, IdleType DEF OpRecord, OpStates, Phases
    <2>3. GraphInv'
      BY <1>1, <1>2, <2>1, <2>2, ExchangeKeepsGraph DEF MayExchange
    <2>4. ImportTypes'
      BY <1>1, <2>1, <2>2 DEF ImportTypes
    <2>5. CourseInv'
      BY <1>1, <2>1, <2>2 DEF CourseInv, OpFits, TaskFits, LockFits, PlanFits, RowsFit, SourceFits, SourceThere, Ending, NotPrepared
    <2> QED
      BY <2>2, <2>3, <2>4, <2>5
  <1>3. CASE ~MayCommitGraph
    <2>1. Fail /\ UNCHANGED <<row, doc, prow, ledger, lock>>
      BY <1>3 DEF CommitGraph
    <2>2. ImportTypes' /\ CourseInv'
      BY <1>1, <2>1, FailCourse DEF ImportTypes
    <2>3. op'.result = op.result
      BY <1>1, <2>1, FailOf
    <2>4. GraphInv'
      BY <1>1, <2>1, <2>3 DEF GraphInv, MediaTypeOK, RowsAreNamed, DocumentsFit, CommittedOnce, ReferencesCounted,
                              GraphFits, Indexed, HasRow
    <2> QED
      BY <1>1, <2>1, <2>2, <2>4
  <1> QED
    BY <1>2, <1>3

-----------------------------------------------------------------------------
(***************************************************************************)
(* The other steps of the media.                                           *)
(***************************************************************************)
UploadRecord == [at: Stages, isNew: BOOLEAN]

LEMMA GraphStays ==
  ASSUME GraphInv, UNCHANGED <<row, doc, closed>>, op'.result = op.result, file' \subseteq Content,
         up' \in [Upload -> UploadRecord], held' \in [Content -> Upload \cup {None}],
         \A u \in Upload \ Item : up[u].at = "ended" => up'[u].at = "ended"
  PROVE  GraphInv'
  BY DEF GraphInv, MediaTypeOK, RowsAreNamed, DocumentsFit, CommittedOnce, ReferencesCounted,
         GraphFits, Indexed, HasRow, UploadRecord

LEMMA Entered ==
  ASSUME MediaTypeOK, NEW u \in Upload, NEW stage \in Stages, Enter(u, stage)
  PROVE  /\ up' \in [Upload -> UploadRecord] /\ up'[u].at = stage
         /\ \A v \in Upload \ {u} : up'[v] = up[v]
  BY DEF MediaTypeOK, Enter, UploadRecord

LEMMA UnlockedType ==
  ASSUME MediaTypeOK, NEW u \in Upload
  PROVE  Unlocked(u) \in [Content -> Upload \cup {None}]
  BY DEF MediaTypeOK, Unlocked

\* a producer outside the archive goes on
LEMMA OthersKeepGraph ==
  ASSUME GraphInv, Others
  PROVE  /\ GraphInv' /\ UNCHANGED importVars
         /\ \A c \in Content : Indexed(c) => Indexed(c)'
         /\ \A i \in Item : up'[i] = up[i]
         /\ \A u \in Upload \ Item : up[u].at # "idle" => up'[u].at # "idle"
         /\ \A c \in file' \ file : \E u \in Upload \ Item : ContentOf(u) = c /\ up'[u].at # "idle"
  <1> PICK u \in Upload \ Item :
        /\ \/ BeginPrepare(u) \/ WriteFile(u) \/ WriteFails(u) \/ DiscardPrepared(u) \/ RemoveFile(u)
           \/ CommitPrepared(u)
        /\ UNCHANGED importVars
    BY DEF Others
  <1>0. u \in Upload /\ MediaTypeOK /\ ContentOf(u) \in Content /\ UNCHANGED op
    BY UploadType DEF GraphInv, importVars
  <1>1. CASE CommitPrepared(u)
    <2>1. GraphInv' /\ \A c \in Content : Indexed(c) => Indexed(c)'
      BY <1>0, <1>1, CommitKeepsGraph
    <2>2. up'[u].at = "ended" /\ (\A v \in Upload \ {u} : up'[v] = up[v]) /\ UNCHANGED file
      BY <1>0, <1>1, Entered DEF CommitPrepared, Stages
    <2> QED
      BY <2>1, <2>2, Constants
  <1>2. CASE BeginPrepare(u) \/ WriteFile(u) \/ WriteFails(u) \/ DiscardPrepared(u) \/ RemoveFile(u)
    <2>1. UNCHANGED <<row, doc, closed>>
      BY <1>2 DEF BeginPrepare, WriteFile, WriteFails, DiscardPrepared, RemoveFile
    <2>2. /\ up' \in [Upload -> UploadRecord] /\ up'[u].at # "idle" /\ up[u].at # "ended"
          /\ \A v \in Upload \ {u} : up'[v] = up[v]
      <3>1. CASE BeginPrepare(u)
        BY <1>0, <3>1 DEF BeginPrepare, MediaTypeOK, UploadRecord, Stages
      <3>2. CASE WriteFile(u) \/ WriteFails(u) \/ DiscardPrepared(u) \/ RemoveFile(u)
        <4>1. /\ Enter(u, "written") \/ Enter(u, "ended") \/ Enter(u, "removing")
              /\ up[u].at # "ended"
          BY <3>2 DEF WriteFile, WriteFails, DiscardPrepared, RemoveFile
        <4> QED
          BY <1>0, <4>1, Entered DEF Stages
      <3> QED
        BY <1>2, <3>1, <3>2
    <2>3. held' \in [Content -> Upload \cup {None}]
      BY <1>0, <1>2, UnlockedType DEF BeginPrepare, WriteFile, WriteFails, DiscardPrepared, RemoveFile, MediaTypeOK
    <2>4. file' \subseteq file \cup {ContentOf(u)}
      BY <1>2 DEF BeginPrepare, WriteFile, WriteFails, DiscardPrepared, RemoveFile
    <2>5. GraphInv'
      <3>1. file' \subseteq Content
        BY <1>0, <2>4 DEF MediaTypeOK
      <3>2. \A v \in Upload \ Item : up[v].at = "ended" => up'[v].at = "ended"
        BY <2>2
      <3> QED
        BY <1>0, <2>1, <2>2, <2>3, <3>1, <3>2, GraphStays
    <2> QED
      BY <1>0, <2>1, <2>2, <2>4, <2>5, Constants DEF Indexed
  <1> QED
    BY <1>1, <1>2

-----------------------------------------------------------------------------
(***************************************************************************)
(* The files of the archive, as long as the import may be rolled back: a   *)
(* file is a row's, or another producer's at work, or its prepared row is  *)
(* still to be discarded and its removal is not over.                      *)
(***************************************************************************)
Pending(i) == prow[i] \in {"reserved", "written"}
Accounted(i) ==
  \/ Indexed(ContentOf(i))
  \/ \E u \in Upload \ Item : ContentOf(u) = ContentOf(i) /\ up[u].at # "idle"
  \/ Pending(i) /\ up[i].at # "ended"
FileFits(i) ==
  /\ Kept(i) => Indexed(ContentOf(i))
  /\ up[i].at \in {"writing", "written"} => Pending(i)
  /\ ContentOf(i) \in file => Accounted(i)
FilesInv == op.result = FALSE => \A i \in Item : FileFits(i)

ImportInv == GraphInv /\ ImportTypes /\ CourseInv /\ FilesInv

\* one item and those it does not touch
LEMMA FileStays ==
  ASSUME NEW i \in Item, FileFits(i), UNCHANGED row, plan'.kept = plan.kept, up'[i] = up[i],
         Pending(i) => Pending(i)', ContentOf(i) \in file' => ContentOf(i) \in file,
         \A u \in Upload \ Item : up[u].at # "idle" => up'[u].at # "idle"
  PROVE  FileFits(i)'
  BY DEF FileFits, Accounted, Kept, Indexed

LEMMA QuietFiles ==
  ASSUME FilesInv, UNCHANGED <<row, up>>, file' \subseteq file, op'.result = op.result,
         plan'.kept = plan.kept, \A i \in Item : Pending(i) => Pending(i)'
  PROVE  FilesInv'
  BY FileStays DEF FilesInv

LEMMA OneItemFiles ==
  ASSUME ImportInv, NEW i \in Item, UNCHANGED <<row, plan>>, op'.result = op.result,
         \A v \in Upload \ {i} : up'[v] = up[v], file' \subseteq file \cup {ContentOf(i)},
         \A j \in Item \ {i} : prow'[j] = prow[j], op.result = FALSE => FileFits(i)'
  PROVE  FilesInv'
  <1> SUFFICES ASSUME op.result = FALSE, NEW j \in Item, j # i PROVE FileFits(j)'
    BY DEF FilesInv
  <1>1. ContentOf(j) # ContentOf(i)
    BY ImportIsWellFormed
  <1>2. FileFits(j)
    BY DEF ImportInv, FilesInv
  <1> QED
    BY <1>1, <1>2, FileStays, Constants DEF Pending

\* one item's step keeps the graph
LEMMA OneItemGraph ==
  ASSUME ImportInv, NEW i \in Item, UNCHANGED <<row, doc, closed>>,
         up' \in [Upload -> UploadRecord], \A v \in Upload \ {i} : up'[v] = up[v],
         file' \subseteq file \cup {ContentOf(i)}, held' \in [Content -> Upload \cup {None}],
         op'.result = op.result
  PROVE  GraphInv'
  <1>1. ContentOf(i) \in Content /\ file \subseteq Content
    BY Constants, UploadType DEF ImportInv, GraphInv, MediaTypeOK
  <1> QED
    BY <1>1, GraphStays DEF ImportInv

\* a step that leaves the media alone
LEMMA QuietKeeps ==
  ASSUME ImportInv, UNCHANGED mediaVars, op'.result = op.result, ImportTypes', CourseInv',
         plan'.kept = plan.kept, \A i \in Item : Pending(i) => Pending(i)'
  PROVE  ImportInv'
  <1>1. GraphInv'
    BY DEF ImportInv, mediaVars, GraphInv, MediaTypeOK, RowsAreNamed, DocumentsFit, CommittedOnce,
           ReferencesCounted, GraphFits, Indexed, HasRow
  <1>2. FilesInv'
    BY QuietFiles DEF ImportInv, mediaVars
  <1> QED
    BY <1>1, <1>2 DEF ImportInv

LEMMA ValidationKeeps ==
  ASSUME ImportInv, Capture \/ Adopt \/ BeginValidation \/ Stage \/ FinishValidation \/ FailValidation
  PROVE  ImportInv'
  <1>1. ImportTypes' /\ CourseInv'
    BY ValidationCourse DEF ImportInv
  <1>2. UNCHANGED <<mediaVars, plan, prow>>
    BY DEF Capture, Adopt, BeginValidation, Stage, FinishValidation, FailValidation
  <1>3. UNCHANGED op \/ \E s \in OpStates : Becomes(s, "none")
    BY DEF Capture, Adopt, BeginValidation, Stage, FinishValidation, FailValidation, OpStates
  <1>4. op'.result = op.result
    BY <1>3, OpOf DEF ImportInv, ImportTypes, Phases
  <1> QED
    BY <1>1, <1>2, <1>4, QuietKeeps DEF Pending

LEMMA PlanningKeeps ==
  ASSUME ImportInv, (\E t \in Targets : MakePlan(t)) \/ BeginCommit \/ ResumeCommit
  PROVE  ImportInv'
  <1>1. ImportTypes' /\ CourseInv'
    BY PlanningCourse DEF ImportInv, GraphInv
  <1>2. UNCHANGED <<mediaVars, prow>>
    BY DEF MakePlan, BeginCommit, ResumeCommit
  <1>3. UNCHANGED op \/ Becomes("committing", "preparing")
    BY DEF MakePlan, BeginCommit, ResumeCommit
  <1>4. op'.result = op.result
    BY <1>3, OpOf DEF ImportInv, ImportTypes, Phases, OpStates
  <1>5. CASE \E t \in Targets : MakePlan(t)
    <2>1. \A i \in Item : plan'.kept[i] = row[ContentOf(i)]
      BY <1>5 DEF MakePlan
    <2>2. GraphInv'
      BY <1>2, <1>4 DEF ImportInv, mediaVars, GraphInv, MediaTypeOK, RowsAreNamed, DocumentsFit, CommittedOnce,
             ReferencesCounted, GraphFits, Indexed, HasRow
    <2>3. FilesInv'
      BY <1>2, <1>4, <2>1 DEF ImportInv, mediaVars, FilesInv, FileFits, Accounted, Pending, Kept, Indexed
    <2> QED
      BY <1>1, <2>2, <2>3 DEF ImportInv
  <1>6. CASE BeginCommit \/ ResumeCommit
    <2>1. plan'.kept = plan.kept
      BY <1>6 DEF BeginCommit, ResumeCommit, ImportInv, ImportTypes, PlanRecord
    <2> QED
      BY <1>1, <1>2, <1>4, <2>1, QuietKeeps DEF Pending
  <1> QED
    BY <1>5, <1>6

LEMMA LoadingKeeps ==
  ASSUME ImportInv, LoadAndPin \/ Reload
  PROVE  ImportInv'
  <1>1. ImportTypes' /\ CourseInv'
    BY PreparingCourse DEF ImportInv
  <1>2. UNCHANGED <<mediaVars, plan>>
    BY DEF LoadAndPin, Reload
  <1>3. UNCHANGED op \/ Fail
    BY DEF LoadAndPin, Reload
  <1>4. op'.result = op.result
    BY <1>3, FailOf DEF ImportInv, ImportTypes
  <1>5. \A i \in Item : Pending(i) => Pending(i)'
    BY DEF LoadAndPin, Reload, Pending, ImportInv, ImportTypes
  <1> QED
    BY <1>1, <1>2, <1>4, <1>5, QuietKeeps

LEMMA CleanupKeeps ==
  ASSUME ImportInv, FinishCommitted \/ VerifyCleanup \/ ResumeRollback \/ DiscardRows \/ DiscardDone
                    \/ RemoveSource \/ RemoveSourceFails \/ Settle
  PROVE  ImportInv'
  <1>1. ImportTypes' /\ CourseInv'
    BY CleanupCourse, RollbackCourse, EndingCourse DEF ImportInv
  <1>2. UNCHANGED <<mediaVars, plan, prow>>
    BY DEF FinishCommitted, VerifyCleanup, ResumeRollback, DiscardRows, DiscardDone, RemoveSource, RemoveSourceFails, Settle
  <1>3. \/ UNCHANGED op \/ Fail
        \/ Becomes("cleanup_required", "cleanup_required") \/ Becomes("imported", "complete")
        \/ Becomes("rolled_back", "rolled_back")
    BY DEF FinishCommitted, VerifyCleanup, ResumeRollback, DiscardRows, DiscardDone, RemoveSource, RemoveSourceFails, Settle
  <1>4. op'.result = op.result
    BY <1>3, FailOf, OpOf DEF ImportInv, ImportTypes, Phases, OpStates
  <1> QED
    BY <1>1, <1>2, <1>4, QuietKeeps DEF Pending

LEMMA UnlinkKeeps ==
  ASSUME ImportInv, NEW m \in Media, UnlinkEntry(m)
  PROVE  ImportInv'
  <1>1. ImportTypes' /\ CourseInv'
    BY CleanupCourse DEF ImportInv
  <1>2. UNCHANGED <<row, doc, up, held, closed, op, plan, prow>> /\ file' \subseteq file
    BY DEF UnlinkEntry
  <1>3. FilesInv'
    BY <1>2, QuietFiles DEF ImportInv, Pending
  <1>4. GraphInv'
    BY <1>2, GraphStays DEF ImportInv, GraphInv, MediaTypeOK, UploadRecord
  <1> QED
    BY <1>1, <1>3, <1>4 DEF ImportInv

-----------------------------------------------------------------------------
(***************************************************************************)
(* One item of the archive is written, or discarded.                       *)
(***************************************************************************)
LEMMA ItemOf ==
  ASSUME ImportInv, NEW i \in Item
  PROVE  /\ i \in Upload /\ ContentOf(i) \in Content /\ MediaTypeOK
         /\ op \in OpRecord /\ task \in TaskRecord
         /\ prow \in [Item -> {"none", "reserved", "written", "committed", "discarded"}]
         /\ held \in [Content -> Upload \cup {None}] /\ up \in [Upload -> UploadRecord]
         /\ op.result = FALSE => FileFits(i)
  BY Constants, UploadType DEF ImportInv, GraphInv, MediaTypeOK, ImportTypes, FilesInv, UploadRecord

LEMMA WriteKeeps ==
  ASSUME ImportInv, NEW i \in Item, WriteItem(i)
  PROVE  ImportInv'
  <1>1. /\ UNCHANGED <<row, doc, held, closed>> /\ file' = file \cup {ContentOf(i)}
        /\ up[i].at = "writing" /\ Enter(i, "written") /\ UNCHANGED importVars
    BY DEF WriteItem, WriteFile
  <1>2. up' \in [Upload -> UploadRecord] /\ up'[i].at = "written" /\ \A v \in Upload \ {i} : up'[v] = up[v]
    BY <1>1, ItemOf, Entered DEF Stages
  <1>3. GraphInv'
    BY <1>1, <1>2, ItemOf, OneItemGraph DEF importVars
  <1>4. op.result = FALSE => FileFits(i)'
    <2>1. op.result = FALSE => FileFits(i) /\ Pending(i)
      BY <1>1, ItemOf DEF FileFits
    <2> QED
      BY <1>1, <1>2, <2>1 DEF importVars, FileFits, Accounted, Pending, Kept, Indexed
  <1>5. FilesInv'
    BY <1>1, <1>2, <1>4, OneItemFiles DEF importVars
  <1>6. ImportTypes' /\ CourseInv'
    BY <1>1 DEF ImportInv, importVars, ImportTypes, CourseInv, OpFits, TaskFits, LockFits, PlanFits, RowsFit,
                SourceFits, SourceThere, Ending, NotPrepared
  <1> QED
    BY <1>3, <1>5, <1>6 DEF ImportInv

LEMMA BeginItemKeeps ==
  ASSUME ImportInv, NEW i \in Item, BeginItem(i)
  PROVE  ImportInv'
  <1>1. ImportTypes' /\ CourseInv'
    BY PreparingCourse DEF ImportInv
  <1>2. task.step = "write" /\ Pending(i) /\ UNCHANGED <<row, file, doc, closed, plan, prow>>
    BY DEF BeginItem, ImportInv, CourseInv, RowsFit, Pending
  <1>3. CASE /\ up' = [up EXCEPT ![i] = [at |-> "writing", isNew |-> ~Kept(i)]]
             /\ held' = [held EXCEPT ![ContentOf(i)] = i] /\ UNCHANGED <<op, task>>
    <2>1. /\ up' \in [Upload -> UploadRecord] /\ up'[i].at = "writing"
          /\ \A v \in Upload \ {i} : up'[v] = up[v]
      BY <1>3, ItemOf DEF UploadRecord, Stages, Kept
    <2>2. held' \in [Content -> Upload \cup {None}]
      BY <1>3, ItemOf
    <2>3. GraphInv'
      BY <1>2, <1>3, <2>1, <2>2, OneItemGraph
    <2>4. op.result = FALSE => FileFits(i)'
      BY <1>2, <2>1, ItemOf DEF FileFits, Accounted, Pending, Kept, Indexed
    <2>5. FilesInv'
      BY <1>2, <1>3, <2>1, <2>4, OneItemFiles
    <2> QED
      BY <1>1, <2>3, <2>5 DEF ImportInv
  <1>4. CASE Fail /\ UNCHANGED <<up, held>>
    <2>1. op'.result = op.result
      BY <1>4, ItemOf, FailOf
    <2> QED
      BY <1>1, <1>2, <1>4, <2>1, QuietKeeps DEF mediaVars, Pending
  <1> QED
    BY <1>3, <1>4 DEF BeginItem

LEMMA ItemWrittenKeeps ==
  ASSUME ImportInv, NEW i \in Item, ItemWritten(i)
  PROVE  ImportInv'
  <1>1. ImportTypes' /\ CourseInv'
    BY PreparingCourse DEF ImportInv
  <1>2. /\ task.step = "write" /\ Pending(i) /\ UNCHANGED <<row, file, doc, closed, plan>>
        /\ up[i].at = "written" /\ Enter(i, "idle") /\ held' = Unlocked(i)
    BY DEF ItemWritten, ImportInv, CourseInv, RowsFit, Pending
  <1>3. up' \in [Upload -> UploadRecord] /\ up'[i].at = "idle" /\ \A v \in Upload \ {i} : up'[v] = up[v]
    BY <1>2, ItemOf, Entered DEF Stages
  <1>4. held' \in [Content -> Upload \cup {None}]
    BY <1>2, ItemOf, UnlockedType
  <1>5. UNCHANGED op \/ Fail
    BY DEF ItemWritten
  <1>6. op'.result = op.result
    BY <1>5, ItemOf, FailOf
  <1>7. prow' = prow \/ prow' = [prow EXCEPT ![i] = "written"]
    BY DEF ItemWritten
  <1>8. Pending(i)' /\ \A j \in Item \ {i} : prow'[j] = prow[j]
    BY <1>2, <1>7, ItemOf DEF Pending
  <1>9. GraphInv'
    BY <1>2, <1>3, <1>4, <1>6, OneItemGraph
  <1>10. op.result = FALSE => FileFits(i)'
    BY <1>2, <1>3, <1>8, ItemOf DEF FileFits, Accounted, Kept, Indexed
  <1>11. FilesInv'
    BY <1>2, <1>3, <1>6, <1>8, <1>10, OneItemFiles
  <1> QED
    BY <1>1, <1>9, <1>11 DEF ImportInv

LEMMA BeginDiscardKeeps ==
  ASSUME ImportInv, NEW i \in Item, BeginDiscard(i) \/ RemoveItem(i)
  PROVE  ImportInv'
  <1>1. /\ UNCHANGED <<row, doc, held, closed>> /\ UNCHANGED importVars
        /\ \/ Enter(i, "removing") /\ up[i].at = "idle" /\ UNCHANGED file
           \/ Enter(i, "ended") /\ up[i].at = "removing" /\ file' = file \ {ContentOf(i)}
    BY DEF BeginDiscard, RemoveItem, RemoveFile
  <1>2. /\ up' \in [Upload -> UploadRecord] /\ \A v \in Upload \ {i} : up'[v] = up[v]
        /\ \/ up'[i].at = "removing" /\ up[i].at = "idle" /\ UNCHANGED file
           \/ up'[i].at = "ended" /\ file' = file \ {ContentOf(i)}
    BY <1>1, ItemOf, Entered DEF Stages
  <1>3. GraphInv'
    BY <1>1, <1>2, ItemOf, OneItemGraph DEF importVars
  <1>4. op.result = FALSE => FileFits(i)'
    <2>1. \A u \in Upload \ Item : up'[u] = up[u]
      BY <1>2
    <2> QED
      BY <1>1, <1>2, <2>1, ItemOf DEF importVars, FileFits, Accounted, Pending, Kept, Indexed
  <1>5. FilesInv'
    BY <1>1, <1>2, <1>4, OneItemFiles DEF importVars
  <1>6. ImportTypes' /\ CourseInv'
    BY <1>1 DEF ImportInv, importVars, ImportTypes, CourseInv, OpFits, TaskFits, LockFits, PlanFits, RowsFit,
                SourceFits, SourceThere, Ending, NotPrepared
  <1> QED
    BY <1>3, <1>5, <1>6 DEF ImportInv

\* when a prepared row is discarded, its file was removed or is not the import's own
LEMMA ItemDiscardedKeeps ==
  ASSUME ImportInv, NEW i \in Item, ItemDiscarded(i)
  PROVE  ImportInv'
  <1>1. ImportTypes' /\ CourseInv'
    BY RollbackCourse DEF ImportInv
  <1>2. /\ UNCHANGED <<row, file, doc, held, closed, op, plan>> /\ Enter(i, "idle")
        /\ up[i].at = "ended" \/ ~OwnFile(i)
    BY DEF ItemDiscarded
  <1>3. up' \in [Upload -> UploadRecord] /\ up'[i].at = "idle" /\ \A v \in Upload \ {i} : up'[v] = up[v]
    BY <1>2, ItemOf, Entered DEF Stages
  <1>4. prow' = prow \/ prow' = [prow EXCEPT ![i] = "discarded"]
    BY DEF ItemDiscarded
  <1>5. \A j \in Item \ {i} : prow'[j] = prow[j]
    BY <1>4, ItemOf
  <1>6. GraphInv'
    BY <1>2, <1>3, ItemOf, OneItemGraph
  <1>7. op.result = FALSE => FileFits(i)'
    <2> SUFFICES ASSUME op.result = FALSE PROVE FileFits(i)'
      OBVIOUS
    <2>1. FileFits(i) /\ \A u \in Upload \ Item : up'[u] = up[u]
      BY <1>3, ItemOf
    <2>2. \/ Indexed(ContentOf(i)) \/ ContentOf(i) \notin file
          \/ \E u \in Upload \ Item : ContentOf(u) = ContentOf(i) /\ up[u].at # "idle"
      BY <1>2, <2>1 DEF FileFits, Accounted, OwnFile
    <2>3. ContentOf(i) \in file' => Accounted(i)'
      BY <1>2, <2>1, <2>2 DEF Accounted, Indexed
    <2> QED
      BY <1>2, <1>3, <2>1, <2>3 DEF FileFits, Kept, Indexed
  <1>8. FilesInv'
    BY <1>2, <1>3, <1>5, <1>7, OneItemFiles
  <1> QED
    BY <1>1, <1>6, <1>8 DEF ImportInv

LEMMA OthersKeep ==
  ASSUME ImportInv, Others
  PROVE  ImportInv'
  <1>1. GraphInv' /\ UNCHANGED importVars
    BY OthersKeepGraph DEF ImportInv
  <1>2. ImportTypes' /\ CourseInv'
    BY <1>1 DEF ImportInv, importVars, ImportTypes, CourseInv, OpFits, TaskFits, LockFits, PlanFits, RowsFit,
                SourceFits, SourceThere, Ending, NotPrepared
  <1>3. ASSUME op.result = FALSE, NEW i \in Item PROVE FileFits(i)'
    <2>1. FileFits(i) /\ up'[i] = up[i] /\ ContentOf(i) \in Content
      BY <1>3, ItemOf, OthersKeepGraph DEF ImportInv
    <2>2. UNCHANGED <<plan, prow>> /\ (Indexed(ContentOf(i)) => Indexed(ContentOf(i))')
      BY <1>1, <2>1, OthersKeepGraph DEF ImportInv, importVars
    <2>3. CASE ContentOf(i) \in file
      <3>1. \A u \in Upload \ Item : up[u].at # "idle" => up'[u].at # "idle"
        BY OthersKeepGraph DEF ImportInv
      <3> QED
        BY <2>1, <2>2, <2>3, <3>1 DEF FileFits, Accounted, Pending, Kept
    <2>4. CASE ContentOf(i) \notin file
      <3>1. ContentOf(i) \in file' => \E u \in Upload \ Item : ContentOf(u) = ContentOf(i) /\ up'[u].at # "idle"
        BY <2>4, OthersKeepGraph DEF ImportInv
      <3> QED
        BY <2>1, <2>2, <3>1 DEF FileFits, Accounted, Pending, Kept
    <2> QED
      BY <2>3, <2>4
  <1>4. FilesInv'
    BY <1>1, <1>3 DEF FilesInv, importVars
  <1> QED
    BY <1>1, <1>2, <1>4 DEF ImportInv

LEMMA RestartKeeps ==
  ASSUME ImportInv, Restart
  PROVE  ImportInv'
  <1>1. ImportTypes' /\ CourseInv'
    BY RestartCourse DEF ImportInv
  <1>2. /\ UNCHANGED <<row, doc, closed, op, plan, prow>> /\ file' \subseteq file
        /\ held' = [c \in Content |-> None] /\ file' = file \ Collected
        /\ up' = [u \in Upload |->
               [up[u] EXCEPT !.at = IF u \in Item \/ up[u].at = "idle" THEN "idle" ELSE "ended"]]
    BY DEF Restart
  <1>3. \A u \in Upload : /\ up'[u] \in UploadRecord
                          /\ up'[u].at = IF u \in Item \/ up[u].at = "idle" THEN "idle" ELSE "ended"
    BY <1>2 DEF ImportInv, GraphInv, MediaTypeOK, UploadRecord, Stages
  <1>4. GraphInv'
    <2>1. up' \in [Upload -> UploadRecord]
      BY <1>2, <1>3
    <2>2. held' \in [Content -> Upload \cup {None}] /\ file' \subseteq Content
      BY <1>2 DEF ImportInv, GraphInv, MediaTypeOK
    <2> QED
      BY <1>2, <1>3, <2>1, <2>2, GraphStays DEF ImportInv
  <1>5. ASSUME op.result = FALSE, NEW i \in Item PROVE FileFits(i)'
    <2>1. FileFits(i) /\ up'[i].at = "idle" /\ ContentOf(i) \in Content
      BY <1>3, <1>5, ItemOf
    <2>2. ContentOf(i) \in file' => Indexed(ContentOf(i))
      BY <1>2 DEF Collected
    <2> QED
      BY <1>2, <2>1, <2>2 DEF FileFits, Accounted, Kept, Indexed
  <1>6. FilesInv'
    BY <1>2, <1>5 DEF FilesInv
  <1> QED
    BY <1>1, <1>4, <1>6 DEF ImportInv

LEMMA CommitKeeps ==
  ASSUME ImportInv, CommitGraph
  PROVE  ImportInv'
  <1>1. GraphInv' /\ ImportTypes' /\ CourseInv'
    BY CommitGraphKeeps DEF ImportInv
  <1>2. op'.result = FALSE => UNCHANGED <<row, doc, file, up, plan, prow>> /\ op.result = FALSE
    BY CommitGraphKeeps DEF ImportInv
  <1>3. FilesInv'
    BY <1>2 DEF ImportInv, FilesInv, FileFits, Accounted, Pending, Kept, Indexed
  <1> QED
    BY <1>1, <1>3 DEF ImportInv

LEMMA StepKeeps ==
  ASSUME ImportInv, Next
  PROVE  ImportInv'
  <1>1. CASE Others
    BY <1>1, OthersKeep
  <1>2. CASE Operator
    BY <1>2, ValidationKeeps, PlanningKeeps DEF Operator
  <1>3. CASE Begin
    BY <1>3, ValidationKeeps, PlanningKeeps, CleanupKeeps DEF Begin
  <1>4. CASE Working
    <2>1. CASE \/ Adopt \/ Stage \/ FinishValidation \/ FailValidation
      BY <2>1, ValidationKeeps
    <2>2. CASE LoadAndPin \/ Reload
      BY <2>2, LoadingKeeps
    <2>3. CASE CommitGraph
      BY <2>3, CommitKeeps
    <2>4. CASE VerifyCleanup \/ DiscardRows \/ DiscardDone \/ RemoveSource \/ RemoveSourceFails \/ Settle
      BY <2>4, CleanupKeeps
    <2>5. ASSUME NEW i \in Item, \/ BeginItem(i) \/ WriteItem(i) \/ ItemWritten(i)
                                 \/ BeginDiscard(i) \/ RemoveItem(i) \/ ItemDiscarded(i)
          PROVE  ImportInv'
      BY <2>5, BeginItemKeeps, WriteKeeps, ItemWrittenKeeps, BeginDiscardKeeps, ItemDiscardedKeeps
    <2>6. ASSUME NEW m \in Media, UnlinkEntry(m) PROVE ImportInv'
      BY <2>6, UnlinkKeeps
    <2> QED
      BY <1>4, <2>1, <2>2, <2>3, <2>4, <2>5, <2>6 DEF Working
  <1>5. CASE Restart
    BY <1>5, RestartKeeps
  <1> QED
    BY <1>1, <1>2, <1>3, <1>4, <1>5 DEF Next

LEMMA ImportInvariant == Spec => []ImportInv
  <1>1. Init => ImportInv
    <2> SUFFICES ASSUME Init PROVE ImportInv
      OBVIOUS
    <2>1. /\ op.state = "none" /\ op.phase = "none" /\ op.result = FALSE /\ op \in OpRecord
          /\ task \in TaskRecord /\ task.step = "idle"
      BY IdleType DEF Init, OpRecord, OpStates, Phases
    <2>2. plan \in PlanRecord /\ plan.ready = FALSE /\ \A i \in Item : ~Kept(i)
      BY DEF Init, NoPlan, PlanRecord, NoInventory, Inventories, Kept
    <2>3. GraphInv
      <3>1. MediaTypeOK
        BY DEF Init, MediaInit, MediaTypeOK, Stages
      <3>2. /\ \A c \in Content : ~Indexed(c)
            /\ \A u \in Upload : doc[u] = None
        BY DEF Init, MediaInit, Indexed
      <3> QED
        BY <2>1, <3>1, <3>2, Constants DEF GraphInv, RowsAreNamed, DocumentsFit, CommittedOnce,
                                           ReferencesCounted, GraphFits
    <2>4. ImportTypes
      BY <2>1, <2>2, Constants DEF Init, ImportTypes
    <2>5. CourseInv
      BY <2>1, <2>2 DEF Init, CourseInv, OpFits, TaskFits, LockFits, PlanFits, RowsFit, SourceFits, SourceThere,
                        Ending, NotPrepared
    <2>6. FilesInv
      <3>1. file = {} /\ \A u \in Upload : up[u].at = "idle"
        BY DEF Init, MediaInit
      <3> QED
        BY <2>2, <3>1, Constants DEF FilesInv, FileFits
    <2> QED
      BY <2>3, <2>4, <2>5, <2>6 DEF ImportInv
  <1>2. ImportInv /\ [Next]_vars => ImportInv'
    <2> SUFFICES ASSUME ImportInv, [Next]_vars PROVE ImportInv'
      OBVIOUS
    <2>1. CASE Next
      BY <2>1, StepKeeps
    <2>2. CASE UNCHANGED vars
      <3>1. ImportTypes' /\ CourseInv'
        BY <2>2 DEF vars, ImportInv, importVars, ImportTypes, CourseInv, OpFits, TaskFits, LockFits, PlanFits,
                    RowsFit, SourceFits, SourceThere, Ending, NotPrepared
      <3> QED
        BY <2>2, <3>1, QuietKeeps DEF vars, importVars, Pending
    <2> QED
      BY <2>1, <2>2
  <1> QED
    BY <1>1, <1>2, PTL DEF Spec

-----------------------------------------------------------------------------
(***************************************************************************)
(* Types of the import, of the media store under it and of what was        *)
(* pinned; no count becomes negative in the exchange.                      *)
(***************************************************************************)
THEOREM ImportIsTyped == Spec => []TypeOK
  <1>1. ImportInv => TypeOK
    BY TypesOfImport DEF ImportInv, GraphInv
  <1> QED
    BY <1>1, ImportInvariant, PTL

(***************************************************************************)
(* Every media row counts exactly the documents that reference it, also    *)
(* when the exchange takes the references of one graph and gives those of  *)
(* another in one transaction.                                             *)
(***************************************************************************)
THEOREM ExchangeCounts == Spec => []ReferencesCounted
  <1>1. ImportInv => ReferencesCounted
    BY DEF ImportInv, GraphInv
  <1> QED
    BY <1>1, ImportInvariant, PTL

(***************************************************************************)
(* The lock is held from the beginning of the commit until the operation   *)
(* is settled, a result is there exactly with the whole graph, and a       *)
(* rollback has discarded every prepared row.                              *)
(***************************************************************************)
THEOREM LockIsHeld == Spec => []LockedUntilSettled
  <1>1. ImportInv => LockedUntilSettled
    BY DEF ImportInv, GraphInv, GraphFits, CourseInv, LockFits, RowsFit, NotPrepared, LockedUntilSettled
  <1> QED
    BY <1>1, ImportInvariant, PTL

(***************************************************************************)
(* The source stays on disk while the operation may need it, through       *)
(* failed validations and restarts.                                        *)
(***************************************************************************)
THEOREM SourceStays == Spec => []SourceKeptWhileNeeded
  <1>1. ImportInv => SourceKeptWhileNeeded
    BY DEF ImportInv, CourseInv, SourceFits, SourceKeptWhileNeeded
  <1> QED
    BY <1>1, ImportInvariant, PTL

(***************************************************************************)
(* After a rollback a file of the archive that is there is a row's, or     *)
(* another producer's.                                                     *)
(***************************************************************************)
THEOREM RollbackIsClean == Spec => []RollbackLeavesNoFile
  <1>1. ImportInv => RollbackLeavesNoFile
    <2> SUFFICES ASSUME ImportInv, op.state = "rolled_back", NEW i \in Item, ContentOf(i) \in file
                 PROVE  \/ Indexed(ContentOf(i))
                        \/ \E u \in Upload \ Item : ContentOf(u) = ContentOf(i) /\ up[u].at # "idle"
      BY DEF RollbackLeavesNoFile
    <2>1. op.result = FALSE /\ ~Pending(i)
      BY DEF ImportInv, CourseInv, OpFits, RowsFit, NotPrepared, Pending
    <2>2. Accounted(i)
      BY <2>1 DEF ImportInv, FilesInv, FileFits
    <2> QED
      BY <2>1, <2>2 DEF Accounted
  <1> QED
    BY <1>1, ImportInvariant, PTL

(***************************************************************************)
(* What a replacement deletes is what was pinned, all of it, and a media   *)
(* of the deleted documents keeps the references it was pinned with,       *)
(* besides those that the archive brings.                                  *)
(***************************************************************************)
Replaces(u) ==
  /\ op'.result /\ u \in plan.pinned.docs
  /\ \A v \in plan.pinned.docs : doc'[v] = None
  /\ LET c == ContentOf(u)
         kept == plan.pinned.left[doc[u]] + Cardinality(Gained(c)) IN
     IF kept = 0 THEN row'[c] = NoRow ELSE row'[c].refs = kept

LEMMA OnlyExchangeRemoves ==
  ASSUME ImportInv, Next, NEW u \in Upload \ Item, doc[u] # None, doc'[u] = None
  PROVE  CommitGraph /\ MayCommitGraph
  <1>1. \A v \in Upload \ Item : CommitPrepared(v) => doc'[u] # None
    <2> SUFFICES ASSUME NEW v \in Upload \ Item, CommitPrepared(v) PROVE doc'[u] # None
      OBVIOUS
    <2>1. Referenced(v).id # None
      BY Constants, UploadType, RowType DEF Referenced, ImportInv, GraphInv, Rows
    <2>2. doc' = [doc EXCEPT ![v] = Referenced(v).id]
      BY DEF CommitPrepared
    <2> QED
      BY <2>1, <2>2 DEF ImportInv, GraphInv, MediaTypeOK
  <1>2. CASE Others
    BY <1>1, <1>2 DEF Others, BeginPrepare, WriteFile, WriteFails, DiscardPrepared, RemoveFile
  <1>3. CASE Operator \/ Begin \/ Restart
    BY <1>3 DEF Operator, Begin, Restart, Capture, MakePlan, BeginCommit, BeginValidation, ResumeCommit,
                FinishCommitted, ResumeRollback, mediaVars
  <1>4. CASE Working
    <2>1. CASE CommitGraph
      BY <2>1 DEF CommitGraph
    <2>2. CASE \/ Adopt \/ Stage \/ FinishValidation \/ FailValidation \/ LoadAndPin \/ Reload \/ VerifyCleanup
               \/ DiscardRows \/ DiscardDone \/ RemoveSource \/ RemoveSourceFails \/ Settle
      BY <2>2 DEF Adopt, Stage, FinishValidation, FailValidation, LoadAndPin, Reload, VerifyCleanup, DiscardRows,
                  DiscardDone, RemoveSource, RemoveSourceFails, Settle, mediaVars
    <2>3. ASSUME NEW i \in Item, \/ BeginItem(i) \/ WriteItem(i) \/ ItemWritten(i)
                                 \/ BeginDiscard(i) \/ RemoveItem(i) \/ ItemDiscarded(i)
          PROVE  FALSE
      BY <2>3 DEF BeginItem, WriteItem, WriteFile, ItemWritten, BeginDiscard, RemoveItem, RemoveFile, ItemDiscarded
    <2>4. ASSUME NEW m \in Media, UnlinkEntry(m) PROVE FALSE
      BY <2>4 DEF UnlinkEntry
    <2> QED
      BY <1>4, <2>1, <2>2, <2>3, <2>4 DEF Working
  <1> QED
    BY <1>2, <1>3, <1>4 DEF Next

LEMMA ExchangeReplaces ==
  ASSUME ImportInv, CommitGraph, MayCommitGraph, NEW u \in Upload \ Item, doc[u] # None, doc'[u] = None
  PROVE  Replaces(u)
  <1> PICK c : c = ContentOf(u)
    OBVIOUS
  <1> PICK D : D = plan.pinned.docs
    OBVIOUS
  <1>1. /\ row' = [d \in Content |-> Exchanged(d)] /\ doc' = [v \in Upload |-> NewDoc(v)]
        /\ op' = [state |-> "imported", phase |-> "graph_committed", result |-> TRUE]
    BY DEF CommitGraph, NewDoc
  <1>2. MayExchange
    BY DEF CommitGraph, ImportInv, MayExchange
  <1>3. u \in D /\ \A v \in D : doc'[v] = None
    BY <1>1, <1>2, PinnedDocs DEF NewDoc
  <1>4. /\ c \in Content /\ doc[u] \in Media /\ Indexed(c) /\ row[c].id = doc[u] /\ ContentOf(doc[u]) = c
    BY <1>2, RowOfDocument DEF MayExchange, GraphInv, DocumentsFit
  <1>5. plan.pinned.left[doc[u]] = row[c].refs - Cardinality(Lost(c))
    <2>1. plan.pinned.left = Selected(plan.target).left /\ D = Documents(plan.target)
      BY <1>2, PinnedDocs
    <2>2. doc[u] \in MediaOf(D)
      BY <1>3 DEF MediaOf
    <2>3. plan.pinned.left[doc[u]] = Left(D, doc[u])
      BY <1>4, <2>1, <2>2 DEF Selected
    <2>4. Lost(c) = {v \in D : doc[v] = doc[u]}
      BY <1>2, <1>4, LostOf
    <2> QED
      BY <1>4, <2>3, <2>4 DEF Left, ReferencesOf
  <1> PICK refs : refs = row[c].refs + Cardinality(Gained(c)) - Cardinality(Lost(c))
    OBVIOUS
  <1>6. /\ refs \in Nat
        /\ refs = 0 => row'[c] = NoRow
        /\ refs # 0 => row'[c] = [id |-> NewId(c), refs |-> refs]
    BY <1>1, <1>2, <1>4, ExchangedRow
  <1>7. plan.pinned.left[doc[u]] + Cardinality(Gained(c)) = refs
    <2>1. row[c].refs \in Nat /\ Cardinality(Gained(c)) \in Nat /\ Cardinality(Lost(c)) \in Nat
      <3>1. Gained(c) \in SUBSET Upload /\ Lost(c) \in SUBSET Upload
        BY <1>2, <1>4, LostOf, Constants DEF Gained
      <3> QED
        BY <1>4, <3>1, SetsAreFinite, RowType DEF ImportInv, GraphInv
    <2> QED
      BY <1>5, <2>1
  <1> QED
    BY <1>1, <1>3, <1>6, <1>7 DEF Replaces

THEOREM PinnedIsReplaced == Spec => ReplacesWhatWasPinned
  <1>1. ImportInv /\ [Next]_vars =>
          [ \A u \in Upload \ Item : doc[u] # None /\ doc'[u] = None => Replaces(u) ]_vars
    <2> SUFFICES ASSUME ImportInv, Next, NEW u \in Upload \ Item, doc[u] # None, doc'[u] = None
                 PROVE  Replaces(u)
      OBVIOUS
    <2> QED
      BY OnlyExchangeRemoves, ExchangeReplaces
  <1>2. Spec => [][ \A u \in Upload \ Item : doc[u] # None /\ doc'[u] = None => Replaces(u) ]_vars
    BY <1>1, ImportInvariant, PTL DEF Spec
  <1> QED
    BY <1>2 DEF ReplacesWhatWasPinned, Replaces

=============================================================================
