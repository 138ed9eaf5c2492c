------------------------------- MODULE Import -------------------------------
(***************************************************************************)
(* The import of an archive (src/src/domain/portability/import-*.ts and    *)
(* src/src/portability/import.ts) over the media store: an archive is      *)
(* captured and staged on disk, planned, and committed under a scope lock. *)
(* The commit awaits the source and every file it writes, and one          *)
(* transaction exchanges the graph; a failure before it is rolled back,    *)
(* one after it is cleaned up.  Other producers go on beside it, and the   *)
(* process may die anywhere.  One operation; its media are members of      *)
(* Upload that only the import makes.                                      *)
(***************************************************************************)
EXTENDS MediaStore

CONSTANTS
  Item,         \* the media of the archive
  Targets,      \* projects a plan may replace; None creates a new one
  MaxFaults,    \* bound: file operations and validations that fail
  MaxRestart    \* bound: starts after a crash

ASSUME ImportIsWellFormed ==
  /\ Item \subseteq Upload
  /\ \A i, j \in Item : ContentOf(i) = ContentOf(j) => i = j
  /\ Targets \subseteq Scope \cup {None} /\ \A i \in Item : ScopeOf(i) \notin Targets
  /\ MaxFaults \in Nat /\ MaxRestart \in Nat

VARIABLES
  op,           \* the operation: state, phase of its commit, whether it has a result
  archive,      \* what of the source is on disk: "reservation", "staging"
  plan,         \* target, rows it deduplicates onto, and the inventory seen under the lock
  prow,         \* per item: state of its prepared-media row
  lock,         \* phase of the scope lock
  ledger,       \* per media: its unlink after a replacement
  task,         \* the asynchronous work under way
  faults, restarts
importVars == <<op, archive, plan, prow, lock, ledger, task, faults, restarts>>
vars == <<mediaVars, importVars>>

OpStates == {"none", "uploaded", "validating", "plan_ready", "committing", "imported",
             "rolled_back", "failed", "cleanup_required"}
Phases == {"none", "preparing", "graph_committed", "cleanup_required", "complete", "rolled_back"}
Steps == {"idle", "adopt", "stage", "validated", "invalid", "load", "write", "reload", "commit",
          "unlink", "discard", "discarding", "unstage", "unreserve", "settle"}
NoPlan == [target |-> None, kept |-> [i \in Item |-> NoRow], pinned |-> NoInventory, ready |-> FALSE]
Task(step, todo, known) == [step |-> step, todo |-> todo, known |-> known]
Idle == Task("idle", {}, FALSE)

TypeOK ==
  /\ MediaTypeOK
  /\ op \in [state: OpStates, phase: Phases, result: BOOLEAN]
  /\ archive \subseteq {"reservation", "staging"}
  /\ plan \in [target: Targets \cup {None}, kept: [Item -> Rows \cup {NoRow}],
               pinned: Inventories, ready: BOOLEAN]
  /\ prow \in [Item -> {"none", "reserved", "written", "committed", "discarded"}]
  /\ lock \in {"none", "draining", "exclusive"}
  /\ ledger \in [Media -> {"none", "pending", "unlinked", "preserved", "blocked"}]
  /\ task \in [step: Steps, todo: SUBSET Media, known: BOOLEAN]
  /\ faults \in 0..MaxFaults /\ restarts \in 0..MaxRestart

Init ==
  /\ MediaInit
  /\ op = [state |-> "none", phase |-> "none", result |-> FALSE]
  /\ archive = {} /\ plan = NoPlan
  /\ prow = [i \in Item |-> "none"]
  /\ lock = "none"
  /\ ledger = [m \in Media |-> "none"]
  /\ task = Idle /\ faults = 0 /\ restarts = 0
-----------------------------------------------------------------------------
Then(step) == task' = [task EXCEPT !.step = step]
Becomes(state, phase) == op' = [op EXCEPT !.state = state, !.phase = phase]
Fault == faults < MaxFaults /\ faults' = faults + 1
SourceThere == archive = {"reservation", "staging"}

(***************************************************************************)
(* upload: the reservation is published on disk before the operation that  *)
(* refers to it is inserted; without it nothing refers to the file.        *)
(***************************************************************************)
Capture ==
  /\ task = Idle /\ op.state = "none"
  /\ archive' = {"reservation"}
  /\ Then("adopt")
  /\ UNCHANGED <<mediaVars, op, plan, prow, lock, ledger, faults, restarts>>

Adopt ==
  /\ task.step = "adopt"
  /\ task' = Idle
  /\ \/ Becomes("uploaded", "none") /\ UNCHANGED <<archive, faults>>
     \/ Fault /\ archive' = {} /\ UNCHANGED op
  /\ UNCHANGED <<mediaVars, plan, prow, lock, ledger, restarts>>

(***************************************************************************)
(* validateOnce: staging is removed and written again from the             *)
(* reservation; recovery does the same for an operation left "validating". *)
(***************************************************************************)
BeginValidation ==
  /\ task = Idle /\ op.state \in {"uploaded", "validating"}
  /\ Becomes("validating", "none")
  /\ archive' = archive \ {"staging"}
  /\ Then("stage")
  /\ UNCHANGED <<mediaVars, plan, prow, lock, ledger, faults, restarts>>

Stage ==
  /\ task.step = "stage"
  /\ \/ /\ "reservation" \in archive
        /\ archive' = archive \cup {"staging"}
        /\ Then("validated") /\ UNCHANGED faults
     \/ "reservation" \notin archive /\ Then("invalid") /\ UNCHANGED <<archive, faults>>
     \/ Fault /\ Then("invalid") /\ UNCHANGED archive
  /\ UNCHANGED <<mediaVars, op, plan, prow, lock, ledger, restarts>>

FinishValidation ==
  /\ task.step = "validated"
  /\ Becomes("plan_ready", "none")
  /\ task' = Idle
  /\ UNCHANGED <<mediaVars, archive, plan, prow, lock, ledger, faults, restarts>>

\* failAndClean, and retryCleanup when removing the files had failed
FailValidation ==
  /\ \/ task.step = "invalid"
     \/ task = Idle /\ op.state = "cleanup_required" /\ op.phase = "none"
  /\ \/ archive' = {} /\ Becomes("failed", "none") /\ UNCHANGED faults
     \/ Fault /\ Becomes("cleanup_required", "none") /\ UNCHANGED archive
  /\ task' = Idle
  /\ UNCHANGED <<mediaVars, plan, prow, lock, ledger, restarts>>

(***************************************************************************)
(* plan: every media of the archive whose content has a row is             *)
(* deduplicated onto it, at the revision the row has now; the other media  *)
(* get new ids.  A plan can be made again until the commit begins.         *)
(***************************************************************************)
MakePlan(t) ==
  /\ task = Idle /\ op.state = "plan_ready" /\ SourceThere
  /\ t # None => Documents(t) # {}
  /\ plan' = [target |-> t, pinned |-> NoInventory, ready |-> TRUE,
              kept |-> [i \in Item |-> row[ContentOf(i)]]]
  /\ plan' # plan
  /\ UNCHANGED <<mediaVars, op, archive, prow, lock, ledger, task, faults, restarts>>
-----------------------------------------------------------------------------
Kept(i) == plan.kept[i] # NoRow
\* the graph of the target, with the references its media keep without it
Snapshot == Selected(plan.target)

\* recompileStoredImportPlan: the rows deduplicated onto have their planned revision
PlanHolds == \A i \in Item : Kept(i) => row[ContentOf(i)] = plan.kept[i]

(***************************************************************************)
(* beginOrResume: an import into a new scope is exclusive at once; a       *)
(* replacement drains its target and pins the graph it is going to delete, *)
(* which others may still change through the media they share with it.     *)
(***************************************************************************)
BeginCommit ==
  /\ task = Idle /\ op.state = "plan_ready" /\ plan.ready /\ ~MediaBlocked(plan.target)
  /\ Becomes("committing", "preparing")
  /\ lock' = IF plan.target = None THEN "exclusive" ELSE "draining"
  /\ plan' = [plan EXCEPT !.pinned = Snapshot]
  /\ Then("load")
  /\ UNCHANGED <<mediaVars, archive, prow, ledger, faults, restarts>>

\* recover() and a repeated commit of an operation that is still preparing
ResumeCommit ==
  /\ task = Idle /\ op.state = "committing"
  /\ Then("load")
  /\ UNCHANGED <<mediaVars, op, archive, plan, prow, lock, ledger, faults, restarts>>

FaultyFail == Becomes("rolled_back", "rolled_back") /\ task' = Idle
(***************************************************************************)
(* The catch of commitOnce: with a result the operation asks for cleanup;  *)
(* without one it is rolled back at once, knowing the media only if the    *)
(* source had been loaded.                                                 *)
(***************************************************************************)
Fail ==
  /\ Becomes("cleanup_required", "cleanup_required")
  /\ task' = IF op.result THEN Idle ELSE [task EXCEPT !.step = "discard", !.todo = {}]

LoadAndPin ==
  /\ task.step = "load"
  /\ IF SourceThere /\ PlanHolds
     THEN /\ prow' = [i \in Item |-> IF prow[i] = "none" THEN "reserved" ELSE prow[i]]
          /\ task' = Task("write", Item, TRUE)
          /\ UNCHANGED op
     ELSE Fail /\ UNCHANGED prow
  /\ UNCHANGED <<mediaVars, archive, plan, lock, ledger, faults, restarts>>

(***************************************************************************)
(* media.prepare: under the lock of the checksum an item finds the row it  *)
(* was planned on, or none if it is new; then its file is written, checked *)
(* and its prepared row says so.  A failed write ends the commit.          *)
(***************************************************************************)
Matches(i) == row[ContentOf(i)].id = plan.kept[i].id

BeginItem(i) ==
  /\ task.step = "write" /\ i \in task.todo /\ held[ContentOf(i)] = None
  /\ \A j \in Item : up[j].at \notin {"writing", "written"}
  /\ IF Matches(i)
     THEN /\ up' = [up EXCEPT ![i] = [at |-> "writing", isNew |-> ~Kept(i)]]
          /\ held' = [held EXCEPT ![ContentOf(i)] = i]
          /\ UNCHANGED <<op, task>>
     ELSE Fail /\ UNCHANGED <<up, held>>
  /\ UNCHANGED <<row, file, doc, closed, archive, plan, prow, lock, ledger, faults, restarts>>

WriteItem(i) == WriteFile(i) /\ UNCHANGED importVars

ItemWritten(i) ==
  /\ task.step = "write" /\ up[i].at = "written"
  /\ Enter(i, "idle") /\ held' = Unlocked(i)
  /\ \/ /\ ContentOf(i) \in file
        /\ prow' = [prow EXCEPT ![i] = "written"]
        /\ task' = [task EXCEPT !.todo = @ \ {i}]
        /\ UNCHANGED <<op, faults>>
     \/ ContentOf(i) \notin file /\ Fail /\ UNCHANGED <<prow, faults>>
     \/ Fault /\ Fail /\ UNCHANGED prow
  /\ UNCHANGED <<row, file, doc, closed, archive, plan, lock, ledger, restarts>>

\* the source is loaded and replayed again, then the disk is probed again
Reload ==
  /\ task.step = "write" /\ task.todo = {}
  /\ IF SourceThere /\ PlanHolds THEN Then("commit") /\ UNCHANGED op ELSE Fail
  /\ UNCHANGED <<mediaVars, archive, plan, prow, lock, ledger, faults, restarts>>
-----------------------------------------------------------------------------
(***************************************************************************)
(* commitGraph, one transaction.  In a replacement the target must still   *)
(* be the graph that was pinned; its documents are deleted and their       *)
(* references released after the imported media are committed, so that     *)
(* media both graphs use keep their row.                                   *)
(***************************************************************************)
FaultyMayCommitGraph ==
  PlanHolds /\ \A i \in Item : prow[i] = "written" /\ ContentOf(i) \in file /\ Matches(i)
MayCommitGraph ==
  /\ PlanHolds
  /\ Snapshot = plan.pinned /\ ~MediaBlocked(plan.target)
  /\ \A i \in Item : prow[i] = "written" /\ ContentOf(i) \in file /\ Matches(i)

FaultyMediaIdOf(i) == i
\* commitPreparedImported of every item, then the release of what is replaced
MediaIdOf(i) == IF Kept(i) THEN plan.kept[i].id ELSE i
Gained(c) == {i \in Item : ContentOf(i) = c}
Lost(c) == {u \in plan.pinned.docs : ContentOf(doc[u]) = c}
Exchanged(c) ==
  LET refs == row[c].refs + Cardinality(Gained(c)) - Cardinality(Lost(c)) IN
  CASE refs = 0 -> NoRow
    [] refs > 0 /\ Indexed(c) -> [row[c] EXCEPT !.refs = refs]
    [] OTHER -> [id |-> MediaIdOf(CHOOSE i \in Gained(c) : TRUE), refs |-> refs]

CommitGraph ==
  /\ task.step = "commit"
  /\ IF MayCommitGraph
     THEN /\ row' = [c \in Content |-> Exchanged(c)]
          /\ doc' = [u \in Upload |-> IF u \in plan.pinned.docs THEN None
                                      ELSE IF u \in Item THEN MediaIdOf(u) ELSE doc[u]]
          /\ prow' = [i \in Item |-> "committed"]
          /\ ledger' = [m \in Media |-> IF HasRow(m) /\ Exchanged(ContentOf(m)) = NoRow
                                        THEN "pending" ELSE "none"]
          /\ lock' = "exclusive"
          /\ op' = [state |-> "imported", phase |-> "graph_committed", result |-> TRUE]
          /\ task' = Idle
     ELSE Fail /\ UNCHANGED <<row, doc, prow, ledger, lock>>
  /\ UNCHANGED <<file, up, held, closed, archive, plan, faults, restarts>>
-----------------------------------------------------------------------------
(***************************************************************************)
(* finishCommitted, by the commit itself, by a repeated request or by      *)
(* recovery: entries that are pending or blocked are unlinked, all are     *)
(* verified, then the source is removed and the lock released.  An error   *)
(* leaves the operation in "cleanup_required".                             *)
(***************************************************************************)
FaultyUnfinished == op.result /\ op.phase = "graph_committed"
\* finishCommittedIfNeeded, also after a cleanup that failed
Unfinished == op.result /\ op.phase # "complete"

FinishCommitted ==
  /\ task = Idle /\ Unfinished
  /\ task' = Task("unlink", {m \in Media : ledger[m] \in {"pending", "blocked"}}, TRUE)
  /\ UNCHANGED <<mediaVars, op, archive, plan, prow, lock, ledger, faults, restarts>>

UnlinkEntry(m) ==
  /\ task.step = "unlink" /\ m \in task.todo /\ held[ContentOf(m)] = None
  /\ \/ /\ Preserved(m) /\ ledger' = [ledger EXCEPT ![m] = "preserved"]
        /\ UNCHANGED <<file, faults>>
     \/ /\ ~Preserved(m) /\ ledger' = [ledger EXCEPT ![m] = "unlinked"]
        /\ file' = file \ {ContentOf(m)} /\ UNCHANGED faults
     \/ Fault /\ ledger' = [ledger EXCEPT ![m] = "blocked"] /\ UNCHANGED file
  /\ task' = [task EXCEPT !.todo = @ \ {m}]
  /\ UNCHANGED <<row, doc, up, held, closed, op, archive, plan, prow, lock, restarts>>

Verified(m) ==
  CASE ledger[m] = "none" -> TRUE
    [] ledger[m] = "unlinked" -> ~HasRow(m) /\ ContentOf(m) \notin file
    [] ledger[m] = "preserved" -> HasRow(m) /\ ContentOf(m) \in file
    [] OTHER -> FALSE

VerifyCleanup ==
  /\ task.step = "unlink" /\ task.todo = {}
  /\ IF \A m \in Media : Verified(m)
     THEN Then("unstage") /\ UNCHANGED op
     ELSE Fail
  /\ UNCHANGED <<mediaVars, archive, plan, prow, lock, ledger, faults, restarts>>
-----------------------------------------------------------------------------
(***************************************************************************)
(* finishRollback: prepared rows are listed in every state, also           *)
(* discarded; without the media at hand the source is loaded again to      *)
(* describe them.                                                          *)
(***************************************************************************)
ResumeRollback ==
  /\ task = Idle /\ op.state = "cleanup_required" /\ op.phase = "cleanup_required" /\ ~op.result
  /\ task' = Task("discard", {}, FALSE)
  /\ UNCHANGED <<mediaVars, op, archive, plan, prow, lock, ledger, faults, restarts>>

PreparedRows == {i \in Item : prow[i] # "none"}
FaultyOwnFile(i) == prow[i] = "written" /\ ~Kept(i) /\ ~Indexed(ContentOf(i))
\* discardOne: what was there before the import is not its to remove
OwnFile(i) == ~Kept(i) /\ ~Indexed(ContentOf(i))

DiscardRows ==
  /\ task.step = "discard"
  /\ LET known == task.known \/ (SourceThere /\ PlanHolds) IN
     task' = IF PreparedRows = {} \/ known
             THEN Task("discarding", {i \in PreparedRows : prow[i] # "discarded"}, TRUE)
             ELSE Idle
  /\ UNCHANGED <<mediaVars, op, archive, plan, prow, lock, ledger, faults, restarts>>

BeginDiscard(i) ==
  /\ task.step = "discarding" /\ i \in task.todo /\ up[i].at = "idle"
  /\ \A j \in Item : up[j].at # "removing"
  /\ OwnFile(i) /\ Enter(i, "removing")
  /\ UNCHANGED <<row, file, doc, held, closed, importVars>>

RemoveItem(i) == RemoveFile(i) /\ UNCHANGED importVars

\* the prepared row is discarded after its file, or a failed removal ends the rollback
ItemDiscarded(i) ==
  /\ task.step = "discarding" /\ i \in task.todo
  /\ up[i].at = "ended" \/ (up[i].at = "idle" /\ ~OwnFile(i))
  /\ Enter(i, "idle")
  /\ \/ /\ prow' = [prow EXCEPT ![i] = "discarded"]
        /\ task' = [task EXCEPT !.todo = @ \ {i}] /\ UNCHANGED faults
     \/ Fault /\ task' = Idle /\ UNCHANGED prow
  /\ UNCHANGED <<row, file, doc, held, closed, op, archive, plan, lock, ledger, restarts>>

DiscardDone ==
  /\ task.step = "discarding" /\ task.todo = {}
  /\ Then("unstage")
  /\ UNCHANGED <<mediaVars, op, archive, plan, prow, lock, ledger, faults, restarts>>
-----------------------------------------------------------------------------
(***************************************************************************)
(* The common end of finishCommitted and finishRollback: staging and       *)
(* reservation are removed one after the other, and a last transaction     *)
(* releases the lock together with the final state.                        *)
(***************************************************************************)
RemoveSource ==
  /\ task.step \in {"unstage", "unreserve"}
  /\ archive' = archive \ {IF task.step = "unstage" THEN "staging" ELSE "reservation"}
  /\ Then(IF task.step = "unstage" THEN "unreserve" ELSE "settle")
  /\ UNCHANGED <<mediaVars, op, plan, prow, lock, ledger, faults, restarts>>

\* an error here leaves what there is to the next attempt
RemoveSourceFails ==
  /\ task.step \in {"unstage", "unreserve"}
  /\ Fault
  /\ task' = Idle
  /\ Becomes("cleanup_required", "cleanup_required")
  /\ UNCHANGED <<mediaVars, archive, plan, prow, lock, ledger, restarts>>

Settle ==
  /\ task.step = "settle"
  /\ IF op.result THEN Becomes("imported", "complete") ELSE Becomes("rolled_back", "rolled_back")
  /\ lock' = "none"
  /\ task' = Idle
  /\ UNCHANGED <<mediaVars, archive, plan, prow, ledger, faults, restarts>>

FaultyInUse(part) == op.state \in {"uploaded", "validating", "plan_ready"}
\* referencedReservationKeys and referencedStagingKeys: keys of the operation not yet null
InUse(part) == op.state \notin {"none", "failed", "rolled_back"} /\ op.phase # "complete"

(***************************************************************************)
(* The process dies and starts again: orphaned media files are collected,  *)
(* and so are reservations and staging directories no operation refers to. *)
(***************************************************************************)
Restart ==
  /\ restarts < MaxRestart /\ restarts' = restarts + 1
  /\ up' = [u \in Upload |->
        [up[u] EXCEPT !.at = IF u \in Item \/ up[u].at = "idle" THEN "idle" ELSE "ended"]]
  /\ held' = [c \in Content |-> None]
  /\ file' = file \ Collected
  /\ archive' = {part \in archive : InUse(part)}
  /\ task' = Idle
  /\ UNCHANGED <<row, doc, closed, op, plan, prow, lock, ledger, faults>>
-----------------------------------------------------------------------------
(***************************************************************************)
(* DomainMutationAdmission: other producers write into the target only     *)
(* while it is not locked, whether the lock drains or is exclusive.        *)
(***************************************************************************)
Admitted(u) == lock = "none" \/ ScopeOf(u) # plan.target

Others == \E u \in Upload \ Item :
  /\ \/ BeginPrepare(u) \/ WriteFile(u) \/ WriteFails(u) \/ DiscardPrepared(u) \/ RemoveFile(u)
     \/ Admitted(u) /\ CommitPrepared(u)
  /\ UNCHANGED importVars

Operator == Capture \/ (\E t \in Targets : MakePlan(t)) \/ BeginCommit
Begin == BeginValidation \/ ResumeCommit \/ FinishCommitted \/ ResumeRollback
Working ==
  \/ Adopt \/ Stage \/ FinishValidation \/ FailValidation
  \/ LoadAndPin \/ Reload \/ CommitGraph \/ VerifyCleanup \/ DiscardRows \/ DiscardDone
  \/ RemoveSource \/ RemoveSourceFails \/ Settle
  \/ \E i \in Item : BeginItem(i) \/ WriteItem(i) \/ ItemWritten(i)
                    \/ BeginDiscard(i) \/ RemoveItem(i) \/ ItemDiscarded(i)
  \/ \E m \in Media : UnlinkEntry(m)

Next == Others \/ Operator \/ Begin \/ Working \/ Restart
Spec == Init /\ [][Next]_vars
FairSpec == Spec /\ WF_vars(Begin \/ Working)
-----------------------------------------------------------------------------
(***************************************************************************)
(* The scope lock is held from the beginning of the commit until the       *)
(* operation is settled, through failures and restarts, and a result is    *)
(* there exactly when the whole graph is.                                  *)
(***************************************************************************)
LockedUntilSettled ==
  /\ lock # "none" <=> op.phase \in {"preparing", "graph_committed", "cleanup_required"}
  /\ \A i \in Item : (doc[i] # None) = op.result
  /\ op.state = "rolled_back" => \A i \in Item : prow[i] \in {"none", "discarded"}

(***************************************************************************)
(* What a replacement deletes is what was pinned when the lock was taken,  *)
(* whatever others did to the media since: every pinned document goes, and *)
(* a media of theirs keeps exactly the references it was pinned with,      *)
(* besides those that the archive brings.                                  *)
(***************************************************************************)
ReplacesWhatWasPinned ==
  [][ \A u \in Upload \ Item : doc[u] # None /\ doc'[u] = None =>
        /\ op'.result /\ u \in plan.pinned.docs
        /\ \A v \in plan.pinned.docs : doc'[v] = None
        /\ LET c == ContentOf(u)
               kept == plan.pinned.left[doc[u]] + Cardinality(Gained(c)) IN
           IF kept = 0 THEN row'[c] = NoRow ELSE row'[c].refs = kept ]_vars

(***************************************************************************)
(* While an operation can still go on or be done again, its source is on   *)
(* disk: no restart collects it.                                           *)
(***************************************************************************)
SourceKeptWhileNeeded ==
  /\ op.state \in {"plan_ready", "committing"} => SourceThere
  /\ op.state \in {"uploaded", "validating"} /\ task.step # "invalid" => "reservation" \in archive

(***************************************************************************)
(* A rolled back import leaves no file behind: one of its files that is    *)
(* there is a row's, or another producer's at work.                        *)
(***************************************************************************)
RollbackLeavesNoFile ==
  op.state = "rolled_back" => \A i \in Item : ContentOf(i) \in file =>
    \/ Indexed(ContentOf(i))
    \/ \E u \in Upload \ Item : ContentOf(u) = ContentOf(i) /\ up[u].at # "idle"

(***************************************************************************)
(* Once the graph is committed the import completes, whatever fails and    *)
(* whenever the process restarts: the replaced media are removed, then the *)
(* source, and the lock is released.  The exception is real: an entry that *)
(* was unlinked or preserved is never looked at again, although another    *)
(* producer that stores the same content now makes its check fail.         *)
(***************************************************************************)
StoredAgain == \E m \in Media : ledger[m] \in {"unlinked", "preserved"} /\ ~Verified(m)
CommittedImportCompletes ==
  op.phase = "graph_committed" ~> op.phase = "complete" \/ StoredAgain
=============================================================================
