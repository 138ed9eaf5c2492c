---------------------------- MODULE ProjectExport ----------------------------
(***************************************************************************)
(* The export of a project                                                 *)
(* (src/src/domain/portability/export-service.ts, snapshot-entries.ts,     *)
(* export-storage.ts, src/src/portability/staging-store.ts,                *)
(* managed-export-store.ts) beside producers and deletions.  Pause drains  *)
(* the project under a scope lock; start freezes its documents and holds   *)
(* its media, in one transaction; execute, which can be called any number  *)
(* of times and at the same time, copies the media, gives holds and lock   *)
(* back, scans the copies, publishes an archive and records it.            *)
(***************************************************************************)
EXTENDS Deletion

CONSTANTS
  Project,      \* the scope that is exported
  Export,       \* its export operations
  Executor      \* calls of execute that can be under way at a time

ASSUME ExportsAreWellFormed ==
  Project \in Scope /\ IsFiniteSet(Export) /\ None \notin Export

VARIABLES
  xop,          \* state of each operation; "deleted" with its project
  xlock,        \* the scope lock of the project: operation and phase
  snap,         \* snapshot of each operation: state, documents, media
  holds,        \* media each snapshot holds a reference of
  staged,       \* copies of each snapshot in the staging directory
  archive,      \* operations whose archive is in the managed directory
  listed,       \* the operations that the inventory of the project listed
  expunge,      \* archives the deletion of the project has still to unlink
  exec          \* calls: step, operation, the state it read, media left to copy
exportVars == <<xop, xlock, snap, holds, staged, archive, listed, expunge, exec>>
allVars == <<vars, exportVars>>

ExportStates == {"none", "waiting_quiescence", "staging", "packaging", "secret_scanning",
                 "ready", "failed", "deleted"}
ExecSteps == {"stage", "open", "package", "scan", "passed", "publish", "record", "cleanup",
              "fail", "failed"}
NoLock == [by |-> None, phase |-> "none"]
NoSnapshot == [state |-> "none", docs |-> {}, media |-> {}]
NoExec == [step |-> "idle", export |-> None, seen |-> "none", todo |-> {}]

ExportTypeOK ==
  /\ xop \in [Export -> ExportStates]
  /\ xlock \in [by: Export \cup {None}, phase: {"none", "draining", "snapshot"}]
  /\ snap \in [Export -> [state: {"none", "frozen", "staging", "released", "failed"},
                          docs: SUBSET Upload, media: SUBSET Media]]
  /\ holds \in [Export -> SUBSET Media]
  /\ staged \in [Export -> SUBSET Content]
  /\ archive \subseteq Export /\ expunge \subseteq Export
  /\ listed \in [Export -> ExportStates]
  /\ exec \in [Executor -> [step: ExecSteps \cup {"idle"}, export: Export \cup {None},
                            seen: ExportStates, todo: SUBSET Content]]

ExportInit ==
  /\ Init
  /\ xop = [x \in Export |-> "none"] /\ xlock = NoLock
  /\ snap = [x \in Export |-> NoSnapshot]
  /\ holds = [x \in Export |-> {}] /\ staged = [x \in Export |-> {}]
  /\ archive = {} /\ expunge = {} /\ listed = [x \in Export |-> "none"]
  /\ exec = [e \in Executor |-> NoExec]
-----------------------------------------------------------------------------
Sources(x) == {ContentOf(m) : m \in snap[x].media}
Copied(x) == staged[x] = Sources(x)
Moves(x, state) == xop' = [xop EXCEPT ![x] = state]
Step(e, step) == exec' = [exec EXCEPT ![e].step = step]
Ends(e) == exec' = [exec EXCEPT ![e] = NoExec]
ReleasesLock(x) == xlock' = IF xlock.by = x THEN NoLock ELSE xlock

\* holdInTransaction and releaseMediaHoldsInTransaction: one reference of each media
Held(media, n) ==
  [c \in Content |-> IF \E m \in media : ContentOf(m) = c THEN [row[c] EXCEPT !.refs = @ + n]
                                                          ELSE row[c]]
MayRelease(x) == \A m \in holds[x] : HasRow(m) /\ row[ContentOf(m)].refs > 1

(***************************************************************************)
(* pauseInTransaction.  The attempts of the scheduler and their quiescence *)
(* are the subject of JobScheduler.                                        *)
(***************************************************************************)
Pause(x) ==
  /\ xop[x] = "none" /\ Project \notin closed
  /\ xlock = NoLock /\ Project \notin locked
  /\ Moves(x, "waiting_quiescence")
  /\ xlock' = [by |-> x, phase |-> "draining"]
  /\ UNCHANGED <<vars, snap, holds, staged, archive, listed, expunge, exec>>

FaultyStart(x) ==
  /\ xop[x] = "waiting_quiescence" /\ xlock = [by |-> x, phase |-> "draining"]
  /\ xlock' = [xlock EXCEPT !.phase = "snapshot"]
  /\ snap' = [snap EXCEPT ![x] = [state |-> "frozen", docs |-> Documents(Project),
                                  media |-> MediaOf(Documents(Project))]]
  /\ holds' = [holds EXCEPT ![x] = MediaOf(Documents(Project))]
  /\ Moves(x, "staging")
  /\ UNCHANGED <<vars, staged, archive, listed, expunge, exec>>
\* freezeInTransaction
Start(x) ==
  LET media == MediaOf(Documents(Project)) IN
  /\ xop[x] = "waiting_quiescence" /\ xlock = [by |-> x, phase |-> "draining"]
  /\ \A m \in media : HasRow(m)
  /\ xlock' = [xlock EXCEPT !.phase = "snapshot"]
  /\ snap' = [snap EXCEPT ![x] = [state |-> "frozen", docs |-> Documents(Project), media |-> media]]
  /\ holds' = [holds EXCEPT ![x] = media]
  /\ row' = Held(media, 1)
  /\ Moves(x, "staging")
  /\ UNCHANGED <<file, doc, up, held, closed, deletionVars, staged, archive, listed, expunge, exec>>
-----------------------------------------------------------------------------
(***************************************************************************)
(* execute, up to its first await.  What it read of the operation decides  *)
(* where it goes on; a ready one only has its copies removed.              *)
(***************************************************************************)
Executable == {"staging", "packaging", "secret_scanning", "ready"}

Execute(e, x) ==
  /\ exec[e] = NoExec /\ xop[x] \in Executable
  /\ exec' = [exec EXCEPT ![e] =
       [export |-> x, seen |-> xop[x],
        step |-> CASE xop[x] = "ready" -> "cleanup" [] xop[x] = "staging" -> "stage" [] OTHER -> "open",
        todo |-> IF xop[x] = "staging" THEN Sources(x) ELSE {}]]
  /\ snap' = IF xop[x] = "staging" THEN [snap EXCEPT ![x].state = "staging"] ELSE snap
  /\ UNCHANGED <<vars, xop, xlock, holds, staged, archive, listed, expunge>>

\* stageEntry: a copy that is there already is kept
CopyMedia(e, c) ==
  LET x == exec[e].export IN
  /\ exec[e].step = "stage" /\ c \in exec[e].todo
  /\ IF c \in staged[x] \cup file
     THEN /\ staged' = [staged EXCEPT ![x] = @ \cup {c}]
          /\ exec' = [exec EXCEPT ![e].todo = @ \ {c}]
     ELSE Step(e, "fail") /\ UNCHANGED staged
  /\ UNCHANGED <<vars, xop, xlock, snap, holds, archive, listed, expunge>>

(***************************************************************************)
(* releaseAndPackage, one transaction: it fails when another call has      *)
(* moved the operation since this one read it.                             *)
(***************************************************************************)
Package(e) ==
  LET x == exec[e].export IN
  /\ exec[e].step = "stage" /\ exec[e].todo = {}
  /\ IF xop[x] = "staging" /\ snap[x].state = "staging" /\ MayRelease(x)
     THEN /\ row' = Held(holds[x], -1)
          /\ holds' = [holds EXCEPT ![x] = {}]
          /\ snap' = [snap EXCEPT ![x].state = "released"]
          /\ ReleasesLock(x)
          /\ Moves(x, "packaging")
          /\ exec' = [exec EXCEPT ![e].step = "scan", ![e].seen = "packaging"]
     ELSE Step(e, "fail") /\ UNCHANGED <<row, holds, snap, xlock, xop>>
  /\ UNCHANGED <<file, doc, up, held, closed, deletionVars, staged, archive, listed, expunge>>

\* openStaged, for a call that found the operation beyond the staging
OpenStaged(e) ==
  LET x == exec[e].export IN
  /\ exec[e].step = "open"
  /\ Step(e, IF ~Copied(x) THEN "fail" ELSE IF exec[e].seen = "packaging" THEN "scan" ELSE "publish")
  /\ UNCHANGED <<vars, xop, xlock, snap, holds, staged, archive, listed, expunge>>

\* scanCandidate: read the copies, then record that nothing was found
Scan(e) ==
  /\ exec[e].step = "scan"
  /\ Step(e, IF Copied(exec[e].export) THEN "passed" ELSE "fail")
  /\ UNCHANGED <<vars, xop, xlock, snap, holds, staged, archive, listed, expunge>>

ScanPassed(e) ==
  LET x == exec[e].export IN
  /\ exec[e].step = "passed"
  /\ IF xop[x] = "packaging"
     THEN /\ Moves(x, "secret_scanning")
          /\ exec' = [exec EXCEPT ![e].step = "publish", ![e].seen = "secret_scanning"]
     ELSE Step(e, "fail") /\ UNCHANGED xop
  /\ UNCHANGED <<vars, xlock, snap, holds, staged, archive, listed, expunge>>

(***************************************************************************)
(* ManagedExportStore.publish: the archive is written from the copies,     *)
(* verified and linked under its name; a link that is there is accepted.   *)
(***************************************************************************)
Publish(e) ==
  LET x == exec[e].export IN
  /\ exec[e].step = "publish"
  /\ IF Copied(x) THEN archive' = archive \cup {x} /\ Step(e, "record")
                  ELSE Step(e, "fail") /\ UNCHANGED archive
  /\ UNCHANGED <<vars, xop, xlock, snap, holds, staged, listed, expunge>>

\* recordReady: its failure is not caught, nothing is undone
RecordReady(e) ==
  LET x == exec[e].export IN
  /\ exec[e].step = "record"
  /\ IF xop[x] = "secret_scanning" THEN Moves(x, "ready") /\ Step(e, "cleanup")
                                   ELSE Ends(e) /\ UNCHANGED xop
  /\ UNCHANGED <<vars, xlock, snap, holds, staged, archive, listed, expunge>>

\* cleanupStaging, which may leave the copies behind
CleanupCopies(e) ==
  LET x == exec[e].export IN
  /\ exec[e].step = "cleanup"
  /\ Ends(e)
  /\ \/ staged' = [staged EXCEPT ![x] = {}] /\ UNCHANGED faults
     \/ faults < MaxFaults /\ faults' = faults + 1 /\ UNCHANGED staged
  /\ UNCHANGED <<mediaVars, inventory, op, ledger, adv, locked, restarts,
                 xop, xlock, snap, holds, archive, listed, expunge>>
-----------------------------------------------------------------------------
\* an unreadable file, a finding of the scan, an archive that does not verify
ExecFails(e) ==
  /\ exec[e].step \in {"stage", "open", "scan", "publish"}
  /\ faults < MaxFaults /\ faults' = faults + 1
  /\ Step(e, "fail")
  /\ UNCHANGED <<mediaVars, inventory, op, ledger, adv, locked, restarts,
                 xop, xlock, snap, holds, staged, archive, listed, expunge>>

(***************************************************************************)
(* failExecution: the copies are removed, then one transaction fails the   *)
(* operation, unless it is ready or failed, and gives back what it holds.  *)
(***************************************************************************)
FailCleanup(e) ==
  /\ exec[e].step = "fail"
  /\ staged' = [staged EXCEPT ![exec[e].export] = {}]
  /\ Step(e, "failed")
  /\ UNCHANGED <<vars, xop, xlock, snap, holds, archive, listed, expunge>>

FailRecord(e) ==
  LET x == exec[e].export
      holding == snap[x].state = "staging"
  IN
  /\ exec[e].step = "failed"
  /\ Ends(e)
  /\ IF xop[x] \in {"ready", "failed", "deleted"} \/ (holding /\ ~MayRelease(x))
     THEN UNCHANGED <<row, holds, snap, xlock, xop>>
     ELSE /\ Moves(x, "failed")
          /\ ReleasesLock(x)
          /\ IF holding THEN /\ row' = Held(holds[x], -1)
                             /\ holds' = [holds EXCEPT ![x] = {}]
                             /\ snap' = [snap EXCEPT ![x].state = "failed"]
                        ELSE UNCHANGED <<row, holds, snap>>
  /\ UNCHANGED <<file, doc, up, held, closed, deletionVars, staged, archive, listed, expunge>>
-----------------------------------------------------------------------------
FaultyMayWrite(u) == TRUE
\* DomainMutationAdmission: no document of a locked project is written
MayWrite(u) == xlock = NoLock \/ ScopeOf(u) # Project

Producers == \E u \in Upload :
  /\ \/ BeginPrepare(u) \/ WriteFile(u) \/ WriteFails(u) \/ DiscardPrepared(u) \/ RemoveFile(u)
     \/ MayWrite(u) /\ CommitPrepared(u)
  /\ UNCHANGED <<deletionVars, exportVars>>

(***************************************************************************)
(* The records of the exports are documents of the project: the inventory  *)
(* lists them, its deletion is refused while the project is locked, takes  *)
(* the records away and unlinks the archives they name.                    *)
(***************************************************************************)
Inventory(s) ==
  /\ \/ CreateInventory(s)
     \/ s = Project /\ listed # xop /\ Project \notin closed /\ UNCHANGED vars
  /\ listed' = IF s = Project THEN xop ELSE listed
  /\ UNCHANGED <<xop, xlock, snap, holds, staged, archive, expunge, exec>>

Confirm(s) ==
  /\ ConfirmDeletion(s)
  /\ IF s = Project
     THEN /\ xlock = NoLock /\ listed = xop
          /\ xop' = [x \in Export |-> IF xop[x] = "none" THEN "none" ELSE "deleted"]
          /\ snap' = [x \in Export |-> NoSnapshot]
          /\ expunge' = {x \in Export : xop[x] = "ready"}
     ELSE UNCHANGED <<xop, snap, expunge>>
  /\ UNCHANGED <<xlock, holds, staged, archive, listed, exec>>

UnlinkArchive(a, x) ==
  /\ adv[a].step = "unlink" /\ adv[a].scope = Project /\ x \in expunge
  /\ archive' = archive \ {x} /\ expunge' = expunge \ {x}
  /\ UNCHANGED <<vars, xop, xlock, snap, holds, staged, listed, exec>>

Unlinked(a) == adv[a].step = "unlink" /\ adv[a].scope = Project => expunge = {}
Deletes ==
  \/ \E s \in Scope : Inventory(s) \/ Confirm(s)
  \/ \E a \in Advance, x \in Export : UnlinkArchive(a, x)
  \/ \E a \in Advance :
       /\ \/ \E m \in Media : UnlinkEntry(a, m) \/ UnlinkFails(a, m) \/ VerifyEntry(a, m)
          \/ Unlinked(a) /\ RecordOutcomes(a)
          \/ Finalize(a)
          \/ \E s \in Scope : StartAdvance(a, s)
       /\ UNCHANGED exportVars

\* copies, holds and lock outlive the process; nothing resumes an export at start
ExportRestart ==
  /\ Restart
  /\ exec' = [e \in Executor |-> NoExec]
  /\ UNCHANGED <<xop, xlock, snap, holds, staged, archive, listed, expunge>>

Executing(e) ==
  \/ \E x \in Export : Execute(e, x)
  \/ \E c \in Content : CopyMedia(e, c)
  \/ Package(e) \/ OpenStaged(e) \/ Scan(e) \/ ScanPassed(e) \/ Publish(e) \/ RecordReady(e)
  \/ CleanupCopies(e) \/ ExecFails(e) \/ FailCleanup(e) \/ FailRecord(e)

ExportNext ==
  \/ Producers \/ Deletes \/ ExportRestart
  \/ \E x \in Export : Pause(x) \/ Start(x)
  \/ \E e \in Executor : Executing(e)
ExportSpec == ExportInit /\ [][ExportNext]_allVars
-----------------------------------------------------------------------------
(***************************************************************************)
(* While a snapshot holds media, the rows count its references beside      *)
(* those of the documents and the files are there to be copied, whatever   *)
(* other owners delete, discard or collect meanwhile.                      *)
(***************************************************************************)
HoldsAreCounted ==
  /\ \A c \in Content : Indexed(c) =>
       row[c].refs = Cardinality({u \in Upload : doc[u] = row[c].id})
                     + Cardinality({x \in Export : row[c].id \in holds[x]})
  /\ \A x \in Export : \A m \in holds[x] : HasRow(m) /\ ContentOf(m) \in file

(***************************************************************************)
(* What an archive is made of is one state of the project: until every     *)
(* media is copied, no producer and no deletion changes the documents that *)
(* were frozen, and the project stays locked for exactly as long.          *)
(***************************************************************************)
SnapshotIsOneState ==
  /\ \A x \in Export : snap[x].state \in {"frozen", "staging"} =>
       Documents(Project) = snap[x].docs /\ holds[x] = snap[x].media
  /\ \A x \in Export : xlock.by = x <=> xop[x] \in {"waiting_quiescence", "staging"}
=============================================================================
