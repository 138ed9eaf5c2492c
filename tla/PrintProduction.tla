--------------------------- MODULE PrintProduction ---------------------------
(***************************************************************************)
(* Print production of an approved book (src/src/domain/print) over the    *)
(* preview workflow: runs that two producers, a preflight and, for CMYK, a *)
(* proof bring to deliverable files, what makes them stale, and the        *)
(* download.  Starting a run, every producer and the download read the     *)
(* approved book, await, and check again in a transaction.                 *)
(***************************************************************************)
EXTENDS BookPreview

CONSTANTS
  Kind,         \* kinds of producers: one for the interior, one for the cover
  Clerk,        \* requests that start runs, possibly two of them at a time
  Mode,         \* colour mode of each profile version
  MaxRun        \* bound: print runs

ASSUME PrintBounds ==
  /\ Mode \in Seq({"rgb", "cmyk"}) /\ Mode # <<>> /\ MaxRun \in Nat

VARIABLES
  profile,      \* current version of the assigned printer profile
  run,          \* print runs
  ticket,       \* per clerk: the start request between its two transactions
  download      \* the download: the run it observed, or what it serves
printVars == <<profile, run, ticket, download>>
vars == <<previewVars, printVars>>

JobStages == {"none", "queued", "rendered", "done", "ended"}
RunStates == {"queued", "producing", "preflight_pending", "converted_proof_pending",
              "deliverable", "blocked", "rejected", "stale"}
PrintRun == [approval: Nat, profile: Nat, rev: Nat, state: RunStates, made: [Kind -> JobStages],
             preflight: JobStages, report: {"none", "passed", "failed"},
             gate: {"none", "waiting_review", "succeeded", "canceled"}]
NoTicket == [at |-> "idle", approval |-> 0, rev |-> 0, profile |-> 0]
NoDownload == [at |-> "idle", run |-> 0]

TypeOK ==
  /\ PreviewTypeOK
  /\ profile \in 1..Len(Mode)
  /\ run \in Seq(PrintRun) /\ Len(run) <= MaxRun
  /\ \A r \in DOMAIN run : run[r].approval \in 1..Len(output) /\ run[r].profile \in 1..profile
  /\ ticket \in [Clerk -> [at: {"idle", "reading"}, approval: 0..Len(output),
                           rev: Nat, profile: 0..profile]]
  /\ download \in [at: {"idle", "reading", "serving"}, run: 0..Len(run)]

Init ==
  /\ PreviewInit
  /\ profile = 1 /\ run = <<>>
  /\ ticket = [c \in Clerk |-> NoTicket] /\ download = NoDownload
-----------------------------------------------------------------------------
(***************************************************************************)
(* PrintInvalidationParticipant: every run that is not stale or rejected   *)
(* becomes stale; its jobs are canceled, its artifacts and report dropped, *)
(* its proof gate stops waiting.                                           *)
(***************************************************************************)
Affected(r) == run[r].state \notin {"stale", "rejected"}
Printing == \E r \in DOMAIN run : Affected(r)

FaultyStaled(record) == [record EXCEPT !.state = "stale"]
Staled(record) ==
  [record EXCEPT !.state = "stale", !.made = [k \in Kind |-> "ended"],
                 !.preflight = "ended", !.report = "none",
                 !.gate = IF @ = "waiting_review" THEN "canceled" ELSE @]
StaleRuns == run' = [r \in DOMAIN run |-> IF Affected(r) THEN Staled(run[r]) ELSE run[r]]

ChangeBook == Change(Printing) /\ StaleRuns /\ UNCHANGED <<profile, ticket, download>>

\* update of the profile or assignment of another one: IM-14
ChangeProfile(assign) ==
  LET assigned == IF assign THEN [project EXCEPT !.rev = @ + 1] ELSE project IN
  /\ profile < Len(Mode) /\ profile' = profile + 1
  /\ StaleRuns
  /\ project' = IF Printing THEN Unprinted(assigned) ELSE assigned
  /\ UNCHANGED <<page, pending, head, job, workflow, pdf, output, watermark, ticket, download>>
-----------------------------------------------------------------------------
\* ApprovedBookSnapshotReader: the approval, and a current preview of its content
Readable(i) ==
  /\ i # 0 /\ i = project.approval
  /\ output[i].cycle = "approved" /\ output[i].gate = "succeeded"
  /\ ContentHash(output[project.preview]) = ContentHash(output[i])

\* assertSnapshotCurrent: only rows that leave the approval may have come
Current(i) ==
  /\ i = project.approval
  /\ output[i].cycle = "approved" /\ output[i].gate = "succeeded"
  /\ output[i].status # "stale" /\ output[i].version = project.version

\* assertRunCurrent
RunCurrent(r) == run[r].profile = profile /\ Current(run[r].approval)

\* PrintProductionWorkflow.guardRun
Guarded(r) ==
  /\ run[r].state \notin {"stale", "blocked", "rejected"}
  /\ RunCurrent(r) /\ Readable(run[r].approval)

(***************************************************************************)
(* start: a request that a run already answers ends at once; others read   *)
(* the approved book and await the check of its assets.                    *)
(***************************************************************************)
Requested(rev, version) == \E r \in DOMAIN run : run[r].rev = rev /\ run[r].profile = version

BeginStart(c) ==
  /\ ticket[c] = NoTicket
  /\ Readable(project.approval) /\ ~Requested(project.rev, profile)
  /\ ticket' = [ticket EXCEPT ![c] = [at |-> "reading", approval |-> project.approval,
                                      rev |-> project.rev, profile |-> profile]]
  /\ UNCHANGED <<previewVars, profile, run, download>>

NewRun(t) ==
  [approval |-> t.approval, profile |-> t.profile, rev |-> t.rev, state |-> "queued",
   made |-> [k \in Kind |-> "queued"], preflight |-> "none", report |-> "none", gate |-> "none"]

Unanswered(t) == ~Requested(t.rev, t.profile)

\* materializeInTransaction
EndStart(c) ==
  LET t == ticket[c] IN
  /\ t.at = "reading" /\ Len(run) < MaxRun
  /\ ticket' = [ticket EXCEPT ![c] = NoTicket]
  /\ run' = IF /\ Unanswered(t)
               /\ project.rev = t.rev /\ profile = t.profile /\ Current(t.approval)
            THEN Append(run, NewRun(t)) ELSE run
  /\ UNCHANGED <<previewVars, profile, download>>
-----------------------------------------------------------------------------
\* a producer renders and checks the run before it gives its result
Render(r, k) ==
  /\ run[r].made[k] = "queued"
  /\ run' = [run EXCEPT ![r].made[k] = IF Guarded(r) THEN "rendered" ELSE "ended"]
  /\ UNCHANGED <<previewVars, profile, ticket, download>>

(***************************************************************************)
(* commitArtifact: the second artifact queues the preflight.               *)
(***************************************************************************)
WithArtifact(record, k) ==
  LET made == [record.made EXCEPT ![k] = "done"]
      both == \A other \in Kind : made[other] = "done"
  IN [record EXCEPT !.made = made,
                    !.state = IF both THEN "preflight_pending" ELSE "producing",
                    !.preflight = IF both THEN "queued" ELSE @]

CommitArtifact(r, k) ==
  /\ run[r].made[k] = "rendered"
  /\ run' = [run EXCEPT ![r] =
       IF run[r].state \in {"queued", "producing"} /\ RunCurrent(r)
       THEN WithArtifact(run[r], k) ELSE [run[r] EXCEPT !.made[k] = "ended"]]
  /\ UNCHANGED <<previewVars, profile, ticket, download>>

RunPreflight(r) ==
  /\ run[r].preflight = "queued"
  /\ run' = [run EXCEPT ![r].preflight =
       IF Guarded(r) /\ run[r].state = "preflight_pending" THEN "rendered" ELSE "ended"]
  /\ UNCHANGED <<previewVars, profile, ticket, download>>

(***************************************************************************)
(* commitPreflight: a passed RGB run is deliverable, a CMYK run waits for  *)
(* the approval of its converted proof.                                    *)
(***************************************************************************)
WithReport(record, passed) ==
  LET cmyk == Mode[record.profile] = "cmyk" IN
  [record EXCEPT !.preflight = "done", !.report = IF passed THEN "passed" ELSE "failed",
     !.gate = IF passed /\ cmyk THEN "waiting_review" ELSE "none",
     !.state = IF ~passed THEN "blocked" ELSE IF cmyk THEN "converted_proof_pending"
               ELSE "deliverable"]

\* markProjectPrintReady
ReadyIf(ready) ==
  project' = IF ready THEN [project EXCEPT !.status = "print_ready", !.rev = @ + 1] ELSE project

MayReport(r) == run[r].state = "preflight_pending" /\ RunCurrent(r)

CommitPreflight(r, passed) ==
  /\ run[r].preflight = "rendered"
  /\ run' = [run EXCEPT ![r] = IF MayReport(r) THEN WithReport(run[r], passed)
                               ELSE [run[r] EXCEPT !.preflight = "ended"]]
  /\ ReadyIf(run'[r].state = "deliverable")
  /\ UNCHANGED <<page, pending, head, job, workflow, pdf, output, watermark,
                 profile, ticket, download>>

\* ConvertedProofService.act
DecideProof(r, approve) ==
  /\ run[r].state = "converted_proof_pending" /\ run[r].gate = "waiting_review"
  /\ RunCurrent(r)
  /\ run' = [run EXCEPT ![r].gate = IF approve THEN "succeeded" ELSE "canceled",
                        ![r].state = IF approve THEN "deliverable" ELSE "rejected"]
  /\ ReadyIf(approve)
  /\ UNCHANGED <<page, pending, head, job, workflow, pdf, output, watermark,
                 profile, ticket, download>>
-----------------------------------------------------------------------------
(***************************************************************************)
(* The download of an artifact: the run is observed deliverable and the    *)
(* approved book read; after the await the guard runs, and the file of the *)
(* observed run is read.                                                   *)
(***************************************************************************)
ObserveRun(r) ==
  /\ download = NoDownload
  /\ run[r].state = "deliverable" /\ Readable(project.approval)
  /\ download' = [at |-> "reading", run |-> r]
  /\ UNCHANGED <<previewVars, profile, run, ticket>>

FaultyMayServe(r) == TRUE
MayServe(r) == run[r].state \notin {"stale", "blocked", "rejected"} /\ RunCurrent(r)

ServeFile ==
  /\ download.at = "reading"
  /\ download' = IF MayServe(download.run) THEN [download EXCEPT !.at = "serving"] ELSE NoDownload
  /\ UNCHANGED <<previewVars, profile, run, ticket>>

EndDownload ==
  /\ download.at = "serving"
  /\ download' = NoDownload
  /\ UNCHANGED <<previewVars, profile, run, ticket>>

\* requests are lost with the process, jobs render again
Restart ==
  /\ PreviewRestart
  /\ run' = [r \in DOMAIN run |-> [run[r] EXCEPT
       !.made = [k \in Kind |-> IF @[k] = "rendered" THEN "queued" ELSE @[k]],
       !.preflight = IF @ = "rendered" THEN "queued" ELSE @]]
  /\ ticket' = [c \in Clerk |-> NoTicket] /\ download' = NoDownload
  /\ UNCHANGED profile

Produce(r) ==
  \/ \E k \in Kind : Render(r, k) \/ CommitArtifact(r, k)
  \/ RunPreflight(r) \/ \E passed \in BOOLEAN : CommitPreflight(r, passed)
  \/ \E approve \in BOOLEAN : DecideProof(r, approve)

Production ==
  \/ \E assign \in BOOLEAN : ChangeProfile(assign)
  \/ \E c \in Clerk : BeginStart(c) \/ EndStart(c)
  \/ \E r \in DOMAIN run : Produce(r) \/ ObserveRun(r)
  \/ ServeFile \/ EndDownload

Next ==
  \/ Preview /\ UNCHANGED printVars
  \/ ChangeBook \/ Production \/ Restart
Spec == Init /\ [][Next]_vars
-----------------------------------------------------------------------------
(***************************************************************************)
(* A stale run is inert: no producer, preflight, decision or restart that  *)
(* was under way when it became stale gives it anything back.              *)
(***************************************************************************)
StaleRunIsInert ==
  [][ \A r \in DOMAIN run : run[r].state = "stale" =>
        run'[r].state = "stale" /\ run'[r].report = "none" /\ run'[r].gate # "waiting_review"
        /\ \A k \in Kind : run'[r].made[k] = "ended" ]_vars

(***************************************************************************)
(* A run becomes deliverable, and a file is served, only while the content *)
(* that was approved is the content there is: the detailed model           *)
(* implements BookAuthorization.                                           *)
(***************************************************************************)
BookContent == [inputs |-> [p \in Story |-> page[p].input], cover |-> project.cover]
Released == {r \in DOMAIN run : run[r].state = "deliverable"}
Serving == IF download.at = "serving" THEN download.run ELSE 0
Authorization == INSTANCE BookAuthorization WITH
  Content <- [inputs: [Story -> Nat], cover: 0..MaxCover],
  Run <- 1..MaxRun,
  None <- 0,
  content <- BookContent,
  approved <- project.approval # 0,
  released <- Released,
  serving <- Serving
ImplementsAuthorization == Authorization!Spec

=============================================================================
