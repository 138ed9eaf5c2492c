----------------------------- MODULE BookPreview -----------------------------
(***************************************************************************)
(* From reviewed pages to a preview the customer can approve: pages        *)
(* (src/src/domain/creative/pages.ts), what a change invalidates           *)
(* (invalidation*.ts), layout jobs and the preview workflow of one project *)
(* (src/src/domain/layout/workflow*.ts, layouts.ts), preview outputs with  *)
(* their approval cycles and gates (preview-assembly.ts, approvals.ts).    *)
(*                                                                         *)
(* Every operator request carries the revision it was made for and is      *)
(* refused when that is not the current one; the actions are the requests  *)
(* that are not refused.  Layout and preview jobs read, work and commit in *)
(* separate turns, and anything may happen in between.                     *)
(*                                                                         *)
(* Text, illustration and review versions are never used again (a revert   *)
(* writes a new version), so each is named by the page revision that       *)
(* introduced it.  Composition sources, profile and typography are fixed,  *)
(* every asset stays healthy, and a layout is accepted when it is made.    *)
(***************************************************************************)
EXTENDS Integers, Sequences, FiniteSets

CONSTANTS
  Story,        \* story pages
  Special,      \* pages composed from a source: title, dedication, endings
  Choice,       \* sources an operator can choose for a special page
  MaxRevision,  \* bound: page revisions that requests of the operator reach
  MaxCover,     \* bound: cover compositions
  MaxVersion,   \* bound: book versions that changes reach
  MaxJob,       \* bound: layout jobs
  MaxWatermark, \* bound: changes of the watermark setting
  MaxPreview    \* bound: preview outputs

ASSUME PreviewBounds ==
  /\ Story \cap Special = {} /\ "automatic" \notin Choice
  /\ {MaxRevision, MaxVersion, MaxJob, MaxWatermark, MaxPreview} \subseteq Nat
  /\ MaxCover \in Nat \ {0}

VARIABLES
  page,         \* story pages
  pending,      \* per page: the input its pending layout request is for, 0 for none
  head,         \* per page: its current layout
  job,          \* layout jobs by what identifies them
  workflow,     \* the preview workflow
  pdf,          \* the preview job the workflow waits for
  output,       \* preview outputs, each with its approval cycle and gate
  project,      \* the project's heads, status and revision
  watermark     \* version of the watermark setting
previewVars == <<page, pending, head, job, workflow, pdf, output, project, watermark>>

Page == Story \cup Special
PageRecord == [rev: Nat, input: Nat, review: Nat, locked: BOOLEAN,
               stale: {"current", "stale", "locked_stale"}]
Layout == [no: Nat, input: Nat, review: Nat, source: Choice \cup {"automatic", "none"}]
NoLayout == [no |-> 0, input |-> 0, review |-> 0, source |-> "none"]
Snapshots == [Story -> [stale: {"current", "stale", "locked_stale"}, input: Nat, review: Nat]]
LayoutJob == [page: Page, rev: Nat, hash: Snapshots, source: Choice \cup {"automatic"}, request: Nat]
WorkflowStates == {"none", "layout_pending", "operator_action_required", "pdf_pending", "ready"}
Workflow == [state: WorkflowStates, hash: Snapshots \cup {<<>>}, jobs: SUBSET LayoutJob]
NoPdf == [at |-> "none", rev |-> 0, watermark |-> 0, seen |-> <<>>]
PreviewJob == [at: {"none", "queued", "prepared"}, rev: Nat, watermark: Nat,
               seen: [revs: [Story -> Nat], layouts: [Page -> Layout]] \cup {<<>>}]
Cycles == {"ready_to_send", "preview_sent", "approved", "changes_requested", "invalidated"}
Output == [layouts: [Page -> Layout], revs: [Story -> Nat], cover: 1..MaxCover, version: Nat,
           status: {"ready", "cosmetic", "stale"}, cycle: Cycles,
           gate: {"waiting_review", "succeeded", "canceled"}]
Statuses == {"internal_review", "preview_ready", "awaiting_customer_approval", "revising",
             "approved", "print_ready"}
Heads == [status: Statuses, approval: 0..Len(output), preview: 0..Len(output),
          cover: 0..MaxCover, version: Nat, rev: Nat]

PreviewTypeOK ==
  /\ page \in [Story -> PageRecord]
  /\ pending \in [Story -> Nat]
  /\ head \in [Page -> Layout]
  /\ DOMAIN job \subseteq LayoutJob
  /\ job \in [DOMAIN job -> {"queued", "prepared", "done", "failed"}]
  /\ workflow \in Workflow /\ workflow.jobs \subseteq DOMAIN job
  /\ workflow.state # "none" => workflow.hash \in Snapshots
  /\ pdf \in PreviewJob
  /\ output \in Seq(Output)
  /\ project \in Heads
  /\ watermark \in 0..MaxWatermark

\* story pages are reviewed and locked; their internal review can be completed
PreviewInit ==
  /\ page = [p \in Story |->
       [rev |-> 3, input |-> 1, review |-> 2, locked |-> TRUE, stale |-> "current"]]
  /\ pending = [p \in Story |-> 0]
  /\ head = [p \in Page |-> NoLayout]
  /\ job = <<>>
  /\ workflow = [state |-> "none", hash |-> <<>>, jobs |-> {}]
  /\ pdf = NoPdf
  /\ output = <<>>
  /\ project = [status |-> "internal_review", approval |-> 0, preview |-> 0,
                cover |-> 0, version |-> 0, rev |-> 0]
  /\ watermark = 0
-----------------------------------------------------------------------------
(***************************************************************************)
(* What a change makes stale.  The rows of the matrix used here: IM-07     *)
(* text, IM-10 illustration, IM-11 layout request, IM-12 composition or    *)
(* cover; all of them invalidate the current preview, its cycle and the    *)
(* approved one, and every print run, in the transaction of the change.    *)
(* IM-19, the watermark, leaves approval and print alone.                  *)
(***************************************************************************)
FaultyGateAfterStale(o) == o.gate
\* stalePreview: the gate of a cycle that is not approved stops waiting
GateAfterStale(o) ==
  IF o.cycle # "approved" /\ o.gate = "waiting_review" THEN "canceled" ELSE o.gate

\* resolveLayoutArtifacts: the cycle of the current preview and the approved one
InvalidatedCycles == {project.preview, project.approval}

InvalidatedOutput ==
  [i \in DOMAIN output |->
    [output[i] EXCEPT
       !.status = IF i = project.preview THEN "stale" ELSE @,
       !.gate = IF i = project.preview THEN GateAfterStale(output[i]) ELSE @,
       !.cycle = IF i \in InvalidatedCycles THEN "invalidated" ELSE @]]

FaultyWithdrawn(pr) ==
  IF pr.approval \in {0, pr.preview} THEN [pr EXCEPT !.approval = 0, !.status = "revising"] ELSE pr
\* clearContentAuthorization, on the project pr that the change left
Withdrawn(pr) ==
  IF pr.approval = 0 THEN pr
  ELSE [pr EXCEPT !.approval = 0, !.status = "revising", !.rev = @ + 1]

\* setProjectPrintState of a run that is no longer deliverable
PrintStatus(pr) == IF pr.approval # 0 THEN "approved" ELSE "revising"
Unprinted(pr) ==
  IF pr.status = PrintStatus(pr) THEN pr ELSE [pr EXCEPT !.status = PrintStatus(pr), !.rev = @ + 1]

(***************************************************************************)
(* consumeResolved: preview, approval and pages first, then the print      *)
(* participant if it finds runs to make stale (printing), then the book    *)
(* version.                                                                *)
(***************************************************************************)
Changed(pr, printing) ==
  LET after == IF printing THEN Unprinted(Withdrawn(pr)) ELSE Withdrawn(pr)
  IN [after EXCEPT !.version = @ + 1, !.rev = @ + 1]

Invalidate(printing) ==
  /\ output' = InvalidatedOutput
  /\ project' = Changed(project, printing)
-----------------------------------------------------------------------------
(***************************************************************************)
(* Pages.  A new text or illustration awaits review again; a text that     *)
(* already has a layout leaves the page stale (IM-07), an illustration is  *)
(* only flagged (IM-10), which unreviewed already says.                    *)
(***************************************************************************)
HasLayout(p) == head[p].no > 0
Approved(p) == page[p].review # 0
Revised(p, record) == page' = [page EXCEPT ![p] = [record EXCEPT !.rev = page[p].rev + 1]]
MayRevise(p) == page[p].rev < MaxRevision

EditPage(p, text, printing) ==
  /\ MayRevise(p) /\ ~page[p].locked
  /\ Revised(p, [page[p] EXCEPT !.input = page[p].rev + 1, !.review = 0,
                                !.stale = IF text /\ HasLayout(p) THEN "stale" ELSE @])
  /\ Invalidate(printing)
  /\ UNCHANGED <<pending, head, job, workflow, pdf, watermark>>

\* recordReview: locked pages can be reviewed again
ReviewPage(p) ==
  /\ MayRevise(p) /\ page[p].stale = "current"
  /\ Revised(p, [page[p] EXCEPT !.review = page[p].rev + 1])
  /\ UNCHANGED <<pending, head, job, workflow, pdf, output, project, watermark>>

LockPage(p) ==
  /\ MayRevise(p) /\ Approved(p) /\ page[p].stale = "current" /\ ~page[p].locked
  /\ Revised(p, [page[p] EXCEPT !.locked = TRUE])
  /\ UNCHANGED <<pending, head, job, workflow, pdf, output, project, watermark>>

UnlockPage(p) ==
  /\ MayRevise(p) /\ page[p].locked
  /\ Revised(p, [page[p] EXCEPT !.locked = FALSE,
                                !.stale = IF @ = "locked_stale" THEN "stale" ELSE @])
  /\ UNCHANGED <<pending, head, job, workflow, pdf, output, project, watermark>>
-----------------------------------------------------------------------------
(***************************************************************************)
(* Readiness of the layouts, given the layout heads h and requests q.      *)
(***************************************************************************)
InputHash == [p \in Story |-> [stale |-> page[p].stale, input |-> page[p].input,
                               review |-> page[p].review]]
InputBlocked(p) == p \in Story /\ (page[p].stale # "current" \/ ~page[p].locked \/ ~Approved(p))

\* currentLayoutMatches; a special page keeps any layout while sources are fixed
Matches(p, h, q) ==
  /\ h[p].no > 0
  /\ p \in Story => /\ q[p] = 0
                    /\ h[p].input = page[p].input /\ h[p].review = page[p].review

\* a layout that does not match can only be replaced on an unlocked page
Blocked(h, q) ==
  \E p \in Page : InputBlocked(p) \/ (p \in Story /\ h[p].no > 0 /\ ~Matches(p, h, q))
NeedsJob(h, q) == {p \in Page : ~Matches(p, h, q)}

JobFor(p, source) ==
  [page |-> p, source |-> source, hash |-> InputHash,
   rev |-> IF p \in Story THEN page[p].rev ELSE 0,
   request |-> IF p \in Story THEN pending[p] ELSE 0]
\* identical inputs name the job there is already, whatever became of it
Enqueue(js) ==
  /\ job' = [j \in DOMAIN job \cup js |-> IF j \in DOMAIN job THEN job[j] ELSE "queued"]
  /\ Cardinality(DOMAIN job \cup js) <= MaxJob

\* materializePreviewJob on project pr, after ensureCover gave it a cover
Covered(pr) ==
  IF pr.cover # 0 THEN pr ELSE [pr EXCEPT !.cover = 1, !.version = @ + 1, !.rev = @ + 1]
QueuePreview(pr, jobs) ==
  /\ project' = Covered(pr)
  /\ workflow' = [state |-> "pdf_pending", hash |-> InputHash, jobs |-> jobs]
  /\ pdf' = [NoPdf EXCEPT !.at = "queued", !.rev = Covered(pr).rev, !.watermark = watermark]

StopWorkflow(pr) ==
  /\ workflow' = [state |-> "operator_action_required", hash |-> InputHash, jobs |-> {}]
  /\ pdf' = NoPdf /\ project' = pr

\* restartWorkflowInTransaction, and start when there is no workflow yet
RestartWorkflow(pr) ==
  LET jobs == {JobFor(p, "automatic") : p \in NeedsJob(head, pending)} IN
  IF Blocked(head, pending) THEN StopWorkflow(pr) /\ UNCHANGED job
  ELSE IF jobs = {} THEN QueuePreview(pr, {}) /\ UNCHANGED job
  ELSE /\ Enqueue(jobs)
       /\ workflow' = [state |-> "layout_pending", hash |-> InputHash, jobs |-> jobs]
       /\ pdf' = NoPdf /\ project' = pr

\* completeInternalReview starts the workflow once every story page is approved
CompleteInternalReview ==
  /\ workflow.state = "none"
  /\ \A p \in Story : Approved(p) /\ page[p].stale = "current"
  /\ RestartWorkflow(project)
  /\ UNCHANGED <<page, pending, head, output, watermark>>

Regenerate ==
  /\ workflow.state # "none"
  /\ RestartWorkflow(project)
  /\ UNCHANGED <<page, pending, head, output, watermark>>

(***************************************************************************)
(* The recalculate route: the request, IM-11 and start.  The page is       *)
(* unlocked, so start finds it blocked.  One request at a time is a bound. *)
(***************************************************************************)
RequestLayout(p, printing) ==
  /\ ~page[p].locked /\ page[p].stale = "current" /\ pending[p] = 0
  /\ pending' = [pending EXCEPT ![p] = page[p].input]
  /\ output' = InvalidatedOutput
  /\ StopWorkflow(Changed(project, printing))
  /\ UNCHANGED <<page, head, job, watermark>>

\* changeSpecialCompositionSource
ChooseSource(p, source, printing) ==
  LET chosen == [JobFor(p, source) EXCEPT !.hash = workflow.hash] IN
  /\ workflow.state # "none"
  /\ Enqueue({chosen})
  /\ workflow' = [workflow EXCEPT !.state = "layout_pending", !.jobs = {chosen}]
  /\ pdf' = NoPdf
  /\ Invalidate(printing)
  /\ UNCHANGED <<page, pending, head, watermark>>

\* changeCoverComposition
ChangeCover(printing) ==
  /\ workflow.state # "none" /\ project.cover \in 1..(MaxCover - 1)
  /\ output' = InvalidatedOutput
  /\ RestartWorkflow(Changed([project EXCEPT !.cover = @ + 1, !.rev = @ + 1], printing))
  /\ UNCHANGED <<page, pending, head, watermark>>
-----------------------------------------------------------------------------
(***************************************************************************)
(* A layout job.  layoutJobSource checks the workflow and the page when    *)
(* the job starts to work; its commit checks the page again.               *)
(***************************************************************************)
PageUnchanged(j) == j.page \in Story => page[j.page].rev = j.rev

PrepareLayout(j) ==
  /\ job[j] = "queued"
  /\ job' = [job EXCEPT ![j] = IF PageUnchanged(j) /\ workflow.hash = j.hash
                               THEN "prepared" ELSE "failed"]
  /\ UNCHANGED <<page, pending, head, workflow, pdf, output, project, watermark>>

\* LAYOUT_LOCKED_REPLACEMENT; special pages are never locked
Replaceable(p) == p \in Story => ~(HasLayout(p) /\ page[p].locked)

MayCommitLayout(j) ==
  LET p == j.page IN
  /\ PageUnchanged(j) /\ Replaceable(p)
  /\ p \in Story => /\ page[p].stale = "current" /\ Approved(p)
                    /\ j.request # 0 => j.request = pending[p] /\ j.request = page[p].input
  \* advance refuses a workflow that waits for other inputs
  /\ workflow.state \in {"ready", "pdf_pending"} \/ workflow.hash = InputHash

LayoutOf(j) ==
  [no |-> head[j.page].no + 1, source |-> j.source,
   input |-> IF j.page \in Story THEN j.hash[j.page].input ELSE 0,
   review |-> IF j.page \in Story THEN j.hash[j.page].review ELSE 0]

\* advanceInTransaction with the layout heads h and requests q of this commit
Advance(h, q) ==
  IF workflow.state \in {"ready", "pdf_pending"} \/ (~Blocked(h, q) /\ NeedsJob(h, q) # {})
  THEN UNCHANGED <<workflow, pdf, project>>
  ELSE IF Blocked(h, q)
  THEN /\ workflow' = [workflow EXCEPT !.state = "operator_action_required"]
       /\ UNCHANGED <<pdf, project>>
  ELSE QueuePreview(project, workflow.jobs)

CommitLayout(j) ==
  /\ job[j] = "prepared"
  /\ IF MayCommitLayout(j)
     THEN /\ head' = [head EXCEPT ![j.page] = LayoutOf(j)]
          /\ pending' = IF j.request = 0 THEN pending ELSE [pending EXCEPT ![j.page] = 0]
          /\ job' = [job EXCEPT ![j] = "done"]
          /\ Advance(head', pending')
     ELSE /\ job' = [job EXCEPT ![j] = "failed"]
          /\ UNCHANGED <<head, pending, workflow, pdf, project>>
  /\ UNCHANGED <<page, output, watermark>>
-----------------------------------------------------------------------------
(***************************************************************************)
(* The preview job: it waits for the layout jobs of its workflow, reads a  *)
(* snapshot, renders, and commits only if the snapshot reads the same.     *)
(***************************************************************************)
Seen == [revs |-> [p \in Story |-> page[p].rev], layouts |-> head]
PreviewReadable ==
  /\ pdf.rev = project.rev /\ pdf.watermark = watermark
  /\ workflow.hash = InputHash /\ ~Blocked(head, pending) /\ NeedsJob(head, pending) = {}

PreparePreview ==
  /\ pdf.at = "queued" /\ \A j \in workflow.jobs : job[j] = "done"
  /\ pdf' = IF PreviewReadable THEN [pdf EXCEPT !.at = "prepared", !.seen = Seen] ELSE NoPdf
  /\ UNCHANGED <<page, pending, head, job, workflow, output, project, watermark>>

(***************************************************************************)
(* createCustomerContentHash: the interior pages with their layouts and    *)
(* observed revisions, and the cover.                                      *)
(***************************************************************************)
ContentHash(o) == [layouts |-> o.layouts, revs |-> o.revs, cover |-> o.cover]
NewOutput ==
  [layouts |-> head, revs |-> Seen.revs, cover |-> project.cover, version |-> project.version,
   status |-> "ready", cycle |-> "ready_to_send", gate |-> "waiting_review"]

\* advanceHeads: the same content keeps the approved status
SameAsApproved ==
  /\ project.approval # 0
  /\ output[project.approval].cycle = "approved"
  /\ ContentHash(output[project.approval]) = ContentHash(NewOutput)
PreviewedProject ==
  [project EXCEPT !.preview = Len(output) + 1, !.rev = @ + 1,
                  !.status = IF SameAsApproved THEN @ ELSE "preview_ready"]

CommitPreview ==
  /\ pdf.at = "prepared" /\ Len(output) < MaxPreview
  /\ pdf' = NoPdf
  /\ IF PreviewReadable /\ pdf.seen = Seen
     THEN /\ output' = Append(output, NewOutput)
          /\ workflow' = [workflow EXCEPT !.state = "ready"]
          /\ project' = PreviewedProject
     ELSE UNCHANGED <<output, workflow, project>>
  /\ UNCHANGED <<page, pending, head, job, watermark>>
-----------------------------------------------------------------------------
(***************************************************************************)
(* Decisions about the current preview.                                    *)
(***************************************************************************)
\* approvalTargetIsCurrent
Decidable(i) ==
  /\ i # 0 /\ i = project.preview
  /\ output[i].status = "ready" /\ output[i].gate = "waiting_review"
  /\ output[i].cover = project.cover

SendPreview ==
  LET i == project.preview IN
  /\ Decidable(i) /\ output[i].cycle = "ready_to_send"
  /\ output' = [output EXCEPT ![i].cycle = "preview_sent"]
  /\ project' = [project EXCEPT !.rev = @ + 1,
       !.status = IF project.approval # 0 THEN @ ELSE "awaiting_customer_approval"]
  /\ UNCHANGED <<page, pending, head, job, workflow, pdf, watermark>>

ApprovePreview ==
  LET i == project.preview IN
  /\ Decidable(i) /\ output[i].cycle = "preview_sent"
  /\ output' = [output EXCEPT ![i].cycle = "approved", ![i].gate = "succeeded"]
  /\ project' = [project EXCEPT !.rev = @ + 1, !.status = "approved", !.approval = i]
  /\ UNCHANGED <<page, pending, head, job, workflow, pdf, watermark>>

\* invalidatePriorSameContent
SupersededApproval(i) ==
  {k \in {project.approval} \ {0, i} : ContentHash(output[k]) = ContentHash(output[i])}

RequestChanges ==
  LET i == project.preview IN
  /\ Decidable(i) /\ output[i].cycle = "preview_sent"
  /\ output' = [k \in DOMAIN output |->
       IF k = i THEN [output[k] EXCEPT !.cycle = "changes_requested", !.gate = "canceled"]
       ELSE IF k \in SupersededApproval(i) THEN [output[k] EXCEPT !.cycle = "invalidated"]
       ELSE output[k]]
  /\ project' = [project EXCEPT !.rev = @ + 1, !.status = "revising", !.approval = 0]
  /\ UNCHANGED <<page, pending, head, job, workflow, pdf, watermark>>

\* settings change: IM-19 for the current preview
ChangeWatermark ==
  LET i == project.preview IN
  /\ watermark < MaxWatermark /\ watermark' = watermark + 1
  /\ output' = [k \in DOMAIN output |-> IF k # i THEN output[k] ELSE
       [output[k] EXCEPT !.status = IF @ = "stale" THEN @ ELSE "cosmetic",
                         !.gate = GateAfterStale(output[k])]]
  /\ UNCHANGED <<page, pending, head, job, workflow, pdf, project>>

\* prepared work is lost with the process and its jobs are claimed again
PreviewRestart ==
  /\ job' = [j \in DOMAIN job |-> IF job[j] = "prepared" THEN "queued" ELSE job[j]]
  /\ pdf' = IF pdf.at = "prepared" THEN [pdf EXCEPT !.at = "queued", !.seen = <<>>] ELSE pdf
  /\ UNCHANGED <<page, pending, head, workflow, output, project, watermark>>

\* the actions without an effect on print
Preview ==
  \/ \E p \in Story : ReviewPage(p) \/ LockPage(p) \/ UnlockPage(p)
  \/ CompleteInternalReview \/ Regenerate
  \/ \E j \in DOMAIN job : PrepareLayout(j) \/ CommitLayout(j)
  \/ PreparePreview \/ CommitPreview
  \/ SendPreview \/ ApprovePreview \/ RequestChanges \/ ChangeWatermark

\* the changes that invalidate what was previewed, approved and printed
Change(printing) ==
  /\ project.version < MaxVersion
  /\ \/ \E p \in Story, text \in BOOLEAN : EditPage(p, text, printing)
     \/ \E p \in Story : RequestLayout(p, printing)
     \/ \E p \in Special, source \in Choice : ChooseSource(p, source, printing)
     \/ ChangeCover(printing)
-----------------------------------------------------------------------------
\* what the customer saw in output i is what the book is
Covers(i) ==
  /\ output[i].cover = project.cover /\ output[i].version = project.version
  /\ \A p \in Story : page[p].stale = "current" /\ output[i].layouts[p].input = page[p].input

(***************************************************************************)
(* While a book is approved, its cycle and gate say so, and every story    *)
(* page and the cover are what the customer saw: whatever invalidates them *)
(* withdraws the approval, also when a later preview is the current one.   *)
(***************************************************************************)
ApprovalCoversContent ==
  LET i == project.approval IN
  i # 0 => output[i].cycle = "approved" /\ output[i].gate = "succeeded" /\ Covers(i)

(***************************************************************************)
(* The customer is never asked about a preview that a change or a new      *)
(* watermark made stale: its gate stopped waiting in the same transaction. *)
(***************************************************************************)
StaleGatesAreCanceled ==
  \A i \in DOMAIN output : output[i].gate = "waiting_review" => output[i].status = "ready"
=============================================================================
