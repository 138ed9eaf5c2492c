------------------------ MODULE PrintProductionProofs ------------------------
(***************************************************************************)
(* Theorems about BookPreview and PrintProduction, for all books, modes,   *)
(* clerks and bounds, with their proofs: what approval covers, what a      *)
(* stale run may still do, and that the model implements                   *)
(* BookAuthorization.  First the invariant of what was previewed and       *)
(* approved, which every step of the preview keeps.                        *)
(***************************************************************************)
EXTENDS PrintProduction, SequenceTheorems, TLAPS

\* inputs are named by revisions, so a new input is a new name
InputsAreOld == \A p \in Story : page[p].input <= page[p].rev

\* nothing is rendered of a book that has no cover
CoverComesFirst == project.cover = 0 => output = <<>> /\ pdf.at = "none"

\* the current preview, unless a change made it stale, shows the book as it is
PreviewCoversContent ==
  project.preview # 0 /\ output[project.preview].status # "stale" => Covers(project.preview)

\* an approved cycle went through its gate, and no change takes the gate back
ApprovedPassedGate ==
  \A i \in DOMAIN output : output[i].cycle = "approved" => output[i].gate = "succeeded"

Authorized == PreviewCoversContent /\ ApprovalCoversContent
Gated == ApprovedPassedGate /\ StaleGatesAreCanceled
BookInv == PreviewTypeOK /\ InputsAreOld /\ CoverComesFirst /\ Authorized /\ Gated

-----------------------------------------------------------------------------
(***************************************************************************)
(* What the operators of a change return.                                  *)
(***************************************************************************)
LEMMA OutputType ==
  ASSUME PreviewTypeOK, NEW i \in DOMAIN output
  PROVE  output[i] \in Output /\ DOMAIN output = 1..Len(output) /\ Len(output) \in Nat
  BY ElementOfSeq DEF PreviewTypeOK

LEMMA InvalidatedType ==
  ASSUME PreviewTypeOK
  PROVE  /\ InvalidatedOutput \in Seq(Output)
         /\ Len(InvalidatedOutput) = Len(output) /\ DOMAIN InvalidatedOutput = DOMAIN output
         /\ \A i \in DOMAIN output :
              /\ InvalidatedOutput[i].cycle \in {output[i].cycle, "invalidated"}
              /\ i = project.preview =>
                   /\ InvalidatedOutput[i].status = "stale"
                   /\ InvalidatedOutput[i].gate = GateAfterStale(output[i])
              /\ i # project.preview =>
                   /\ InvalidatedOutput[i].status = output[i].status
                   /\ InvalidatedOutput[i].gate = output[i].gate
  <1> DEFINE after(i) == [output[i] EXCEPT
       !.status = IF i = project.preview THEN "stale" ELSE @,
       !.gate = IF i = project.preview THEN GateAfterStale(output[i]) ELSE @,
       !.cycle = IF i \in InvalidatedCycles THEN "invalidated" ELSE @]
  <1>1. ASSUME NEW i \in DOMAIN output
        PROVE  /\ after(i) \in Output
               /\ after(i).cycle \in {output[i].cycle, "invalidated"}
               /\ i = project.preview => after(i).status = "stale" /\ after(i).gate = GateAfterStale(output[i])
               /\ i # project.preview => after(i).status = output[i].status /\ after(i).gate = output[i].gate
    <2>1. output[i] \in Output
      BY OutputType
    <2>2. GateAfterStale(output[i]) \in {"waiting_review", "succeeded", "canceled"}
      BY <2>1 DEF GateAfterStale, Output
    <2> QED
      BY <2>1, <2>2 DEF Output, Cycles
  <1>2. InvalidatedOutput = [i \in DOMAIN output |-> after(i)]
    BY DEF InvalidatedOutput
  <1>3. output \in Seq(Output) /\ DOMAIN output = 1..Len(output) /\ Len(output) \in Nat
    BY DEF PreviewTypeOK
  <1> HIDE DEF after
  <1> QED
    BY <1>1, <1>2, <1>3

\* withdrawn, and not printed: the status and, with it, the revision
LEMMA UnprintedType ==
  ASSUME NEW pr \in Heads
  PROVE  /\ Unprinted(pr) \in Heads
         /\ Unprinted(pr).approval = pr.approval /\ Unprinted(pr).preview = pr.preview
         /\ Unprinted(pr).cover = pr.cover /\ Unprinted(pr).version = pr.version
  <1>1. PICK n \in Nat, st \in Statuses : n = pr.rev + 1 /\ st = PrintStatus(pr)
    BY DEF Heads, PrintStatus, Statuses
  <1>2. Unprinted(pr) = IF pr.status = st THEN pr ELSE [pr EXCEPT !.status = st, !.rev = n]
    BY <1>1 DEF Unprinted
  <1> QED
    BY <1>2 DEF Heads

LEMMA WithdrawnType ==
  ASSUME PreviewTypeOK, NEW pr \in Heads
  PROVE  /\ Withdrawn(pr) \in Heads
         /\ Withdrawn(pr).approval = 0 /\ Withdrawn(pr).preview = pr.preview
         /\ Withdrawn(pr).cover = pr.cover
  <1>1. PICK n \in Nat, none \in 0..Len(output) : n = pr.rev + 1 /\ none = 0
    BY DEF Heads, PreviewTypeOK
  <1>2. "revising" \in Statuses
    BY DEF Statuses
  <1>3. Withdrawn(pr) = IF pr.approval = none THEN pr
          ELSE [pr EXCEPT !.approval = none, !.status = "revising", !.rev = n]
    BY <1>1 DEF Withdrawn
  <1> QED
    BY <1>1, <1>2, <1>3 DEF Heads

\* the change withdraws an approval and counts a book version
LEMMA ChangedType ==
  ASSUME PreviewTypeOK, NEW pr \in Heads, NEW printing
  PROVE  /\ Changed(pr, printing) \in Heads
         /\ Changed(pr, printing).approval = 0
         /\ Changed(pr, printing).preview = pr.preview
         /\ Changed(pr, printing).cover = pr.cover
  <1> DEFINE after == IF printing THEN Unprinted(Withdrawn(pr)) ELSE Withdrawn(pr)
  <1>1. after \in Heads /\ after.approval = 0 /\ after.preview = pr.preview /\ after.cover = pr.cover
    <2>1. Unprinted(Withdrawn(pr)) \in Heads /\ Withdrawn(pr) \in Heads
      BY WithdrawnType, UnprintedType
    <2> QED
      BY <2>1, WithdrawnType, UnprintedType
  <1>2. Changed(pr, printing) = [after EXCEPT !.version = @ + 1, !.rev = @ + 1]
    BY DEF Changed
  <1> HIDE DEF after
  <1>3. PICK v \in Nat, n \in Nat : v = after.version + 1 /\ n = after.rev + 1
    BY <1>1 DEF Heads
  <1>4. Changed(pr, printing) = [after EXCEPT !.version = v, !.rev = n]
    BY <1>2, <1>3
  <1> QED
    BY <1>1, <1>4 DEF Heads

\* the first preview gives the book a cover, later ones leave the project alone
LEMMA CoveredType ==
  ASSUME NEW pr \in Heads
  PROVE  /\ Covered(pr) \in Heads
         /\ Covered(pr).approval = pr.approval /\ Covered(pr).preview = pr.preview
         /\ Covered(pr).cover # 0
         /\ pr.cover # 0 => Covered(pr) = pr
  <1>1. PICK c \in 0..MaxCover, v \in Nat, n \in Nat : c = 1 /\ v = pr.version + 1 /\ n = pr.rev + 1
    <2>1. 1 \in 0..MaxCover /\ pr.version + 1 \in Nat /\ pr.rev + 1 \in Nat
      BY PreviewBounds DEF Heads
    <2> QED
      BY <2>1
  <1>2. Covered(pr) = IF pr.cover # 0 THEN pr ELSE [pr EXCEPT !.cover = c, !.version = v, !.rev = n]
    BY <1>1 DEF Covered
  <1>3. c # 0
    BY <1>1
  <1> QED
    BY <1>2, <1>3 DEF Heads
-----------------------------------------------------------------------------
(***************************************************************************)
(* What a step does to the approval, by what it does to outputs and heads. *)
(***************************************************************************)
LEMMA HeadsSame == Len(output') = Len(output) => Heads' = Heads
  BY DEF Heads

LEMMA HeadsInOutput ==
  ASSUME PreviewTypeOK
  PROVE  /\ project.preview # 0 => project.preview \in DOMAIN output
         /\ project.approval # 0 => project.approval \in DOMAIN output
  <1>1. output \in Seq(Output) /\ project \in Heads
    BY DEF PreviewTypeOK
  <1> QED
    BY <1>1 DEF Heads

\* a page that is worked on without a new input stays covered
PagesKept ==
  \A p \in Story : /\ page'[p].input = page[p].input
                   /\ page[p].stale = "current" => page'[p].stale = "current"

LEMMA ProjectCovered ==
  ASSUME BookInv, PagesKept, UNCHANGED output, project' \in {project, Covered(project)}
  PROVE  Authorized' /\ Gated' /\ project' \in Heads'
  <1>1. project \in Heads /\ Heads' = Heads
    BY HeadsSame DEF BookInv, PreviewTypeOK
  <1>2. project' \in Heads' /\ project'.approval = project.approval /\ project'.preview = project.preview
    BY <1>1, CoveredType
  <1>3. Gated'
    BY DEF BookInv, Gated, ApprovedPassedGate, StaleGatesAreCanceled
  <1>4. CASE project.cover = 0
    <2>1. project.approval = 0 /\ project.preview = 0
      BY <1>1, <1>4 DEF BookInv, CoverComesFirst, Heads
    <2> QED
      BY <2>1, <1>2, <1>3 DEF Authorized, PreviewCoversContent, ApprovalCoversContent
  <1>5. CASE project.cover # 0
    <2>1. project' = project
      BY <1>1, <1>5, CoveredType
    <2>2. \A i : Covers(i) => Covers(i)'
      BY <2>1 DEF Covers, PagesKept
    <2> QED
      BY <2>1, <2>2, <1>2, <1>3 DEF BookInv, Authorized, PreviewCoversContent, ApprovalCoversContent
  <1> QED
    BY <1>4, <1>5

LEMMA ApprovalWithdrawn ==
  ASSUME BookInv, output' = InvalidatedOutput,
         project'.approval = 0, project'.preview = project.preview
  PROVE  Authorized' /\ Gated' /\ Len(output') = Len(output) /\ output' \in Seq(Output)
  <1>1. PreviewTypeOK
    BY DEF BookInv
  <1>2. DOMAIN output' = DOMAIN output /\ Len(output') = Len(output) /\ output' \in Seq(Output)
    BY <1>1, InvalidatedType
  <1>3. PreviewCoversContent' /\ ApprovalCoversContent'
    BY <1>1, InvalidatedType, HeadsInOutput DEF PreviewCoversContent, ApprovalCoversContent
  <1>4. ASSUME NEW i \in DOMAIN output
        PROVE  /\ output'[i].cycle = "approved" => output'[i].gate = "succeeded"
               /\ output'[i].gate = "waiting_review" => output'[i].status = "ready"
    <2>1. /\ output[i].cycle = "approved" => output[i].gate = "succeeded"
          /\ output[i].gate = "waiting_review" => output[i].status = "ready"
      BY DEF BookInv, Gated, ApprovedPassedGate, StaleGatesAreCanceled
    <2>2. output'[i].cycle = "approved" => output[i].cycle = "approved"
      BY <1>1, InvalidatedType
    <2>3. CASE i = project.preview
      <3>1. output'[i].gate = GateAfterStale(output[i])
        BY <1>1, <2>3, InvalidatedType
      <3> QED
        BY <2>1, <2>2, <3>1 DEF GateAfterStale
    <2>4. CASE i # project.preview
      BY <1>1, <2>1, <2>2, <2>4, InvalidatedType
    <2> QED
      BY <2>3, <2>4
  <1> QED
    BY <1>2, <1>3, <1>4 DEF Authorized, Gated, ApprovedPassedGate, StaleGatesAreCanceled

-----------------------------------------------------------------------------
(***************************************************************************)
(* Jobs and the workflow are well-typed, and only a book with a cover has  *)
(* a preview job.                                                          *)
(***************************************************************************)
Working ==
  /\ DOMAIN job \subseteq LayoutJob
  /\ job \in [DOMAIN job -> {"queued", "prepared", "done", "failed"}]
  /\ workflow \in Workflow /\ workflow.jobs \subseteq DOMAIN job
  /\ workflow.state # "none" => workflow.hash \in Snapshots
  /\ pdf \in PreviewJob
  /\ project.cover = 0 => pdf.at = "none"

LEMMA InputHashType ==
  ASSUME PreviewTypeOK
  PROVE  InputHash \in Snapshots
  BY DEF PreviewTypeOK, InputHash, Snapshots, PageRecord

LEMMA JobForType ==
  ASSUME PreviewTypeOK, NEW p \in Page, NEW source \in Choice \cup {"automatic"}
  PROVE  JobFor(p, source) \in LayoutJob
  <1>1. p \in Story => page[p].rev \in Nat /\ pending[p] \in Nat
    BY DEF PreviewTypeOK, PageRecord
  <1> QED
    BY <1>1, InputHashType DEF JobFor, LayoutJob

LEMMA EnqueueType ==
  ASSUME PreviewTypeOK, NEW js \in SUBSET LayoutJob, Enqueue(js)
  PROVE  /\ DOMAIN job' = DOMAIN job \cup js /\ DOMAIN job' \subseteq LayoutJob
         /\ job' \in [DOMAIN job' -> {"queued", "prepared", "done", "failed"}]
  BY DEF Enqueue, PreviewTypeOK

LEMMA QueuedPdfType ==
  ASSUME PreviewTypeOK, NEW pr \in Heads, NEW jobs, QueuePreview(pr, jobs)
  PROVE  pdf' \in PreviewJob /\ project' = Covered(pr)
  <1>1. PICK n \in Nat, w \in Nat : n = Covered(pr).rev /\ w = watermark
    BY CoveredType DEF Heads, PreviewTypeOK
  <1>2. pdf' = [NoPdf EXCEPT !.at = "queued", !.rev = n, !.watermark = w]
    BY <1>1 DEF QueuePreview
  <1> QED
    BY <1>2 DEF NoPdf, PreviewJob, QueuePreview

LEMMA QueueType ==
  ASSUME PreviewTypeOK, NEW pr \in Heads, NEW jobs \in SUBSET DOMAIN job, QueuePreview(pr, jobs),
         UNCHANGED job
  PROVE  Working'
  <1>1. pdf' \in PreviewJob /\ project'.cover # 0
    BY QueuedPdfType, CoveredType
  <1>2. workflow' \in Workflow /\ workflow'.hash \in Snapshots /\ workflow'.jobs \subseteq DOMAIN job
    BY InputHashType DEF QueuePreview, Workflow, WorkflowStates, PreviewTypeOK
  <1> QED
    BY <1>1, <1>2 DEF Working, PreviewTypeOK

LEMMA NoPdfType == NoPdf \in PreviewJob /\ NoPdf.at = "none"
  BY DEF NoPdf, PreviewJob

LEMMA StopType ==
  ASSUME PreviewTypeOK, NEW pr, StopWorkflow(pr), UNCHANGED job
  PROVE  Working' /\ project' = pr
  <1>1. workflow' \in Workflow /\ workflow'.hash \in Snapshots /\ workflow'.jobs \subseteq DOMAIN job
    BY InputHashType DEF StopWorkflow, Workflow, WorkflowStates
  <1> QED
    BY <1>1, NoPdfType DEF StopWorkflow, Working, PreviewTypeOK

\* a start or restart gives the project at most its first cover
LEMMA RestartType ==
  ASSUME PreviewTypeOK, NEW pr \in Heads, RestartWorkflow(pr)
  PROVE  Working' /\ project' \in {pr, Covered(pr)}
  <1> DEFINE jobs == {JobFor(p, "automatic") : p \in NeedsJob(head, pending)}
  <1>1. jobs \subseteq LayoutJob
    BY JobForType DEF NeedsJob
  <1>2. CASE Blocked(head, pending)
    BY <1>2, StopType DEF RestartWorkflow
  <1>3. CASE ~Blocked(head, pending) /\ jobs = {}
    <2>1. QueuePreview(pr, {}) /\ UNCHANGED job
      BY <1>3 DEF RestartWorkflow
    <2> QED
      BY <2>1, QueueType DEF QueuePreview
  <1>4. CASE ~Blocked(head, pending) /\ jobs # {}
    <2>1. /\ Enqueue(jobs) /\ pdf' = NoPdf /\ project' = pr
          /\ workflow' = [state |-> "layout_pending", hash |-> InputHash, jobs |-> jobs]
      BY <1>4 DEF RestartWorkflow
    <2>2. jobs \subseteq DOMAIN job'
      BY <1>1, <2>1, EnqueueType
    <2> HIDE DEF jobs
    <2>3. workflow' \in Workflow /\ workflow'.hash \in Snapshots
      BY <1>1, <2>1, InputHashType DEF Workflow, WorkflowStates
    <2> QED
      BY <1>1, <2>1, <2>2, <2>3, EnqueueType, NoPdfType DEF Working
  <1> QED
    BY <1>2, <1>3, <1>4
-----------------------------------------------------------------------------
(***************************************************************************)
(* The pages, and the parts that together are the invariant.               *)
(***************************************************************************)
Pages ==
  /\ page \in [Story -> PageRecord] /\ InputsAreOld
  /\ pending \in [Story -> Nat] /\ head \in [Page -> Layout]
Previews ==
  /\ output \in Seq(Output) /\ project \in Heads
  /\ project.cover = 0 => output = <<>>

LEMMA Parts ==
  BookInv <=> /\ Pages /\ Working /\ Previews /\ watermark \in 0..MaxWatermark
              /\ Authorized /\ Gated
  BY DEF BookInv, PreviewTypeOK, CoverComesFirst, Pages, Working, Previews

LEMMA PartsNext ==
  ASSUME Pages', Working', Previews', (watermark \in 0..MaxWatermark)', Authorized', Gated'
  PROVE  BookInv'
  BY DEF BookInv, PreviewTypeOK, CoverComesFirst, Pages, Working, Previews

\* a record of a page is written with the next revision
LEMMA RevisedType ==
  ASSUME Pages, NEW p \in Story, NEW record \in PageRecord, Revised(p, record),
         record.input <= page[p].rev + 1, UNCHANGED <<pending, head>>
  PROVE  /\ Pages'
         /\ page'[p].input = record.input /\ page'[p].stale = record.stale
         /\ \A q \in Story : q # p => page'[q] = page[q]
  <1>1. PICK n \in Nat : n = page[p].rev + 1
    BY DEF Pages, PageRecord
  <1>2. page' = [page EXCEPT ![p] = [record EXCEPT !.rev = n]]
    BY <1>1 DEF Revised
  <1>3. [record EXCEPT !.rev = n] \in PageRecord
    BY DEF PageRecord
  <1>4. /\ page' \in [Story -> PageRecord] /\ page'[p] = [record EXCEPT !.rev = n]
        /\ \A q \in Story : q # p => page'[q] = page[q]
    BY <1>2, <1>3 DEF Pages
  <1>5. page'[p].rev = n /\ page'[p].input = record.input /\ page'[p].stale = record.stale
    BY <1>4 DEF PageRecord
  <1>6. InputsAreOld'
    BY <1>1, <1>4, <1>5 DEF Pages, InputsAreOld
  <1> QED
    BY <1>4, <1>5, <1>6 DEF Pages

LEMMA PagesSame ==
  ASSUME Pages, UNCHANGED <<page, pending, head>>
  PROVE  Pages' /\ PagesKept
  BY DEF Pages, InputsAreOld, PagesKept

\* what a review, a lock or an unlock leaves alone
LEMMA PageWorkKeeps ==
  ASSUME BookInv, NEW p \in Story, NEW record \in PageRecord, Revised(p, record),
         record.input = page[p].input, page[p].stale = "current" => record.stale = "current",
         UNCHANGED <<pending, head, job, workflow, pdf, output, project, watermark>>
  PROVE  BookInv' /\ PagesKept
  <1>1. Pages /\ Working /\ Previews /\ watermark \in 0..MaxWatermark
    BY Parts
  <1>2. record.input <= page[p].rev + 1
    BY <1>1 DEF Pages, InputsAreOld, PageRecord
  <1>3. Pages' /\ PagesKept
    BY <1>1, <1>2, RevisedType DEF PagesKept
  <1>4. Authorized' /\ Gated' /\ project' \in Heads'
    BY <1>3, ProjectCovered
  <1>5. Working' /\ Previews' /\ (watermark \in 0..MaxWatermark)'
    BY <1>1, <1>4 DEF Working, Previews
  <1> QED
    BY <1>3, <1>4, <1>5, PartsNext

(***************************************************************************)
(* The changes: each withdraws what was previewed and approved.            *)
(***************************************************************************)
\* what is common to them: pr is the project the change itself leaves
LEMMA ChangeKeeps ==
  ASSUME BookInv, NEW pr \in Heads, NEW printing, pr.preview = project.preview,
         pr.cover = 0 => project.cover = 0,
         project' \in {Changed(pr, printing), Covered(Changed(pr, printing))},
         output' = InvalidatedOutput, Pages', Working', UNCHANGED watermark
  PROVE  BookInv' /\ project'.approval = 0
  <1> DEFINE after == Changed(pr, printing)
  <1>1. PreviewTypeOK /\ Previews
    BY Parts DEF BookInv
  <1>2. after \in Heads /\ after.approval = 0 /\ after.preview = project.preview /\ after.cover = pr.cover
    BY <1>1, ChangedType
  <1> HIDE DEF after
  <1>3. /\ project' \in Heads /\ project'.approval = 0 /\ project'.preview = project.preview
        /\ project'.cover = 0 => project.cover = 0
    BY <1>2, CoveredType DEF after
  <1>4. Authorized' /\ Gated' /\ Len(output') = Len(output) /\ output' \in Seq(Output)
    BY <1>3, ApprovalWithdrawn
  <1>5. Heads' = Heads
    BY <1>4, HeadsSame
  <1>6. output = <<>> => output' = <<>>
    BY <1>4
  <1>7. Previews'
    BY <1>1, <1>3, <1>4, <1>5, <1>6 DEF Previews
  <1> QED
    BY <1>3, <1>4, <1>7, PartsNext, Parts

\* neither the workflow nor the pages change
LEMMA WorkingSame ==
  ASSUME Working, UNCHANGED <<job, workflow, pdf>>, project'.cover = 0 => project.cover = 0
  PROVE  Working'
  BY DEF Working

LEMMA EditPageKeeps ==
  ASSUME BookInv, NEW p \in Story, NEW text \in BOOLEAN, NEW printing, EditPage(p, text, printing)
  PROVE  BookInv' /\ project'.approval = 0 /\ page'[p].input # page[p].input /\ project'.cover = project.cover
  <1>1. PreviewTypeOK /\ Pages /\ Working /\ project \in Heads
    BY Parts DEF BookInv, PreviewTypeOK
  <1>2. PICK n \in Nat : n = page[p].rev + 1
    BY <1>1 DEF Pages, PageRecord
  <1>3. PICK st \in {"current", "stale", "locked_stale"} :
          st = IF text /\ HasLayout(p) THEN "stale" ELSE page[p].stale
    BY <1>1 DEF Pages, PageRecord
  <1> DEFINE record == [page[p] EXCEPT !.input = n, !.review = 0, !.stale = st]
  <1>4. record \in PageRecord /\ record.input = n
    BY <1>1 DEF Pages, PageRecord
  <1>5. Revised(p, record) /\ UNCHANGED <<pending, head>>
    BY <1>2, <1>3 DEF EditPage
  <1> HIDE DEF record
  <1>6. Pages' /\ page'[p].input = n
    BY <1>1, <1>2, <1>4, <1>5, RevisedType
  <1>7. page[p].input # n
    BY <1>1, <1>2 DEF Pages, InputsAreOld, PageRecord
  <1>8. project' = Changed(project, printing) /\ output' = InvalidatedOutput
    BY DEF EditPage, Invalidate
  <1>9. project'.cover = project.cover
    BY <1>1, <1>8, ChangedType
  <1>10. Working' /\ UNCHANGED watermark
    BY <1>1, <1>9, WorkingSame DEF EditPage
  <1> QED
    BY <1>1, <1>6, <1>7, <1>8, <1>9, <1>10, ChangeKeeps

LEMMA RequestLayoutKeeps ==
  ASSUME BookInv, NEW p \in Story, NEW printing, RequestLayout(p, printing)
  PROVE  BookInv' /\ project'.approval = 0 /\ UNCHANGED page /\ project'.cover = project.cover
  <1>1. PreviewTypeOK /\ Pages /\ project \in Heads
    BY Parts DEF BookInv, PreviewTypeOK
  <1>2. page[p].input \in Nat
    BY <1>1 DEF Pages, PageRecord
  <1>3. Pages'
    BY <1>1, <1>2 DEF RequestLayout, Pages, InputsAreOld
  <1>4. Working' /\ project' = Changed(project, printing)
    BY <1>1, StopType DEF RequestLayout
  <1>5. project'.cover = project.cover
    BY <1>1, <1>4, ChangedType
  <1> QED
    BY <1>1, <1>3, <1>4, <1>5, ChangeKeeps DEF RequestLayout

LEMMA ChooseSourceKeeps ==
  ASSUME BookInv, NEW p \in Special, NEW source \in Choice, NEW printing,
         ChooseSource(p, source, printing)
  PROVE  BookInv' /\ project'.approval = 0 /\ UNCHANGED page /\ project'.cover = project.cover
  <1> DEFINE chosen == [JobFor(p, source) EXCEPT !.hash = workflow.hash]
  <1>1. PreviewTypeOK /\ Pages /\ Working /\ project \in Heads
    BY Parts DEF BookInv, PreviewTypeOK
  <1>2. workflow.state # "none" /\ workflow.hash \in Snapshots /\ workflow \in Workflow
    BY <1>1 DEF ChooseSource, Working
  <1>3. JobFor(p, source) \in LayoutJob
    BY <1>1, JobForType DEF Page
  <1>4. chosen \in LayoutJob
    BY <1>2, <1>3 DEF LayoutJob
  <1>5. Enqueue({chosen}) /\ workflow' = [workflow EXCEPT !.state = "layout_pending", !.jobs = {chosen}]
    BY DEF ChooseSource
  <1> HIDE DEF chosen
  <1>6. /\ workflow' \in Workflow /\ workflow'.hash \in Snapshots /\ workflow'.jobs = {chosen}
    BY <1>2, <1>4, <1>5 DEF Workflow, WorkflowStates
  <1>7. /\ project' = Changed(project, printing) /\ output' = InvalidatedOutput /\ pdf' = NoPdf
        /\ UNCHANGED <<page, pending, head, watermark>>
    BY DEF ChooseSource, Invalidate
  <1>8. Working'
    <2>1. /\ DOMAIN job' = DOMAIN job \cup {chosen} /\ DOMAIN job' \subseteq LayoutJob
          /\ job' \in [DOMAIN job' -> {"queued", "prepared", "done", "failed"}]
      BY <1>1, <1>4, <1>5, EnqueueType
    <2> QED
      BY <1>6, <1>7, <2>1, NoPdfType DEF Working
  <1>9. Pages'
    BY <1>1, <1>7, PagesSame
  <1>10. project'.cover = project.cover
    BY <1>1, <1>7, ChangedType
  <1> QED
    BY <1>1, <1>7, <1>8, <1>9, <1>10, ChangeKeeps

LEMMA ChangeCoverKeeps ==
  ASSUME BookInv, NEW printing, ChangeCover(printing)
  PROVE  BookInv' /\ project'.approval = 0 /\ UNCHANGED page /\ project'.cover # project.cover
  <1>1. PreviewTypeOK /\ Pages /\ project \in Heads
    BY Parts DEF BookInv, PreviewTypeOK
  <1>2. PICK c \in 0..MaxCover, n \in Nat : c = project.cover + 1 /\ n = project.rev + 1
    <2>1. project.cover \in 0..MaxCover /\ project.rev \in Nat /\ project.cover \in 1..(MaxCover - 1)
      BY <1>1 DEF ChangeCover, Heads
    <2>2. project.cover + 1 \in 0..MaxCover /\ project.rev + 1 \in Nat
      BY <2>1, PreviewBounds
    <2> QED
      BY <2>2
  <1> DEFINE pr == [project EXCEPT !.cover = c, !.rev = n]
  <1>3. pr \in Heads /\ pr.preview = project.preview /\ pr.cover = c
    BY <1>1 DEF Heads
  <1>4. RestartWorkflow(Changed(pr, printing))
    BY <1>2 DEF ChangeCover
  <1> HIDE DEF pr
  <1>5. Changed(pr, printing) \in Heads /\ Changed(pr, printing).cover = c
    BY <1>1, <1>3, ChangedType
  <1>6. Working' /\ project' \in {Changed(pr, printing), Covered(Changed(pr, printing))}
    BY <1>1, <1>4, <1>5, RestartType
  <1>7. c # 0 /\ c # project.cover
    BY <1>1, <1>2 DEF Heads
  <1>8. project' = Changed(pr, printing)
    BY <1>5, <1>6, <1>7, CoveredType
  <1>9. Pages'
    BY <1>1, PagesSame DEF ChangeCover
  <1> QED
    BY <1>3, <1>5, <1>6, <1>7, <1>8, <1>9, ChangeKeeps DEF ChangeCover
-----------------------------------------------------------------------------
(***************************************************************************)
(* Reviews, layouts and the workflow.                                      *)
(***************************************************************************)
LEMMA PageActionsKeep ==
  ASSUME BookInv, NEW p \in Story, ReviewPage(p) \/ LockPage(p) \/ UnlockPage(p)
  PROVE  BookInv' /\ PagesKept /\ UNCHANGED project
  <1>1. page[p] \in PageRecord
    BY Parts DEF Pages
  <1>2. CASE ReviewPage(p)
    <2>1. PICK n \in Nat : n = page[p].rev + 1
      BY <1>1 DEF PageRecord
    <2> DEFINE record == [page[p] EXCEPT !.review = n]
    <2>2. record \in PageRecord /\ record.input = page[p].input /\ record.stale = page[p].stale
      BY <1>1 DEF PageRecord
    <2>3. Revised(p, record)
      BY <1>2, <2>1 DEF ReviewPage
    <2> HIDE DEF record
    <2> QED
      BY <1>2, <2>2, <2>3, PageWorkKeeps DEF ReviewPage
  <1>3. CASE LockPage(p)
    <2> DEFINE record == [page[p] EXCEPT !.locked = TRUE]
    <2>1. record \in PageRecord /\ record.input = page[p].input /\ record.stale = page[p].stale
      BY <1>1 DEF PageRecord
    <2>2. Revised(p, record)
      BY <1>3 DEF LockPage
    <2> HIDE DEF record
    <2> QED
      BY <1>3, <2>1, <2>2, PageWorkKeeps DEF LockPage
  <1>4. CASE UnlockPage(p)
    <2>1. PICK st \in {"current", "stale", "locked_stale"} :
            st = IF page[p].stale = "locked_stale" THEN "stale" ELSE page[p].stale
      BY <1>1 DEF PageRecord
    <2> DEFINE record == [page[p] EXCEPT !.locked = FALSE, !.stale = st]
    <2>2. record \in PageRecord /\ record.input = page[p].input /\ record.stale = st
      BY <1>1 DEF PageRecord
    <2>3. Revised(p, record)
      BY <1>4, <2>1 DEF UnlockPage
    <2> HIDE DEF record
    <2> QED
      BY <1>4, <2>1, <2>2, <2>3, PageWorkKeeps DEF UnlockPage
  <1> QED
    BY <1>2, <1>3, <1>4

\* the workflow moves, and the project has at most got its first cover
LEMMA WorkflowKeeps ==
  ASSUME BookInv, Pages', Working', UNCHANGED <<page, output, watermark>>,
         project' \in {project, Covered(project)}
  PROVE  BookInv' /\ PagesKept
  <1>1. PagesKept
    BY DEF PagesKept
  <1>2. Previews /\ project \in Heads /\ watermark \in 0..MaxWatermark
    BY Parts DEF Previews
  <1>3. Authorized' /\ Gated' /\ project' \in Heads'
    BY <1>1, ProjectCovered
  <1>4. project'.cover = 0 => project.cover = 0
    BY <1>2, CoveredType
  <1>5. Previews'
    BY <1>2, <1>3, <1>4 DEF Previews
  <1> QED
    BY <1>1, <1>2, <1>3, <1>5, PartsNext

LEMMA RestartKeeps ==
  ASSUME BookInv, CompleteInternalReview \/ Regenerate
  PROVE  BookInv' /\ PagesKept /\ project' \in {project, Covered(project)}
  <1>1. RestartWorkflow(project) /\ UNCHANGED <<page, pending, head, output, watermark>>
    BY DEF CompleteInternalReview, Regenerate
  <1>2. PreviewTypeOK /\ Pages /\ project \in Heads
    BY Parts DEF BookInv, PreviewTypeOK
  <1>3. Working' /\ project' \in {project, Covered(project)}
    BY <1>1, <1>2, RestartType
  <1> QED
    BY <1>1, <1>2, <1>3, PagesSame, WorkflowKeeps

LEMMA LayoutOfType ==
  ASSUME PreviewTypeOK, NEW j \in LayoutJob
  PROVE  j.page \in Page /\ LayoutOf(j) \in Layout
  <1>1. /\ j.page \in Page /\ j.hash \in Snapshots /\ j.source \in Choice \cup {"automatic"}
        /\ head \in [Page -> Layout]
    BY DEF LayoutJob, PreviewTypeOK
  <1>2. head[j.page].no + 1 \in Nat
    BY <1>1 DEF Layout
  <1>3. j.page \in Story => j.hash[j.page].input \in Nat /\ j.hash[j.page].review \in Nat
    BY <1>1 DEF Snapshots
  <1> QED
    BY <1>1, <1>2, <1>3 DEF LayoutOf, Layout

LEMMA LayoutJobKeeps ==
  ASSUME BookInv, NEW j \in DOMAIN job, PrepareLayout(j) \/ CommitLayout(j)
  PROVE  BookInv' /\ PagesKept /\ project' \in {project, Covered(project)}
  <1>1. PreviewTypeOK /\ Pages /\ Working /\ project \in Heads /\ j \in LayoutJob
    BY Parts DEF BookInv, PreviewTypeOK
  <1>2. ASSUME NEW to \in {"prepared", "done", "failed"}, job' = [job EXCEPT ![j] = to],
               UNCHANGED <<workflow, pdf, project>>
        PROVE  Working'
    BY <1>1, <1>2 DEF Working
  <1>3. CASE PrepareLayout(j)
    <2>1. Pages'
      BY <1>1, <1>3, PagesSame DEF PrepareLayout
    <2>2. Working'
      BY <1>2, <1>3 DEF PrepareLayout
    <2> QED
      BY <1>3, <2>1, <2>2, WorkflowKeeps DEF PrepareLayout
  <1>4. CASE CommitLayout(j) /\ ~MayCommitLayout(j)
    <2>1. Pages'
      BY <1>1, <1>4, PagesSame DEF CommitLayout
    <2>2. Working'
      BY <1>2, <1>4 DEF CommitLayout
    <2> QED
      BY <1>4, <2>1, <2>2, WorkflowKeeps DEF CommitLayout
  <1>5. CASE CommitLayout(j) /\ MayCommitLayout(j)
    <2>1. /\ head' = [head EXCEPT ![j.page] = LayoutOf(j)]
          /\ pending' = IF j.request = 0 THEN pending ELSE [pending EXCEPT ![j.page] = 0]
          /\ job' = [job EXCEPT ![j] = "done"]
          /\ Advance(head', pending')
          /\ UNCHANGED <<page, output, watermark>>
      BY <1>5 DEF CommitLayout
    <2>2. Pages'
      BY <1>1, <2>1, LayoutOfType DEF Pages, InputsAreOld
    <2>3. /\ DOMAIN job' = DOMAIN job
          /\ job' \in [DOMAIN job -> {"queued", "prepared", "done", "failed"}]
      BY <1>1, <2>1 DEF Working
    <2>4. CASE UNCHANGED <<workflow, pdf, project>>
      BY <1>2, <2>1, <2>2, <2>4, WorkflowKeeps
    <2>5. CASE /\ workflow' = [workflow EXCEPT !.state = "operator_action_required"]
               /\ UNCHANGED <<pdf, project>>
      <3>1. workflow.hash \in Snapshots
        BY <1>1, <1>5, InputHashType DEF MayCommitLayout, Working
      <3>2. workflow' \in Workflow /\ workflow'.hash = workflow.hash /\ workflow'.jobs = workflow.jobs
        BY <1>1, <2>5 DEF Working, Workflow, WorkflowStates
      <3>3. Working'
        BY <1>1, <2>3, <2>5, <3>1, <3>2 DEF Working
      <3> QED
        BY <2>1, <2>2, <2>5, <3>3, WorkflowKeeps
    <2>6. CASE QueuePreview(project, workflow.jobs)
      <3>1. workflow' = [state |-> "pdf_pending", hash |-> InputHash, jobs |-> workflow.jobs]
        BY <2>6 DEF QueuePreview
      <3>2. workflow' \in Workflow /\ workflow'.hash \in Snapshots /\ workflow'.jobs \subseteq DOMAIN job
        BY <1>1, <3>1, InputHashType DEF Working, Workflow, WorkflowStates
      <3>3. pdf' \in PreviewJob /\ project' = Covered(project)
        BY <1>1, <2>6, QueuedPdfType
      <3>4. project'.cover # 0
        BY <1>1, <3>3, CoveredType
      <3>5. Working'
        BY <1>1, <2>3, <3>2, <3>3, <3>4 DEF Working
      <3> QED
        BY <2>1, <2>2, <3>3, <3>5, WorkflowKeeps
    <2> QED
      BY <2>1, <2>4, <2>5, <2>6 DEF Advance
  <1> QED
    BY <1>3, <1>4, <1>5
-----------------------------------------------------------------------------
(***************************************************************************)
(* The preview job and the decisions about a preview.                      *)
(***************************************************************************)
LEMMA PreparePreviewKeeps ==
  ASSUME BookInv, PreparePreview
  PROVE  BookInv' /\ PagesKept /\ UNCHANGED project
  <1>1. PreviewTypeOK /\ Pages /\ Working
    BY Parts DEF BookInv
  <1>2. Pages' /\ UNCHANGED <<project, output, watermark, page>>
    BY <1>1, PagesSame DEF PreparePreview
  <1>3. Seen \in [revs: [Story -> Nat], layouts: [Page -> Layout]]
    BY <1>1 DEF Seen, Pages, PageRecord
  <1>4. pdf' \in PreviewJob /\ pdf.at = "queued"
    BY <1>1, <1>3, NoPdfType DEF PreparePreview, Working, PreviewJob
  <1>5. Working'
    BY <1>1, <1>4 DEF PreparePreview, Working
  <1> QED
    BY <1>2, <1>5, WorkflowKeeps

\* what is rendered is laid out for the pages as they are
LEMMA ReadableMatches ==
  ASSUME PreviewReadable, NEW p \in Story
  PROVE  page[p].stale = "current" /\ head[p].input = page[p].input
  BY DEF PreviewReadable, Blocked, InputBlocked, NeedsJob, Matches, Page

LEMMA CommitPreviewKeeps ==
  ASSUME BookInv, CommitPreview
  PROVE  /\ BookInv' /\ PagesKept
         /\ project'.approval = project.approval /\ project'.cover = project.cover
         /\ Len(output) <= Len(output')
  <1>1. PreviewTypeOK /\ Pages /\ Working /\ Previews /\ watermark \in 0..MaxWatermark
    BY Parts DEF BookInv
  <1>2. /\ Pages' /\ PagesKept /\ pdf.at = "prepared" /\ pdf' = NoPdf
        /\ UNCHANGED <<page, job, watermark>>
    BY <1>1, PagesSame DEF CommitPreview
  <1>3. output \in Seq(Output) /\ Len(output) \in Nat /\ project \in Heads
    BY <1>1 DEF Previews
  <1>4. CASE UNCHANGED <<output, workflow, project>>
    <2>1. Working'
      BY <1>1, <1>2, <1>4, NoPdfType DEF Working
    <2> QED
      BY <1>2, <1>3, <1>4, <2>1, WorkflowKeeps
  <1>5. CASE /\ PreviewReadable /\ output' = Append(output, NewOutput)
             /\ workflow' = [workflow EXCEPT !.state = "ready"] /\ project' = PreviewedProject
    <2>1. workflow' \in Workflow /\ workflow'.hash = workflow.hash /\ workflow'.jobs = workflow.jobs
      BY <1>1, <1>5 DEF Working, Workflow, WorkflowStates
    <2>2. workflow.hash \in Snapshots
      BY <1>1, <1>5, InputHashType DEF PreviewReadable
    <2>3. project.cover # 0
      BY <1>1, <1>2 DEF Working
    <2>4. NewOutput \in Output
      <3>1. Seen.revs \in [Story -> Nat] /\ head \in [Page -> Layout]
        BY <1>1 DEF Seen, Pages, PageRecord
      <3>2. project.cover \in 1..MaxCover /\ project.version \in Nat
        BY <1>3, <2>3, PreviewBounds DEF Heads
      <3> QED
        BY <3>1, <3>2 DEF NewOutput, Output, Cycles
    <2>5. PICK i \in Nat :
          /\ i = Len(output) + 1
          /\ output' \in Seq(Output) /\ Len(output') = i /\ output'[i] = NewOutput
          /\ \A k \in 1..Len(output) : output'[k] = output[k]
      BY <1>3, <1>5, <2>4, AppendProperties
    <2>6. /\ DOMAIN output = 1..Len(output) /\ DOMAIN output' = 1..i /\ output' # <<>>
          /\ i # 0
      BY <1>3, <2>5
    <2>7. /\ project'.preview = i /\ project'.approval = project.approval
          /\ project'.cover = project.cover /\ project'.version = project.version
          /\ project' \in Heads'
      <3> DEFINE status == IF SameAsApproved THEN project.status ELSE "preview_ready"
      <3>1. status \in Statuses
        BY <1>3 DEF Heads, Statuses
      <3>2. project' = [project EXCEPT !.preview = i, !.rev = project.rev + 1, !.status = status]
        BY <1>5, <2>5 DEF PreviewedProject
      <3> HIDE DEF status
      <3>3. PICK n \in Nat : n = project.rev + 1
        BY <1>3 DEF Heads
      <3>4. i \in 0..Len(output') /\ project.approval \in 0..Len(output')
        BY <1>3, <2>5, <2>6 DEF Heads
      <3>5. project' = [project EXCEPT !.preview = i, !.rev = n, !.status = status]
        BY <3>2, <3>3
      <3>6. [project EXCEPT !.preview = i, !.rev = n, !.status = status]
              \in [status: Statuses, approval: 0..Len(output'), preview: 0..Len(output'),
                   cover: 0..MaxCover, version: Nat, rev: Nat]
        BY <1>3, <3>1, <3>4 DEF Heads
      <3> QED
        BY <1>3, <3>5, <3>6 DEF Heads
    <2>8. Previews'
      BY <2>3, <2>5, <2>7 DEF Previews
    <2>9. Working'
      BY <1>1, <1>2, <2>1, <2>2, <2>3, <2>7, NoPdfType DEF Working
    <2>10. PreviewCoversContent'
      <3>1. Covers(i)'
        <4>1. /\ NewOutput.cover = project.cover /\ NewOutput.version = project.version
              /\ NewOutput.layouts = head
          BY DEF NewOutput
        <4> QED
          BY <1>2, <1>5, <2>5, <2>7, <4>1, ReadableMatches DEF Covers
      <3> QED
        BY <2>7, <3>1 DEF PreviewCoversContent
    <2>11. ApprovalCoversContent'
      <3>1. CASE project.approval = 0
        BY <2>7, <3>1 DEF ApprovalCoversContent
      <3>2. CASE project.approval # 0
        <4>1. project.approval \in 1..Len(output)
          BY <1>1, <2>6, <3>2, HeadsInOutput
        <4>2. output'[project.approval] = output[project.approval]
          BY <2>5, <4>1
        <4> QED
          BY <1>2, <2>7, <3>2, <4>2 DEF BookInv, Authorized, ApprovalCoversContent, Covers
      <3> QED
        BY <3>1, <3>2
    <2>12. Gated'
      <3>1. NewOutput.cycle = "ready_to_send" /\ NewOutput.status = "ready"
        BY DEF NewOutput
      <3>2. \A k \in DOMAIN output' : k \in DOMAIN output \/ k = i
        BY <1>3, <2>5, <2>6
      <3> QED
        BY <2>5, <2>6, <3>1, <3>2 DEF BookInv, Gated, ApprovedPassedGate, StaleGatesAreCanceled
    <2> QED
      BY <1>1, <1>2, <1>3, <2>5, <2>7, <2>8, <2>9, <2>10, <2>11, <2>12, PartsNext DEF Authorized
  <1> QED
    BY <1>4, <1>5 DEF CommitPreview

\* a decision writes cycles, gates and the project, never what was rendered
LEMMA DecisionKeeps ==
  ASSUME BookInv, output' \in Seq(Output), Len(output') = Len(output),
         \A k \in DOMAIN output :
           /\ output'[k].cover = output[k].cover /\ output'[k].version = output[k].version
           /\ output'[k].layouts = output[k].layouts
           /\ output'[k].status # "stale" => output[k].status # "stale"
           /\ output'[k].cycle = "approved" => output'[k].gate = "succeeded"
           /\ output'[k].gate = "waiting_review" => output'[k].status = "ready",
         project' \in Heads, project'.version = project.version, project'.cover = project.cover,
         project'.preview = project.preview,
         project'.approval # 0 => /\ output'[project'.approval].cycle = "approved"
                                  /\ Covers(project'.approval),
         UNCHANGED <<page, pending, head, job, workflow, pdf>>, watermark' \in 0..MaxWatermark
  PROVE  BookInv' /\ PagesKept
  <1>1. PreviewTypeOK /\ Pages /\ Working /\ Previews
    BY Parts DEF BookInv
  <1>2. output \in Seq(Output) /\ Heads' = Heads /\ DOMAIN output' = DOMAIN output
    BY <1>1, HeadsSame DEF Previews
  <1>3. Gated'
    BY <1>2 DEF Gated, ApprovedPassedGate, StaleGatesAreCanceled
  <1>4. \A k \in DOMAIN output : Covers(k) => Covers(k)'
    BY DEF Covers
  <1>5. PreviewCoversContent'
    BY <1>1, <1>4, HeadsInOutput DEF BookInv, Authorized, PreviewCoversContent
  <1>6. project'.approval # 0 => project'.approval \in DOMAIN output
    BY <1>2 DEF Heads
  <1>7. ApprovalCoversContent'
    BY <1>4, <1>6 DEF ApprovalCoversContent
  <1>8. Previews'
    BY <1>1, <1>2 DEF Previews
  <1>9. Working'
    BY <1>1 DEF Working
  <1> QED
    BY <1>1, <1>3, <1>5, <1>7, <1>8, <1>9, PagesSame, PartsNext DEF Authorized

\* the preview a decision is about is current, and shows the book as it is
LEMMA DecidableType ==
  ASSUME BookInv, NEW i, Decidable(i)
  PROVE  /\ i = project.preview /\ i \in DOMAIN output /\ i \in 1..Len(output)
         /\ output[i] \in Output /\ output[i].status = "ready" /\ Covers(i)
  <1>1. PreviewTypeOK
    BY DEF BookInv
  <1>2. i = project.preview /\ i \in DOMAIN output /\ output[i].status = "ready"
    BY <1>1, HeadsInOutput DEF Decidable
  <1> QED
    BY <1>1, <1>2, OutputType DEF Decidable, BookInv, Authorized, PreviewCoversContent

\* the project of a decision; the revision counts it
LEMMA DecidedHeads ==
  ASSUME NEW pr \in Heads, NEW st \in Statuses, NEW a \in 0..Len(output), NEW n \in Nat
  PROVE  /\ [pr EXCEPT !.rev = n, !.status = st] \in Heads
         /\ [pr EXCEPT !.rev = n, !.status = st, !.approval = a] \in Heads
  BY DEF Heads

LEMMA SendPreviewKeeps ==
  ASSUME BookInv, SendPreview
  PROVE  BookInv' /\ PagesKept /\ project'.cover = project.cover /\ Len(output') = Len(output)
  <1>1. PreviewTypeOK /\ output \in Seq(Output) /\ project \in Heads /\ watermark \in 0..MaxWatermark
    BY DEF BookInv, PreviewTypeOK
  <1>2. PICK i \in DOMAIN output :
          /\ i = project.preview /\ output[i] \in Output /\ output[i].status = "ready"
          /\ output' = [output EXCEPT ![i].cycle = "preview_sent"]
    BY DecidableType DEF SendPreview
  <1>3. [output[i] EXCEPT !.cycle = "preview_sent"] \in Output
    BY <1>2 DEF Output, Cycles
  <1>4. /\ output' \in Seq(Output) /\ Len(output') = Len(output) /\ DOMAIN output' = DOMAIN output
        /\ output'[i] = [output[i] EXCEPT !.cycle = "preview_sent"]
        /\ \A k \in DOMAIN output : k # i => output'[k] = output[k]
    BY <1>1, <1>2, <1>3, ExceptSeq
  <1>5. PICK n \in Nat, st \in Statuses : project' = [project EXCEPT !.rev = n, !.status = st]
    <2> DEFINE status == IF project.approval # 0 THEN project.status ELSE "awaiting_customer_approval"
    <2>1. project' = [project EXCEPT !.rev = project.rev + 1, !.status = status]
      BY DEF SendPreview
    <2>2. status \in Statuses /\ project.rev + 1 \in Nat
      BY <1>1 DEF Heads, Statuses
    <2> HIDE DEF status
    <2> QED
      BY <2>1, <2>2
  <1>6. /\ project' \in Heads /\ project'.version = project.version /\ project'.cover = project.cover
        /\ project'.preview = project.preview /\ project'.approval = project.approval
    BY <1>1, <1>5 DEF Heads
  <1>7. project.approval # 0 => project.approval # i /\ project.approval \in DOMAIN output
    BY <1>1, <1>2, HeadsInOutput DEF SendPreview, BookInv, Authorized, ApprovalCoversContent
  <1>8. project'.approval # 0 => /\ output'[project'.approval].cycle = "approved"
                                 /\ Covers(project'.approval)
    BY <1>4, <1>6, <1>7 DEF BookInv, Authorized, ApprovalCoversContent
  <1>9. \A k \in DOMAIN output :
           /\ output'[k].cover = output[k].cover /\ output'[k].version = output[k].version
           /\ output'[k].layouts = output[k].layouts
           /\ output'[k].status # "stale" => output[k].status # "stale"
           /\ output'[k].cycle = "approved" => output'[k].gate = "succeeded"
           /\ output'[k].gate = "waiting_review" => output'[k].status = "ready"
    BY <1>2, <1>4 DEF Output, BookInv, Gated, ApprovedPassedGate, StaleGatesAreCanceled
  <1>10. UNCHANGED <<page, pending, head, job, workflow, pdf, watermark>>
    BY DEF SendPreview
  <1> QED
    BY <1>1, <1>4, <1>6, <1>8, <1>9, <1>10, DecisionKeeps

LEMMA ApprovePreviewKeeps ==
  ASSUME BookInv, ApprovePreview
  PROVE  BookInv' /\ PagesKept /\ project'.cover = project.cover /\ Len(output') = Len(output)
  <1>1. PreviewTypeOK /\ output \in Seq(Output) /\ project \in Heads /\ watermark \in 0..MaxWatermark
    BY DEF BookInv, PreviewTypeOK
  <1>2. PICK i \in DOMAIN output :
          /\ i = project.preview /\ i \in 1..Len(output) /\ Covers(i)
          /\ output[i] \in Output /\ output[i].status = "ready"
          /\ output' = [output EXCEPT ![i].cycle = "approved", ![i].gate = "succeeded"]
    BY DecidableType DEF ApprovePreview
  <1> DEFINE approved == [output[i] EXCEPT !.cycle = "approved", !.gate = "succeeded"]
  <1>3. /\ approved \in Output /\ approved.cycle = "approved" /\ approved.gate = "succeeded"
        /\ approved.cover = output[i].cover /\ approved.version = output[i].version
        /\ approved.layouts = output[i].layouts /\ approved.status = output[i].status
    BY <1>2 DEF Output, Cycles
  <1>4. output' = [output EXCEPT ![i] = approved]
    BY <1>1, <1>2
  <1> HIDE DEF approved
  <1>5. /\ output' \in Seq(Output) /\ Len(output') = Len(output) /\ DOMAIN output' = DOMAIN output
        /\ output'[i] = approved
        /\ \A k \in DOMAIN output : k # i => output'[k] = output[k]
    BY <1>1, <1>2, <1>3, <1>4, ExceptSeq
  <1>6. PICK n \in Nat, st \in Statuses, a \in 0..Len(output) :
          a = i /\ project' = [project EXCEPT !.rev = n, !.status = st, !.approval = a]
    <2>1. project' = [project EXCEPT !.rev = project.rev + 1, !.status = "approved", !.approval = i]
      BY <1>2 DEF ApprovePreview
    <2>2. "approved" \in Statuses /\ project.rev + 1 \in Nat /\ i \in 0..Len(output)
      BY <1>1, <1>2 DEF Heads, Statuses
    <2> QED
      BY <2>1, <2>2
  <1>7. /\ project' \in Heads /\ project'.version = project.version /\ project'.cover = project.cover
        /\ project'.preview = project.preview /\ project'.approval = i
    BY <1>1, <1>6 DEF Heads
  <1>8. output'[project'.approval].cycle = "approved" /\ Covers(project'.approval)
    BY <1>2, <1>3, <1>5, <1>7
  <1>9. ASSUME NEW k \in DOMAIN output
        PROVE  /\ output'[k].cover = output[k].cover /\ output'[k].version = output[k].version
               /\ output'[k].layouts = output[k].layouts
               /\ output'[k].status # "stale" => output[k].status # "stale"
               /\ output'[k].cycle = "approved" => output'[k].gate = "succeeded"
               /\ output'[k].gate = "waiting_review" => output'[k].status = "ready"
    <2>1. CASE k = i
      BY <1>2, <1>3, <1>5, <2>1
    <2>2. CASE k # i
      BY <1>5, <2>2 DEF BookInv, Gated, ApprovedPassedGate, StaleGatesAreCanceled
    <2> QED
      BY <2>1, <2>2
  <1>10. UNCHANGED <<page, pending, head, job, workflow, pdf, watermark>>
    BY DEF ApprovePreview
  <1> QED
    BY <1>1, <1>5, <1>7, <1>8, <1>9, <1>10, DecisionKeeps

LEMMA RequestChangesKeeps ==
  ASSUME BookInv, RequestChanges
  PROVE  BookInv' /\ PagesKept /\ project'.cover = project.cover /\ Len(output') = Len(output)
  <1>1. PreviewTypeOK /\ output \in Seq(Output) /\ project \in Heads /\ watermark \in 0..MaxWatermark
    BY DEF BookInv, PreviewTypeOK
  <1>2. PICK i \in DOMAIN output : i = project.preview /\ output[i].status = "ready"
    BY DecidableType DEF RequestChanges
  <1> DEFINE after(k) ==
       IF k = i THEN [output[k] EXCEPT !.cycle = "changes_requested", !.gate = "canceled"]
       ELSE IF k \in SupersededApproval(i) THEN [output[k] EXCEPT !.cycle = "invalidated"]
       ELSE output[k]
  <1>3. ASSUME NEW k \in DOMAIN output
        PROVE  /\ after(k) \in Output
               /\ after(k).cover = output[k].cover /\ after(k).version = output[k].version
               /\ after(k).layouts = output[k].layouts
               /\ after(k).status # "stale" => output[k].status # "stale"
               /\ after(k).cycle = "approved" => after(k).gate = "succeeded"
               /\ after(k).gate = "waiting_review" => after(k).status = "ready"
    <2>1. output[k] \in Output
      BY <1>1, OutputType
    <2>2. /\ output[k].cycle = "approved" => output[k].gate = "succeeded"
          /\ output[k].gate = "waiting_review" => output[k].status = "ready"
      BY DEF BookInv, Gated, ApprovedPassedGate, StaleGatesAreCanceled
    <2> QED
      BY <2>1, <2>2 DEF Output, Cycles
  <1>4. output' = [k \in DOMAIN output |-> after(k)]
    BY <1>2 DEF RequestChanges
  <1>5. DOMAIN output = 1..Len(output) /\ Len(output) \in Nat
    BY <1>1
  <1> HIDE DEF after
  <1>6. /\ output' \in Seq(Output) /\ Len(output') = Len(output)
        /\ \A k \in DOMAIN output : output'[k] = after(k)
    BY <1>3, <1>4, <1>5
  <1>7. PICK n \in Nat, st \in Statuses, a \in 0..Len(output) :
          a = 0 /\ project' = [project EXCEPT !.rev = n, !.status = st, !.approval = a]
    <2>1. project' = [project EXCEPT !.rev = project.rev + 1, !.status = "revising", !.approval = 0]
      BY DEF RequestChanges
    <2>2. "revising" \in Statuses /\ project.rev + 1 \in Nat /\ 0 \in 0..Len(output)
      BY <1>1 DEF Heads, Statuses
    <2> QED
      BY <2>1, <2>2
  <1>8. /\ project' \in Heads /\ project'.version = project.version /\ project'.cover = project.cover
        /\ project'.preview = project.preview /\ project'.approval = 0
    BY <1>1, <1>7 DEF Heads
  <1>9. UNCHANGED <<page, pending, head, job, workflow, pdf, watermark>>
    BY DEF RequestChanges
  <1> QED
    BY <1>1, <1>3, <1>6, <1>8, <1>9, DecisionKeeps

LEMMA ChangeWatermarkKeeps ==
  ASSUME BookInv, ChangeWatermark
  PROVE  BookInv' /\ PagesKept /\ project' = project /\ Len(output') = Len(output)
  <1>1. /\ PreviewTypeOK /\ output \in Seq(Output) /\ project \in Heads
        /\ watermark' \in 0..MaxWatermark
    <2>1. watermark' = watermark + 1 /\ watermark < MaxWatermark
      BY DEF ChangeWatermark
    <2>2. watermark \in 0..MaxWatermark /\ MaxWatermark \in Nat
      BY PreviewBounds DEF BookInv, PreviewTypeOK
    <2> QED
      BY <2>1, <2>2 DEF BookInv, PreviewTypeOK
  <1> DEFINE after(k) == IF k # project.preview THEN output[k] ELSE
       [output[k] EXCEPT !.status = IF @ = "stale" THEN @ ELSE "cosmetic",
                         !.gate = GateAfterStale(output[k])]
  <1>2. ASSUME NEW k \in DOMAIN output
        PROVE  /\ after(k) \in Output
               /\ after(k).cover = output[k].cover /\ after(k).version = output[k].version
               /\ after(k).layouts = output[k].layouts /\ after(k).cycle = output[k].cycle
               /\ after(k).status # "stale" => output[k].status # "stale"
               /\ after(k).cycle = "approved" => after(k).gate = "succeeded"
               /\ after(k).gate = "waiting_review" => after(k).status = "ready"
    <2>1. output[k] \in Output
      BY <1>1, OutputType
    <2>2. /\ output[k].cycle = "approved" => output[k].gate = "succeeded"
          /\ output[k].gate = "waiting_review" => output[k].status = "ready"
      BY DEF BookInv, Gated, ApprovedPassedGate, StaleGatesAreCanceled
    <2>3. CASE k # project.preview
      BY <2>1, <2>2, <2>3
    <2>4. CASE k = project.preview
      <3>1. PICK g \in {"waiting_review", "succeeded", "canceled"} :
              /\ g = GateAfterStale(output[k])
              /\ g = "waiting_review" => output[k].cycle = "approved"
              /\ output[k].cycle = "approved" => g = output[k].gate
        BY <2>1 DEF GateAfterStale, Output
      <3>2. PICK st \in {"ready", "cosmetic", "stale"} :
              /\ st = IF output[k].status = "stale" THEN output[k].status ELSE "cosmetic"
              /\ st # "stale" => output[k].status # "stale"
        OBVIOUS
      <3>3. after(k) = [output[k] EXCEPT !.status = st, !.gate = g]
        BY <2>4, <3>1, <3>2
      <3>4. g # "waiting_review"
        BY <2>2, <3>1
      <3> QED
        BY <2>1, <2>2, <3>1, <3>2, <3>3, <3>4 DEF Output
    <2> QED
      BY <2>3, <2>4
  <1>3. output' = [k \in DOMAIN output |-> after(k)]
    BY DEF ChangeWatermark
  <1>4. DOMAIN output = 1..Len(output) /\ Len(output) \in Nat
    BY <1>1
  <1> HIDE DEF after
  <1>5. /\ output' \in Seq(Output) /\ Len(output') = Len(output)
        /\ \A k \in DOMAIN output : output'[k] = after(k)
    BY <1>2, <1>3, <1>4
  <1>6. project' = project /\ UNCHANGED <<page, pending, head, job, workflow, pdf>>
    BY DEF ChangeWatermark
  <1>7. project'.approval # 0 => /\ output'[project'.approval].cycle = "approved"
                                 /\ Covers(project'.approval)
    BY <1>1, <1>2, <1>5, <1>6, HeadsInOutput DEF BookInv, Authorized, ApprovalCoversContent
  <1> QED
    BY <1>1, <1>2, <1>5, <1>6, <1>7, DecisionKeeps

LEMMA PreviewRestartKeeps ==
  ASSUME BookInv, PreviewRestart
  PROVE  BookInv' /\ PagesKept /\ project' = project /\ UNCHANGED output
  <1>1. PreviewTypeOK /\ Pages /\ Working
    BY Parts DEF BookInv
  <1>2. UNCHANGED <<page, pending, head, workflow, output, project, watermark>>
    BY DEF PreviewRestart
  <1>3. pdf' \in PreviewJob /\ (pdf.at = "none" => pdf'.at = "none")
    BY <1>1 DEF PreviewRestart, Working, PreviewJob
  <1>4. /\ DOMAIN job' = DOMAIN job
        /\ job' \in [DOMAIN job -> {"queued", "prepared", "done", "failed"}]
    BY <1>1 DEF PreviewRestart, Working
  <1>5. Working'
    BY <1>1, <1>2, <1>3, <1>4 DEF Working
  <1> QED
    BY <1>1, <1>2, <1>5, PagesSame, WorkflowKeeps

-----------------------------------------------------------------------------
(***************************************************************************)
(* Altogether, as PrintProductionProofs needs it.                          *)
(***************************************************************************)
\* a step without an effect on print: the content stays, but for the first cover
LEMMA PreviewKeeps ==
  ASSUME BookInv, Preview
  PROVE  /\ BookInv' /\ PagesKept /\ Len(output) <= Len(output')
         /\ \/ project'.cover = project.cover
            \/ project.cover = 0 /\ project' = Covered(project)
  <1>1. output \in Seq(Output) /\ project \in Heads
    BY DEF BookInv, PreviewTypeOK
  <1>2. project' \in {project, Covered(project)} =>
          \/ project'.cover = project.cover
          \/ project.cover = 0 /\ project' = Covered(project)
    BY <1>1, CoveredType
  <1>3. CASE \E p \in Story : ReviewPage(p) \/ LockPage(p) \/ UnlockPage(p)
    <2>1. PICK p \in Story : ReviewPage(p) \/ LockPage(p) \/ UnlockPage(p)
      BY <1>3
    <2>2. UNCHANGED <<output, project>>
      BY <2>1 DEF ReviewPage, LockPage, UnlockPage
    <2> QED
      BY <1>1, <2>1, <2>2, PageActionsKeep
  <1>4. CASE CompleteInternalReview \/ Regenerate
    BY <1>1, <1>2, <1>4, RestartKeeps DEF CompleteInternalReview, Regenerate
  <1>5. CASE \E j \in DOMAIN job : PrepareLayout(j) \/ CommitLayout(j)
    BY <1>1, <1>2, <1>5, LayoutJobKeeps DEF PrepareLayout, CommitLayout
  <1>6. CASE PreparePreview
    BY <1>1, <1>6, PreparePreviewKeeps DEF PreparePreview
  <1>7. CASE CommitPreview
    BY <1>7, CommitPreviewKeeps
  <1>8. CASE SendPreview \/ ApprovePreview \/ RequestChanges \/ ChangeWatermark
    BY <1>1, <1>8, SendPreviewKeeps, ApprovePreviewKeeps, RequestChangesKeeps, ChangeWatermarkKeeps
  <1> QED
    BY <1>3, <1>4, <1>5, <1>6, <1>7, <1>8 DEF Preview

\* a change withdraws the approval, and leaves the content or makes it another one
LEMMA ChangeWithdraws ==
  ASSUME BookInv, NEW printing, Change(printing)
  PROVE  /\ BookInv' /\ project'.approval = 0 /\ Len(output') = Len(output)
         /\ \/ project'.cover = project.cover /\ UNCHANGED page
            \/ project'.cover # project.cover
            \/ \E p \in Story : page'[p].input # page[p].input
  <1>1. PreviewTypeOK
    BY DEF BookInv
  <1>2. output' = InvalidatedOutput
    BY DEF Change, EditPage, RequestLayout, ChooseSource, ChangeCover, Invalidate
  <1>3. Len(output') = Len(output)
    BY <1>1, <1>2, InvalidatedType
  <1>4. CASE \E p \in Story, text \in BOOLEAN : EditPage(p, text, printing)
    BY <1>3, <1>4, EditPageKeeps
  <1>5. CASE \E p \in Story : RequestLayout(p, printing)
    BY <1>3, <1>5, RequestLayoutKeeps
  <1>6. CASE \E p \in Special, source \in Choice : ChooseSource(p, source, printing)
    BY <1>3, <1>6, ChooseSourceKeeps
  <1>7. CASE ChangeCover(printing)
    BY <1>3, <1>7, ChangeCoverKeeps
  <1> QED
    BY <1>4, <1>5, <1>6, <1>7 DEF Change

\* print production moves the project's status and revision, nothing else of the book
LEMMA StatusKeeps ==
  ASSUME BookInv, project' \in Heads,
         project'.approval = project.approval, project'.preview = project.preview,
         project'.cover = project.cover, project'.version = project.version,
         UNCHANGED <<page, pending, head, job, workflow, pdf, output, watermark>>
  PROVE  BookInv'
  <1>1. Pages /\ Working /\ Previews /\ watermark \in 0..MaxWatermark
    BY Parts
  <1>2. Working' /\ Pages' /\ Heads' = Heads
    BY <1>1, PagesSame, HeadsSame DEF Working
  <1>3. Previews'
    BY <1>1, <1>2 DEF Previews
  <1>4. Authorized' /\ Gated'
    BY DEF BookInv, Authorized, PreviewCoversContent, ApprovalCoversContent, Covers, Gated,
           ApprovedPassedGate, StaleGatesAreCanceled
  <1> QED
    BY <1>1, <1>2, <1>3, <1>4, PartsNext

LEMMA BookInitInv == PreviewInit => BookInv
  <1> SUFFICES ASSUME PreviewInit PROVE BookInv
    OBVIOUS
  <1>1. Pages
    BY DEF PreviewInit, Pages, InputsAreOld, PageRecord, Layout, NoLayout
  <1>2. Working
    BY NoPdfType DEF PreviewInit, Working, Workflow, WorkflowStates
  <1>3. Previews /\ watermark \in 0..MaxWatermark
    BY PreviewBounds DEF PreviewInit, Previews, Heads, Statuses
  <1>4. Authorized /\ Gated
    BY DEF PreviewInit, Authorized, PreviewCoversContent, ApprovalCoversContent, Gated,
           ApprovedPassedGate, StaleGatesAreCanceled
  <1> QED
    BY <1>1, <1>2, <1>3, <1>4, Parts

-----------------------------------------------------------------------------
(***************************************************************************)
(* Production.                                                             *)
(***************************************************************************)
\* nothing a stale run had under way is left
Inert(record) ==
  /\ record.report = "none" /\ record.gate # "waiting_review" /\ record.preflight = "ended"
  /\ \A k \in Kind : record.made[k] = "ended"
StaleRunsAreInert == \A r \in DOMAIN run : run[r].state = "stale" => Inert(run[r])

\* the run of a download was deliverable when it was observed, and can only become stale
DownloadsWereDeliverable ==
  download.at # "idle" => /\ download.run \in DOMAIN run
                          /\ run[download.run].state \in {"deliverable", "stale"}

\* a start request has read an approval and a profile
RequestsHaveRead ==
  \A c \in Clerk : ticket[c].at = "reading" => ticket[c].approval # 0 /\ ticket[c].profile # 0

Runs ==
  /\ run \in Seq(PrintRun) /\ Len(run) <= MaxRun
  /\ \A r \in DOMAIN run : run[r].approval \in 1..Len(output) /\ run[r].profile \in 1..profile
Tickets == ticket \in [Clerk -> [at: {"idle", "reading"}, approval: 0..Len(output),
                                 rev: Nat, profile: 0..profile]]
Downloads == download \in [at: {"idle", "reading", "serving"}, run: 0..Len(run)]
PrintInv ==
  /\ profile \in 1..Len(Mode) /\ Runs /\ Tickets /\ Downloads
  /\ StaleRunsAreInert /\ DownloadsWereDeliverable /\ RequestsHaveRead

Inv == BookInv /\ PrintInv

LEMMA InvTypeOK == Inv => TypeOK
  BY DEF Inv, BookInv, PrintInv, Runs, Tickets, Downloads, TypeOK

LEMMA ModeType == Len(Mode) \in Nat /\ 1 \in 1..Len(Mode) /\ MaxRun \in Nat
  BY PrintBounds, EmptySeq

\* outputs are only ever added
Grown == Len(output) \in Nat /\ Len(output') \in Nat /\ Len(output) <= Len(output')

\* what a run may never become again
StaleStays ==
  \A r \in DOMAIN run :
    r \in DOMAIN run' /\ (run[r].state = "stale" => run'[r].state = "stale")

LEMMA BookSame == BookInv /\ UNCHANGED previewVars => BookInv' /\ Grown
  <1> SUFFICES ASSUME BookInv, UNCHANGED previewVars PROVE BookInv' /\ Grown
    OBVIOUS
  <1>1. project \in Heads /\ output \in Seq(Output)
    BY DEF BookInv, PreviewTypeOK
  <1> QED
    BY <1>1, StatusKeeps DEF previewVars, Grown

-----------------------------------------------------------------------------
(***************************************************************************)
(* What a step does to the runs.                                           *)
(***************************************************************************)
LEMMA RunType ==
  ASSUME Runs, NEW r \in DOMAIN run
  PROVE  /\ run[r] \in PrintRun /\ DOMAIN run = 1..Len(run) /\ Len(run) \in Nat
         /\ run[r].approval \in 1..Len(output) /\ run[r].profile \in 1..profile
  BY ElementOfSeq DEF Runs

\* only the runs change, and each of them for one that may follow it
MayFollow(old, new) ==
  /\ new \in PrintRun /\ new.approval = old.approval /\ new.profile = old.profile
  /\ new.state = "stale" => Inert(new)
  /\ old.state = "stale" => new.state = "stale"
  /\ old.state = "deliverable" => new.state \in {"deliverable", "stale"}

LEMMA RunsFollow ==
  ASSUME PrintInv, Grown, DOMAIN run' = DOMAIN run, run' \in Seq(PrintRun),
         \A r \in DOMAIN run : MayFollow(run[r], run'[r]),
         UNCHANGED <<ticket, download>>, profile <= profile', profile' \in 1..Len(Mode)
  PROVE  PrintInv' /\ StaleStays
  <1>1. Len(run') = Len(run) /\ Len(run) \in Nat
    BY DEF PrintInv, Runs
  <1>2. profile \in Nat /\ profile' \in Nat
    BY ModeType DEF PrintInv
  <1>3. Runs'
    BY <1>1, <1>2, RunType DEF PrintInv, Runs, MayFollow, Grown
  <1>4. Tickets'
    <2>1. 0..Len(output) \subseteq 0..Len(output') /\ 0..profile \subseteq 0..profile'
      BY <1>2 DEF Grown
    <2> QED
      BY <2>1 DEF PrintInv, Tickets
  <1>5. Downloads'
    BY <1>1 DEF PrintInv, Downloads
  <1>6. StaleRunsAreInert' /\ DownloadsWereDeliverable' /\ StaleStays
    BY DEF PrintInv, StaleRunsAreInert, DownloadsWereDeliverable, StaleStays, MayFollow
  <1> QED
    BY <1>3, <1>4, <1>5, <1>6 DEF PrintInv, RequestsHaveRead

\* the same, for one run
LEMMA OneRunFollows ==
  ASSUME PrintInv, Grown, NEW r \in DOMAIN run, NEW new, run' = [run EXCEPT ![r] = new],
         MayFollow(run[r], new), UNCHANGED <<profile, ticket, download>>
  PROVE  PrintInv' /\ StaleStays
  <1>1. run \in Seq(PrintRun) /\ new \in PrintRun
    BY DEF PrintInv, Runs, MayFollow
  <1>2. /\ run' \in Seq(PrintRun) /\ DOMAIN run' = DOMAIN run
        /\ run'[r] = new /\ \A k \in DOMAIN run : k # r => run'[k] = run[k]
    BY <1>1, ExceptSeq
  <1>3. \A k \in DOMAIN run : MayFollow(run[k], run[k])
    BY RunType DEF PrintInv, MayFollow, StaleRunsAreInert
  <1>4. profile \in Nat /\ profile \in 1..Len(Mode)
    BY ModeType DEF PrintInv
  <1> QED
    BY <1>2, <1>3, <1>4, RunsFollow

\* a run that is neither stale nor deliverable, and what it may become
LEMMA OpenRunFollows ==
  ASSUME NEW old \in PrintRun, NEW new \in PrintRun, old.state \notin {"stale", "deliverable"},
         new.approval = old.approval, new.profile = old.profile, new.state # "stale"
  PROVE  MayFollow(old, new)
  BY DEF MayFollow

LEMMA RunsSame ==
  ASSUME PrintInv, Grown, UNCHANGED printVars
  PROVE  PrintInv' /\ StaleStays
  <1>1. \A k \in DOMAIN run : MayFollow(run[k], run[k])
    BY RunType DEF PrintInv, MayFollow, StaleRunsAreInert
  <1>2. profile \in Nat /\ profile \in 1..Len(Mode) /\ run \in Seq(PrintRun)
    BY ModeType DEF PrintInv, Runs
  <1> QED
    BY <1>1, <1>2, RunsFollow DEF printVars

\* PrintInvalidationParticipant leaves no run deliverable
LEMMA StaledRuns ==
  ASSUME PrintInv, Grown, StaleRuns, UNCHANGED <<ticket, download>>,
         profile <= profile', profile' \in 1..Len(Mode)
  PROVE  PrintInv' /\ StaleStays /\ Released' = {}
  <1>1. ASSUME NEW r \in DOMAIN run
        PROVE  /\ Staled(run[r]) \in PrintRun /\ Staled(run[r]).approval = run[r].approval
               /\ Staled(run[r]).profile = run[r].profile
               /\ Staled(run[r]).state = "stale" /\ Inert(Staled(run[r]))
    <2>1. run[r] \in PrintRun
      BY RunType DEF PrintInv
    <2>2. PICK ended \in [Kind -> JobStages] : ended = [k \in Kind |-> "ended"]
      BY DEF JobStages
    <2>3. PICK g \in {"none", "waiting_review", "succeeded", "canceled"} :
            /\ g = IF run[r].gate = "waiting_review" THEN "canceled" ELSE run[r].gate
            /\ g # "waiting_review"
      BY <2>1 DEF PrintRun
    <2>4. Staled(run[r]) = [run[r] EXCEPT !.state = "stale", !.made = ended, !.preflight = "ended",
                                          !.report = "none", !.gate = g]
      BY <2>2, <2>3 DEF Staled
    <2>5. Staled(run[r]) \in PrintRun
      BY <2>1, <2>4 DEF PrintRun, RunStates, JobStages
    <2> QED
      BY <2>1, <2>2, <2>3, <2>4, <2>5 DEF PrintRun, Inert
  <1>2. run' = [r \in DOMAIN run |-> IF Affected(r) THEN Staled(run[r]) ELSE run[r]]
    BY DEF StaleRuns
  <1>3. run \in Seq(PrintRun) /\ DOMAIN run = 1..Len(run) /\ Len(run) \in Nat
    BY DEF PrintInv, Runs
  <1>4. \A r \in DOMAIN run : run[r] \in PrintRun
    BY RunType DEF PrintInv
  <1>5. run' \in Seq(PrintRun) /\ DOMAIN run' = DOMAIN run
    BY <1>1, <1>2, <1>3, <1>4
  <1>6. \A r \in DOMAIN run : MayFollow(run[r], run'[r]) /\ run'[r].state \in {"stale", "rejected"}
    BY <1>1, <1>2, <1>4 DEF MayFollow, Affected, PrintInv, StaleRunsAreInert
  <1>7. PrintInv' /\ StaleStays
    BY <1>5, <1>6, RunsFollow
  <1>8. Released' = {}
    BY <1>5, <1>6 DEF Released
  <1> QED
    BY <1>7, <1>8
-----------------------------------------------------------------------------
(***************************************************************************)
(* Starting and producing runs.  None of these makes a run deliverable but *)
(* the report of a preflight and the decision about a proof.               *)
(***************************************************************************)
LEMMA BeginStartKeeps ==
  ASSUME Inv, Grown, NEW c \in Clerk, BeginStart(c)
  PROVE  PrintInv' /\ StaleStays /\ Released' = Released /\ UNCHANGED download
  <1>1. project \in Heads /\ Readable(project.approval) /\ project.approval \in 0..Len(output)
    BY DEF Inv, BookInv, PreviewTypeOK, Heads, BeginStart
  <1> DEFINE t == [at |-> "reading", approval |-> project.approval, rev |-> project.rev,
                   profile |-> profile]
  <1>2. profile \in 1..Len(Mode) /\ profile \in Nat /\ profile # 0
    BY ModeType DEF Inv, PrintInv
  <1>3. /\ t \in [at: {"idle", "reading"}, approval: 0..Len(output), rev: Nat, profile: 0..profile]
        /\ t.approval # 0 /\ t.profile # 0
    BY <1>1, <1>2 DEF Heads, Readable
  <1>4. ticket' = [ticket EXCEPT ![c] = t] /\ UNCHANGED <<previewVars, profile, run, download>>
    BY DEF BeginStart
  <1> HIDE DEF t
  <1>5. Tickets' /\ RequestsHaveRead'
    BY <1>3, <1>4 DEF Inv, PrintInv, Tickets, RequestsHaveRead, previewVars
  <1> QED
    BY <1>4, <1>5 DEF Inv, PrintInv, Runs, Downloads, StaleRunsAreInert, DownloadsWereDeliverable,
         StaleStays, Released, previewVars

LEMMA EndStartKeeps ==
  ASSUME Inv, Grown, NEW c \in Clerk, EndStart(c)
  PROVE  PrintInv' /\ StaleStays /\ Released' = Released /\ UNCHANGED download
  <1>1. /\ ticket[c].at = "reading" /\ Len(run) < MaxRun
        /\ ticket' = [ticket EXCEPT ![c] = NoTicket]
        /\ run' = run \/ run' = Append(run, NewRun(ticket[c]))
        /\ UNCHANGED <<previewVars, profile, download>>
    BY DEF EndStart
  <1>2. /\ run \in Seq(PrintRun) /\ DOMAIN run = 1..Len(run) /\ Len(run) \in Nat
        /\ profile \in 1..Len(Mode) /\ profile \in Nat /\ output' = output
    BY <1>1, ModeType DEF Inv, PrintInv, Runs, previewVars
  <1>3. NoTicket \in [at: {"idle", "reading"}, approval: 0..Len(output), rev: Nat, profile: 0..profile]
    BY <1>2 DEF NoTicket, Grown
  <1>4. Tickets' /\ RequestsHaveRead'
    BY <1>1, <1>2, <1>3 DEF Inv, PrintInv, Tickets, RequestsHaveRead, NoTicket
  <1>5. CASE run' = run
    BY <1>1, <1>2, <1>4, <1>5 DEF Inv, PrintInv, Runs, Downloads, StaleRunsAreInert,
         DownloadsWereDeliverable, StaleStays, Released
  <1>6. CASE run' = Append(run, NewRun(ticket[c]))
    <2> DEFINE new == NewRun(ticket[c])
    <2>1. ticket[c] \in [at: {"idle", "reading"}, approval: 0..Len(output), rev: Nat, profile: 0..profile]
      BY DEF Inv, PrintInv, Tickets
    <2>2. /\ ticket[c].approval \in 1..Len(output) /\ ticket[c].profile \in 1..profile
          /\ ticket[c].rev \in Nat
      BY <1>1, <1>2, <2>1 DEF Inv, PrintInv, RequestsHaveRead, Grown
    <2>3. /\ new \in PrintRun /\ new.approval \in 1..Len(output) /\ new.profile \in 1..profile
          /\ new.state = "queued"
      BY <1>2, <2>2 DEF NewRun, PrintRun, RunStates, JobStages, Grown
    <2> HIDE DEF new
    <2>4. PICK n \in Nat :
            /\ n = Len(run) + 1 /\ run' \in Seq(PrintRun) /\ Len(run') = n /\ run'[n] = new
            /\ \A r \in 1..Len(run) : run'[r] = run[r]
      BY <1>2, <1>6, <2>3, AppendProperties DEF new
    <2>5. DOMAIN run' = DOMAIN run \cup {n} /\ n \notin DOMAIN run /\ DOMAIN run' = 1..n
      BY <1>2, <2>4
    <2>6. Runs'
      BY <1>1, <1>2, <2>3, <2>4, <2>5, ModeType DEF Inv, PrintInv, Runs
    <2>7. StaleStays /\ StaleRunsAreInert' /\ Released' = Released
      BY <1>2, <2>3, <2>4, <2>5 DEF Inv, PrintInv, StaleStays, StaleRunsAreInert, Released
    <2>8. Downloads' /\ DownloadsWereDeliverable'
      BY <1>1, <1>2, <2>4, <2>5 DEF Inv, PrintInv, Downloads, DownloadsWereDeliverable
    <2> QED
      BY <1>1, <1>2, <1>4, <2>6, <2>7, <2>8 DEF PrintInv
  <1> QED
    BY <1>1, <1>5, <1>6

\* a step of one run that makes nothing deliverable
LEMMA UnreleasedStep ==
  ASSUME Inv, Grown, NEW r \in DOMAIN run, NEW new \in PrintRun, run' = [run EXCEPT ![r] = new],
         new.approval = run[r].approval, new.profile = run[r].profile,
         run[r].state # "stale", new.state # "stale",
         run[r].state = "deliverable" <=> new.state = "deliverable",
         UNCHANGED <<profile, ticket, download>>
  PROVE  PrintInv' /\ StaleStays /\ Released' = Released
  <1>1. MayFollow(run[r], new)
    BY DEF MayFollow
  <1>2. PrintInv' /\ StaleStays
    BY <1>1, OneRunFollows DEF Inv
  <1>3. Released' = Released
    BY DEF Released
  <1> QED
    BY <1>2, <1>3

LEMMA RenderKeeps ==
  ASSUME Inv, Grown, NEW r \in DOMAIN run, NEW k \in Kind, Render(r, k) \/ CommitArtifact(r, k)
  PROVE  PrintInv' /\ StaleStays /\ Released' = Released /\ UNCHANGED download
  <1>1. run[r] \in PrintRun /\ UNCHANGED <<profile, ticket, download>>
    BY RunType DEF Inv, PrintInv, Render, CommitArtifact
  <1>2. run[r].state # "stale" /\ run[r].made \in [Kind -> JobStages]
    BY <1>1 DEF Inv, PrintInv, StaleRunsAreInert, Inert, Render, CommitArtifact, PrintRun
  <1>3. ASSUME NEW st \in JobStages, run' = [run EXCEPT ![r].made[k] = st]
        PROVE  PrintInv' /\ StaleStays /\ Released' = Released
    <2>1. PICK made \in [Kind -> JobStages] : made = [run[r].made EXCEPT ![k] = st]
      BY <1>2
    <2> DEFINE new == [run[r] EXCEPT !.made = made]
    <2>2. new \in PrintRun /\ new.approval = run[r].approval /\ new.profile = run[r].profile
          /\ new.state = run[r].state
      BY <1>1 DEF PrintRun
    <2>3. run' = [run EXCEPT ![r] = new]
      BY <1>3, <2>1
    <2> HIDE DEF new
    <2> QED
      BY <1>1, <1>2, <2>2, <2>3, UnreleasedStep
  <1>4. CASE Render(r, k)
    BY <1>1, <1>3, <1>4 DEF Render, JobStages
  <1>5. CASE CommitArtifact(r, k) /\ ~(run[r].state \in {"queued", "producing"} /\ RunCurrent(r))
    <2>1. PICK made \in [Kind -> JobStages] : made = [run[r].made EXCEPT ![k] = "ended"]
      BY <1>2 DEF JobStages
    <2> DEFINE new == [run[r] EXCEPT !.made = made]
    <2>2. new \in PrintRun /\ new.approval = run[r].approval /\ new.profile = run[r].profile
          /\ new.state = run[r].state
      BY <1>1 DEF PrintRun
    <2>3. run' = [run EXCEPT ![r] = new]
      BY <1>5, <2>1 DEF CommitArtifact
    <2> HIDE DEF new
    <2> QED
      BY <1>1, <1>2, <2>2, <2>3, UnreleasedStep
  <1>6. CASE CommitArtifact(r, k) /\ run[r].state \in {"queued", "producing"} /\ RunCurrent(r)
    <2>1. PICK made \in [Kind -> JobStages] : made = [run[r].made EXCEPT ![k] = "done"]
      BY <1>2 DEF JobStages
    <2>2. PICK st \in {"preflight_pending", "producing"}, pre \in JobStages :
            WithArtifact(run[r], k) = [run[r] EXCEPT !.made = made, !.state = st, !.preflight = pre]
      <3> DEFINE both == \A other \in Kind : made[other] = "done"
                 st == IF both THEN "preflight_pending" ELSE "producing"
                 pre == IF both THEN "queued" ELSE run[r].preflight
      <3>1. pre \in JobStages /\ st \in {"preflight_pending", "producing"}
        BY <1>1 DEF PrintRun, JobStages
      <3>2. WithArtifact(run[r], k) = [run[r] EXCEPT !.made = made, !.state = st, !.preflight = pre]
        BY <2>1 DEF WithArtifact
      <3> HIDE DEF both, st, pre
      <3> QED
        BY <3>1, <3>2
    <2> DEFINE new == WithArtifact(run[r], k)
    <2>3. new \in PrintRun /\ new.approval = run[r].approval /\ new.profile = run[r].profile
          /\ new.state = st
      BY <1>1, <2>2 DEF PrintRun, RunStates
    <2>4. run' = [run EXCEPT ![r] = new]
      BY <1>6 DEF CommitArtifact
    <2> HIDE DEF new
    <2> QED
      BY <1>1, <1>2, <1>6, <2>3, <2>4, UnreleasedStep
  <1> QED
    BY <1>1, <1>4, <1>5, <1>6

LEMMA RunPreflightKeeps ==
  ASSUME Inv, Grown, NEW r \in DOMAIN run, RunPreflight(r)
  PROVE  PrintInv' /\ StaleStays /\ Released' = Released /\ UNCHANGED download
  <1>1. run[r] \in PrintRun /\ run[r].state # "stale" /\ UNCHANGED <<profile, ticket, download>>
    BY RunType DEF Inv, PrintInv, StaleRunsAreInert, Inert, RunPreflight
  <1>2. PICK st \in JobStages : run' = [run EXCEPT ![r].preflight = st]
    BY DEF RunPreflight, JobStages
  <1> DEFINE new == [run[r] EXCEPT !.preflight = st]
  <1>3. new \in PrintRun /\ new.approval = run[r].approval /\ new.profile = run[r].profile
        /\ new.state = run[r].state
    BY <1>1 DEF PrintRun
  <1>4. run' = [run EXCEPT ![r] = new]
    BY <1>2
  <1> HIDE DEF new
  <1> QED
    BY <1>1, <1>3, <1>4, UnreleasedStep

\* markProjectPrintReady moves the status and the revision of the project
LEMMA ReadyIfKeeps ==
  ASSUME BookInv, NEW ready, ReadyIf(ready),
         UNCHANGED <<page, pending, head, job, workflow, pdf, output, watermark>>
  PROVE  /\ BookInv' /\ Grown
         /\ project'.approval = project.approval /\ project'.cover = project.cover
  <1>1. project \in Heads /\ output \in Seq(Output)
    BY DEF BookInv, PreviewTypeOK
  <1>2. PICK n \in Nat, st \in Statuses : n = project.rev + 1 /\ st = "print_ready"
    BY <1>1 DEF Heads, Statuses
  <1>3. project' = project \/ project' = [project EXCEPT !.status = st, !.rev = n]
    BY <1>2 DEF ReadyIf
  <1>4. /\ project' \in Heads /\ project'.approval = project.approval
        /\ project'.preview = project.preview /\ project'.cover = project.cover
        /\ project'.version = project.version
    BY <1>1, <1>3 DEF Heads
  <1> QED
    BY <1>1, <1>4, StatusKeeps DEF Grown

\* a run is released only by a step that finds the approval it was made for
LEMMA CommitPreflightKeeps ==
  ASSUME Inv, NEW r \in DOMAIN run, NEW passed \in BOOLEAN, CommitPreflight(r, passed)
  PROVE  /\ Inv' /\ StaleStays /\ UNCHANGED <<page, download>>
         /\ project'.approval = project.approval /\ project'.cover = project.cover
         /\ Released' = Released \/ (RunCurrent(r) /\ Released' = Released \cup {r})
  <1>1. /\ BookInv' /\ Grown /\ UNCHANGED <<page, profile, ticket, download>>
        /\ project'.approval = project.approval /\ project'.cover = project.cover
    BY ReadyIfKeeps DEF Inv, CommitPreflight
  <1>2. run[r] \in PrintRun /\ run[r].state # "stale"
    BY RunType DEF Inv, PrintInv, StaleRunsAreInert, Inert, CommitPreflight
  <1>3. CASE ~MayReport(r)
    <2>1. PICK st \in JobStages : st = "ended"
      BY DEF JobStages
    <2> DEFINE new == [run[r] EXCEPT !.preflight = st]
    <2>2. /\ new \in PrintRun /\ new.approval = run[r].approval /\ new.profile = run[r].profile
          /\ new.state = run[r].state
      BY <1>2 DEF PrintRun
    <2>3. run' = [run EXCEPT ![r] = new]
      BY <1>3, <2>1 DEF CommitPreflight
    <2> HIDE DEF new
    <2> QED
      BY <1>1, <1>2, <2>2, <2>3, UnreleasedStep DEF Inv
  <1>4. CASE MayReport(r)
    <2> DEFINE new == WithReport(run[r], passed)
    <2>1. run' = [run EXCEPT ![r] = new]
      BY <1>4 DEF CommitPreflight
    <2>2. PICK report \in {"passed", "failed"}, g \in {"none", "waiting_review"},
               st \in {"blocked", "converted_proof_pending", "deliverable"} :
            new = [run[r] EXCEPT !.preflight = "done", !.report = report, !.gate = g, !.state = st]
      <3> DEFINE cmyk == Mode[run[r].profile] = "cmyk"
                 report == IF passed THEN "passed" ELSE "failed"
                 g == IF passed /\ cmyk THEN "waiting_review" ELSE "none"
                 st == IF ~passed THEN "blocked" ELSE IF cmyk THEN "converted_proof_pending"
                       ELSE "deliverable"
      <3>1. /\ report \in {"passed", "failed"} /\ g \in {"none", "waiting_review"}
            /\ st \in {"blocked", "converted_proof_pending", "deliverable"}
        OBVIOUS
      <3>2. new = [run[r] EXCEPT !.preflight = "done", !.report = report, !.gate = g, !.state = st]
        BY DEF WithReport
      <3> HIDE DEF report, g, st, new
      <3> QED
        BY <3>1, <3>2
    <2>3. /\ new \in PrintRun /\ new.approval = run[r].approval /\ new.profile = run[r].profile
          /\ new.state = st
      BY <1>2, <2>2 DEF PrintRun, RunStates, JobStages
    <2> HIDE DEF new
    <2>4. run[r].state = "preflight_pending" /\ RunCurrent(r)
      BY <1>4 DEF MayReport
    <2>5. PrintInv' /\ StaleStays
      BY <1>1, <1>2, <2>1, <2>3, <2>4, OpenRunFollows, OneRunFollows DEF Inv
    <2>6. Released' = Released \/ Released' = Released \cup {r}
      BY <2>1, <2>3, <2>4 DEF Released
    <2> QED
      BY <1>1, <2>4, <2>5, <2>6 DEF Inv
  <1> QED
    BY <1>3, <1>4

LEMMA DecideProofKeeps ==
  ASSUME Inv, NEW r \in DOMAIN run, NEW approve \in BOOLEAN, DecideProof(r, approve)
  PROVE  /\ Inv' /\ StaleStays /\ UNCHANGED <<page, download>>
         /\ project'.approval = project.approval /\ project'.cover = project.cover
         /\ Released' = Released \/ (RunCurrent(r) /\ Released' = Released \cup {r})
  <1>1. /\ BookInv' /\ Grown /\ UNCHANGED <<page, profile, ticket, download>>
        /\ project'.approval = project.approval /\ project'.cover = project.cover
    BY ReadyIfKeeps DEF Inv, DecideProof
  <1>2. run[r] \in PrintRun /\ run[r].state = "converted_proof_pending" /\ RunCurrent(r)
    BY RunType DEF Inv, PrintInv, DecideProof
  <1>3. PICK g \in {"succeeded", "canceled"}, st \in {"deliverable", "rejected"} :
          run' = [run EXCEPT ![r] = [run[r] EXCEPT !.gate = g, !.state = st]]
    <2> DEFINE g == IF approve THEN "succeeded" ELSE "canceled"
               st == IF approve THEN "deliverable" ELSE "rejected"
    <2>1. g \in {"succeeded", "canceled"} /\ st \in {"deliverable", "rejected"}
      OBVIOUS
    <2>2. run' = [run EXCEPT ![r].gate = g, ![r].state = st]
      BY DEF DecideProof
    <2> HIDE DEF g, st
    <2>3. run \in Seq(PrintRun)
      BY DEF Inv, PrintInv, Runs
    <2>4. run' = [run EXCEPT ![r] = [run[r] EXCEPT !.gate = g, !.state = st]]
      BY <1>2, <2>2, <2>3
    <2> QED
      BY <2>1, <2>4
  <1> DEFINE new == [run[r] EXCEPT !.gate = g, !.state = st]
  <1>4. /\ new \in PrintRun /\ new.approval = run[r].approval /\ new.profile = run[r].profile
        /\ new.state = st
    BY <1>2 DEF PrintRun, RunStates
  <1>5. run' = [run EXCEPT ![r] = new]
    BY <1>3
  <1> HIDE DEF new
  <1>6. PrintInv' /\ StaleStays
    BY <1>1, <1>2, <1>4, <1>5, OpenRunFollows, OneRunFollows DEF Inv
  <1>7. Released' = Released \/ Released' = Released \cup {r}
    BY <1>2, <1>4, <1>5 DEF Released
  <1> QED
    BY <1>1, <1>2, <1>6, <1>7 DEF Inv

-----------------------------------------------------------------------------
(***************************************************************************)
(* The download, the restart, and what makes runs stale.                   *)
(***************************************************************************)
LEMMA DownloadKeeps ==
  ASSUME Inv, (\E r \in DOMAIN run : ObserveRun(r)) \/ ServeFile \/ EndDownload
  PROVE  Inv' /\ StaleStays /\ UNCHANGED <<previewVars, run>>
  <1>1. UNCHANGED <<previewVars, profile, run, ticket>>
    BY DEF ObserveRun, ServeFile, EndDownload
  <1>2. BookInv' /\ Grown
    BY <1>1, BookSame DEF Inv
  <1>3. download' \in [at: {"idle", "reading", "serving"}, run: 0..Len(run)]
        /\ (download'.at # "idle" => /\ download'.run \in DOMAIN run
                                     /\ run[download'.run].state \in {"deliverable", "stale"})
    <2>1. DOMAIN run = 1..Len(run) /\ Len(run) \in Nat
      BY DEF Inv, PrintInv, Runs
    <2>2. NoDownload \in [at: {"idle", "reading", "serving"}, run: 0..Len(run)] /\ NoDownload.at = "idle"
      BY <2>1 DEF NoDownload
    <2>3. CASE \E r \in DOMAIN run : ObserveRun(r)
      BY <2>1, <2>3 DEF ObserveRun
    <2>4. CASE ServeFile
      BY <2>1, <2>2, <2>4 DEF ServeFile, Inv, PrintInv, Downloads, DownloadsWereDeliverable
    <2>5. CASE EndDownload
      BY <2>2, <2>5 DEF EndDownload
    <2> QED
      BY <2>3, <2>4, <2>5
  <1>4. PrintInv' /\ StaleStays
    BY <1>1, <1>3 DEF Inv, PrintInv, Runs, Tickets, Downloads, StaleRunsAreInert,
         DownloadsWereDeliverable, RequestsHaveRead, StaleStays, previewVars
  <1> QED
    BY <1>1, <1>2, <1>4 DEF Inv

LEMMA RestartKeepsInv ==
  ASSUME Inv, Restart
  PROVE  /\ Inv' /\ StaleStays /\ Released' = Released /\ download' = NoDownload
         /\ PagesKept /\ project' = project
  <1>1. BookInv' /\ PagesKept /\ project' = project /\ output' = output
    BY PreviewRestartKeeps DEF Inv, Restart
  <1>2. Grown
    BY <1>1 DEF Inv, BookInv, PreviewTypeOK, Grown
  <1> DEFINE after(r) == [run[r] EXCEPT
       !.made = [k \in Kind |-> IF @[k] = "rendered" THEN "queued" ELSE @[k]],
       !.preflight = IF @ = "rendered" THEN "queued" ELSE @]
  <1>3. ASSUME NEW r \in DOMAIN run
        PROVE  MayFollow(run[r], after(r)) /\ after(r).state = run[r].state
    <2>1. run[r] \in PrintRun
      BY RunType DEF Inv, PrintInv
    <2>2. PICK made \in [Kind -> JobStages] :
            made = [k \in Kind |-> IF run[r].made[k] = "rendered" THEN "queued" ELSE run[r].made[k]]
      BY <2>1 DEF PrintRun, JobStages
    <2>3. PICK pre \in JobStages :
            pre = IF run[r].preflight = "rendered" THEN "queued" ELSE run[r].preflight
      BY <2>1 DEF PrintRun, JobStages
    <2>4. after(r) = [run[r] EXCEPT !.made = made, !.preflight = pre]
      BY <2>2, <2>3
    <2> HIDE DEF after
    <2>5. /\ after(r) \in PrintRun /\ after(r).approval = run[r].approval
          /\ after(r).profile = run[r].profile /\ after(r).state = run[r].state
          /\ after(r).report = run[r].report /\ after(r).gate = run[r].gate
          /\ after(r).made = made /\ after(r).preflight = pre
      BY <2>1, <2>4 DEF PrintRun
    <2>6. Inert(run[r]) => Inert(after(r))
      BY <2>2, <2>3, <2>5 DEF Inert
    <2> QED
      BY <2>5, <2>6 DEF MayFollow, Inv, PrintInv, StaleRunsAreInert
  <1>4. run' = [r \in DOMAIN run |-> after(r)] /\ ticket' = [c \in Clerk |-> NoTicket]
        /\ download' = NoDownload /\ profile' = profile
    BY DEF Restart
  <1> HIDE DEF after
  <1>5. run \in Seq(PrintRun) /\ DOMAIN run = 1..Len(run) /\ Len(run) \in Nat
    BY DEF Inv, PrintInv, Runs
  <1>6. /\ run' \in Seq(PrintRun) /\ DOMAIN run' = DOMAIN run /\ Len(run') = Len(run)
        /\ \A r \in DOMAIN run : run'[r] = after(r)
    BY <1>3, <1>4, <1>5 DEF MayFollow
  <1>7. profile \in Nat /\ profile \in 1..Len(Mode)
    BY ModeType DEF Inv, PrintInv
  <1>8. Runs'
    BY <1>1, <1>3, <1>4, <1>6, RunType DEF Inv, PrintInv, Runs, MayFollow
  <1>9. Tickets' /\ RequestsHaveRead'
    BY <1>1, <1>2, <1>4, <1>7 DEF Tickets, RequestsHaveRead, NoTicket, Grown
  <1>10. Downloads' /\ DownloadsWereDeliverable'
    BY <1>4, <1>5, <1>6 DEF Downloads, DownloadsWereDeliverable, NoDownload
  <1>11. StaleRunsAreInert' /\ StaleStays /\ Released' = Released
    BY <1>3, <1>6 DEF StaleRunsAreInert, StaleStays, Released, MayFollow
  <1> QED
    BY <1>1, <1>4, <1>7, <1>8, <1>9, <1>10, <1>11 DEF Inv, PrintInv

LEMMA ChangeProfileKeeps ==
  ASSUME Inv, NEW assign \in BOOLEAN, ChangeProfile(assign)
  PROVE  /\ Inv' /\ StaleStays /\ Released' = {} /\ UNCHANGED <<page, download>>
         /\ project'.approval = project.approval /\ project'.cover = project.cover
  <1>1. project \in Heads /\ output \in Seq(Output)
    BY DEF Inv, BookInv, PreviewTypeOK
  <1> DEFINE assigned == IF assign THEN [project EXCEPT !.rev = @ + 1] ELSE project
  <1>2. /\ assigned \in Heads /\ assigned.approval = project.approval
        /\ assigned.preview = project.preview /\ assigned.cover = project.cover
        /\ assigned.version = project.version
    <2>1. PICK n \in Nat : n = project.rev + 1
      BY <1>1 DEF Heads
    <2>2. assigned = IF assign THEN [project EXCEPT !.rev = n] ELSE project
      BY <2>1
    <2> QED
      BY <1>1, <2>2 DEF Heads
  <1>3. project' = Unprinted(assigned) \/ project' = assigned
    BY DEF ChangeProfile
  <1> HIDE DEF assigned
  <1>4. /\ project' \in Heads /\ project'.approval = project.approval
        /\ project'.preview = project.preview /\ project'.cover = project.cover
        /\ project'.version = project.version
    BY <1>2, <1>3, UnprintedType
  <1>5. BookInv' /\ Grown
    BY <1>1, <1>4, StatusKeeps DEF Inv, ChangeProfile, Grown
  <1>6. profile' \in 1..Len(Mode) /\ profile <= profile'
    BY ModeType DEF ChangeProfile, Inv, PrintInv
  <1>7. PrintInv' /\ StaleStays /\ Released' = {}
    BY <1>5, <1>6, StaledRuns DEF Inv, ChangeProfile
  <1> QED
    BY <1>4, <1>5, <1>7 DEF Inv, ChangeProfile

LEMMA ChangeBookKeeps ==
  ASSUME Inv, ChangeBook
  PROVE  /\ Inv' /\ StaleStays /\ Released' = {} /\ UNCHANGED download
         /\ project'.approval = 0
         /\ \/ project'.cover = project.cover /\ UNCHANGED page
            \/ project'.cover # project.cover
            \/ \E p \in Story : page'[p].input # page[p].input
  <1>1. Change(Printing) /\ StaleRuns /\ UNCHANGED <<profile, ticket, download>>
    BY DEF ChangeBook
  <1>2. /\ BookInv' /\ project'.approval = 0 /\ Len(output') = Len(output)
        /\ \/ project'.cover = project.cover /\ UNCHANGED page
           \/ project'.cover # project.cover
           \/ \E p \in Story : page'[p].input # page[p].input
    BY <1>1, ChangeWithdraws DEF Inv
  <1>3. Grown /\ profile \in 1..Len(Mode) /\ profile \in Nat
    BY <1>2, ModeType DEF Inv, BookInv, PreviewTypeOK, PrintInv, Grown
  <1>4. PrintInv' /\ StaleStays /\ Released' = {}
    BY <1>1, <1>3, StaledRuns DEF Inv
  <1> QED
    BY <1>1, <1>2, <1>4 DEF Inv
-----------------------------------------------------------------------------
\* an action without an effect on print
LEMMA PreviewStepKeeps ==
  ASSUME Inv, Preview, UNCHANGED printVars
  PROVE  Inv' /\ StaleStays /\ Released' = Released
  <1>1. BookInv' /\ Len(output) <= Len(output')
    BY PreviewKeeps DEF Inv
  <1>2. Grown
    BY <1>1 DEF Inv, BookInv, PreviewTypeOK, Grown
  <1> QED
    BY <1>1, <1>2, RunsSame DEF Inv, Released, printVars

LEMMA StartKeeps ==
  ASSUME Inv, NEW c \in Clerk, BeginStart(c) \/ EndStart(c)
  PROVE  Inv' /\ StaleStays /\ Released' = Released /\ UNCHANGED <<previewVars, download>>
  <1>1. UNCHANGED previewVars
    BY DEF BeginStart, EndStart
  <1> QED
    BY <1>1, BookSame, BeginStartKeeps, EndStartKeeps DEF Inv

LEMMA ProducerKeeps ==
  ASSUME Inv, NEW r \in DOMAIN run,
         (\E k \in Kind : Render(r, k) \/ CommitArtifact(r, k)) \/ RunPreflight(r)
  PROVE  Inv' /\ StaleStays /\ Released' = Released /\ UNCHANGED <<previewVars, download>>
  <1>1. UNCHANGED previewVars
    BY DEF Render, CommitArtifact, RunPreflight
  <1> QED
    BY <1>1, BookSame, RenderKeeps, RunPreflightKeeps DEF Inv

LEMMA StepKeepsInv == Inv /\ [Next]_vars => Inv' /\ StaleStays
  <1> SUFFICES ASSUME Inv, [Next]_vars PROVE Inv' /\ StaleStays
    OBVIOUS
  <1>1. CASE Preview /\ UNCHANGED printVars
    BY <1>1, PreviewStepKeeps
  <1>2. CASE ChangeBook
    BY <1>2, ChangeBookKeeps
  <1>3. CASE Production
    <2>1. ASSUME NEW assign \in BOOLEAN, ChangeProfile(assign)
          PROVE  Inv' /\ StaleStays
      BY <2>1, ChangeProfileKeeps
    <2>2. ASSUME NEW c \in Clerk, BeginStart(c) \/ EndStart(c)
          PROVE  Inv' /\ StaleStays
      BY <2>2, StartKeeps
    <2>3. ASSUME NEW r \in DOMAIN run, Produce(r)
          PROVE  Inv' /\ StaleStays
      BY <2>3, ProducerKeeps, CommitPreflightKeeps, DecideProofKeeps DEF Produce
    <2>4. CASE (\E r \in DOMAIN run : ObserveRun(r)) \/ ServeFile \/ EndDownload
      BY <2>4, DownloadKeeps
    <2> QED
      BY <1>3, <2>1, <2>2, <2>3, <2>4 DEF Production
  <1>4. CASE Restart
    BY <1>4, RestartKeepsInv
  <1>5. CASE UNCHANGED vars
    <2>1. UNCHANGED <<previewVars, printVars>>
      BY <1>5 DEF vars
    <2> QED
      BY <2>1, BookSame, RunsSame DEF Inv
  <1> QED
    BY <1>1, <1>2, <1>3, <1>4, <1>5 DEF Next

LEMMA InitInv == Init => Inv
  <1> SUFFICES ASSUME Init PROVE Inv
    OBVIOUS
  <1>1. BookInv /\ output = <<>>
    BY BookInitInv DEF Init, PreviewInit
  <1>2. run = <<>> /\ profile = 1 /\ ticket = [c \in Clerk |-> NoTicket] /\ download = NoDownload
    BY DEF Init
  <1>3. Runs /\ StaleRunsAreInert
    BY <1>2, ModeType DEF Runs, StaleRunsAreInert
  <1>4. Tickets /\ RequestsHaveRead
    BY <1>1, <1>2 DEF Tickets, RequestsHaveRead, NoTicket
  <1>5. Downloads /\ DownloadsWereDeliverable
    BY <1>2 DEF Downloads, DownloadsWereDeliverable, NoDownload
  <1> QED
    BY <1>1, <1>2, <1>3, <1>4, <1>5, ModeType DEF Inv, PrintInv

LEMMA InvAlways == Spec => []Inv
  BY InitInv, StepKeepsInv, PTL DEF Spec

(***************************************************************************)
(* The variables of previews, approvals, runs and downloads keep their     *)
(* types: every run names a preview there is and a profile there was.      *)
(***************************************************************************)
THEOREM TypesAreKept == Spec => []TypeOK
  BY InvAlways, InvTypeOK, PTL

(***************************************************************************)
(* While a book is approved, every page and the cover are what the         *)
(* customer saw (approvals.ts, invalidation-mutations.ts).                 *)
(***************************************************************************)
THEOREM ApprovalIsForThisContent == Spec => []ApprovalCoversContent
  <1>1. Inv => ApprovalCoversContent
    BY DEF Inv, BookInv, Authorized
  <1> QED
    BY <1>1, InvAlways, PTL

(***************************************************************************)
(* No customer is asked about a stale preview (stalePreview).              *)
(***************************************************************************)
THEOREM NoStaleGateWaits == Spec => []StaleGatesAreCanceled
  <1>1. Inv => StaleGatesAreCanceled
    BY DEF Inv, BookInv, Gated
  <1> QED
    BY <1>1, InvAlways, PTL

(***************************************************************************)
(* Nothing that was under way when a run became stale gives it anything    *)
(* back (PrintInvalidationParticipant, assertRunCurrent).                  *)
(***************************************************************************)
THEOREM StaleRunsStayInert == Spec => StaleRunIsInert
  <1>1. Inv /\ Inv' /\ StaleStays =>
          \A r \in DOMAIN run : run[r].state = "stale" =>
            run'[r].state = "stale" /\ run'[r].report = "none" /\ run'[r].gate # "waiting_review"
            /\ \A k \in Kind : run'[r].made[k] = "ended"
    BY DEF Inv, PrintInv, StaleRunsAreInert, Inert, StaleStays
  <1>2. Inv /\ Inv' /\ [Next]_vars =>
          [ \A r \in DOMAIN run : run[r].state = "stale" =>
              run'[r].state = "stale" /\ run'[r].report = "none" /\ run'[r].gate # "waiting_review"
              /\ \A k \in Kind : run'[r].made[k] = "ended" ]_vars
    BY <1>1, StepKeepsInv
  <1> QED
    BY <1>2, InvAlways, PTL DEF Spec, StaleRunIsInert

-----------------------------------------------------------------------------
(***************************************************************************)
(* The refinement of BookAuthorization, step by step.                      *)
(***************************************************************************)
LEMMA ContentType ==
  ASSUME Inv
  PROVE  BookContent \in [inputs: [Story -> Nat], cover: 0..MaxCover]
  BY DEF Inv, BookInv, PreviewTypeOK, BookContent, PageRecord, Heads

LEMMA ContentSame ==
  ASSUME \A p \in Story : page'[p].input = page[p].input, project'.cover = project.cover
  PROVE  BookContent' = BookContent
  BY DEF BookContent

LEMMA ContentDiffers ==
  ASSUME project'.cover # project.cover \/ \E p \in Story : page'[p].input # page[p].input
  PROVE  BookContent' # BookContent
  <1>1. CASE project'.cover # project.cover
    <2>1. BookContent'.cover # BookContent.cover
      BY <1>1 DEF BookContent
    <2> QED
      BY <2>1
  <1>2. ASSUME NEW p \in Story, page'[p].input # page[p].input
        PROVE  BookContent' # BookContent
    <2>1. BookContent'.inputs[p] # BookContent.inputs[p]
      BY <1>2 DEF BookContent
    <2> QED
      BY <2>1
  <1> QED
    BY <1>1, <1>2

\* an approval a run was made for is there
LEMMA CurrentIsApproved ==
  ASSUME Inv, NEW r \in DOMAIN run, RunCurrent(r)
  PROVE  project.approval # 0 /\ r \in 1..MaxRun
  <1>1. /\ run[r].approval \in 1..Len(output) /\ DOMAIN run = 1..Len(run)
        /\ Len(run) \in Nat /\ Len(run) <= MaxRun
    BY RunType DEF Inv, PrintInv, Runs
  <1> QED
    BY <1>1, ModeType DEF RunCurrent, Current

LEMMA EditStep ==
  ASSUME Inv', BookContent' # BookContent, project'.approval = 0, Released' = {},
         UNCHANGED download
  PROVE  Authorization!Next
  <1>1. BookContent' \in [inputs: [Story -> Nat], cover: 0..MaxCover]
    BY DEF Inv, BookInv, PreviewTypeOK, BookContent, PageRecord, Heads
  <1>2. Serving' = Serving
    BY DEF Serving
  <1>3. Authorization!Edit
    BY <1>1, <1>2 DEF Authorization!Edit
  <1> QED
    BY <1>3 DEF Authorization!Next

LEMMA DecideStep ==
  ASSUME BookContent' = BookContent, Released' = Released, UNCHANGED download
  PROVE  Authorization!Next
  <1>1. Serving' = Serving
    BY DEF Serving
  <1>2. Authorization!Decide
    BY <1>1 DEF Authorization!Decide
  <1> QED
    BY <1>2 DEF Authorization!Next

LEMMA ReleaseStep ==
  ASSUME Inv, NEW r \in DOMAIN run, RunCurrent(r), BookContent' = BookContent,
         project'.approval = project.approval, Released' = Released \cup {r}, UNCHANGED download
  PROVE  Authorization!Next
  <1>1. Serving' = Serving /\ project.approval # 0 /\ r \in 1..MaxRun
    BY CurrentIsApproved DEF Serving
  <1>2. Authorization!Release(r)
    BY <1>1 DEF Authorization!Release
  <1> QED
    BY <1>1, <1>2 DEF Authorization!Next

LEMMA RevokeStep ==
  ASSUME BookContent' = BookContent, Released' = {}, UNCHANGED download,
         project'.approval = project.approval \/ project'.approval = 0
  PROVE  Authorization!Next
  <1>1. Serving' = Serving
    BY DEF Serving
  <1>2. Authorization!Revoke
    BY <1>1 DEF Authorization!Revoke
  <1> QED
    BY <1>2 DEF Authorization!Next

\* a preview step: the first cover comes before anything is approved or printed
LEMMA PreviewRefines ==
  ASSUME Inv, Preview, UNCHANGED printVars
  PROVE  Authorization!Next
  <1>1. Inv' /\ Released' = Released /\ UNCHANGED download
    BY PreviewStepKeeps DEF printVars
  <1>2. \A p \in Story : page'[p].input = page[p].input
    BY PreviewKeeps DEF Inv, PagesKept
  <1>3. CASE project'.cover = project.cover
    BY <1>1, <1>2, <1>3, ContentSame, DecideStep
  <1>4. CASE project'.cover # project.cover /\ project.cover = 0 /\ project' = Covered(project)
    <2>1. project \in Heads /\ output = <<>>
      BY <1>4 DEF Inv, BookInv, PreviewTypeOK, CoverComesFirst
    <2>2. project'.approval = 0
      BY <1>4, <2>1, CoveredType DEF Heads
    <2>3. Released = {}
      BY <2>1, RunType DEF Inv, PrintInv, Released
    <2> QED
      BY <1>1, <1>4, <2>2, <2>3, ContentDiffers, EditStep
  <1> QED
    BY <1>3, <1>4, PreviewKeeps DEF Inv

LEMMA ChangeBookRefines ==
  ASSUME Inv, ChangeBook
  PROVE  Authorization!Next
  <1>1. CASE project'.cover = project.cover /\ UNCHANGED page
    BY <1>1, ChangeBookKeeps, ContentSame, RevokeStep
  <1>2. CASE project'.cover # project.cover \/ \E p \in Story : page'[p].input # page[p].input
    BY <1>2, ChangeBookKeeps, ContentDiffers, EditStep
  <1> QED
    BY <1>1, <1>2, ChangeBookKeeps

\* a file is served of a run that is deliverable while its approval is current
LEMMA DownloadRefines ==
  ASSUME Inv, (\E r \in DOMAIN run : ObserveRun(r)) \/ ServeFile \/ EndDownload
  PROVE  Authorization!Next \/ UNCHANGED Authorization!vars
  <1>1. UNCHANGED <<previewVars, run>>
    BY DEF ObserveRun, ServeFile, EndDownload
  <1>2. /\ BookContent' = BookContent /\ Released' = Released
        /\ project' = project
    BY <1>1 DEF previewVars, BookContent, Released
  <1>3. Serving' = Serving => UNCHANGED Authorization!vars
    BY <1>2 DEF Authorization!vars
  <1>4. CASE \E r \in DOMAIN run : ObserveRun(r)
    BY <1>3, <1>4 DEF ObserveRun, Serving, NoDownload
  <1>5. CASE ServeFile /\ ~MayServe(download.run)
    BY <1>3, <1>5 DEF ServeFile, Serving, NoDownload
  <1>6. CASE ServeFile /\ MayServe(download.run)
    <2> DEFINE r == download.run
    <2>1. download.at = "reading" /\ download' = [download EXCEPT !.at = "serving"]
      BY <1>6 DEF ServeFile
    <2>2. r \in DOMAIN run /\ run[r].state \in {"deliverable", "stale"}
      BY <2>1 DEF Inv, PrintInv, DownloadsWereDeliverable
    <2>3. r \in Released /\ RunCurrent(r)
      BY <1>6, <2>2 DEF MayServe, Released
    <2>4. download'.at = "serving" /\ download'.run = r
      BY <2>1 DEF Inv, PrintInv, Downloads
    <2>5. Serving' = r
      BY <2>4 DEF Serving
    <2>6. project.approval # 0 /\ r \in 1..MaxRun
      BY <2>2, <2>3, CurrentIsApproved
    <2>7. Authorization!Serve(r)
      BY <1>2, <2>3, <2>5, <2>6 DEF Authorization!Serve
    <2> QED
      BY <2>6, <2>7 DEF Authorization!Next
  <1>7. CASE EndDownload
    <2>1. Serving' = 0
      BY <1>7 DEF EndDownload, Serving, NoDownload
    <2>2. Authorization!Served
      BY <1>2, <2>1 DEF Authorization!Served
    <2> QED
      BY <2>2 DEF Authorization!Next
  <1> QED
    BY <1>4, <1>5, <1>6, <1>7

LEMMA StepRefines == Inv /\ [Next]_vars => [Authorization!Next]_(Authorization!vars)
  <1> SUFFICES ASSUME Inv, [Next]_vars
               PROVE  Authorization!Next \/ UNCHANGED Authorization!vars
    OBVIOUS
  <1>1. CASE Preview /\ UNCHANGED printVars
    BY <1>1, PreviewRefines
  <1>2. CASE ChangeBook
    BY <1>2, ChangeBookRefines
  <1>3. CASE Production
    <2>1. ASSUME NEW assign \in BOOLEAN, ChangeProfile(assign)
          PROVE  Authorization!Next
      BY <2>1, ChangeProfileKeeps, ContentSame, RevokeStep
    <2>2. ASSUME NEW c \in Clerk, BeginStart(c) \/ EndStart(c)
          PROVE  Authorization!Next
      <3>1. page' = page /\ project' = project
        BY <2>2, StartKeeps DEF previewVars
      <3> QED
        BY <2>2, <3>1, StartKeeps, ContentSame, DecideStep
    <2>3. ASSUME NEW r \in DOMAIN run,
                 (\E k \in Kind : Render(r, k) \/ CommitArtifact(r, k)) \/ RunPreflight(r)
          PROVE  Authorization!Next
      <3>1. page' = page /\ project' = project
        BY <2>3, ProducerKeeps DEF previewVars
      <3> QED
        BY <2>3, <3>1, ProducerKeeps, ContentSame, DecideStep
    <2>4. ASSUME NEW r \in DOMAIN run,
                 \/ \E passed \in BOOLEAN : CommitPreflight(r, passed)
                 \/ \E approve \in BOOLEAN : DecideProof(r, approve)
          PROVE  Authorization!Next
      <3>1. /\ UNCHANGED <<page, download>> /\ project'.approval = project.approval
            /\ project'.cover = project.cover
            /\ Released' = Released \/ (RunCurrent(r) /\ Released' = Released \cup {r})
        BY <2>4, CommitPreflightKeeps, DecideProofKeeps
      <3> QED
        BY <3>1, ContentSame, DecideStep, ReleaseStep
    <2>5. CASE (\E r \in DOMAIN run : ObserveRun(r)) \/ ServeFile \/ EndDownload
      BY <2>5, DownloadRefines
    <2> QED
      BY <1>3, <2>1, <2>2, <2>3, <2>4, <2>5 DEF Production, Produce
  <1>4. CASE Restart
    <2>1. BookContent' = BookContent /\ Released' = Released /\ project' = project
      BY <1>4, RestartKeepsInv, ContentSame DEF PagesKept
    <2>2. Serving' = 0
      BY <1>4, RestartKeepsInv DEF Serving, NoDownload
    <2>3. Authorization!Served
      BY <2>1, <2>2 DEF Authorization!Served
    <2> QED
      BY <2>3 DEF Authorization!Next
  <1>5. CASE UNCHANGED vars
    BY <1>5 DEF vars, previewVars, printVars, Authorization!vars, BookContent, Released, Serving
  <1> QED
    BY <1>1, <1>2, <1>3, <1>4, <1>5 DEF Next

LEMMA InitRefines == Init => Authorization!Init
  <1> SUFFICES ASSUME Init PROVE Authorization!Init
    OBVIOUS
  <1>1. BookContent \in [inputs: [Story -> Nat], cover: 0..MaxCover]
    BY InitInv, ContentType
  <1>2. project.approval = 0 /\ Released = {} /\ Serving = 0
    BY DEF Init, PreviewInit, Released, Serving, NoDownload
  <1> QED
    BY <1>1, <1>2 DEF Authorization!Init

(***************************************************************************)
(* Print production implements BookAuthorization: a run is released and a  *)
(* file is served only while the approved content is the content there is, *)
(* and every change of it takes the approval and all releases back.        *)
(***************************************************************************)
THEOREM ProductionIsAuthorized == Spec => ImplementsAuthorization
  BY InitRefines, StepRefines, InvAlways, PTL DEF Spec, ImplementsAuthorization, Authorization!Spec
=============================================================================
