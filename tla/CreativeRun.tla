----------------------------- MODULE CreativeRun -----------------------------
(***************************************************************************)
(* Creative runs of one project: a run plans the story, writes it, lists   *)
(* its scenes, and for every story page makes a prompt and an illustration *)
(* until the findings of a review open the internal review                 *)
(* (src/src/domain/creative/pipeline*.ts, pages.ts, invalidation*.ts,      *)
(* src/src/domain/authoring/generated-story-service-base.ts,               *)
(* project-service.ts).  Every stage is a job that checks its inputs when  *)
(* it is dispatched and again when its result is committed; the operator   *)
(* edits texts, scenes, characters and the project at any time.            *)
(*                                                                         *)
(* Versions of story and scenes are named by the story version that        *)
(* introduced them, those of a page by the page revision.  Every write of  *)
(* a page advances its revision, so the revision in a job's snapshot       *)
(* stands for the text and the prompt in it.  Layouts, previews and prints *)
(* are in BookPreview and PrintProduction: no page here has a layout.      *)
(***************************************************************************)
EXTENDS CharacterSheets

CONSTANTS
  Page,         \* story pages, a set of positive integers
  MaxRun,       \* bound: runs
  MaxRevision,  \* bound: page revisions that the operator's requests reach
  MaxEdit       \* bound: edits of the project, its story and its characters

ASSUME RunBounds ==
  /\ Page \subseteq Nat \ {0}
  /\ {MaxRun, MaxRevision, MaxEdit} \subseteq Nat

VARIABLES
  project,      \* the heads of the project: configuration and story
  page,         \* the story pages
  run,          \* the creative runs
  job,          \* the jobs of the runs: <<run, node, n>>, n > 0 for a successor
  switched      \* the image provider was changed
runVars == <<project, page, run, job, switched>>
vars == <<sheetVars, runVars>>

(***************************************************************************)
(* A node of a run is named by its stage, its page (0: none) and, for a    *)
(* repeated illustration, the page revision it was asked for at.           *)
(***************************************************************************)
Plan == <<"plan", 0, 0>>
Text == <<"text", 0, 0>>
Scenes == <<"scenes", 0, 0>>
Prompt(p) == <<"prompt", p, 0>>
Image(p) == <<"image", p, 0>>
Review == <<"review", 0, 0>>
Gate == <<"gate", 0, 0>>
PageOf(k) == k[2]
IsImage(k) == k[1] = "image"

Manifest == {Plan, Text, Scenes, Review, Gate} \cup {Prompt(p) : p \in Page} \cup {Image(p) : p \in Page}
NoJob == <<>>
Planned == [state |-> "planned", job |-> NoJob]
NodeStates == {"planned", "materialized", "committed"}
JobStates == {"queued", "working", "paused", "failed", "succeeded", "superseded"}

NoText == [at |-> 0, scene |-> 0, run |-> 0]
NoPrompt == [at |-> 0, scene |-> 0, from |-> 0, run |-> 0]
NoImage == [at |-> 0, prompt |-> 0, run |-> 0, inputs |-> {}]
NoReview == [text |-> 0, image |-> 0]

RunTypeOK ==
  /\ SheetTypeOK
  /\ project \in [version: Nat, story: Nat]
  /\ \A p \in Page :
       /\ page[p].rev \in Nat /\ page[p].scene \in 1..project.story
       /\ {page[p].text.at, page[p].prompt.at, page[p].image.at} \subseteq 0..page[p].rev
       /\ page[p].locked \in BOOLEAN /\ page[p].why \subseteq {"IM-01", "IM-06", "IM-13"}
  /\ \A r \in DOMAIN run :
       /\ run[r].status \in {"generating", "internal_review", "complete"}
       /\ run[r].findings \in {"none", "clean", "block", "acknowledged"}
       /\ Manifest \subseteq DOMAIN run[r].nodes
       /\ \A k \in DOMAIN run[r].nodes :
            /\ run[r].nodes[k].state \in NodeStates
            /\ run[r].nodes[k].job \in DOMAIN job \cup {NoJob}
  /\ \A j \in DOMAIN job : job[j].state \in JobStates
  /\ switched \in BOOLEAN

RunInit ==
  /\ SheetInit
  /\ project = [version |-> 1, story |-> 1]
  /\ page = [p \in Page |->
       [rev |-> 0, scene |-> 1, text |-> NoText, prompt |-> NoPrompt, image |-> NoImage,
        review |-> NoReview, locked |-> FALSE, why |-> {}]]
  /\ run = <<>> /\ job = <<>> /\ switched = FALSE
-----------------------------------------------------------------------------
(***************************************************************************)
(* Jobs.  snapshot is what a job was made from: the story version its task *)
(* names, the page's revision and its scene; 0 where it names none.        *)
(***************************************************************************)
Stale(p) == page[p].why # {}
Approved(p) == page[p].review # NoReview
Snapshot(story, rev, scene) == [story |-> story, rev |-> rev, scene |-> scene]

\* enqueueStructured, enqueueImage: jobs beside those there are, and the nodes that name them
Queued(jobs, r, snapshots) ==
  [j \in DOMAIN jobs \cup {<<r, k, 0>> : k \in DOMAIN snapshots} |->
     IF j \in DOMAIN jobs THEN jobs[j] ELSE [state |-> "queued", in |-> snapshots[j[2]]]]
Materialized(nodes, r, ks) ==
  [k \in DOMAIN nodes \cup ks |->
     IF k \in ks THEN [state |-> "materialized", job |-> <<r, k, 0>>] ELSE nodes[k]]
Committed(nodes, k) == [nodes EXCEPT ![k].state = "committed"]
Succeeded(j) == [job EXCEPT ![j].state = "succeeded"]

BoundTo(j) == {k \in DOMAIN run[j[1]].nodes : run[j[1]].nodes[k].job = j}

FaultySnapshotCurrent(j) == project.version = run[j[1]].version
\* what a job was made from is still there (assertJobCurrent, assertPageSnapshot)
SnapshotCurrent(j) ==
  LET r == run[j[1]] p == PageOf(j[2]) in == job[j].in IN
  /\ project.version = r.version
  /\ in.story \in {0, r.input, r.output}
  /\ p # 0 => page[p].rev = in.rev /\ ~page[p].locked /\ ~Stale(p)

\* assertJobCurrent; no code gives a run the status failed or stale that it refuses
JobCurrent(j) == BoundTo(j) # {} /\ SnapshotCurrent(j)

\* ApprovedSheetReader: an image is only dispatched with approved sheets
SheetsUsable(r) == \A c \in Character : sheet[run[r].sheets[c]].status = "approved"

DispatchJob(j) ==
  /\ job[j].state = "queued"
  /\ job' = [job EXCEPT ![j].state =
       IF ~JobCurrent(j) THEN "failed"
       ELSE IF IsImage(j[2]) /\ ~SheetsUsable(j[1]) THEN "paused" ELSE "working"]
  /\ UNCHANGED <<sheetVars, project, page, run, switched>>

\* a failed or paused job is tried again by the operator
RetryJob(j) ==
  /\ job[j].state \in {"failed", "paused"}
  /\ job' = [job EXCEPT ![j].state = "queued"]
  /\ UNCHANGED <<sheetVars, project, page, run, switched>>

\* a commit that throws leaves nothing behind but the state of its job
Refused(j, state) ==
  /\ job' = [job EXCEPT ![j].state = state]
  /\ UNCHANGED <<sheetVars, project, page, run, switched>>
-----------------------------------------------------------------------------
(***************************************************************************)
(* startRun: every participant has an approved sheet whose gate succeeded. *)
(***************************************************************************)
StartRun ==
  LET r == Len(run) + 1
      chosen == [c \in Character |-> ApprovedSheet(c)]
  IN
  /\ r <= MaxRun
  /\ \A c \in Character : chosen[c] # 0 /\ sheet[chosen[c]].gate = "succeeded"
  /\ run' = Append(run, [version |-> project.version, input |-> project.story, output |-> 0,
       status |-> "generating", findings |-> "none", sheets |-> chosen,
       nodes |-> Materialized([k \in Manifest |-> Planned], r, {Plan})])
  /\ job' = Queued(job, r, [k \in {Plan} |-> Snapshot(project.story, 0, 0)])
  /\ UNCHANGED <<sheetVars, project, page, switched>>

\* afterStoryPlan, afterStoryText: the next task names the story as it is now
CommitStory(j) ==
  LET r == j[1] next == IF j[2] = Plan THEN Text ELSE Scenes IN
  /\ job[j].state = "working" /\ j[2] \in {Plan, Text}
  /\ IF JobCurrent(j)
     THEN /\ job' = Queued(Succeeded(j), r, [k \in {next} |-> Snapshot(project.story, 0, 0)])
          /\ run' = [run EXCEPT ![r].nodes = Materialized(Committed(@, j[2]), r, {next})]
          /\ UNCHANGED <<sheetVars, project, page, switched>>
     ELSE Refused(j, "failed")

\* assertGeneratedStoryHeads and, for every page, expectedMutableStoryPage
StoryAppendable(r) == project.story = run[r].input /\ \A p \in Page : ~page[p].locked

\* appendGeneratedStory with appendGeneratedPageTexts: story version s on every page
Written(r, s) ==
  [p \in Page |-> [page[p] EXCEPT !.rev = @ + 1, !.scene = s,
     !.text = [at |-> page[p].rev + 1, scene |-> s, run |-> r], !.review = NoReview]]

CommitScenes(j) ==
  LET r == j[1]
      s == project.story + 1
      prompts == {Prompt(p) : p \in Page}
  IN
  /\ job[j].state = "working" /\ j[2] = Scenes
  /\ IF JobCurrent(j) /\ StoryAppendable(r)
     THEN /\ project' = [project EXCEPT !.story = s]
          /\ page' = Written(r, s)
          /\ job' = Queued(Succeeded(j), r,
               [k \in prompts |-> Snapshot(s, page[PageOf(k)].rev + 1, s)])
          /\ run' = [run EXCEPT ![r] =
               [run[r] EXCEPT !.output = s, !.nodes = Materialized(Committed(@, Scenes), r, prompts)]]
          /\ UNCHANGED <<sheetVars, switched>>
     ELSE Refused(j, "failed")

\* the capacity plan of the run names the sheets it was started with
SheetsKept(r) == \A c \in Character : ApprovedSheet(c) = run[r].sheets[c]

\* afterPagePrompt: the prompt is filed under the scene the page has now
CommitPrompt(j) ==
  LET r == j[1] p == PageOf(j[2]) IN
  /\ job[j].state = "working" /\ j[2][1] = "prompt"
  /\ IF JobCurrent(j) /\ SheetsKept(r)
     THEN /\ page' = [page EXCEPT ![p] = [page[p] EXCEPT !.rev = @ + 1, !.review = NoReview,
               !.prompt = [at |-> page[p].rev + 1, scene |-> page[p].scene,
                           from |-> job[j].in.scene, run |-> r]]]
          /\ job' = Queued(Succeeded(j), r,
               [k \in {Image(p)} |-> Snapshot(0, page[p].rev + 1, page[p].scene)])
          /\ run' = [run EXCEPT ![r].nodes = Materialized(Committed(@, j[2]), r, {Image(p)})]
          /\ UNCHANGED <<sheetVars, project, switched>>
     ELSE Refused(j, IF JobCurrent(j) /\ \E c \in Character : ApprovedSheet(c) = 0
                     THEN "paused" ELSE "failed")

FaultyReviewDue(nodes) ==
  nodes[Review].state = "planned" /\ \E k \in DOMAIN nodes : IsImage(k) /\ nodes[k].state = "committed"
\* maybeMaterializeReview
ReviewDue(nodes) ==
  /\ nodes[Review].state = "planned"
  /\ \A k \in DOMAIN nodes : IsImage(k) => nodes[k].state = "committed"

FaultyNodesAfter(j) == run[j[1]].nodes
\* the review is asked for after the run was written
NodesAfter(j) == Committed(run[j[1]].nodes, j[2])

(***************************************************************************)
(* commitIllustration.  Of the snapshot the illustration keeps the ids: of *)
(* scene, sheets, prompt, page and run, of which events name only scenes.  *)
(***************************************************************************)
ImageInputs(j) ==
  {<<"scene", job[j].in.scene>>} \cup {<<"sheet", run[j[1]].sheets[c]>> : c \in Character}

Illustrated(j) ==
  LET p == PageOf(j[2]) IN
  [page EXCEPT ![p] = [page[p] EXCEPT !.rev = @ + 1, !.review = NoReview,
     !.image = [at |-> page[p].rev + 1, prompt |-> page[p].prompt.at,
                run |-> j[1], inputs |-> ImageInputs(j)]]]

CommitImage(j) ==
  LET r == j[1]
      due == IF ReviewDue(NodesAfter(j)) THEN {Review} ELSE {}
  IN
  /\ job[j].state = "working" /\ IsImage(j[2])
  /\ IF JobCurrent(j)
     THEN /\ page' = Illustrated(j)
          /\ job' = Queued(Succeeded(j), r, [k \in due |-> Snapshot(project.story, 0, 0)])
          /\ run' = [run EXCEPT ![r].nodes = Materialized(Committed(@, j[2]), r, due)]
          /\ UNCHANGED <<sheetVars, project, switched>>
     ELSE Refused(j, "failed")

\* afterReviewFindings: the findings, and a gate that is a job of the run
CommitReview(j, findings) ==
  LET r == j[1] IN
  /\ job[j].state = "working" /\ j[2] = Review
  /\ IF JobCurrent(j)
     THEN /\ job' = Succeeded(j)
          /\ run' = [run EXCEPT ![r] = [run[r] EXCEPT !.status = "internal_review",
               !.findings = findings,
               !.nodes = [Committed(@, Review) EXCEPT ![Gate].state = "materialized"]]]
          /\ UNCHANGED <<sheetVars, project, page, switched>>
     ELSE Refused(j, "failed")
-----------------------------------------------------------------------------
(***************************************************************************)
(* The internal review.                                                    *)
(***************************************************************************)
AcknowledgeFinding(r) ==
  /\ run[r].status = "internal_review" /\ run[r].findings = "block"
  /\ run' = [run EXCEPT ![r].findings = "acknowledged"]
  /\ UNCHANGED <<sheetVars, project, page, job, switched>>

\* internalReviewCanComplete
CompleteReview(r) ==
  /\ run[r].status = "internal_review" /\ run[r].findings # "block"
  /\ \A p \in Page : Approved(p) /\ ~Stale(p) /\ page[p].image # NoImage
  /\ run' = [run EXCEPT ![r] = [run[r] EXCEPT !.status = "complete", !.nodes = Committed(@, Gate)]]
  /\ UNCHANGED <<sheetVars, project, page, job, switched>>

MayRevise(p) == page[p].rev < MaxRevision

\* regenerateIllustration: another node of the run, for the prompt the page has now
Regenerate(r, p) ==
  LET k == <<"image", p, page[p].rev + 1>> IN
  /\ MayRevise(p) /\ run[r].status = "internal_review" /\ ~page[p].locked
  /\ page[p].prompt # NoPrompt /\ SheetsKept(r) /\ k \notin DOMAIN run[r].nodes
  /\ run' = [run EXCEPT ![r].nodes = Materialized(@, r, {k})]
  /\ job' = Queued(job, r, [i \in {k} |-> Snapshot(0, page[p].rev, page[p].prompt.scene)])
  /\ UNCHANGED <<sheetVars, project, page, switched>>
-----------------------------------------------------------------------------
(***************************************************************************)
(* The operator, at any time.                                              *)
(***************************************************************************)
ReviewPage(p) ==
  /\ MayRevise(p) /\ page[p].text # NoText /\ page[p].image # NoImage /\ ~Stale(p)
  /\ page' = [page EXCEPT ![p].rev = @ + 1,
       ![p].review = [text |-> page[p].text.at, image |-> page[p].image.at]]
  /\ UNCHANGED <<sheetVars, project, run, job, switched>>

LockPage(p) ==
  /\ page[p].rev <= MaxRevision /\ Approved(p) /\ ~Stale(p) /\ ~page[p].locked
  /\ page' = [page EXCEPT ![p].rev = @ + 1, ![p].locked = TRUE]
  /\ UNCHANGED <<sheetVars, project, run, job, switched>>

UnlockPage(p) ==
  /\ page[p].locked
  /\ page' = [page EXCEPT ![p].rev = @ + 1, ![p].locked = FALSE]
  /\ UNCHANGED <<sheetVars, project, run, job, switched>>

\* edits so far: of the project, of its characters, and story versions no run wrote
Edits ==
  (project.version - 1) + MapThenSumSet(LAMBDA c : library[c] - Pinned, Character)
  + (project.story - 1) - Cardinality({r \in DOMAIN run : run[r].output # 0})
MayEdit == Edits < MaxEdit

FaultyRetold(p, s) ==
  [page[p] EXCEPT !.rev = @ + 1, !.scene = s,
     !.text = [at |-> page[p].rev + 1, scene |-> s, run |-> page[p].text.run]]
\* a manual text, on scene version s
Retold(p, s) ==
  [page[p] EXCEPT !.rev = @ + 1, !.scene = s, !.review = NoReview,
     !.text = [at |-> page[p].rev + 1, scene |-> s, run |-> page[p].text.run]]

\* appendManualText: a new text on a new scene version of a new story version
EditText(p) ==
  LET s == project.story + 1 IN
  /\ MayEdit /\ page[p].rev <= MaxRevision /\ ~page[p].locked
  /\ page[p].text # NoText /\ page[p].text.scene = page[p].scene
  /\ project' = [project EXCEPT !.story = s]
  /\ page' = [page EXCEPT ![p] = Retold(p, s)]
  /\ UNCHANGED <<sheetVars, run, job, switched>>

\* matchingPages: the pages whose illustration was made from ref
PagesMadeFrom(ref) == {p \in Page : page[p].image # NoImage /\ ref \in page[p].image.inputs}
\* markPageStale: once for every row of the matrix
MarkedStale(pg, ps, row) ==
  [p \in Page |-> IF p \notin ps \/ row \in pg[p].why THEN pg[p] ELSE
     [pg[p] EXCEPT !.rev = @ + 1, !.why = @ \cup {row}, !.review = NoReview]]

\* updateScene of a story page, IM-06
EditScene(p) ==
  LET s == project.story + 1
      hit == {q \in PagesMadeFrom(<<"scene", page[p].scene>>) : q = p}
  IN
  /\ MayEdit
  /\ project' = [project EXCEPT !.story = s]
  /\ page' = MarkedStale([page EXCEPT ![p].scene = s], hit, "IM-06")
  /\ UNCHANGED <<sheetVars, run, job, switched>>

\* updateProject, IM-13 if it changes the style; appendProjectOverride if not
ReviseProject(style) ==
  LET hit == IF style THEN {p \in Page : page[p].image # NoImage} ELSE {} IN
  /\ MayEdit
  /\ project' = [project EXCEPT !.version = @ + 1]
  /\ page' = MarkedStale(page, hit, "IM-13")
  /\ UNCHANGED <<sheetVars, run, job, switched>>

\* updateCharacter: the version replaced is what the event names
ReviseCharacter(c, row) ==
  LET hit == IF row = "IM-01" THEN PagesMadeFrom(<<"character", c, library[c]>>) ELSE {} IN
  /\ MayEdit /\ EditCharacter(c, row)
  /\ page' = MarkedStale(page, hit, row)
  /\ UNCHANGED <<project, run, job, switched>>

(***************************************************************************)
(* retargetRemaining: the remaining image jobs get successors on the new   *)
(* provider, made from the same snapshot; the nodes keep naming the jobs   *)
(* that were superseded.                                                   *)
(***************************************************************************)
SwitchProvider ==
  LET moved == {j \in DOMAIN job : IsImage(j[2]) /\ job[j].state \in {"queued", "paused"}} IN
  /\ ~switched /\ moved # {}
  /\ switched' = TRUE
  /\ job' = [j \in DOMAIN job \cup {<<i[1], i[2], 1>> : i \in moved} |->
       IF j \in moved THEN [job[j] EXCEPT !.state = "superseded"]
       ELSE IF j \in DOMAIN job THEN job[j] ELSE job[<<j[1], j[2], 0>>]]
  /\ UNCHANGED <<sheetVars, project, page, run>>

\* dispatched work is lost with the process and claimed again
Restart ==
  /\ \E j \in DOMAIN job : job[j].state = "working"
  /\ job' = [j \in DOMAIN job |->
       [job[j] EXCEPT !.state = IF @ = "working" THEN "queued" ELSE @]]
  /\ UNCHANGED <<sheetVars, project, page, run, switched>>
-----------------------------------------------------------------------------
CommitJob(j) ==
  \/ CommitStory(j) \/ CommitScenes(j) \/ CommitPrompt(j) \/ CommitImage(j)
  \/ \E findings \in {"clean", "block"} : CommitReview(j, findings)
Making == (Sheets /\ UNCHANGED runVars) \/ StartRun
Operating ==
  \/ \E r \in DOMAIN run : AcknowledgeFinding(r) \/ CompleteReview(r)
  \/ \E r \in DOMAIN run, p \in Page : Regenerate(r, p)
  \/ \E p \in Page : ReviewPage(p) \/ LockPage(p) \/ UnlockPage(p)
Editing ==
  \/ \E p \in Page : EditText(p) \/ EditScene(p)
  \/ \E style \in BOOLEAN : ReviseProject(style)
  \/ \E c \in Character, row \in {"IM-01", "IM-05"} : ReviseCharacter(c, row)

Working == Restart \/ \E j \in DOMAIN job : DispatchJob(j) \/ CommitJob(j) \/ RetryJob(j)

SteadyNext == Making \/ Working \/ Operating \/ Editing
Next == SteadyNext \/ SwitchProvider
Spec == RunInit /\ [][Next]_vars

(***************************************************************************)
(* The worker takes up every queued job and the operator tries a stopped   *)
(* one again; a job may be interrupted by restarts, but not for ever.      *)
(***************************************************************************)
Fairness ==
  /\ WF_vars(\E j \in DOMAIN job : DispatchJob(j)) /\ WF_vars(\E j \in DOMAIN job : RetryJob(j))
  /\ SF_vars(\E j \in DOMAIN job : CommitJob(j))
SteadySpec == RunInit /\ [][SteadyNext]_vars /\ Fairness
\* nobody edits anything, but the provider may be changed
SwitchSpec == RunInit /\ [][Making \/ Working \/ SwitchProvider]_vars /\ Fairness
-----------------------------------------------------------------------------
TypeOK == RunTypeOK

(***************************************************************************)
(* Approval of a sheet and its gate succeed together and stay together:    *)
(* startRun takes the gate of every approved sheet as what its first job   *)
(* waits for, and a sheet that was refused has no gate left to approve it. *)
(***************************************************************************)
SheetsAndGatesAgree ==
  \A s \in DOMAIN sheet :
    /\ sheet[s].status \in {"approved", "approved_superseded"} => sheet[s].gate = "succeeded"
    /\ sheet[s].status = "ready" => sheet[s].gate = "waiting_review"
    /\ sheet[s].gate = "succeeded" => sheet[s].approval \in {"approved", "superseded"}
    /\ sheet[s].intent = "rejected" => sheet[s].gate = "canceled"

(***************************************************************************)
(* The findings are made when everything is there: a run under review has  *)
(* all its stages committed and every page has text, prompt and            *)
(* illustration (maybeMaterializeReview, createRunNodes).                  *)
(***************************************************************************)
ReviewedRunsAreWhole ==
  \A r \in DOMAIN run : run[r].nodes[Review].state # "planned" =>
    /\ \A k \in Manifest \ {Review, Gate} : run[r].nodes[k].state = "committed"
    /\ \A p \in Page : NoText # page[p].text /\ NoPrompt # page[p].prompt /\ NoImage # page[p].image

(***************************************************************************)
(* An approved page shows what was reviewed: whatever came later, from the *)
(* operator or from a late job, took the approval back.                    *)
(***************************************************************************)
ReviewsAreCurrent ==
  \A p \in Page : Approved(p) =>
    page[p].review = [text |-> page[p].text.at, image |-> page[p].image.at]

(***************************************************************************)
(* A run arrives at its review, through restarts and retries, unless       *)
(* something an unfinished job of it was made from has changed meanwhile.  *)
(***************************************************************************)
Overtaken(j) ==
  LET r == j[1] IN
  /\ job[j].state \notin {"succeeded", "superseded"}
  /\ \/ ~SnapshotCurrent(j)
     \/ j[2] = Scenes /\ ~StoryAppendable(r)
     \/ j[2][1] = "prompt" /\ ~SheetsKept(r)
     \/ IsImage(j[2]) /\ ~SheetsUsable(r)
Generating(r) == r \in DOMAIN run /\ run[r].status = "generating"
RunsReachReview ==
  \A r \in 1..MaxRun : Generating(r) ~>
    \/ ~Generating(r)
    \/ \E j \in DOMAIN job : j[1] = r /\ Overtaken(j)

(***************************************************************************)
(* The remaining work of a run continues on the provider that replaced the *)
(* one it was queued for (FR-095, FR-096).                                 *)
(***************************************************************************)
RemainingWorkContinues == \A r \in 1..MaxRun : Generating(r) ~> ~Generating(r)

\* The content of a locked page is frozen, also for jobs that were under way (FR-064).
LockedContentFrozen ==
  [][\A p \in Page : page[p].locked =>
       /\ page'[p].text = page[p].text /\ page'[p].prompt = page[p].prompt
       /\ page'[p].image = page[p].image]_vars
=============================================================================
