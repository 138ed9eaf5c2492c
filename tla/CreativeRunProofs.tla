-------------------------- MODULE CreativeRunProofs --------------------------
(***************************************************************************)
(* Theorems about CreativeRun and CharacterSheets, for all participants,   *)
(* pages and bounds, with their proofs.  The records of pages and runs are *)
(* described by their fields: a run keeps the sheets it was started with   *)
(* and an illustration the ids it was made from, and no property needs     *)
(* their type.                                                             *)
(***************************************************************************)
EXTENDS CreativeRun, SequenceTheorems, TLAPS

(***************************************************************************)
(* Sheets and their gates.                                                 *)
(***************************************************************************)
SheetInv == SheetTypeOK /\ SheetsAndGatesAgree

\* one sheet agrees with its gate
Agrees(x) ==
  /\ x.status \in {"approved", "approved_superseded"} => x.gate = "succeeded"
  /\ x.status = "ready" => x.gate = "waiting_review"
  /\ x.gate = "succeeded" => x.approval \in {"approved", "superseded"}
  /\ x.intent = "rejected" => x.gate = "canceled"

\* a new sheet waits for its views
LEMMA NewSheetAgrees ==
  ASSUME NEW c \in Character
  PROVE  NewSheet(c) \in SheetRecord /\ Agrees(NewSheet(c))
  BY DEF NewSheet, SheetRecord, Agrees

AllAgree(q) == q \in Seq(SheetRecord) /\ \A s \in DOMAIN q : Agrees(q[s])

LEMMA SheetsAgreeing == SheetInv <=> AllAgree(sheet) /\ library \in [Character -> Nat]
  BY DEF SheetInv, SheetTypeOK, SheetsAndGatesAgree, Agrees, AllAgree

LEMMA OneChanged ==
  ASSUME NEW q, AllAgree(q), NEW s \in DOMAIN q, NEW x \in SheetRecord, Agrees(x)
  PROVE  AllAgree([q EXCEPT ![s] = x])
  <1>1. [q EXCEPT ![s] = x] \in Seq(SheetRecord)
    BY ExceptSeq DEF AllAgree
  <1> QED
    BY <1>1 DEF AllAgree

LEMMA OneAppended ==
  ASSUME NEW q, AllAgree(q), NEW x \in SheetRecord, Agrees(x)
  PROVE  AllAgree(Append(q, x))
  <1>1. /\ Append(q, x) \in Seq(SheetRecord) /\ Len(Append(q, x)) = Len(q) + 1
        /\ \A i \in 1..Len(q) : Append(q, x)[i] = q[i]
        /\ Append(q, x)[Len(q) + 1] = x
    BY AppendProperties DEF AllAgree
  <1>2. q \in Seq(SheetRecord)
    BY DEF AllAgree
  <1>3. ASSUME NEW i \in DOMAIN Append(q, x)
        PROVE  Agrees(Append(q, x)[i])
    <2>1. i \in 1..Len(q) \/ i = Len(q) + 1
      BY <1>1, <1>2
    <2>2. DOMAIN q = 1..Len(q)
      BY <1>2
    <2> QED
      BY <1>1, <2>1, <2>2 DEF AllAgree
  <1> QED
    BY <1>1, <1>3 DEF AllAgree

(***************************************************************************)
(* Every operation on one sheet keeps the agreement.                       *)
(***************************************************************************)
LEMMA SheetsKeepAgreement ==
  ASSUME SheetInv, Sheets
  PROVE  SheetInv'
  <1>0. AllAgree(sheet) /\ library \in [Character -> Nat]
    BY SheetsAgreeing
  <1>1. ASSUME NEW c \in Character, StartSheet(c)
        PROVE  AllAgree(sheet') /\ library' = library
    <2>1. AllAgree(Append(sheet, NewSheet(c)))
      BY <1>0, OneAppended, NewSheetAgrees
    <2> QED
      BY <1>1, <2>1 DEF StartSheet
  <1>2. ASSUME NEW s \in DOMAIN sheet
        PROVE  sheet[s] \in SheetRecord /\ Agrees(sheet[s])
    BY <1>0 DEF AllAgree
  <1>3. ASSUME NEW s \in DOMAIN sheet, NEW v \in View, FinishView(s, v)
        PROVE  AllAgree(sheet') /\ library' = library
    <2> DEFINE x == [sheet[s] EXCEPT !.views = sheet[s].views \cup {v}]
    <2>1. x \in SheetRecord /\ Agrees(x)
      BY <1>2 DEF SheetRecord, Agrees
    <2>2. AllAgree([sheet EXCEPT ![s] = x])
      BY <1>0, <2>1, OneChanged
    <2> QED
      BY <1>3, <2>2 DEF FinishView
  <1>4. ASSUME NEW s \in DOMAIN sheet, FinalizeSheet(s)
        PROVE  AllAgree(sheet') /\ library' = library
    <2> DEFINE x == [sheet[s] EXCEPT !.intent = "ready", !.status = "ready", !.gate = "waiting_review"]
    <2>1. x \in SheetRecord /\ Agrees(x)
      BY <1>2 DEF SheetRecord, Agrees
    <2>2. AllAgree([sheet EXCEPT ![s] = x])
      BY <1>0, <2>1, OneChanged
    <2> QED
      BY <1>4, <2>2 DEF FinalizeSheet
  <1>5. ASSUME NEW s \in DOMAIN sheet, ApproveSheet(s)
        PROVE  AllAgree(sheet') /\ library' = library
    <2> DEFINE x == [sheet[s] EXCEPT !.status = "approved", !.gate = "succeeded", !.approval = "approved"]
    <2>1. x \in SheetRecord
      BY <1>2 DEF SheetRecord
    <2>2. Agrees(x)
      BY <1>2, <1>5 DEF SheetRecord, Agrees, ApproveSheet, Undecided
    <2>3. AllAgree([sheet EXCEPT ![s] = x])
      BY <1>0, <2>1, <2>2, OneChanged
    <2> QED
      BY <1>5, <2>3 DEF ApproveSheet
  <1>6. ASSUME NEW s \in DOMAIN sheet, RefuseSheet(s)
        PROVE  AllAgree(sheet') /\ library' = library
    <2> DEFINE x == [sheet[s] EXCEPT !.status = "revision_needed", !.gate = "canceled",
                                     !.intent = "rejected", !.approval = "changes_requested"]
    <2>1. x \in SheetRecord /\ Agrees(x)
      BY <1>2 DEF SheetRecord, Agrees
    <2>2. AllAgree([sheet EXCEPT ![s] = x])
      BY <1>0, <2>1, OneChanged
    <2>3. sheet[s].who \in Character
      BY <1>2 DEF SheetRecord
    <2>4. AllAgree(Append([sheet EXCEPT ![s] = x], NewSheet(sheet[s].who)))
      BY <2>2, <2>3, NewSheetAgrees, OneAppended
    <2> QED
      BY <1>6, <2>4 DEF RefuseSheet
  <1> QED
    BY <1>0, <1>1, <1>3, <1>4, <1>5, <1>6, SheetsAgreeing DEF Sheets, SheetInv, SheetTypeOK, AllAgree,
       SheetsAndGatesAgree, Agrees

\* an edit of a character supersedes or rechecks the sheets it finds
LEMMA EditKeepsAgreement ==
  ASSUME SheetInv, NEW c \in Character, NEW row, EditCharacter(c, row)
  PROVE  SheetInv'
  <1>0. AllAgree(sheet) /\ library \in [Character -> Nat]
    BY SheetsAgreeing
  <1>1. ASSUME NEW s \in DOMAIN sheet
        PROVE  /\ sheet[s] \in SheetRecord /\ Agrees(sheet[s])
               /\ sheet[s].status # "none" =>
                    /\ Superseded(sheet[s]) \in SheetRecord /\ Agrees(Superseded(sheet[s]))
                    /\ Rechecked(sheet[s]) \in SheetRecord /\ Agrees(Rechecked(sheet[s]))
    <2>1. sheet[s] \in SheetRecord /\ Agrees(sheet[s])
      BY <1>0 DEF AllAgree
    <2>2. Superseded(sheet[s]) \in SheetRecord /\ Rechecked(sheet[s]) \in SheetRecord
      BY <2>1 DEF SheetRecord, Superseded, Rechecked
    <2>3. Agrees(Superseded(sheet[s])) /\ Agrees(Rechecked(sheet[s]))
      BY <2>1 DEF SheetRecord, Agrees, Superseded, Rechecked
    <2> QED
      BY <2>1, <2>2, <2>3
  <1>2. /\ DOMAIN sheet' = DOMAIN sheet
        /\ \A s \in DOMAIN sheet : sheet'[s] \in SheetRecord /\ Agrees(sheet'[s])
        /\ sheet' = [s \in DOMAIN sheet |-> sheet'[s]]
    BY <1>1 DEF EditCharacter
  <1>3. sheet' \in Seq(SheetRecord)
    <2>1. DOMAIN sheet = 1..Len(sheet) /\ Len(sheet) \in Nat
      BY <1>0 DEF AllAgree
    <2> QED
      BY <1>2, <2>1
  <1>4. AllAgree(sheet')
    BY <1>2, <1>3 DEF AllAgree
  <1>5. library' \in [Character -> Nat]
    BY <1>0 DEF EditCharacter
  <1> QED
    BY <1>4, <1>5 DEF SheetInv, SheetTypeOK, AllAgree, SheetsAndGatesAgree, Agrees

\* only the steps of sheets and the edit of a character touch them
LEMMA StepKeepsAgreement ==
  ASSUME SheetInv, [Next]_vars
  PROVE  SheetInv'
  <1>1. CASE Sheets
    BY <1>1, SheetsKeepAgreement
  <1>2. ASSUME NEW c \in Character, NEW row, EditCharacter(c, row)
        PROVE  SheetInv'
    BY <1>2, EditKeepsAgreement
  <1>3. CASE UNCHANGED sheetVars
    BY <1>3 DEF sheetVars, SheetInv, SheetTypeOK, SheetsAndGatesAgree
  <1>4. CASE Next
    <2>1. CASE Making
      BY <2>1, <1>1, <1>3 DEF Making, StartRun
    <2>2. CASE Working
      BY <2>2, <1>3 DEF Working, Restart, DispatchJob, RetryJob, CommitJob, CommitStory,
         CommitScenes, CommitPrompt, CommitImage, CommitReview, Refused
    <2>3. CASE Operating
      BY <2>3, <1>3 DEF Operating, AcknowledgeFinding, CompleteReview, Regenerate, ReviewPage,
         LockPage, UnlockPage
    <2>4. CASE Editing
      BY <2>4, <1>2, <1>3 DEF Editing, EditText, EditScene, ReviseProject, ReviseCharacter
    <2>5. CASE SwitchProvider
      BY <2>5, <1>3 DEF SwitchProvider
    <2> QED
      BY <1>4, <2>1, <2>2, <2>3, <2>4, <2>5 DEF Next, SteadyNext
  <1> QED
    BY <1>3, <1>4 DEF vars

(***************************************************************************)
(* The approval of a sheet and the success of its gate stay together,      *)
(* through refusals, successors and edits of the character.                *)
(***************************************************************************)
THEOREM SheetsFollowTheirGates == Spec => []SheetsAndGatesAgree
  <1>1. RunInit => SheetInv
    BY DEF RunInit, SheetInit, SheetInv, SheetTypeOK, SheetsAndGatesAgree, Pinned
  <1>2. SheetInv /\ [Next]_vars => SheetInv'
    BY StepKeepsAgreement
  <1>3. SheetInv => SheetsAndGatesAgree
    BY DEF SheetInv
  <1> QED
    BY <1>1, <1>2, <1>3, PTL DEF Spec


(***************************************************************************)
(* Pages.                                                                  *)
(***************************************************************************)
PageFields == {"rev", "scene", "text", "prompt", "image", "review", "locked", "why"}

\* a page of a project whose current story version is given
PageFits(x, story) ==
  /\ DOMAIN x = PageFields
  /\ x.rev \in Nat /\ x.scene \in 1..story
  /\ x.text.at \in 0..x.rev /\ x.prompt.at \in 0..x.rev /\ x.image.at \in 0..x.rev
  /\ x.locked \in BOOLEAN /\ x.why \subseteq {"IM-01", "IM-06", "IM-13"}
  /\ x.review # NoReview => x.review = [text |-> x.text.at, image |-> x.image.at]

PagesFit ==
  /\ project \in [version: Nat, story: Nat] /\ project.story > 0
  /\ DOMAIN page = Page
  /\ \A p \in Page : PageFits(page[p], project.story)

\* nothing a page has is taken away, and nothing of a locked page is replaced
PageKept(x, y) ==
  /\ x.text # NoText => y.text # NoText
  /\ x.prompt # NoPrompt => y.prompt # NoPrompt
  /\ x.image # NoImage => y.image # NoImage
  /\ x.locked => y.text = x.text /\ y.prompt = x.prompt /\ y.image = x.image

PagesKept == \A p \in Page : PageKept(page[p], page'[p])

\* the jobs are named <<run, node, successor>>
Node == Manifest \cup {<<"image", p, n>> : p \in Page, n \in Nat}
Name == Nat \X Node \X {0, 1}

LEMMA NodesOfPages ==
  ASSUME NEW k \in Node
  PROVE  /\ k[1] = "prompt" => PageOf(k) \in Page /\ k = Prompt(PageOf(k))
         /\ IsImage(k) => PageOf(k) \in Page
  BY DEF Node, Manifest, Plan, Text, Scenes, Prompt, Image, Review, Gate, PageOf, IsImage

LEMMA PagesAreNotZero == 0 \notin Page
  BY RunBounds

\* the story moves on and pages stay: later versions include the earlier ones
LEMMA PagesUnchanged ==
  ASSUME PagesFit, UNCHANGED page, project' \in [version: Nat, story: Nat],
         project'.story >= project.story
  PROVE  PagesFit' /\ PagesKept
  BY DEF PagesFit, PageFits, PagesKept, PageKept

\* pages changed one by one
LEMMA PagesChanged ==
  ASSUME PagesFit, project' \in [version: Nat, story: Nat], project'.story >= project.story,
         DOMAIN page' = Page,
         \A p \in Page : \/ page'[p] = page[p]
                         \/ PageFits(page'[p], project'.story) /\ PageKept(page[p], page'[p])
  PROVE  PagesFit' /\ PagesKept
  <1>1. ASSUME NEW p \in Page
        PROVE  PageFits(page'[p], project'.story) /\ PageKept(page[p], page'[p])
    <2>1. PageFits(page[p], project'.story) /\ PageKept(page[p], page[p])
      BY DEF PagesFit, PageFits, PageKept
    <2> QED
      BY <2>1
  <1> QED
    BY <1>1 DEF PagesFit, PagesKept

(***************************************************************************)
(* What a commit writes into a page.                                       *)
(***************************************************************************)
LEMMA WrittenFits ==
  ASSUME PagesFit, NEW r, NEW p \in Page, ~page[p].locked
  PROVE  LET s == project.story + 1 IN
         /\ DOMAIN Written(r, s) = Page
         /\ PageFits(Written(r, s)[p], s) /\ PageKept(page[p], Written(r, s)[p])
         /\ Written(r, s)[p].text # NoText
  <1> DEFINE s == project.story + 1
             x == page[p]
             y == Written(r, s)[p]
  <1>1. PageFits(x, project.story) /\ project.story \in Nat
    BY DEF PagesFit
  <1>2. /\ DOMAIN y = PageFields /\ y.rev = x.rev + 1 /\ y.scene = s /\ y.review = NoReview
        /\ y.text = [at |-> x.rev + 1, scene |-> s, run |-> r]
        /\ y.prompt = x.prompt /\ y.image = x.image /\ y.locked = x.locked /\ y.why = x.why
    BY <1>1 DEF Written, PageFits, PageFields
  <1>3. y.text # NoText /\ y.text.at = x.rev + 1
    BY <1>1, <1>2 DEF NoText, PageFits
  <1>4. DOMAIN Written(r, s) = Page
    BY DEF Written
  <1> HIDE DEF y
  <1>5. PageFits(y, s) /\ PageKept(x, y)
    BY <1>1, <1>2, <1>3 DEF PageFits, PageKept
  <1> QED
    BY <1>3, <1>4, <1>5 DEF y

\* a page that is written at one place
LEMMA OnePageChanged ==
  ASSUME PagesFit, NEW p \in Page, NEW x, page' = [page EXCEPT ![p] = x],
         project' \in [version: Nat, story: Nat], project'.story >= project.story,
         PageFits(x, project'.story), PageKept(page[p], x)
  PROVE  PagesFit' /\ PagesKept
  <1>1. DOMAIN page' = Page
    BY DEF PagesFit
  <1>2. ASSUME NEW q \in Page
        PROVE  \/ page'[q] = page[q]
               \/ PageFits(page'[q], project'.story) /\ PageKept(page[q], page'[q])
    <2>1. page'[q] = IF q = p THEN x ELSE page[q]
      BY DEF PagesFit
    <2>2. CASE q = p
      <3>1. page'[q] = x
        BY <2>1, <2>2
      <3> QED
        BY <2>2, <3>1, Zenon
    <2>3. CASE q # p
      BY <2>1, <2>3
    <2> QED
      BY <2>2, <2>3
  <1> QED
    BY <1>1, <1>2, PagesChanged

\* and the project stays
LEMMA PageAlone ==
  ASSUME PagesFit, NEW p \in Page, NEW x, page' = [page EXCEPT ![p] = x], UNCHANGED project,
         PageFits(x, project.story), PageKept(page[p], x)
  PROVE  PagesFit' /\ PagesKept
  <1>1. project' \in [version: Nat, story: Nat] /\ project'.story = project.story
        /\ project'.story >= project.story
    BY DEF PagesFit
  <1> QED
    BY <1>1, OnePageChanged

LEMMA CommitScenesPages ==
  ASSUME PagesFit, NEW j \in DOMAIN job, CommitScenes(j)
  PROVE  PagesFit' /\ PagesKept
  <1>1. CASE JobCurrent(j) /\ StoryAppendable(j[1])
    <2> DEFINE s == project.story + 1
    <2>1. project' = [project EXCEPT !.story = s] /\ page' = Written(j[1], s)
      BY <1>1 DEF CommitScenes
    <2>2. project' \in [version: Nat, story: Nat] /\ project'.story = s /\ s >= project.story
      BY <2>1 DEF PagesFit
    <2>3. \A p \in Page : PageFits(page'[p], s) /\ PageKept(page[p], page'[p])
      BY <1>1, <2>1, WrittenFits DEF StoryAppendable
    <2>4. DOMAIN page' = Page
      BY <2>1 DEF Written
    <2> HIDE DEF s
    <2> QED
      BY <2>2, <2>3, <2>4, PagesChanged
  <1>2. CASE ~(JobCurrent(j) /\ StoryAppendable(j[1]))
    BY <1>2, PagesUnchanged DEF CommitScenes, Refused, PagesFit
  <1> QED
    BY <1>1, <1>2

LEMMA CommitPromptPages ==
  ASSUME PagesFit, DOMAIN job \subseteq Name, NEW j \in DOMAIN job, CommitPrompt(j)
  PROVE  PagesFit' /\ PagesKept
  <1>1. CASE JobCurrent(j) /\ SheetsKept(j[1])
    <2> DEFINE p == PageOf(j[2])
               made == [at |-> page[p].rev + 1, scene |-> page[p].scene,
                        from |-> job[j].in.scene, run |-> j[1]]
               x == [page[p] EXCEPT !.rev = @ + 1, !.review = NoReview, !.prompt = made]
    <2>1. page' = [page EXCEPT ![p] = x] /\ UNCHANGED project
      BY <1>1 DEF CommitPrompt
    <2>2. j[2] \in Node
      BY DEF Name
    <2>3. p \in Page
      BY <2>2, NodesOfPages DEF CommitPrompt
    <2>4. ~page[p].locked
      BY <1>1, <2>3, PagesAreNotZero DEF JobCurrent, SnapshotCurrent
    <2>5. PageFits(page[p], project.story)
      BY <2>3 DEF PagesFit
    <2>6. /\ DOMAIN x = PageFields /\ x.rev = page[p].rev + 1 /\ x.review = NoReview
          /\ x.prompt = made /\ x.scene = page[p].scene /\ x.text = page[p].text
          /\ x.image = page[p].image /\ x.locked = page[p].locked /\ x.why = page[p].why
      BY <2>5 DEF PageFits, PageFields
    <2>7. made.at = page[p].rev + 1 /\ made # NoPrompt
      BY <2>5 DEF NoPrompt, PageFits
    <2> HIDE DEF x, made, p
    <2>8. PageFits(x, project.story) /\ PageKept(page[p], x)
      BY <2>4, <2>5, <2>6, <2>7 DEF PageFits, PageKept
    <2> QED
      BY <2>1, <2>3, <2>8, PageAlone
  <1>2. CASE ~(JobCurrent(j) /\ SheetsKept(j[1]))
    BY <1>2, PagesUnchanged DEF CommitPrompt, Refused, PagesFit
  <1> QED
    BY <1>1, <1>2

LEMMA CommitImagePages ==
  ASSUME PagesFit, DOMAIN job \subseteq Name, NEW j \in DOMAIN job, CommitImage(j)
  PROVE  PagesFit' /\ PagesKept
  <1>1. CASE JobCurrent(j)
    <2> DEFINE p == PageOf(j[2])
               made == [at |-> page[p].rev + 1, prompt |-> page[p].prompt.at,
                        run |-> j[1], inputs |-> ImageInputs(j)]
               x == [page[p] EXCEPT !.rev = @ + 1, !.review = NoReview, !.image = made]
    <2>1. page' = [page EXCEPT ![p] = x] /\ UNCHANGED project
      BY <1>1 DEF CommitImage, Illustrated
    <2>2. j[2] \in Node
      BY DEF Name
    <2>3. p \in Page
      BY <2>2, NodesOfPages DEF CommitImage
    <2>4. ~page[p].locked
      BY <1>1, <2>3, PagesAreNotZero DEF JobCurrent, SnapshotCurrent
    <2>5. PageFits(page[p], project.story)
      BY <2>3 DEF PagesFit
    <2>6. /\ DOMAIN x = PageFields /\ x.rev = page[p].rev + 1 /\ x.review = NoReview
          /\ x.image = made /\ x.scene = page[p].scene /\ x.text = page[p].text
          /\ x.prompt = page[p].prompt /\ x.locked = page[p].locked /\ x.why = page[p].why
      BY <2>5 DEF PageFits, PageFields
    <2>7. made.at = page[p].rev + 1 /\ made # NoImage
      BY <2>5 DEF NoImage, PageFits
    <2> HIDE DEF x, made, p
    <2>8. PageFits(x, project.story) /\ PageKept(page[p], x)
      BY <2>4, <2>5, <2>6, <2>7 DEF PageFits, PageKept
    <2> QED
      BY <2>1, <2>3, <2>8, PageAlone
  <1>2. CASE ~JobCurrent(j)
    BY <1>2, PagesUnchanged DEF CommitImage, Refused, PagesFit
  <1> QED
    BY <1>1, <1>2

(***************************************************************************)
(* What the operator does to a page.                                       *)
(***************************************************************************)
LEMMA ReviewPagePages ==
  ASSUME PagesFit, NEW p \in Page, ReviewPage(p)
  PROVE  PagesFit' /\ PagesKept
  <1> DEFINE seen == [text |-> page[p].text.at, image |-> page[p].image.at]
             x == [page[p] EXCEPT !.rev = @ + 1, !.review = seen]
  <1>1. PageFits(page[p], project.story)
    BY DEF PagesFit
  <1>2. page' = [page EXCEPT ![p] = x] /\ UNCHANGED project
    BY DEF ReviewPage
  <1>3. /\ DOMAIN x = PageFields /\ x.rev = page[p].rev + 1 /\ x.review = seen
        /\ x.scene = page[p].scene /\ x.text = page[p].text /\ x.prompt = page[p].prompt
        /\ x.image = page[p].image /\ x.locked = page[p].locked /\ x.why = page[p].why
    BY <1>1 DEF PageFits, PageFields
  <1>4. PageFits(x, project.story) /\ PageKept(page[p], x)
    BY <1>1, <1>3 DEF PageFits, PageKept
  <1> HIDE DEF x
  <1> QED
    BY <1>2, <1>4, PageAlone

LEMMA LockPagePages ==
  ASSUME PagesFit, NEW p \in Page, LockPage(p) \/ UnlockPage(p)
  PROVE  PagesFit' /\ PagesKept
  <1>1. PICK b \in BOOLEAN : /\ page' = [page EXCEPT ![p].rev = @ + 1, ![p].locked = b]
                             /\ UNCHANGED project
    BY DEF LockPage, UnlockPage
  <1> DEFINE x == [page[p] EXCEPT !.rev = @ + 1, !.locked = b]
  <1>2. PageFits(page[p], project.story)
    BY DEF PagesFit
  <1>3. page' = [page EXCEPT ![p] = x]
    BY <1>1
  <1>4. /\ DOMAIN x = PageFields /\ x.rev = page[p].rev + 1 /\ x.locked = b
        /\ x.scene = page[p].scene /\ x.text = page[p].text /\ x.prompt = page[p].prompt
        /\ x.image = page[p].image /\ x.review = page[p].review /\ x.why = page[p].why
    BY <1>2 DEF PageFits, PageFields
  <1> HIDE DEF x
  <1>5. PageFits(x, project.story) /\ PageKept(page[p], x)
    BY <1>2, <1>4 DEF PageFits, PageKept
  <1> QED
    BY <1>1, <1>3, <1>5, PageAlone

LEMMA EditTextPages ==
  ASSUME PagesFit, NEW p \in Page, EditText(p)
  PROVE  PagesFit' /\ PagesKept
  <1> DEFINE s == project.story + 1
             x == Retold(p, s)
  <1>1. /\ page' = [page EXCEPT ![p] = x] /\ project' = [project EXCEPT !.story = s]
        /\ ~page[p].locked
    BY DEF EditText
  <1>2. PageFits(page[p], project.story) /\ project.story \in Nat
    BY DEF PagesFit
  <1>3. project' \in [version: Nat, story: Nat] /\ project'.story = s /\ s >= project.story
    BY <1>1 DEF PagesFit
  <1>4. /\ DOMAIN x = PageFields /\ x.rev = page[p].rev + 1 /\ x.review = NoReview /\ x.scene = s
        /\ x.text = [at |-> page[p].rev + 1, scene |-> s, run |-> page[p].text.run]
        /\ x.prompt = page[p].prompt /\ x.image = page[p].image
        /\ x.locked = page[p].locked /\ x.why = page[p].why
    BY <1>2 DEF Retold, PageFits, PageFields
  <1>5. x.text # NoText /\ x.text.at = page[p].rev + 1
    BY <1>2, <1>4 DEF NoText, PageFits
  <1> HIDE DEF x
  <1>6. PageFits(x, s) /\ PageKept(page[p], x)
    BY <1>1, <1>2, <1>4, <1>5 DEF PageFits, PageKept
  <1> HIDE DEF s
  <1> QED
    BY <1>1, <1>3, <1>6, OnePageChanged

\* markPageStale keeps the content of a page and takes back its review
LEMMA MarkedStaleFits ==
  ASSUME NEW pg, NEW ps, NEW row \in {"IM-01", "IM-06", "IM-13"}, NEW p \in Page, NEW story,
         PageFits(pg[p], story)
  PROVE  LET y == MarkedStale(pg, ps, row)[p] IN PageFits(y, story) /\ PageKept(pg[p], y)
  <1> DEFINE y == MarkedStale(pg, ps, row)[p]
  <1>1. CASE p \notin ps \/ row \in pg[p].why
    BY <1>1 DEF MarkedStale, PageKept
  <1>2. CASE ~(p \notin ps \/ row \in pg[p].why)
    <2>1. /\ DOMAIN y = PageFields /\ y.rev = pg[p].rev + 1 /\ y.review = NoReview
          /\ y.why = pg[p].why \cup {row} /\ y.locked = pg[p].locked /\ y.scene = pg[p].scene
          /\ y.text = pg[p].text /\ y.prompt = pg[p].prompt /\ y.image = pg[p].image
      BY <1>2 DEF MarkedStale, PageFits, PageFields
    <2> HIDE DEF y
    <2>2. PageFits(y, story) /\ PageKept(pg[p], y)
      BY <2>1 DEF PageFits, PageKept
    <2> QED
      BY <2>2 DEF y
  <1> QED
    BY <1>1, <1>2

LEMMA EditScenePages ==
  ASSUME PagesFit, NEW p \in Page, EditScene(p)
  PROVE  PagesFit' /\ PagesKept
  <1> DEFINE s == project.story + 1
             pg == [page EXCEPT ![p].scene = s]
             hit == {q \in PagesMadeFrom(<<"scene", page[p].scene>>) : q = p}
  <1>1. page' = MarkedStale(pg, hit, "IM-06") /\ project' = [project EXCEPT !.story = s]
    BY DEF EditScene
  <1>2. project' \in [version: Nat, story: Nat] /\ project'.story = s /\ s >= project.story
    BY <1>1 DEF PagesFit
  <1>3. ASSUME NEW q \in Page
        PROVE  PageFits(pg[q], s) /\ PageKept(page[q], pg[q]) /\ pg[q].locked = page[q].locked
    <2>1. PageFits(page[q], project.story) /\ project.story \in Nat
      BY DEF PagesFit
    <2>2. CASE q # p
      BY <2>1, <2>2 DEF PagesFit, PageFits, PageKept
    <2>3. CASE q = p
      <3>1. pg[q] = [page[q] EXCEPT !.scene = s]
        BY <2>3 DEF PagesFit
      <3>2. /\ DOMAIN pg[q] = PageFields /\ pg[q].rev = page[q].rev /\ pg[q].review = page[q].review
            /\ pg[q].why = page[q].why /\ pg[q].locked = page[q].locked /\ pg[q].scene = s
            /\ pg[q].text = page[q].text /\ pg[q].prompt = page[q].prompt
            /\ pg[q].image = page[q].image
        BY <2>1, <3>1 DEF PageFits, PageFields
      <3> HIDE DEF pg
      <3> QED
        BY <2>1, <3>2 DEF PageFits, PageKept
    <2> QED
      BY <2>2, <2>3
  <1>4. DOMAIN page' = Page
    BY <1>1 DEF MarkedStale
  <1> HIDE DEF pg, hit, s
  <1>5. ASSUME NEW q \in Page
        PROVE  PageFits(page'[q], s) /\ PageKept(page[q], page'[q])
    <2>1. PageFits(page'[q], s) /\ PageKept(pg[q], page'[q])
      BY <1>1, <1>3, MarkedStaleFits
    <2> QED
      BY <1>3, <2>1 DEF PageKept
  <1> QED
    BY <1>2, <1>4, <1>5, PagesChanged

\* an edit of the project or of a character marks pages
LEMMA MarkingPages ==
  ASSUME PagesFit, NEW ps, NEW row, row \in {"IM-01", "IM-06", "IM-13"} \/ ps = {},
         page' = MarkedStale(page, ps, row),
         project' \in [version: Nat, story: Nat], project'.story = project.story
  PROVE  PagesFit' /\ PagesKept
  <1>1. DOMAIN page' = Page
    BY DEF MarkedStale
  <1>2. project'.story >= project.story
    BY DEF PagesFit
  <1>3. ASSUME NEW q \in Page
        PROVE  \/ page'[q] = page[q]
               \/ PageFits(page'[q], project'.story) /\ PageKept(page[q], page'[q])
    <2>1. CASE ps = {}
      BY <2>1 DEF MarkedStale
    <2>2. CASE row \in {"IM-01", "IM-06", "IM-13"}
      <3>1. PageFits(page[q], project'.story)
        BY DEF PagesFit
      <3> QED
        BY <2>2, <3>1, MarkedStaleFits
    <2> QED
      BY <2>1, <2>2
  <1> QED
    BY <1>1, <1>2, <1>3, PagesChanged

LEMMA ReviseProjectPages ==
  ASSUME PagesFit, NEW style \in BOOLEAN, ReviseProject(style)
  PROVE  PagesFit' /\ PagesKept
  <1>1. PICK ps : page' = MarkedStale(page, ps, "IM-13")
    BY DEF ReviseProject
  <1>2. project' \in [version: Nat, story: Nat] /\ project'.story = project.story
    BY DEF ReviseProject, PagesFit
  <1> QED
    BY <1>1, <1>2, MarkingPages

LEMMA ReviseCharacterPages ==
  ASSUME PagesFit, NEW c \in Character, NEW row \in {"IM-01", "IM-05"}, ReviseCharacter(c, row)
  PROVE  PagesFit' /\ PagesKept
  <1>1. PICK ps : page' = MarkedStale(page, ps, row) /\ (row # "IM-01" => ps = {})
    BY DEF ReviseCharacter
  <1>2. project' \in [version: Nat, story: Nat] /\ project'.story = project.story
    BY DEF ReviseCharacter, PagesFit
  <1> QED
    BY <1>1, <1>2, MarkingPages

(***************************************************************************)
(* Every step leaves each page in order.                                   *)
(***************************************************************************)
LEMMA StepPages ==
  ASSUME PagesFit, DOMAIN job \subseteq Name, [Next]_vars
  PROVE  PagesFit' /\ PagesKept
  <1>1. CASE UNCHANGED <<project, page>>
    BY <1>1, PagesUnchanged DEF PagesFit
  <1>2. CASE Making
    BY <1>1, <1>2 DEF Making, StartRun, runVars
  <1>3. CASE Working
    BY <1>1, <1>3, CommitScenesPages, CommitPromptPages, CommitImagePages
       DEF Working, Restart, DispatchJob, RetryJob, CommitJob, CommitStory, CommitReview, Refused
  <1>4. CASE Operating
    BY <1>1, <1>4, ReviewPagePages, LockPagePages
       DEF Operating, AcknowledgeFinding, CompleteReview, Regenerate
  <1>5. CASE Editing
    BY <1>5, EditTextPages, EditScenePages, ReviseProjectPages, ReviseCharacterPages DEF Editing
  <1>6. CASE SwitchProvider
    BY <1>1, <1>6 DEF SwitchProvider
  <1> QED
    BY <1>1, <1>2, <1>3, <1>4, <1>5, <1>6 DEF Next, SteadyNext, vars, runVars

(***************************************************************************)
(* Runs, the nodes they are made of, and the jobs of the nodes.            *)
(***************************************************************************)
RunFields == {"version", "input", "output", "status", "findings", "sheets", "nodes"}
RunFits(x) ==
  /\ DOMAIN x = RunFields
  /\ x.status \in {"generating", "internal_review", "complete"}
  /\ x.findings \in {"none", "clean", "block", "acknowledged"}
RunsAreListed == \E S : run \in Seq(S)
RunsFit == RunsAreListed /\ \A r \in DOMAIN run : RunFits(run[r])

Nodes(r) == run[r].nodes
First(r, k) == <<r, k, 0>>
Open(r, k) == Nodes(r)[k].state # "planned"
Done(r, k) == Nodes(r)[k].state = "committed"

\* a node names its first job from the time it is no longer planned; the gate has none
NodeFits(r, k, x) ==
  /\ DOMAIN x = {"state", "job"} /\ x.state \in NodeStates
  /\ x.job = IF k = Gate \/ x.state = "planned" THEN NoJob ELSE First(r, k)
NodesFit == \A r \in DOMAIN run :
  /\ Manifest \subseteq DOMAIN Nodes(r) /\ DOMAIN Nodes(r) \subseteq Node
  /\ \A k \in DOMAIN Nodes(r) : NodeFits(r, k, Nodes(r)[k])

\* jobs are of nodes that are no longer planned, and a node is done when its job is
JobFits(x) == DOMAIN x = {"state", "in"} /\ x.state \in JobStates
HasNode(j) ==
  j[1] \in DOMAIN run /\ j[2] \in DOMAIN Nodes(j[1]) /\ j[2] # Gate /\ Open(j[1], j[2])
JobsFit ==
  /\ DOMAIN job \subseteq Name
  /\ \A j \in DOMAIN job : JobFits(job[j]) /\ HasNode(j)
  /\ \A r \in DOMAIN run : \A k \in DOMAIN Nodes(r) : k # Gate /\ Open(r, k) =>
       First(r, k) \in DOMAIN job /\ (Done(r, k) => job[First(r, k)].state = "succeeded")

RunInv == RunsFit /\ NodesFit /\ JobsFit

LEMMA RunsAreNumbered ==
  ASSUME RunsAreListed
  PROVE  Len(run) \in Nat /\ DOMAIN run = 1..Len(run)
  BY DEF RunsAreListed

LEMMA NamesOfJobs ==
  ASSUME NEW r \in Nat, NEW k \in Node
  PROVE  /\ First(r, k) \in Name /\ First(r, k)[1] = r /\ First(r, k)[2] = k /\ First(r, k)[3] = 0
         /\ First(r, k) # NoJob
  BY DEF First, Name, NoJob

LEMMA PartsOfNames ==
  ASSUME NEW j \in Name
  PROVE  /\ j[1] \in Nat /\ j[2] \in Node /\ j[3] \in {0, 1} /\ j = <<j[1], j[2], j[3]>>
         /\ j # NoJob
  BY DEF Name, NoJob

\* a job that may commit is the first job of its node, which waits for it
LEMMA WorkingIsFirst ==
  ASSUME RunInv, NEW j \in DOMAIN job, BoundTo(j) # {}, job[j].state # "succeeded"
  PROVE  /\ j[1] \in DOMAIN run /\ j[2] \in DOMAIN Nodes(j[1]) /\ j[2] # Gate /\ j[2] \in Node
         /\ j = First(j[1], j[2]) /\ Open(j[1], j[2]) /\ ~Done(j[1], j[2])
  <1>1. HasNode(j) /\ j \in Name
    BY DEF RunInv, JobsFit
  <1>2. PICK k \in DOMAIN Nodes(j[1]) : Nodes(j[1])[k].job = j
    BY DEF BoundTo, Nodes
  <1>3. NodeFits(j[1], k, Nodes(j[1])[k]) /\ k \in Node
    BY <1>1, <1>2 DEF RunInv, NodesFit, HasNode
  <1>4. j = First(j[1], k)
    BY <1>1, <1>2, <1>3, PartsOfNames DEF NodeFits
  <1>5. j[1] \in Nat
    BY <1>1, PartsOfNames
  <1>6. j[2] = k
    BY <1>3, <1>4, <1>5, NamesOfJobs
  <1>7. j = First(j[1], j[2])
    BY <1>4, <1>6
  <1>8. Done(j[1], j[2]) => job[First(j[1], j[2])].state = "succeeded"
    BY <1>1 DEF RunInv, JobsFit, HasNode
  <1> QED
    BY <1>1, <1>3, <1>6, <1>7, <1>8 DEF HasNode

\* one run is replaced
LEMMA OneRunChanged ==
  ASSUME RunsFit, NEW r \in DOMAIN run, NEW x, RunFits(x), run' = [run EXCEPT ![r] = x]
  PROVE  /\ RunsFit' /\ DOMAIN run' = DOMAIN run
         /\ run'[r] = x /\ \A q \in DOMAIN run : q # r => run'[q] = run[q]
  <1>1. PICK S : run \in Seq(S)
    BY DEF RunsFit, RunsAreListed
  <1>2. run' \in Seq(S \cup {x}) /\ DOMAIN run' = DOMAIN run
    <2>1. DOMAIN run = 1..Len(run) /\ Len(run) \in Nat /\ \A q \in 1..Len(run) : run[q] \in S
      BY <1>1
    <2>2. run \in Seq(S \cup {x})
      BY <1>1, <2>1
    <2> QED
      BY <2>1, <2>2, ExceptSeq
  <1>3. RunsAreListed'
    BY <1>2 DEF RunsAreListed
  <1> QED
    BY <1>2, <1>3 DEF RunsFit

(***************************************************************************)
(* Steps that only restate jobs, or give them successors.                  *)
(***************************************************************************)
LEMMA JobsRestated ==
  ASSUME RunInv, UNCHANGED run, DOMAIN job \subseteq DOMAIN job', DOMAIN job' \subseteq Name,
         \A i \in DOMAIN job' :
           /\ JobFits(job'[i])
           /\ i \in DOMAIN job \/ \E m \in DOMAIN job : m[1] = i[1] /\ m[2] = i[2],
         \A i \in DOMAIN job : job[i].state = "succeeded" => job'[i].state = "succeeded"
  PROVE  RunInv'
  <1>1. RunsFit' /\ NodesFit'
    BY DEF RunInv, RunsFit, RunsAreListed, RunFits, NodesFit, Nodes, NodeFits
  <1>2. ASSUME NEW i \in DOMAIN job' PROVE HasNode(i)'
    <2>1. PICK m \in DOMAIN job : m[1] = i[1] /\ m[2] = i[2]
      OBVIOUS
    <2>2. HasNode(m)
      BY DEF RunInv, JobsFit
    <2> QED
      BY <2>1, <2>2 DEF HasNode, Open, Nodes
  <1>3. ASSUME NEW r \in DOMAIN run, NEW k \in DOMAIN Nodes(r), k # Gate, Open(r, k)
        PROVE  First(r, k) \in DOMAIN job' /\ (Done(r, k) => job'[First(r, k)].state = "succeeded")
    BY <1>3 DEF RunInv, JobsFit
  <1> QED
    BY <1>1, <1>2, <1>3 DEF RunInv, JobsFit, Open, Done, Nodes

(***************************************************************************)
(* Steps that move the nodes of a run: those in done are committed, those  *)
(* in begun get their first job.                                           *)
(***************************************************************************)
Moves(r, done, begun) ==
  /\ RunsFit' /\ DOMAIN run' = DOMAIN run
  /\ \A q \in DOMAIN run : q # r => Nodes(q)' = Nodes(q)
  /\ DOMAIN Nodes(r)' = DOMAIN Nodes(r) \cup begun
  /\ \A k \in DOMAIN Nodes(r)' : k # Gate =>
       Nodes(r)'[k] = IF k \in begun THEN [state |-> "materialized", job |-> First(r, k)]
                      ELSE IF k \in done THEN [Nodes(r)[k] EXCEPT !.state = "committed"]
                      ELSE Nodes(r)[k]
  /\ NodeFits(r, Gate, Nodes(r)'[Gate])
  /\ DOMAIN job' = DOMAIN job \cup {First(r, k) : k \in begun}
  /\ \A i \in DOMAIN job' : JobFits(job'[i])
  /\ \A i \in DOMAIN job : job[i].state = "succeeded" => job'[i].state = "succeeded"
  /\ \A k \in done : k # Gate => job'[First(r, k)].state = "succeeded"

\* what may move: open nodes are committed and planned or new ones begun
Movable(r, done, begun) ==
  /\ r \in DOMAIN run
  /\ done \subseteq DOMAIN Nodes(r) /\ \A k \in done : k # Gate => Open(r, k)
  /\ begun \subseteq Node /\ Gate \notin begun
  /\ \A k \in begun : k \in DOMAIN Nodes(r) => ~Open(r, k)

\* the states of the nodes after a move
LEMMA MovedStates ==
  ASSUME RunInv, NEW r, NEW done, NEW begun, Moves(r, done, begun), Movable(r, done, begun)
  PROVE  /\ \A q \in DOMAIN run : DOMAIN Nodes(q) \subseteq DOMAIN Nodes(q)'
         /\ \A q \in DOMAIN run : \A k \in DOMAIN Nodes(q)' : k # Gate =>
              /\ (Open(q, k))' <=> (k \in DOMAIN Nodes(q) /\ Open(q, k)) \/ (q = r /\ k \in begun)
              /\ (Done(q, k))' <=> (k \in DOMAIN Nodes(q) /\ Done(q, k)) \/ (q = r /\ k \in done)
  <1>1. ASSUME NEW q \in DOMAIN run, q # r
        PROVE  Nodes(q)' = Nodes(q)
    BY <1>1 DEF Moves
  <1>2. ASSUME NEW k \in DOMAIN Nodes(r)', k # Gate
        PROVE  /\ (Open(r, k))' <=> (k \in DOMAIN Nodes(r) /\ Open(r, k)) \/ k \in begun
               /\ (Done(r, k))' <=> (k \in DOMAIN Nodes(r) /\ Done(r, k)) \/ k \in done
    <2>1. CASE k \in begun
      <3>1. Nodes(r)'[k] = [state |-> "materialized", job |-> First(r, k)]
        BY <1>2, <2>1 DEF Moves
      <3>2. k \notin done /\ ~(k \in DOMAIN Nodes(r) /\ Done(r, k))
        BY <1>2, <2>1 DEF Movable, Open, Done
      <3> QED
        BY <2>1, <3>1, <3>2 DEF Open, Done, Nodes
    <2>2. CASE k \notin begun /\ k \in done
      <3>1. Nodes(r)'[k] = [Nodes(r)[k] EXCEPT !.state = "committed"] /\ k \in DOMAIN Nodes(r)
        BY <1>2, <2>2 DEF Moves, Movable
      <3>2. NodeFits(r, k, Nodes(r)[k]) /\ Open(r, k)
        BY <1>2, <2>2, <3>1 DEF RunInv, NodesFit, Movable
      <3>3. Nodes(r)'[k].state = "committed"
        BY <3>1, <3>2 DEF NodeFits
      <3> QED
        BY <2>2, <3>1, <3>2, <3>3 DEF Open, Done, Nodes
    <2>3. CASE k \notin begun /\ k \notin done
      <3>1. Nodes(r)'[k] = Nodes(r)[k] /\ k \in DOMAIN Nodes(r)
        BY <1>2, <2>3 DEF Moves
      <3> QED
        BY <2>3, <3>1 DEF Open, Done, Nodes
    <2> QED
      BY <2>1, <2>2, <2>3
  <1>3. ASSUME NEW q \in DOMAIN run
        PROVE  DOMAIN Nodes(q) \subseteq DOMAIN Nodes(q)'
    <2>1. CASE q = r
      BY <2>1 DEF Moves, Nodes
    <2>2. CASE q # r
      BY <1>1, <2>2
    <2> QED
      BY <2>1, <2>2
  <1>4. ASSUME NEW q \in DOMAIN run, NEW k \in DOMAIN Nodes(q)', k # Gate
        PROVE  /\ (Open(q, k))' <=> (k \in DOMAIN Nodes(q) /\ Open(q, k)) \/ (q = r /\ k \in begun)
               /\ (Done(q, k))' <=> (k \in DOMAIN Nodes(q) /\ Done(q, k)) \/ (q = r /\ k \in done)
    <2>1. CASE q = r
      BY <1>2, <1>4, <2>1
    <2>2. CASE q # r
      BY <1>1, <1>4, <2>2 DEF Open, Done, Nodes
    <2> QED
      BY <2>1, <2>2
  <1> QED
    BY <1>3, <1>4

LEMMA MovesKeepRuns ==
  ASSUME RunInv, NEW r, NEW done, NEW begun, Moves(r, done, begun), Movable(r, done, begun)
  PROVE  RunInv'
  <1>0. DOMAIN run' = DOMAIN run /\ RunsFit'
    BY DEF Moves
  <1>1. \A q \in DOMAIN run : q \in Nat
    BY RunsAreNumbered DEF RunInv, RunsFit
  <1>2. ASSUME NEW q \in DOMAIN run
        PROVE  Manifest \subseteq DOMAIN Nodes(q)' /\ DOMAIN Nodes(q)' \subseteq Node
    <2>1. Manifest \subseteq DOMAIN Nodes(q) /\ DOMAIN Nodes(q) \subseteq Node
      BY DEF RunInv, NodesFit
    <2>2. CASE q = r
      BY <2>1, <2>2 DEF Moves, Movable, Nodes
    <2>3. CASE q # r
      BY <2>1, <2>3 DEF Moves, Nodes
    <2> QED
      BY <2>2, <2>3
  <1>3. ASSUME NEW q \in DOMAIN run, NEW k \in DOMAIN Nodes(q)'
        PROVE  NodeFits(q, k, Nodes(q)'[k])
    <2>1. CASE q # r
      BY <1>3, <2>1 DEF Moves, RunInv, NodesFit, Nodes
    <2>2. CASE q = r /\ k = Gate
      BY <2>2 DEF Moves
    <2>3. CASE q = r /\ k # Gate /\ k \in begun
      <3>1. Nodes(q)'[k] = [state |-> "materialized", job |-> First(q, k)]
        BY <1>3, <2>3 DEF Moves, Nodes
      <3> QED
        BY <2>3, <3>1 DEF NodeFits, NodeStates
    <2>4. CASE q = r /\ k # Gate /\ k \notin begun
      <3>1. k \in DOMAIN Nodes(q) /\ Nodes(q)'[k] = IF k \in done
               THEN [Nodes(q)[k] EXCEPT !.state = "committed"] ELSE Nodes(q)[k]
        BY <1>3, <2>4 DEF Moves, Nodes
      <3>2. NodeFits(q, k, Nodes(q)[k])
        BY <3>1 DEF RunInv, NodesFit
      <3>3. k \in done => Open(q, k)
        BY <2>4 DEF Movable
      <3> QED
        BY <2>4, <3>1, <3>2, <3>3 DEF NodeFits, NodeStates, Open
    <2> QED
      BY <2>1, <2>2, <2>3, <2>4
  <1>4. NodesFit'
    BY <1>0, <1>2, <1>3 DEF NodesFit, NodeFits, First
  <1>5. DOMAIN job' \subseteq Name
    <2>1. r \in Nat
      BY <1>1 DEF Movable
    <2> QED
      BY <2>1, NamesOfJobs DEF Moves, Movable, RunInv, JobsFit
  <1>6. ASSUME NEW i \in DOMAIN job'
        PROVE  JobFits(job'[i]) /\ (HasNode(i))'
    <2>1. JobFits(job'[i])
      BY DEF Moves
    <2>2. CASE i \in DOMAIN job
      <3>1. HasNode(i)
        BY <2>2 DEF RunInv, JobsFit
      <3>2. i[2] \in DOMAIN Nodes(i[1])'
        BY <3>1, MovedStates DEF HasNode
      <3>3. (Open(i[1], i[2]))'
        BY <3>1, <3>2, MovedStates DEF HasNode
      <3> QED
        BY <1>0, <2>1, <3>1, <3>2, <3>3 DEF HasNode, Nodes, Open
    <2>3. CASE i \notin DOMAIN job
      <3>1. PICK k \in begun : i = First(r, k)
        BY <2>3 DEF Moves
      <3>2. r \in DOMAIN run /\ r \in Nat /\ k \in Node /\ k # Gate /\ k \in DOMAIN Nodes(r)'
        BY <1>1 DEF Movable, Moves, Nodes
      <3>3. (Open(r, k))'
        BY <3>2, MovedStates
      <3>4. i[1] = r /\ i[2] = k
        BY <3>1, <3>2, NamesOfJobs
      <3> QED
        BY <1>0, <2>1, <3>2, <3>3, <3>4 DEF HasNode, Nodes, Open
    <2> QED
      BY <2>2, <2>3
  <1>7. ASSUME NEW q \in DOMAIN run, NEW k \in DOMAIN Nodes(q)', k # Gate, (Open(q, k))'
        PROVE  First(q, k) \in DOMAIN job' /\ ((Done(q, k))' => job'[First(q, k)].state = "succeeded")
    <2>1. CASE q = r /\ k \in begun
      <3>1. ~(Done(q, k))'
        <4>1. k \notin done /\ ~(k \in DOMAIN Nodes(q) /\ Done(q, k))
          BY <1>7, <2>1 DEF Movable, Open, Done
        <4> QED
          BY <1>7, <4>1, MovedStates
      <3> QED
        BY <2>1, <3>1 DEF Moves
    <2>2. CASE ~(q = r /\ k \in begun)
      <3>1. k \in DOMAIN Nodes(q) /\ Open(q, k)
        BY <1>7, <2>2, MovedStates
      <3>2. First(q, k) \in DOMAIN job /\ (Done(q, k) => job[First(q, k)].state = "succeeded")
        BY <1>7, <3>1 DEF RunInv, JobsFit
      <3>3. First(q, k) \in DOMAIN job' /\ (Done(q, k) => job'[First(q, k)].state = "succeeded")
        BY <3>2 DEF Moves
      <3>4. q = r /\ k \in done => job'[First(q, k)].state = "succeeded"
        BY <1>7 DEF Moves
      <3> QED
        BY <1>7, <3>1, <3>3, <3>4, MovedStates
    <2> QED
      BY <2>1, <2>2
  <1>8. JobsFit'
    BY <1>0, <1>5, <1>6, <1>7 DEF JobsFit, First, Nodes, Open, Done
  <1> QED
    BY <1>0, <1>4, <1>8 DEF RunInv

(***************************************************************************)
(* The order of the stages, and what a committed stage has left in pages.  *)
(***************************************************************************)
Before(x, k) ==
  \/ x = Plan /\ k = Text
  \/ x = Text /\ k = Scenes
  \/ x = Scenes /\ \E p \in Page : k = Prompt(p)
  \/ \E p \in Page : x = Prompt(p) /\ k = Image(p)
  \/ k = Review /\ x \in Manifest \ {Review, Gate}
InOrder ==
  \A r \in DOMAIN run : \A x, k \in Manifest : Before(x, k) /\ Open(r, k) => Done(r, x)

Made(k) ==
  /\ k = Scenes => \A p \in Page : page[p].text # NoText
  /\ \A p \in Page : k = Prompt(p) => page[p].prompt # NoPrompt
  /\ \A p \in Page : k = Image(p) => page[p].image # NoImage
AllMade == \A r \in DOMAIN run : \A k \in Manifest : Done(r, k) => Made(k)

StageInv == RunInv /\ InOrder /\ AllMade

LEMMA OrderOfStages ==
  /\ \A x, k \in Manifest : Before(x, k) => x # Gate /\ k # Gate
  /\ Made(Gate)
  BY DEF Before, Made, Plan, Text, Scenes, Prompt, Image, Review, Gate

LEMMA MadeStays ==
  ASSUME PagesKept, NEW k, Made(k)
  PROVE  Made(k)'
  BY DEF PagesKept, PageKept, Made

LEMMA RunStays ==
  ASSUME StageInv, UNCHANGED run, RunInv', PagesKept
  PROVE  StageInv'
  <1>1. InOrder' /\ \A r \in DOMAIN run : \A k \in Manifest : (Done(r, k))' <=> Done(r, k)
    BY DEF StageInv, InOrder, Open, Done, Nodes
  <1>2. AllMade'
    BY <1>1, MadeStays DEF StageInv, AllMade
  <1> QED
    BY <1>1, <1>2 DEF StageInv

LEMMA MovesKeepStages ==
  ASSUME StageInv, NEW r, NEW done, NEW begun, Moves(r, done, begun), Movable(r, done, begun),
         \A k \in begun \cap Manifest, x \in Manifest : Before(x, k) => x \in done \/ Done(r, x),
         PagesKept, \A k \in done \cap Manifest : Made(k)'
  PROVE  StageInv'
  <1>1. RunInv' /\ DOMAIN run' = DOMAIN run
    BY MovesKeepRuns DEF StageInv, Moves
  <1>2. \A q \in DOMAIN run : Manifest \subseteq DOMAIN Nodes(q) /\ Manifest \subseteq DOMAIN Nodes(q)'
    BY <1>1 DEF StageInv, RunInv, NodesFit, Nodes
  <1>3. ASSUME NEW q \in DOMAIN run, NEW k \in Manifest, k # Gate
        PROVE  /\ (Open(q, k))' <=> Open(q, k) \/ (q = r /\ k \in begun)
               /\ (Done(q, k))' <=> Done(q, k) \/ (q = r /\ k \in done)
    BY <1>2, <1>3, MovedStates DEF StageInv
  <1>4. ASSUME NEW q \in DOMAIN run, NEW x \in Manifest, NEW k \in Manifest, Before(x, k), (Open(q, k))'
        PROVE  (Done(q, x))'
    <2>1. x # Gate /\ k # Gate
      BY <1>4, OrderOfStages
    <2>2. CASE Open(q, k)
      BY <1>3, <1>4, <2>1, <2>2 DEF StageInv, InOrder
    <2>3. CASE q = r /\ k \in begun
      BY <1>3, <1>4, <2>1, <2>3
    <2> QED
      BY <1>3, <1>4, <2>1, <2>2, <2>3
  <1>5. ASSUME NEW q \in DOMAIN run, NEW k \in Manifest, (Done(q, k))'
        PROVE  Made(k)'
    <2>1. CASE k = Gate
      <3>1. Made(k)
        BY <2>1, OrderOfStages
      <3> QED
        BY <3>1, MadeStays
    <2>2. CASE k # Gate /\ Done(q, k)
      BY <2>2, MadeStays DEF StageInv, AllMade
    <2>3. CASE k # Gate /\ q = r /\ k \in done
      BY <2>3
    <2> QED
      BY <1>3, <1>5, <2>1, <2>2, <2>3
  <1>6. InOrder'
    BY <1>1, <1>4 DEF InOrder
  <1>7. AllMade'
    BY <1>1, <1>5 DEF AllMade
  <1> QED
    BY <1>1, <1>6, <1>7 DEF StageInv

(***************************************************************************)
(* A commit: its node is done, the next nodes get their jobs.              *)
(***************************************************************************)
LEMMA CommitMoves ==
  ASSUME RunInv, NEW j \in DOMAIN job, job[j].state = "working", BoundTo(j) # {},
         NEW begun, begun \subseteq Node, Gate \notin begun,
         \A k \in begun : k \in DOMAIN Nodes(j[1]) => ~Open(j[1], k),
         NEW snapshots, DOMAIN snapshots = begun,
         NEW x, RunFits(x), x.nodes = Materialized(Committed(Nodes(j[1]), j[2]), j[1], begun),
         run' = [run EXCEPT ![j[1]] = x], job' = Queued(Succeeded(j), j[1], snapshots)
  PROVE  Moves(j[1], {j[2]}, begun) /\ Movable(j[1], {j[2]}, begun)
  <1> DEFINE r == j[1]
             n == Nodes(r)
  <1>1. /\ r \in DOMAIN run /\ j[2] \in DOMAIN n /\ j[2] # Gate /\ j[2] \in Node
        /\ j = First(r, j[2]) /\ Open(r, j[2]) /\ ~Done(r, j[2])
    BY WorkingIsFirst
  <1>2. /\ RunsFit' /\ DOMAIN run' = DOMAIN run
        /\ run'[r] = x /\ \A q \in DOMAIN run : q # r => run'[q] = run[q]
    BY <1>1, OneRunChanged DEF RunInv
  <1>3. Nodes(r)' = x.nodes
    BY <1>2 DEF Nodes
  <1>4. /\ DOMAIN x.nodes = DOMAIN n \cup begun
        /\ \A k \in DOMAIN x.nodes :
             x.nodes[k] = IF k \in begun THEN [state |-> "materialized", job |-> First(r, k)]
                          ELSE IF k \in {j[2]} THEN [n[k] EXCEPT !.state = "committed"] ELSE n[k]
    BY <1>1 DEF Materialized, Committed, First
  <1>5. Gate \in DOMAIN n /\ NodeFits(r, Gate, n[Gate])
    BY <1>1 DEF RunInv, NodesFit, Manifest
  <1>6. NodeFits(r, Gate, x.nodes[Gate])
    <2>1. x.nodes[Gate] = n[Gate]
      BY <1>1, <1>4, <1>5
    <2> QED
      BY <1>5, <2>1
  <1>7. /\ DOMAIN job' = DOMAIN job \cup {First(r, k) : k \in begun}
        /\ \A i \in DOMAIN job' : JobFits(job'[i])
        /\ \A i \in DOMAIN job : job[i].state = "succeeded" => job'[i].state = "succeeded"
        /\ job'[j].state = "succeeded"
    <2>1. \A i \in DOMAIN job : JobFits(job[i])
      BY DEF RunInv, JobsFit
    <2>2. /\ DOMAIN Succeeded(j) = DOMAIN job
          /\ \A i \in DOMAIN job : Succeeded(j)[i] = IF i = j THEN [job[j] EXCEPT !.state = "succeeded"]
                                                             ELSE job[i]
      BY DEF Succeeded
    <2>3. /\ DOMAIN job' = DOMAIN job \cup {First(r, k) : k \in begun}
          /\ \A i \in DOMAIN job' : job'[i] = IF i \in DOMAIN job THEN Succeeded(j)[i]
                                              ELSE [state |-> "queued", in |-> snapshots[i[2]]]
      BY <2>2 DEF Queued, First
    <2>4. JobFits([job[j] EXCEPT !.state = "succeeded"]) /\ [job[j] EXCEPT !.state = "succeeded"].state = "succeeded"
      BY <2>1 DEF JobFits, JobStates
    <2>5. ASSUME NEW i \in DOMAIN job' PROVE JobFits(job'[i])
      <3>1. CASE i \in DOMAIN job
        BY <2>1, <2>2, <2>3, <2>4, <3>1
      <3>2. CASE i \notin DOMAIN job
        <4>1. job'[i] = [state |-> "queued", in |-> snapshots[i[2]]]
          BY <2>3, <3>2
        <4> QED
          BY <4>1 DEF JobFits, JobStates
      <3> QED
        BY <3>1, <3>2
    <2>6. job'[j].state = "succeeded" /\ \A i \in DOMAIN job : i # j => job'[i] = job[i]
      BY <2>2, <2>3, <2>4
    <2> QED
      BY <2>3, <2>5, <2>6
  <1>8. Movable(r, {j[2]}, begun)
    BY <1>1 DEF Movable
  <1>9. Moves(r, {j[2]}, begun)
    BY <1>1, <1>2, <1>3, <1>4, <1>6, <1>7 DEF Moves, Nodes
  <1> QED
    BY <1>8, <1>9

\* a commit that is refused, like a dispatch or a retry, restates its job
LEMMA OneJobRestated ==
  ASSUME RunInv, NEW j \in DOMAIN job, job[j].state # "succeeded", NEW state \in JobStates,
         job' = [job EXCEPT ![j].state = state], UNCHANGED run
  PROVE  RunInv'
  <1>1. DOMAIN job' = DOMAIN job /\ DOMAIN job \subseteq Name /\ \A i \in DOMAIN job : JobFits(job[i])
    BY DEF RunInv, JobsFit
  <1>2. \A i \in DOMAIN job : i # j => job'[i] = job[i]
    OBVIOUS
  <1>3. JobFits(job'[j])
    BY <1>1 DEF JobFits
  <1>4. \A i \in DOMAIN job' : JobFits(job'[i])
    BY <1>1, <1>2, <1>3
  <1> QED
    BY <1>1, <1>2, <1>4, JobsRestated

LEMMA RefusedStages ==
  ASSUME StageInv, PagesKept, NEW j \in DOMAIN job, job[j].state # "succeeded",
         NEW state \in JobStates, Refused(j, state)
  PROVE  StageInv'
  <1>1. RunInv'
    BY OneJobRestated DEF StageInv, Refused
  <1> QED
    BY <1>1, RunStays DEF Refused

LEMMA RunWithNodes ==
  ASSUME NEW x, RunFits(x), NEW n
  PROVE  RunFits([x EXCEPT !.nodes = n]) /\ [x EXCEPT !.nodes = n].nodes = n
  BY DEF RunFits, RunFields

LEMMA CommitStoryStages ==
  ASSUME StageInv, PagesKept, NEW j \in DOMAIN job, CommitStory(j)
  PROVE  StageInv'
  <1> DEFINE r == j[1]
             next == IF j[2] = Plan THEN Text ELSE Scenes
             n == Materialized(Committed(Nodes(r), j[2]), r, {next})
             x == [run[r] EXCEPT !.nodes = n]
             snapshots == [k \in {next} |-> Snapshot(project.story, 0, 0)]
  <1>1. CASE JobCurrent(j)
    <2>1. /\ job[j].state = "working" /\ j[2] \in {Plan, Text} /\ BoundTo(j) # {}
          /\ job' = Queued(Succeeded(j), r, snapshots)
          /\ run' = [run EXCEPT ![r] = x]
      BY <1>1 DEF CommitStory, JobCurrent, Nodes
    <2>2. r \in DOMAIN run /\ Open(r, j[2]) /\ ~Done(r, j[2])
      BY <2>1, WorkingIsFirst DEF StageInv
    <2>3. /\ next \in Manifest /\ next # Gate /\ j[2] \in Manifest /\ {next} \subseteq Node
          /\ Before(j[2], next) /\ \A k \in Manifest : Before(k, next) => k = j[2]
      BY <2>1 DEF Manifest, Node, Before, Plan, Text, Scenes, Prompt, Image, Review, Gate
    <2>4. ~Open(r, next)
      BY <2>2, <2>3 DEF StageInv, InOrder
    <2>5. RunFits(x) /\ x.nodes = n
      BY <2>2, RunWithNodes DEF StageInv, RunInv, RunsFit
    <2>6. DOMAIN snapshots = {next}
      OBVIOUS
    <2>7. Made(j[2])'
      BY <2>1 DEF Made, Plan, Text, Scenes, Prompt, Image
    <2> HIDE DEF next, x, n, snapshots
    <2>8. Moves(r, {j[2]}, {next}) /\ Movable(r, {j[2]}, {next})
      BY <2>1, <2>3, <2>4, <2>5, <2>6, CommitMoves DEF n, StageInv
    <2> QED
      BY <2>3, <2>7, <2>8, MovesKeepStages
  <1>2. CASE ~JobCurrent(j)
    BY <1>2, RefusedStages DEF CommitStory, JobStates
  <1> QED
    BY <1>1, <1>2

LEMMA CommitScenesStages ==
  ASSUME StageInv, PagesKept, PagesFit, NEW j \in DOMAIN job, CommitScenes(j)
  PROVE  StageInv'
  <1> DEFINE r == j[1]
             s == project.story + 1
             prompts == {Prompt(p) : p \in Page}
             n == Materialized(Committed(Nodes(r), Scenes), r, prompts)
             x == [run[r] EXCEPT !.output = s, !.nodes = n]
             snapshots == [k \in prompts |-> Snapshot(s, page[PageOf(k)].rev + 1, s)]
  <1>1. CASE JobCurrent(j) /\ StoryAppendable(r)
    <2>1. /\ job[j].state = "working" /\ j[2] = Scenes /\ BoundTo(j) # {}
          /\ job' = Queued(Succeeded(j), r, snapshots)
          /\ run' = [run EXCEPT ![r] = x]
          /\ page' = Written(r, s)
      BY <1>1 DEF CommitScenes, JobCurrent, Nodes
    <2>2. r \in DOMAIN run /\ Open(r, Scenes) /\ ~Done(r, Scenes)
      BY <2>1, WorkingIsFirst DEF StageInv
    <2>3. /\ prompts \subseteq Manifest /\ Gate \notin prompts /\ Scenes \in Manifest
          /\ prompts \subseteq Node
          /\ \A k \in prompts : Before(Scenes, k) /\ \A i \in Manifest : Before(i, k) => i = Scenes
      BY DEF Manifest, Node, Before, Plan, Text, Scenes, Prompt, Image, Review, Gate
    <2>4. \A k \in prompts : ~Open(r, k)
      BY <2>2, <2>3 DEF StageInv, InOrder
    <2>5. RunFits(x) /\ x.nodes = n
      <3>1. RunFits(run[r])
        BY <2>2 DEF StageInv, RunInv, RunsFit
      <3> QED
        BY <3>1 DEF RunFits, RunFields
    <2>6. DOMAIN snapshots = prompts
      OBVIOUS
    <2>7. Made(Scenes)'
      <3>1. \A p \in Page : page'[p].text # NoText
        BY <1>1, <2>1, WrittenFits DEF StoryAppendable
      <3> QED
        BY <3>1 DEF Made, Scenes, Prompt, Image
    <2> HIDE DEF prompts, x, n, s, snapshots
    <2>8. Moves(r, {Scenes}, prompts) /\ Movable(r, {Scenes}, prompts)
      BY <2>1, <2>3, <2>4, <2>5, <2>6, CommitMoves DEF n, StageInv
    <2> QED
      BY <2>3, <2>7, <2>8, MovesKeepStages
  <1>2. CASE ~(JobCurrent(j) /\ StoryAppendable(r))
    BY <1>2, RefusedStages DEF CommitScenes, JobStates
  <1> QED
    BY <1>1, <1>2

LEMMA CommitPromptStages ==
  ASSUME StageInv, PagesKept, PagesFit, NEW j \in DOMAIN job, CommitPrompt(j)
  PROVE  StageInv'
  <1> DEFINE r == j[1]
             p == PageOf(j[2])
             n == Materialized(Committed(Nodes(r), j[2]), r, {Image(p)})
             x == [run[r] EXCEPT !.nodes = n]
             snapshots == [k \in {Image(p)} |-> Snapshot(0, page[p].rev + 1, page[p].scene)]
             made == [at |-> page[p].rev + 1, scene |-> page[p].scene,
                      from |-> job[j].in.scene, run |-> r]
  <1>1. CASE JobCurrent(j) /\ SheetsKept(r)
    <2>1. /\ job[j].state = "working" /\ j[2][1] = "prompt" /\ BoundTo(j) # {}
          /\ job' = Queued(Succeeded(j), r, snapshots)
          /\ run' = [run EXCEPT ![r] = x]
          /\ page' = [page EXCEPT ![p] = [page[p] EXCEPT !.rev = @ + 1, !.review = NoReview,
                                                       !.prompt = made]]
      BY <1>1 DEF CommitPrompt, JobCurrent, Nodes
    <2>2. r \in DOMAIN run /\ Open(r, j[2]) /\ ~Done(r, j[2]) /\ j[2] \in Node
      BY <2>1, WorkingIsFirst DEF StageInv
    <2>3. p \in Page /\ j[2] = Prompt(p)
      BY <2>1, <2>2, NodesOfPages
    <2>4. /\ Image(p) \in Manifest /\ Image(p) # Gate /\ j[2] \in Manifest /\ {Image(p)} \subseteq Node
          /\ Before(j[2], Image(p)) /\ \A k \in Manifest : Before(k, Image(p)) => k = j[2]
      BY <2>3 DEF Manifest, Node, Before, Plan, Text, Scenes, Prompt, Image, Review, Gate
    <2>5. ~Open(r, Image(p))
      BY <2>2, <2>4 DEF StageInv, InOrder
    <2>6. RunFits(x) /\ x.nodes = n
      BY <2>2, RunWithNodes DEF StageInv, RunInv, RunsFit
    <2>7. DOMAIN snapshots = {Image(p)}
      OBVIOUS
    <2>8. Made(j[2])'
      <3>1. PageFits(page[p], project.story) /\ DOMAIN page = Page
        BY <2>3 DEF PagesFit
      <3>2. page'[p].prompt = made
        BY <2>1, <2>3, <3>1 DEF PageFits, PageFields
      <3>3. made # NoPrompt
        BY <3>1 DEF PageFits, NoPrompt
      <3> QED
        BY <2>3, <3>2, <3>3 DEF Made, Scenes, Prompt, Image
    <2> HIDE DEF p, x, n, snapshots, made
    <2>9. Moves(r, {j[2]}, {Image(p)}) /\ Movable(r, {j[2]}, {Image(p)})
      BY <2>1, <2>4, <2>5, <2>6, <2>7, CommitMoves DEF n, StageInv
    <2> QED
      BY <2>4, <2>8, <2>9, MovesKeepStages
  <1>2. CASE ~(JobCurrent(j) /\ SheetsKept(r))
    BY <1>2, RefusedStages DEF CommitPrompt, JobStates
  <1> QED
    BY <1>1, <1>2

\* once the illustrations of all pages are on their way, everything before them is done
LEMMA StagesBeforeImages ==
  ASSUME StageInv, NEW r \in DOMAIN run, NEW p \in Page, \A q \in Page : Open(r, Image(q))
  PROVE  \A x \in Manifest \ {Review, Gate} : Done(r, x) \/ \E q \in Page : x = Image(q)
  <1>0. {Plan, Text, Scenes} \subseteq Manifest
        /\ \A q \in Page : Prompt(q) \in Manifest /\ Image(q) \in Manifest
    BY DEF Manifest
  <1>1. \A x \in Manifest : Done(r, x) => Open(r, x)
    BY DEF Done, Open
  <1>2. \A q \in Page : Done(r, Prompt(q))
    BY <1>0 DEF StageInv, InOrder, Before
  <1>3. Done(r, Scenes)
    BY <1>0, <1>1, <1>2 DEF StageInv, InOrder, Before
  <1>4. Done(r, Text)
    BY <1>0, <1>1, <1>3 DEF StageInv, InOrder, Before
  <1>5. Done(r, Plan)
    BY <1>0, <1>1, <1>4 DEF StageInv, InOrder, Before
  <1> QED
    BY <1>2, <1>3, <1>4, <1>5 DEF Manifest

LEMMA CommitImageStages ==
  ASSUME StageInv, PagesKept, PagesFit, NEW j \in DOMAIN job, CommitImage(j)
  PROVE  StageInv'
  <1> DEFINE r == j[1]
             p == PageOf(j[2])
             due == IF ReviewDue(NodesAfter(j)) THEN {Review} ELSE {}
             n == Materialized(Committed(Nodes(r), j[2]), r, due)
             x == [run[r] EXCEPT !.nodes = n]
             snapshots == [k \in due |-> Snapshot(project.story, 0, 0)]
             made == [at |-> page[p].rev + 1, prompt |-> page[p].prompt.at,
                      run |-> r, inputs |-> ImageInputs(j)]
  <1>1. CASE JobCurrent(j)
    <2>1. /\ job[j].state = "working" /\ IsImage(j[2]) /\ BoundTo(j) # {}
          /\ job' = Queued(Succeeded(j), r, snapshots)
          /\ run' = [run EXCEPT ![r] = x]
          /\ page' = [page EXCEPT ![p] = [page[p] EXCEPT !.rev = @ + 1, !.review = NoReview,
                                                       !.image = made]]
      BY <1>1 DEF CommitImage, JobCurrent, Illustrated, Nodes, NodesAfter
    <2>2. /\ r \in DOMAIN run /\ Open(r, j[2]) /\ ~Done(r, j[2]) /\ j[2] \in Node
          /\ j[2] \in DOMAIN Nodes(r)
      BY <2>1, WorkingIsFirst DEF StageInv
    <2>3. p \in Page
      BY <2>1, <2>2, NodesOfPages
    <2>4. RunFits(x) /\ x.nodes = n
      BY <2>2, RunWithNodes DEF StageInv, RunInv, RunsFit
    <2>5. DOMAIN snapshots = due
      OBVIOUS
    <2>6. \A q \in Page : j[2] = Image(q) => q = p
      BY DEF Image, PageOf
    <2>7. Made(j[2])'
      <3>1. PageFits(page[p], project.story) /\ DOMAIN page = Page
        BY <2>3 DEF PagesFit
      <3>2. page'[p].image = made
        BY <2>1, <2>3, <3>1 DEF PageFits, PageFields
      <3>3. made # NoImage
        BY <3>1 DEF PageFits, NoImage
      <3>4. \A q \in Page : j[2] # Scenes /\ j[2] # Prompt(q)
        BY <2>1 DEF IsImage, Scenes, Prompt
      <3> QED
        BY <2>6, <3>2, <3>3, <3>4 DEF Made
    <2>8. ASSUME NEW k \in due
          PROVE  /\ k = Review /\ ~Open(r, k)
                 /\ \A i \in Manifest : Before(i, k) => i = j[2] \/ Done(r, i)
      <3>1. k = Review /\ ReviewDue(NodesAfter(j))
        OBVIOUS
      <3>2. /\ NodesAfter(j)[Review].state = "planned"
            /\ \A i \in DOMAIN NodesAfter(j) : IsImage(i) => NodesAfter(j)[i].state = "committed"
        BY <3>1 DEF ReviewDue
      <3>3. DOMAIN NodesAfter(j) = DOMAIN Nodes(r) /\ Manifest \subseteq DOMAIN Nodes(r)
            /\ \A i \in DOMAIN Nodes(r) : i # j[2] => NodesAfter(j)[i] = Nodes(r)[i]
        BY <2>2 DEF NodesAfter, Committed, Nodes, StageInv, RunInv, NodesFit
      <3>4. Review \in Manifest /\ Review # j[2] /\ \A q \in Page : Image(q) \in Manifest /\ IsImage(Image(q))
        BY <2>1 DEF Manifest, Review, Image, IsImage
      <3>5. ~Open(r, Review)
        BY <3>2, <3>3, <3>4 DEF Open
      <3>6. \A q \in Page : Image(q) = j[2] \/ Done(r, Image(q))
        BY <3>2, <3>3, <3>4 DEF Done
      <3>7. \A q \in Page : Open(r, Image(q))
        BY <2>2, <3>6 DEF Done, Open
      <3>8. \A i \in Manifest \ {Review, Gate} : Done(r, i) \/ \E q \in Page : i = Image(q)
        BY <2>2, <2>3, <3>7, StagesBeforeImages
      <3>9. ASSUME NEW i \in Manifest, Before(i, Review)
            PROVE  i \in Manifest \ {Review, Gate}
        BY <3>9 DEF Before, Plan, Text, Scenes, Prompt, Image, Review, Gate
      <3> QED
        BY <3>1, <3>5, <3>6, <3>8, <3>9
    <2>9. due \subseteq Node /\ Gate \notin due
      BY DEF Node, Manifest, Review, Gate
    <2> HIDE DEF p, x, n, snapshots, made, due
    <2>10. Moves(r, {j[2]}, due) /\ Movable(r, {j[2]}, due)
      BY <2>1, <2>4, <2>5, <2>8, <2>9, CommitMoves DEF n, StageInv
    <2> QED
      BY <2>7, <2>8, <2>10, MovesKeepStages
  <1>2. CASE ~JobCurrent(j)
    BY <1>2, RefusedStages DEF CommitImage, JobStates
  <1> QED
    BY <1>1, <1>2

\* the findings: the review is done and the gate of the run waits
LEMMA CommitReviewStages ==
  ASSUME StageInv, PagesKept, NEW j \in DOMAIN job, NEW findings \in {"clean", "block"},
         CommitReview(j, findings)
  PROVE  StageInv'
  <1> DEFINE r == j[1]
             n == [Committed(Nodes(r), Review) EXCEPT ![Gate].state = "materialized"]
             x == [run[r] EXCEPT !.status = "internal_review", !.findings = findings, !.nodes = n]
  <1>1. CASE JobCurrent(j)
    <2>1. /\ job[j].state = "working" /\ j[2] = Review /\ BoundTo(j) # {}
          /\ job' = Succeeded(j) /\ run' = [run EXCEPT ![r] = x]
      BY <1>1 DEF CommitReview, JobCurrent, Nodes
    <2>2. /\ r \in DOMAIN run /\ Open(r, Review) /\ Review \in DOMAIN Nodes(r) /\ Review # Gate
          /\ j = First(r, Review)
      BY <2>1, WorkingIsFirst DEF StageInv
    <2>3. RunFits(x) /\ x.nodes = n
      <3>1. RunFits(run[r])
        BY <2>2 DEF StageInv, RunInv, RunsFit
      <3> QED
        BY <3>1 DEF RunFits, RunFields
    <2>4. /\ RunsFit' /\ DOMAIN run' = DOMAIN run
          /\ run'[r] = x /\ \A q \in DOMAIN run : q # r => run'[q] = run[q]
      BY <2>1, <2>2, <2>3, OneRunChanged DEF StageInv, RunInv
    <2>5. Gate \in DOMAIN Nodes(r) /\ NodeFits(r, Gate, Nodes(r)[Gate])
      BY <2>2 DEF StageInv, RunInv, NodesFit, Manifest
    <2>6. /\ DOMAIN n = DOMAIN Nodes(r)
          /\ \A k \in DOMAIN n : k # Gate => n[k] = IF k \in {Review}
                THEN [Nodes(r)[k] EXCEPT !.state = "committed"] ELSE Nodes(r)[k]
          /\ n[Gate] = [Nodes(r)[Gate] EXCEPT !.state = "materialized"]
      BY <2>2, <2>5 DEF Committed
    <2>7. NodeFits(r, Gate, n[Gate])
      BY <2>5, <2>6 DEF NodeFits, NodeStates
    <2>8. /\ DOMAIN job' = DOMAIN job
          /\ \A i \in DOMAIN job : i # j => job'[i] = job[i]
          /\ job'[j] = [job[j] EXCEPT !.state = "succeeded"]
      BY <2>1 DEF Succeeded
    <2>9. \A i \in DOMAIN job : JobFits(job[i])
      BY DEF StageInv, RunInv, JobsFit
    <2>10. JobFits(job'[j]) /\ job'[j].state = "succeeded"
      BY <2>8, <2>9 DEF JobFits, JobStates
    <2>11. Nodes(r)' = n
      BY <2>3, <2>4 DEF Nodes
    <2> HIDE DEF n, x
    <2>12. Moves(r, {Review}, {})
      BY <2>2, <2>4, <2>6, <2>7, <2>8, <2>9, <2>10, <2>11 DEF Moves, Nodes
    <2>13. Movable(r, {Review}, {})
      BY <2>2 DEF Movable
    <2>14. Made(Review)'
      BY DEF Made, Review, Scenes, Prompt, Image
    <2> QED
      BY <2>12, <2>13, <2>14, MovesKeepStages
  <1>2. CASE ~JobCurrent(j)
    BY <1>2, RefusedStages DEF CommitReview, JobStates
  <1> QED
    BY <1>1, <1>2

\* a step of the operator that leaves the nodes of a run, or commits its gate
LEMMA ReviewStages ==
  ASSUME StageInv, PagesKept, NEW r \in DOMAIN run, AcknowledgeFinding(r) \/ CompleteReview(r)
  PROVE  StageInv'
  <1>0. /\ RunFits(run[r])
        /\ Gate \in DOMAIN Nodes(r) /\ NodeFits(r, Gate, Nodes(r)[Gate])
        /\ \A i \in DOMAIN job : JobFits(job[i])
    BY DEF StageInv, RunInv, RunsFit, NodesFit, JobsFit, Manifest
  <1>1. PICK x : /\ run' = [run EXCEPT ![r] = x] /\ RunFits(x) /\ UNCHANGED job
                 /\ x.nodes = Nodes(r) \/ x.nodes = Committed(Nodes(r), Gate)
    <2>1. CASE AcknowledgeFinding(r)
      <3>1. run' = [run EXCEPT ![r] = [run[r] EXCEPT !.findings = "acknowledged"]] /\ UNCHANGED job
        BY <2>1 DEF AcknowledgeFinding
      <3>2. /\ RunFits([run[r] EXCEPT !.findings = "acknowledged"])
            /\ [run[r] EXCEPT !.findings = "acknowledged"].nodes = Nodes(r)
        BY <1>0 DEF RunFits, RunFields, Nodes
      <3> QED
        BY <3>1, <3>2
    <2>2. CASE CompleteReview(r)
      <3> DEFINE y == [run[r] EXCEPT !.status = "complete", !.nodes = Committed(Nodes(r), Gate)]
      <3>1. run' = [run EXCEPT ![r] = y] /\ UNCHANGED job
        BY <2>2 DEF CompleteReview, Nodes
      <3>2. RunFits(y) /\ y.nodes = Committed(Nodes(r), Gate)
        BY <1>0 DEF RunFits, RunFields
      <3> QED
        BY <3>1, <3>2
    <2> QED
      BY <2>1, <2>2
  <1>2. /\ RunsFit' /\ DOMAIN run' = DOMAIN run
        /\ run'[r] = x /\ \A q \in DOMAIN run : q # r => run'[q] = run[q]
    BY <1>1, OneRunChanged DEF StageInv, RunInv
  <1>3. /\ DOMAIN x.nodes = DOMAIN Nodes(r)
        /\ \A k \in DOMAIN x.nodes : k # Gate => x.nodes[k] = Nodes(r)[k]
        /\ NodeFits(r, Gate, x.nodes[Gate])
    <2>1. CASE x.nodes = Nodes(r)
      BY <1>0, <2>1
    <2>2. CASE x.nodes = Committed(Nodes(r), Gate)
      <3>1. /\ DOMAIN x.nodes = DOMAIN Nodes(r)
            /\ \A k \in DOMAIN x.nodes : k # Gate => x.nodes[k] = Nodes(r)[k]
            /\ x.nodes[Gate] = [Nodes(r)[Gate] EXCEPT !.state = "committed"]
        BY <1>0, <2>2 DEF Committed
      <3> QED
        BY <1>0, <3>1 DEF NodeFits, NodeStates
    <2> QED
      BY <1>1, <2>1, <2>2
  <1>4. Nodes(r)' = x.nodes
    BY <1>2 DEF Nodes
  <1>5. Moves(r, {}, {})
    BY <1>0, <1>1, <1>2, <1>3, <1>4 DEF Moves, Nodes
  <1>6. Movable(r, {}, {})
    BY DEF Movable
  <1> QED
    BY <1>5, <1>6, MovesKeepStages

\* regenerateIllustration adds a node and its job
LEMMA RegenerateStages ==
  ASSUME StageInv, PagesKept, PagesFit, NEW r \in DOMAIN run, NEW p \in Page, Regenerate(r, p)
  PROVE  StageInv'
  <1> DEFINE k == <<"image", p, page[p].rev + 1>>
             n == Materialized(Nodes(r), r, {k})
             x == [run[r] EXCEPT !.nodes = n]
             snapshots == [i \in {k} |-> Snapshot(0, page[p].rev, page[p].prompt.scene)]
  <1>1. /\ run' = [run EXCEPT ![r] = x] /\ job' = Queued(job, r, snapshots)
        /\ k \notin DOMAIN Nodes(r)
    BY DEF Regenerate, Nodes
  <1>2. page[p].rev \in Nat
    BY DEF PagesFit, PageFits
  <1>3. k \in Node /\ k # Gate /\ k \notin Manifest
    BY <1>2 DEF Node, Manifest, Plan, Text, Scenes, Prompt, Image, Review, Gate
  <1>4. /\ RunFits(run[r])
        /\ Gate \in DOMAIN Nodes(r) /\ NodeFits(r, Gate, Nodes(r)[Gate])
        /\ \A i \in DOMAIN job : JobFits(job[i])
    BY DEF StageInv, RunInv, RunsFit, NodesFit, JobsFit, Manifest
  <1>5. RunFits(x) /\ x.nodes = n
    BY <1>4, RunWithNodes
  <1>6. DOMAIN snapshots = {k}
    OBVIOUS
  <1> HIDE DEF k, x, snapshots
  <1>7. /\ RunsFit' /\ DOMAIN run' = DOMAIN run
        /\ run'[r] = x /\ \A q \in DOMAIN run : q # r => run'[q] = run[q]
    BY <1>1, <1>5, OneRunChanged DEF StageInv, RunInv
  <1>8. /\ DOMAIN n = DOMAIN Nodes(r) \cup {k}
        /\ \A i \in DOMAIN n : n[i] = IF i \in {k} THEN [state |-> "materialized", job |-> First(r, i)]
                                      ELSE Nodes(r)[i]
    BY DEF Materialized, First
  <1>9. Nodes(r)' = n
    BY <1>5, <1>7 DEF Nodes
  <1> HIDE DEF n
  <1>10. NodeFits(r, Gate, n[Gate])
    <2>1. n[Gate] = Nodes(r)[Gate]
      BY <1>3, <1>4, <1>8
    <2> QED
      BY <1>4, <2>1
  <1>11. /\ DOMAIN job' = DOMAIN job \cup {First(r, i) : i \in {k}}
         /\ \A i \in DOMAIN job' : job'[i] = IF i \in DOMAIN job THEN job[i]
                                             ELSE [state |-> "queued", in |-> snapshots[i[2]]]
    BY <1>1, <1>6 DEF Queued, First
  <1>12. ASSUME NEW i \in DOMAIN job' PROVE JobFits(job'[i])
    <2>1. CASE i \in DOMAIN job
      BY <1>4, <1>11, <2>1
    <2>2. CASE i \notin DOMAIN job
      <3>1. job'[i] = [state |-> "queued", in |-> snapshots[i[2]]]
        BY <1>11, <2>2
      <3> QED
        BY <3>1 DEF JobFits, JobStates
    <2> QED
      BY <2>1, <2>2
  <1>13. Moves(r, {}, {k})
    BY <1>7, <1>8, <1>9, <1>10, <1>11, <1>12 DEF Moves, Nodes
  <1>14. Movable(r, {}, {k})
    BY <1>1, <1>3 DEF Movable
  <1> QED
    BY <1>3, <1>13, <1>14, MovesKeepStages

\* startRun: another run, of which only the plan is begun
LEMMA StartRunStages ==
  ASSUME StageInv, PagesKept, StartRun
  PROVE  StageInv'
  <1>0. PICK r : r = Len(run) + 1
    OBVIOUS
  <1> DEFINE n == Materialized([k \in Manifest |-> Planned], r, {Plan})
             snapshots == [k \in {Plan} |-> Snapshot(project.story, 0, 0)]
  <1>1. PICK x : /\ x.nodes = n /\ RunFits(x) /\ run' = Append(run, x)
                 /\ job' = Queued(job, r, snapshots)
    <2>1. PICK chosen : /\ run' = Append(run, [version |-> project.version, input |-> project.story,
                                output |-> 0, status |-> "generating", findings |-> "none",
                                sheets |-> chosen, nodes |-> n])
                        /\ job' = Queued(job, r, snapshots)
      BY <1>0 DEF StartRun
    <2> QED
      BY <2>1 DEF RunFits, RunFields
  <1>2. Len(run) \in Nat /\ DOMAIN run = 1..Len(run) /\ r \in Nat /\ r \notin DOMAIN run
    BY <1>0, RunsAreNumbered DEF StageInv, RunInv, RunsFit
  <1>3. /\ RunsAreListed' /\ DOMAIN run' = DOMAIN run \cup {r}
        /\ \A q \in DOMAIN run : run'[q] = run[q]
        /\ run'[r] = x
    <2>1. PICK S : run \in Seq(S)
      BY DEF StageInv, RunInv, RunsFit, RunsAreListed
    <2>2. run \in Seq(S \cup {x})
      BY <2>1
    <2>3. /\ Append(run, x) \in Seq(S \cup {x}) /\ Len(Append(run, x)) = Len(run) + 1
          /\ \A q \in 1..Len(run) : Append(run, x)[q] = run[q]
          /\ Append(run, x)[Len(run) + 1] = x
      BY <2>2, AppendProperties
    <2>4. DOMAIN run' = 1..(Len(run) + 1)
      BY <1>1, <2>3
    <2> QED
      BY <1>0, <1>1, <1>2, <2>3, <2>4 DEF RunsAreListed
  <1>4. RunsFit'
    BY <1>1, <1>3 DEF RunsFit, StageInv, RunInv
  <1>5. Nodes(r)' = n /\ \A q \in DOMAIN run : Nodes(q)' = Nodes(q)
    BY <1>1, <1>3 DEF Nodes
  <1>6. /\ DOMAIN n = Manifest /\ n[Plan] = [state |-> "materialized", job |-> First(r, Plan)]
        /\ \A k \in Manifest : k # Plan => n[k] = [state |-> "planned", job |-> NoJob]
        /\ Plan # Gate /\ Plan \in Manifest
    BY DEF Materialized, First, Planned, Manifest, Plan, Gate
  <1> HIDE DEF n, snapshots
  <1>7. ASSUME NEW k \in Manifest PROVE NodeFits(r, k, n[k])
    <2>1. CASE k = Plan
      BY <1>6, <2>1 DEF NodeFits, NodeStates
    <2>2. CASE k # Plan
      BY <1>6, <2>2 DEF NodeFits, NodeStates
    <2> QED
      BY <2>1, <2>2
  <1>8. NodesFit'
    <2>1. ASSUME NEW q \in DOMAIN run'
          PROVE  /\ Manifest \subseteq DOMAIN Nodes(q)' /\ DOMAIN Nodes(q)' \subseteq Node
                 /\ \A k \in DOMAIN Nodes(q)' : NodeFits(q, k, Nodes(q)'[k])
      <3>1. CASE q = r
        BY <1>5, <1>6, <1>7, <3>1 DEF Node, Nodes
      <3>2. CASE q \in DOMAIN run
        BY <1>5, <3>2 DEF StageInv, RunInv, NodesFit
      <3> QED
        BY <1>3, <3>1, <3>2
    <2> QED
      BY <2>1 DEF NodesFit, NodeFits, First
  <1>9. ASSUME NEW i \in DOMAIN job PROVE i \in Name /\ i[1] \in DOMAIN run /\ HasNode(i) /\ JobFits(job[i])
    BY DEF StageInv, RunInv, JobsFit, HasNode
  <1>10. /\ First(r, Plan) \in Name /\ First(r, Plan)[1] = r /\ First(r, Plan)[2] = Plan
         /\ First(r, Plan) \notin DOMAIN job
    BY <1>2, <1>6, <1>9, NamesOfJobs DEF Node
  <1>11. /\ DOMAIN job' = DOMAIN job \cup {First(r, Plan)}
         /\ \A i \in DOMAIN job : job'[i] = job[i]
         /\ JobFits(job'[First(r, Plan)])
    <2>1. job' = [i \in DOMAIN job \cup {First(r, Plan)} |->
                    IF i \in DOMAIN job THEN job[i] ELSE [state |-> "queued", in |-> snapshots[i[2]]]]
      BY <1>1 DEF Queued, First, snapshots
    <2>2. job'[First(r, Plan)] = [state |-> "queued", in |-> snapshots[First(r, Plan)[2]]]
      BY <1>10, <2>1
    <2>3. JobFits(job'[First(r, Plan)])
      BY <2>2 DEF JobFits, JobStates
    <2> QED
      BY <2>1, <2>3
  <1>12. \A q \in DOMAIN run : \A k \in DOMAIN Nodes(q) :
           ((Open(q, k))' <=> Open(q, k)) /\ ((Done(q, k))' <=> Done(q, k))
    BY <1>5 DEF Open, Done, Nodes
  <1>13. (Open(r, Plan))' /\ \A k \in Manifest : ~(Done(r, k))' /\ (k # Plan => ~(Open(r, k))')
    BY <1>5, <1>6 DEF Open, Done, Nodes
  <1>14. ASSUME NEW i \in DOMAIN job' PROVE JobFits(job'[i]) /\ (HasNode(i))' /\ i \in Name
    <2>1. CASE i \in DOMAIN job
      BY <1>3, <1>5, <1>9, <1>11, <1>12, <2>1 DEF HasNode, Nodes, Open
    <2>2. CASE i = First(r, Plan)
      BY <1>3, <1>5, <1>6, <1>10, <1>11, <1>13, <2>2 DEF HasNode, Nodes, Open
    <2> QED
      BY <1>11, <2>1, <2>2
  <1>15. ASSUME NEW q \in DOMAIN run', NEW k \in DOMAIN Nodes(q)', k # Gate, (Open(q, k))'
         PROVE  First(q, k) \in DOMAIN job' /\ ((Done(q, k))' => job'[First(q, k)].state = "succeeded")
    <2>1. CASE q = r
      <3>1. k \in Manifest
        BY <1>5, <1>6, <1>15, <2>1 DEF Nodes
      <3>2. k = Plan
        BY <1>13, <1>15, <2>1, <3>1
      <3> QED
        BY <1>11, <1>13, <2>1, <3>1, <3>2
    <2>2. CASE q \in DOMAIN run
      <3>1. k \in DOMAIN Nodes(q) /\ Open(q, k) /\ ((Done(q, k))' <=> Done(q, k))
        BY <1>5, <1>12, <1>15, <2>2
      <3>2. First(q, k) \in DOMAIN job /\ (Done(q, k) => job[First(q, k)].state = "succeeded")
        BY <1>15, <2>2, <3>1 DEF StageInv, RunInv, JobsFit
      <3> QED
        BY <1>11, <3>1, <3>2
    <2> QED
      BY <1>3, <2>1, <2>2
  <1>16. JobsFit'
    BY <1>14, <1>15 DEF JobsFit, First, Nodes, Open, Done
  <1>17. \A q \in DOMAIN run : Manifest \subseteq DOMAIN Nodes(q)
    BY DEF StageInv, RunInv, NodesFit
  <1>18. ASSUME NEW q \in DOMAIN run', NEW y \in Manifest, NEW k \in Manifest, Before(y, k), (Open(q, k))'
         PROVE  (Done(q, y))'
    <2>1. CASE q = r
      <3>1. k = Plan
        BY <1>13, <1>18, <2>1
      <3> QED
        BY <1>18, <3>1 DEF Before, Plan, Text, Scenes, Prompt, Image, Review
    <2>2. CASE q \in DOMAIN run
      BY <1>12, <1>17, <1>18, <2>2 DEF StageInv, InOrder
    <2> QED
      BY <1>3, <2>1, <2>2
  <1>19. ASSUME NEW q \in DOMAIN run', NEW k \in Manifest, (Done(q, k))'
         PROVE  Made(k)'
    <2>1. CASE q = r
      BY <1>13, <1>19, <2>1
    <2>2. CASE q \in DOMAIN run
      <3>1. Done(q, k)
        BY <1>12, <1>17, <1>19, <2>2
      <3>2. Made(k)
        BY <2>2, <3>1 DEF StageInv, AllMade
      <3> QED
        BY <3>2, MadeStays
    <2> QED
      BY <1>3, <2>1, <2>2
  <1>20. InOrder'
    BY <1>18 DEF InOrder
  <1>21. AllMade'
    BY <1>19 DEF AllMade
  <1> QED
    BY <1>4, <1>8, <1>16, <1>20, <1>21 DEF StageInv, RunInv

(***************************************************************************)
(* Jobs that are dispatched, tried again, moved or lost with the process.  *)
(***************************************************************************)
LEMMA RestartStages ==
  ASSUME StageInv, PagesKept, Restart
  PROVE  StageInv'
  <1>1. /\ DOMAIN job \subseteq Name /\ UNCHANGED run /\ DOMAIN job' = DOMAIN job
        /\ \A i \in DOMAIN job : JobFits(job[i])
        /\ \A i \in DOMAIN job : job'[i] =
             [job[i] EXCEPT !.state = IF job[i].state = "working" THEN "queued" ELSE job[i].state]
    BY DEF Restart, StageInv, RunInv, JobsFit
  <1>2. ASSUME NEW i \in DOMAIN job
        PROVE  JobFits(job'[i]) /\ (job[i].state = "succeeded" => job'[i].state = "succeeded")
    BY <1>1 DEF JobFits, JobStates
  <1>3. RunInv'
    BY <1>1, <1>2, JobsRestated DEF StageInv
  <1> QED
    BY <1>1, <1>3, RunStays

LEMMA SwitchProviderStages ==
  ASSUME StageInv, PagesKept, SwitchProvider
  PROVE  StageInv'
  <1> DEFINE moved == {j \in DOMAIN job : IsImage(j[2]) /\ job[j].state \in {"queued", "paused"}}
             next == {<<i[1], i[2], 1>> : i \in moved}
  <1>1. /\ DOMAIN job \subseteq Name /\ UNCHANGED run /\ DOMAIN job' = DOMAIN job \cup next
        /\ \A i \in DOMAIN job : JobFits(job[i])
        /\ \A i \in DOMAIN job \cup next : job'[i] =
             IF i \in moved THEN [job[i] EXCEPT !.state = "superseded"]
             ELSE IF i \in DOMAIN job THEN job[i] ELSE job[<<i[1], i[2], 0>>]
    BY DEF SwitchProvider, StageInv, RunInv, JobsFit
  <1>2. ASSUME NEW i \in DOMAIN job
        PROVE  JobFits(job'[i]) /\ (job[i].state = "succeeded" => job'[i].state = "succeeded")
    <2>1. CASE i \in moved
      <3>1. job'[i] = [job[i] EXCEPT !.state = "superseded"] /\ job[i].state \in {"queued", "paused"}
        BY <1>1, <2>1
      <3> QED
        BY <1>1, <3>1 DEF JobFits, JobStates
    <2>2. CASE i \notin moved
      <3>1. job'[i] = job[i]
        BY <1>1, <2>2
      <3> QED
        BY <1>1, <3>1
    <2> QED
      BY <2>1, <2>2
  <1>3. ASSUME NEW i \in next, i \notin DOMAIN job
        PROVE  /\ i \in Name /\ JobFits(job'[i])
               /\ \E m \in DOMAIN job : m[1] = i[1] /\ m[2] = i[2]
    <2>1. PICK m \in moved : i = <<m[1], m[2], 1>>
      OBVIOUS
    <2>2. m \in DOMAIN job /\ m \in Name
      BY <1>1
    <2>3. m[1] \in Nat /\ m[2] \in Node /\ m[3] \in {0, 1} /\ m = <<m[1], m[2], m[3]>>
      BY <2>2, PartsOfNames
    <2>4. i \in Name /\ i[1] = m[1] /\ i[2] = m[2]
      BY <2>1, <2>3 DEF Name
    <2>5. m = <<i[1], i[2], 0>>
      BY <1>3, <2>1, <2>2, <2>3, <2>4
    <2>6. i \notin moved
      BY <1>3
    <2>7. job'[i] = job[m]
      BY <1>1, <1>3, <2>5, <2>6
    <2> QED
      BY <1>1, <2>2, <2>4, <2>7
  <1> HIDE DEF moved, next
  <1>4. /\ DOMAIN job \subseteq DOMAIN job' /\ DOMAIN job' \subseteq Name
        /\ \A i \in DOMAIN job' :
             /\ JobFits(job'[i])
             /\ i \in DOMAIN job \/ \E m \in DOMAIN job : m[1] = i[1] /\ m[2] = i[2]
    BY <1>1, <1>2, <1>3
  <1>5. RunInv'
    BY <1>1, <1>2, <1>4, JobsRestated DEF StageInv
  <1> QED
    BY <1>1, <1>5, RunStays

LEMMA JobStages ==
  ASSUME StageInv, PagesKept, NEW j \in DOMAIN job, DispatchJob(j) \/ RetryJob(j)
  PROVE  StageInv'
  <1>1. PICK state \in JobStates : job' = [job EXCEPT ![j].state = state]
    BY DEF DispatchJob, RetryJob, JobStates
  <1>2. job[j].state # "succeeded" /\ UNCHANGED run
    BY DEF DispatchJob, RetryJob
  <1>3. RunInv'
    BY <1>1, <1>2, OneJobRestated DEF StageInv
  <1> QED
    BY <1>2, <1>3, RunStays

LEMMA StepStages ==
  ASSUME StageInv, PagesFit, [Next]_vars
  PROVE  StageInv' /\ PagesFit' /\ PagesKept
  <1>1. DOMAIN job \subseteq Name
    BY DEF StageInv, RunInv, JobsFit
  <1>2. PagesFit' /\ PagesKept
    BY <1>1, StepPages
  <1>3. CASE UNCHANGED <<run, job>>
    <2>1. RunInv'
      BY <1>3 DEF StageInv, RunInv, RunsFit, RunsAreListed, RunFits, NodesFit, NodeFits, JobsFit,
         JobFits, HasNode, Open, Done, Nodes, First
    <2> QED
      BY <1>2, <1>3, <2>1, RunStays
  <1>4. CASE Making
    BY <1>2, <1>3, <1>4, StartRunStages DEF Making, runVars
  <1>5. CASE Working
    BY <1>2, <1>5, RestartStages, JobStages, CommitStoryStages, CommitScenesStages,
       CommitPromptStages, CommitImageStages, CommitReviewStages DEF Working, CommitJob
  <1>6. CASE Operating
    <2>1. ASSUME NEW r \in DOMAIN run, AcknowledgeFinding(r) \/ CompleteReview(r)
          PROVE  StageInv'
      BY <1>2, <2>1, ReviewStages
    <2>2. ASSUME NEW r \in DOMAIN run, NEW p \in Page, Regenerate(r, p)
          PROVE  StageInv'
      BY <1>2, <2>2, RegenerateStages
    <2>3. CASE \E p \in Page : ReviewPage(p) \/ LockPage(p) \/ UnlockPage(p)
      BY <1>2, <1>3, <2>3 DEF ReviewPage, LockPage, UnlockPage
    <2> QED
      BY <1>2, <1>6, <2>1, <2>2, <2>3 DEF Operating
  <1>7. CASE Editing
    BY <1>2, <1>3, <1>7 DEF Editing, EditText, EditScene, ReviseProject, ReviseCharacter
  <1>8. CASE SwitchProvider
    BY <1>2, <1>8, SwitchProviderStages
  <1> QED
    BY <1>2, <1>3, <1>4, <1>5, <1>6, <1>7, <1>8 DEF Next, SteadyNext, vars, runVars

CreativeInv == StageInv /\ PagesFit

LEMMA CreativeInvariant == Spec => []CreativeInv
  <1>1. RunInit => CreativeInv
    <2> SUFFICES ASSUME RunInit PROVE CreativeInv
      OBVIOUS
    <2>1. run = <<>> /\ job = <<>> /\ DOMAIN run = {} /\ DOMAIN job = {}
      BY DEF RunInit
    <2>2. RunsFit
      <3>1. run \in Seq({})
        BY <2>1
      <3> QED
        BY <2>1, <3>1 DEF RunsFit, RunsAreListed
    <2>3. RunInv /\ InOrder /\ AllMade
      BY <2>1, <2>2 DEF RunInv, NodesFit, JobsFit, InOrder, AllMade
    <2>4. /\ project = [version |-> 1, story |-> 1]
          /\ page = [p \in Page |->
               [rev |-> 0, scene |-> 1, text |-> NoText, prompt |-> NoPrompt, image |-> NoImage,
                review |-> NoReview, locked |-> FALSE, why |-> {}]]
      BY DEF RunInit
    <2>5. PagesFit
      <3>1. ASSUME NEW p \in Page PROVE PageFits(page[p], 1)
        <4>0. page[p] = [rev |-> 0, scene |-> 1, text |-> NoText, prompt |-> NoPrompt,
                         image |-> NoImage, review |-> NoReview, locked |-> FALSE, why |-> {}]
          BY <2>4
        <4>1. /\ DOMAIN page[p] = PageFields /\ page[p].rev = 0 /\ page[p].scene = 1
              /\ page[p].text = NoText /\ page[p].prompt = NoPrompt /\ page[p].image = NoImage
              /\ page[p].review = NoReview /\ page[p].locked \in BOOLEAN /\ page[p].why = {}
          BY <4>0 DEF PageFields
        <4>2. NoText.at = 0 /\ NoPrompt.at = 0 /\ NoImage.at = 0
          BY DEF NoText, NoPrompt, NoImage
        <4> QED
          BY <4>1, <4>2 DEF PageFits
      <3>2. /\ project \in [version: Nat, story: Nat] /\ project.story = 1
            /\ DOMAIN page = Page
        BY <2>4
      <3> QED
        BY <3>1, <3>2 DEF PagesFit
    <2> QED
      BY <2>3, <2>5 DEF CreativeInv, StageInv
  <1>2. CreativeInv /\ [Next]_vars => CreativeInv'
    BY StepStages DEF CreativeInv
  <1> QED
    BY <1>1, <1>2, PTL DEF Spec

(***************************************************************************)
(* The findings are made when everything is there: whatever fails, is      *)
(* tried again, restarted, moved to another provider or edited meanwhile,  *)
(* a run under review has all its stages committed and every page has a    *)
(* text, a prompt and an illustration.                                     *)
(***************************************************************************)
THEOREM ReviewFindsEverything == Spec => []ReviewedRunsAreWhole
  <1>1. CreativeInv => ReviewedRunsAreWhole
    <2> SUFFICES ASSUME CreativeInv, NEW r \in DOMAIN run, run[r].nodes[Review].state # "planned"
                 PROVE  /\ \A k \in Manifest \ {Review, Gate} : Done(r, k)
                        /\ \A p \in Page : /\ page[p].text # NoText /\ page[p].prompt # NoPrompt
                                           /\ page[p].image # NoImage
      BY DEF ReviewedRunsAreWhole, Done, Nodes
    <2>1. Open(r, Review) /\ Review \in Manifest
      BY DEF Open, Nodes, Manifest
    <2>2. \A k \in Manifest \ {Review, Gate} : Before(k, Review) /\ Done(r, k)
      BY <2>1 DEF CreativeInv, StageInv, InOrder, Before
    <2>3. \A k \in Manifest \ {Review, Gate} : Made(k)
      BY <2>2 DEF CreativeInv, StageInv, AllMade
    <2>4. /\ Scenes \in Manifest \ {Review, Gate}
          /\ \A p \in Page : {Prompt(p), Image(p)} \subseteq Manifest \ {Review, Gate}
      BY DEF Manifest, Plan, Text, Scenes, Prompt, Image, Review, Gate
    <2> QED
      BY <2>2, <2>3, <2>4 DEF Made
  <1> QED
    BY <1>1, CreativeInvariant, PTL

(***************************************************************************)
(* An approved page shows what was reviewed, whichever late job or edit    *)
(* came after the review.                                                  *)
(***************************************************************************)
THEOREM ReviewsStayCurrent == Spec => []ReviewsAreCurrent
  <1>1. CreativeInv => ReviewsAreCurrent
    BY DEF CreativeInv, PagesFit, PageFits, ReviewsAreCurrent, Approved
  <1> QED
    BY <1>1, CreativeInvariant, PTL

(***************************************************************************)
(* The content of a locked page is frozen, also for jobs that were         *)
(* dispatched before the page was locked.                                  *)
(***************************************************************************)
THEOREM LockedPagesStay == Spec => LockedContentFrozen
  <1>1. CreativeInv /\ [Next]_vars =>
          [\A p \in Page : page[p].locked =>
             /\ page'[p].text = page[p].text /\ page'[p].prompt = page[p].prompt
             /\ page'[p].image = page[p].image]_vars
    BY StepStages DEF CreativeInv, PagesKept, PageKept
  <1> QED
    BY <1>1, CreativeInvariant, PTL DEF Spec, LockedContentFrozen

(***************************************************************************)
(* Types: the records of pages, runs, nodes and jobs.  Nodes name jobs     *)
(* that exist.                                                             *)
(***************************************************************************)
THEOREM RecordsAreTyped == Spec => []RunTypeOK
  <1>1. RunInit => SheetInv
    BY DEF RunInit, SheetInit, SheetInv, SheetTypeOK, SheetsAndGatesAgree, Pinned
  <1>2. SheetInv /\ [Next]_vars => SheetInv'
    BY StepKeepsAgreement
  <1>3. SheetInv /\ CreativeInv /\ switched \in BOOLEAN => RunTypeOK
    <2> SUFFICES ASSUME SheetInv, CreativeInv, switched \in BOOLEAN PROVE RunTypeOK
      OBVIOUS
    <2>1. SheetTypeOK /\ project \in [version: Nat, story: Nat]
      BY DEF SheetInv, CreativeInv, PagesFit
    <2>2. ASSUME NEW p \in Page
          PROVE  /\ page[p].rev \in Nat /\ page[p].scene \in 1..project.story
                 /\ {page[p].text.at, page[p].prompt.at, page[p].image.at} \subseteq 0..page[p].rev
                 /\ page[p].locked \in BOOLEAN /\ page[p].why \subseteq {"IM-01", "IM-06", "IM-13"}
      BY DEF CreativeInv, PagesFit, PageFits
    <2>3. ASSUME NEW r \in DOMAIN run
          PROVE  /\ run[r].status \in {"generating", "internal_review", "complete"}
                 /\ run[r].findings \in {"none", "clean", "block", "acknowledged"}
                 /\ Manifest \subseteq DOMAIN run[r].nodes
      BY DEF CreativeInv, StageInv, RunInv, RunsFit, RunFits, NodesFit, Nodes
    <2>4. ASSUME NEW r \in DOMAIN run, NEW k \in DOMAIN run[r].nodes
          PROVE  /\ run[r].nodes[k].state \in NodeStates
                 /\ run[r].nodes[k].job \in DOMAIN job \cup {NoJob}
      <3>1. NodeFits(r, k, Nodes(r)[k])
        BY DEF CreativeInv, StageInv, RunInv, NodesFit, Nodes
      <3>2. k # Gate /\ Open(r, k) => First(r, k) \in DOMAIN job
        BY DEF CreativeInv, StageInv, RunInv, JobsFit, Nodes
      <3> QED
        BY <3>1, <3>2 DEF NodeFits, Nodes, Open
    <2>5. \A j \in DOMAIN job : job[j].state \in JobStates
      BY DEF CreativeInv, StageInv, RunInv, JobsFit, JobFits
    <2> QED
      BY <2>1, <2>2, <2>3, <2>4, <2>5 DEF RunTypeOK
  <1> DEFINE Typed == switched \in BOOLEAN
  <1>4. RunInit => Typed
    BY DEF RunInit
  <1>5. Typed /\ [Next]_vars => Typed'
    <2> SUFFICES ASSUME switched \in BOOLEAN, [Next]_vars PROVE switched' \in BOOLEAN
      OBVIOUS
    <2>1. switched' = switched \/ switched' = TRUE
      BY DEF Next, SteadyNext, Making, StartRun, Working, Restart, DispatchJob, RetryJob,
         CommitJob, CommitStory, CommitScenes, CommitPrompt, CommitImage, CommitReview, Refused,
         Operating, AcknowledgeFinding, CompleteReview, Regenerate, ReviewPage, LockPage,
         UnlockPage, Editing, EditText, EditScene, ReviseProject, ReviseCharacter,
         SwitchProvider, vars, runVars
    <2> QED
      BY <2>1
  <1>6. SheetInv /\ CreativeInv /\ Typed => RunTypeOK
    BY <1>3
  <1> HIDE DEF Typed
  <1> QED
    BY <1>1, <1>2, <1>4, <1>5, <1>6, CreativeInvariant, PTL DEF Spec
=============================================================================
