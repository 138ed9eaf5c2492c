--------------------------- MODULE CharacterSheets ---------------------------
(***************************************************************************)
(* Character sheets of one project: views generated by jobs, a sheet put   *)
(* together from them, the customer's decision through a human gate, and   *)
(* what an edit of the character in the family library does to sheets      *)
(* (src/src/domain/creative/sheets.ts, sheet-pipeline.ts,                  *)
(* invalidation-mutations.ts, src/src/jobs/creative-definitions.ts).       *)
(*                                                                         *)
(* A sheet and the intent it comes from are one record: an intent has one  *)
(* sheet.  Photos, consent and capacity are left out; every participant    *)
(* appears as it is in the library (no shared look, no override), pinned   *)
(* to the version the project was created with.                            *)
(***************************************************************************)
EXTENDS Integers, Sequences, FiniteSets, FiniteSetsExt

CONSTANTS
  Character,   \* the participants
  View,        \* the views of a sheet
  MaxSheet,    \* bound: sheets begun
  MaxLibrary   \* bound: the library version of a character that edits reach

ASSUME SheetBounds == MaxSheet \in Nat /\ MaxLibrary \in Nat

VARIABLES
  sheet,       \* the sheets, in the order they were begun
  library      \* the current version of each character
sheetVars == <<sheet, library>>

\* the version every participant is pinned to
Pinned == 1

SheetRecord ==
  [who: Character, views: SUBSET View, intent: {"generating", "ready", "rejected"},
   status: {"none", "ready", "approved", "approved_superseded", "revision_needed"},
   gate: {"none", "waiting_review", "succeeded", "canceled"},
   approval: {"none", "approved", "changes_requested", "superseded"}]

SheetTypeOK == sheet \in Seq(SheetRecord) /\ library \in [Character -> Nat]

SheetInit == sheet = <<>> /\ library = [c \in Character |-> Pinned]

NewSheet(c) ==
  [who |-> c, views |-> {}, intent |-> "generating", status |-> "none", gate |-> "none",
   approval |-> "none"]

\* start: an intent with its view jobs and the job that puts the sheet together
StartSheet(c) ==
  /\ Len(sheet) < MaxSheet
  /\ sheet' = Append(sheet, NewSheet(c))
  /\ UNCHANGED library

\* the commit of a view job; nothing changes an intent while it is generating
FinishView(s, v) ==
  /\ sheet[s].intent = "generating" /\ v \notin sheet[s].views
  /\ sheet' = [sheet EXCEPT ![s].views = @ \cup {v}]
  /\ UNCHANGED library

\* commitSheetFinalizer: the sheet and the gate that waits for the customer
FinalizeSheet(s) ==
  /\ sheet[s].intent = "generating" /\ sheet[s].views = View
  /\ sheet' = [sheet EXCEPT ![s] =
       [@ EXCEPT !.intent = "ready", !.status = "ready", !.gate = "waiting_review"]]
  /\ UNCHANGED library

Undecided(s) == sheet[s].status = "ready" /\ sheet[s].gate = "waiting_review"

FaultyApproveSheet(s) ==
  /\ sheet[s].gate = "waiting_review"
  /\ sheet' = [sheet EXCEPT ![s].status = "approved", ![s].approval = "approved"]
  /\ UNCHANGED library
ApproveSheet(s) ==
  /\ Undecided(s)
  /\ sheet' = [sheet EXCEPT ![s] =
       [@ EXCEPT !.status = "approved", !.gate = "succeeded", !.approval = "approved"]]
  /\ UNCHANGED library

\* requestChanges: the sheet is refused and its successor is begun
RefuseSheet(s) ==
  /\ Undecided(s) /\ Len(sheet) < MaxSheet
  /\ sheet' = Append([sheet EXCEPT ![s] =
       [@ EXCEPT !.status = "revision_needed", !.gate = "canceled", !.intent = "rejected",
                 !.approval = "changes_requested"]], NewSheet(sheet[s].who))
  /\ UNCHANGED library

(***************************************************************************)
(* updateCharacter with the invalidation of its event: IM-01 (appearance)  *)
(* or IM-05 (name).  Sheets are matched by the version that was replaced.  *)
(***************************************************************************)
Superseded(x) ==
  [x EXCEPT !.status = IF x.status = "approved" THEN "approved_superseded" ELSE "revision_needed",
            !.approval = IF @ = "approved" THEN "superseded" ELSE @]
Rechecked(x) == [x EXCEPT !.status = "revision_needed"]

EditCharacter(c, row) ==
  LET hit(s) == sheet[s].status # "none" /\ sheet[s].who = c /\ library[c] = Pinned IN
  /\ library[c] < MaxLibrary
  /\ library' = [library EXCEPT ![c] = @ + 1]
  /\ sheet' = [s \in DOMAIN sheet |->
       IF ~hit(s) THEN sheet[s]
       ELSE IF row = "IM-01" THEN Superseded(sheet[s]) ELSE Rechecked(sheet[s])]

(***************************************************************************)
(* approvedSheetsForWorkspace: of each participant, the newest approved    *)
(* sheet; 0 when there is none.                                            *)
(***************************************************************************)
ApprovedSheet(c) ==
  Max({0} \cup {s \in DOMAIN sheet : sheet[s].who = c /\ sheet[s].status = "approved"})

Sheets ==
  \/ \E c \in Character : StartSheet(c)
  \/ \E s \in DOMAIN sheet :
       \/ \E v \in View : FinishView(s, v)
       \/ FinalizeSheet(s) \/ ApproveSheet(s) \/ RefuseSheet(s)
=============================================================================
