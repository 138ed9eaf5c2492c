----------------------------- MODULE PhotoIntake -----------------------------
(***************************************************************************)
(* The intake of reference photos                                          *)
(* (src/src/server/photo-intake/photo-intake-coordinator.ts,               *)
(* reservations.ts, src/src/assets/photo-intake/processor.ts,              *)
(* prepared-photo.ts) into the library of a family.  An upload is read and *)
(* reserved in memory; a commit takes the reserved bytes over, stores them *)
(* and attaches a photo to a character or look as it was at the upload, or *)
(* to a new character.  Commits run one at a time, each with awaits in     *)
(* between; cancellations, deadlines, other uploads and every operation of *)
(* the library come at any of these.                                       *)
(***************************************************************************)
EXTENDS FamilyLibrary

CONSTANTS
  New,       \* the owner of an upload that makes a new character
  Idle,      \* no commit is running
  Face,      \* the uploads of which a subject is cut out
  Aims,      \* whom each upload may be for
  MaxAsk     \* bound: commits asked (one may be sent twice)

Upload == Photo
Owner == Entity \cup {New}
Reservation == [at : {"reading", "reserved"}, owner : Owner, base : Nat,
                label : Label, main : BOOLEAN, shown : SUBSET Character]
\* a commit that has its turn
Work == [of : Upload, for : Reservation, at : {"cropping", "preparing", "discarding"}]

ASSUME IntakeAssumption ==
  /\ New \notin Entity \cup {Nobody} /\ Aims \in [Upload -> SUBSET Owner]
  /\ Face \subseteq Upload /\ MaxAsk \in Nat
  /\ Idle \notin Work

VARIABLES
  stage,     \* per upload: the stage request, then its reservation
  bytes,     \* per upload: whether StagedPhoto or PreparedPhoto has its buffers, and
             \* whether they are zero
  due,       \* uploads whose reservation is past its deadline
  queue,     \* commits that await commitTail
  busy,      \* the commit that holds it
  made,      \* per upload: photos made from it, of whole bytes and of wiped ones
  asked,     \* commits asked so far
  open       \* the server accepts requests
intake == <<stage, bytes, due, queue, busy, made, asked, open>>
vars == <<libraryVars, intake>>

NoStage == [at |-> "none"]
Unread == [holder |-> "none", zero |-> FALSE]
Wiped == [holder |-> "none", zero |-> TRUE]
\* what the form says: enough, not enough, or whom to open instead
Commit == [of : Upload, says : {"complete", "incomplete"} \cup Character]

TypeOK ==
  /\ LibraryTypeOK
  /\ stage \in [Upload -> Reservation \cup {NoStage}]
  /\ bytes \in [Upload -> [holder : {"none", "stage", "commit", "lost"}, zero : BOOLEAN]]
  /\ due \subseteq Upload
  /\ queue \in Seq(Commit)
  /\ busy \in Work \cup {Idle}
  /\ made \in [Upload -> [whole : Nat, wiped : Nat]]
  /\ asked \in Nat /\ open \in BOOLEAN

Init ==
  /\ LibraryInit
  /\ stage = [u \in Upload |-> NoStage]
  /\ bytes = [u \in Upload |-> Unread]
  /\ due = {} /\ queue = <<>> /\ busy = Idle
  /\ made = [u \in Upload |-> [whole |-> 0, wiped |-> 0]]
  /\ asked = 0 /\ open = TRUE

Reserved(u) == stage[u].at = "reserved"
-----------------------------------------------------------------------------
(***************************************************************************)
(* PhotoReservationStore.                                                  *)
(***************************************************************************)
\* unlink
Unlinked(us) == [u \in Upload |-> IF u \in us THEN NoStage ELSE stage[u]]
\* StagedPhoto.cleanup: wipes what is still its own
Released(us) == [u \in Upload |-> IF u \in us /\ bytes[u].holder = "stage" THEN Wiped ELSE bytes[u]]

\* every access to the store sweeps first: what is past its deadline is gone
Overdue == {u \in due : Reserved(u)}
Found(u) == Reserved(u) /\ u \notin due

\* what is swept, and with it those of us that are taken out on purpose
Dropped(us) ==
  /\ stage' = Unlinked(Overdue \cup us)
  /\ bytes' = Released(Overdue \cup us)
  /\ due' = {}

Deadline(u) ==
  /\ Reserved(u) /\ u \notin due
  /\ due' = due \cup {u}
  /\ UNCHANGED <<libraryVars, stage, bytes, queue, busy, made, asked, open>>

\* the timer of a reservation
Expire(u) ==
  /\ u \in Overdue
  /\ stage' = Unlinked({u}) /\ bytes' = Released({u}) /\ due' = due \ {u}
  /\ UNCHANGED <<libraryVars, queue, busy, made, asked, open>>

\* a request for a preview
Preview ==
  /\ open /\ Overdue # {}
  /\ Dropped({})
  /\ UNCHANGED <<libraryVars, queue, busy, made, asked, open>>

Cancel(u) ==
  /\ open /\ Found(u)
  /\ Dropped({u})
  /\ UNCHANGED <<libraryVars, queue, busy, made, asked, open>>

(***************************************************************************)
(* stage: the owner is looked up, the file is read and derived, and then   *)
(* duplicates are looked for and the reservation is made.                  *)
(***************************************************************************)
BeginStage(u, o, label, main) ==
  /\ open /\ stage[u] = NoStage /\ bytes[u] = Unread
  /\ o # New => status[o] # "absent" /\ ~main
  /\ stage' = [stage EXCEPT ![u] =
       [at |-> "reading", owner |-> o, base |-> IF o = New THEN 0 ELSE Len(version[o]),
        label |-> label, main |-> main, shown |-> {}]]
  /\ UNCHANGED <<libraryVars, bytes, due, queue, busy, made, asked, open>>

EndStage(u) ==
  LET r == stage[u]
      shown == IF r.owner = New THEN DuplicateCandidates(r.label, r.main, SourceOf[u]) ELSE {}
  IN
  /\ r.at = "reading"
  /\ stage' = [Unlinked(Overdue) EXCEPT ![u] = [r EXCEPT !.at = "reserved", !.shown = shown]]
  /\ bytes' = [Released(Overdue) EXCEPT ![u].holder = "stage"]
  /\ due' = {}
  /\ UNCHANGED <<libraryVars, queue, busy, made, asked, open>>

\* the file is refused; what was read of it is wiped
FailStage(u) ==
  /\ stage[u].at = "reading"
  /\ stage' = Unlinked({u})
  /\ UNCHANGED <<libraryVars, bytes, due, queue, busy, made, asked, open>>
-----------------------------------------------------------------------------
(***************************************************************************)
(* serializedCommit: a commit waits for its predecessors, whatever becomes *)
(* of them.                                                                *)
(***************************************************************************)
\* the form offers the characters that were shown
AskCommit(c) ==
  /\ open /\ Reserved(c.of) /\ asked < MaxAsk
  /\ c.says \in Character => c.says \in stage[c.of].shown
  /\ queue' = Append(queue, c)
  /\ asked' = asked + 1
  /\ UNCHANGED <<libraryVars, stage, bytes, due, busy, made, open>>

\* the next commit's turn
First == Head(queue)
Turn == busy = Idle /\ queue # <<>> /\ queue' = Tail(queue)
Opens == First.says \in stage[First.of].shown
Complete == First.says = "complete"

\* the reservation is gone, or the form will not do: then it may be tried again
RefuseCommit ==
  /\ Turn
  /\ Found(First.of) => ~Opens /\ ~Complete
  /\ Dropped({})
  /\ UNCHANGED <<libraryVars, busy, made, asked, open>>

\* openExisting, for a candidate that was shown: the upload is given up
OpenExisting ==
  /\ Turn
  /\ Found(First.of) /\ Opens
  /\ Dropped({First.of})
  /\ UNCHANGED <<libraryVars, busy, made, asked, open>>

\* transferOwnership and releaseWithoutCleanup: from here on the bytes are the
\* commit's; if the deadline passes just now they are nobody's and are never wiped
Working(u, r, at) == [of |-> u, for |-> r, at |-> at]
Taken(u, r) ==
  /\ stage' = Unlinked(Overdue \cup {u})
  /\ bytes' = [Released(Overdue \ {u}) EXCEPT ![u].holder = IF u \in Overdue THEN "lost" ELSE "commit"]
  /\ due' = {}
  /\ busy' = IF u \in Overdue THEN Idle ELSE Working(u, r, "preparing")

\* where nothing is cut out nothing is awaited before the bytes are taken over
BeginCommit ==
  LET u == First.of r == stage[u] IN
  /\ Turn
  /\ Found(u) /\ Complete
  /\ IF u \in Face THEN Dropped({}) /\ busy' = Working(u, r, "cropping")
     ELSE Taken(u, r)
  /\ UNCHANGED <<libraryVars, made, asked, open>>

\* whoever asks gets the bytes
FaultyTransferable(u) == TRUE
Transferable(u) == bytes[u].holder = "stage"

At(step) == busy # Idle /\ busy.at = step

FaultyThrown == UNCHANGED busy
\* the finally of serializedCommit
Thrown == busy' = Idle

\* the crop is made; meanwhile the reservation may have been canceled or have expired
EndCrop ==
  /\ At("cropping")
  /\ IF Transferable(busy.of) THEN Taken(busy.of, busy.for)
     ELSE Thrown /\ UNCHANGED <<stage, bytes, due>>
  /\ UNCHANGED <<libraryVars, queue, made, asked, open>>

FailCrop ==
  /\ At("cropping")
  /\ Thrown
  /\ UNCHANGED <<libraryVars, stage, bytes, due, queue, made, asked, open>>
-----------------------------------------------------------------------------
(***************************************************************************)
(* persist: the files are prepared, then one transaction attaches the      *)
(* photo; when it refuses, the files are discarded.                        *)
(***************************************************************************)
FaultyEnded == Thrown /\ UNCHANGED bytes
\* finalized.cleanup, whatever came of it
Ended == Thrown /\ bytes' = [bytes EXCEPT ![busy.of] = Wiped]

\* attachReferencePhotoToCharacter, attachReferencePhotoToLook: the photo extends the
\* head that was there when the upload began
AttachesTo(e, u) ==
  LET content == [Current(e) EXCEPT !.photos = @ \cup {u}] IN
  /\ MayAppend(e, busy.for.base, content)
  /\ version' = Appended(e, content)
  /\ owner' = [owner EXCEPT ![u] = e]
  /\ UNCHANGED <<status, anchor>>

\* createPhotoOnlyCharacter, as a separate one whatever is in the library by now
Creates(c, u) ==
  /\ Joins(c, [label |-> busy.for.label, main |-> busy.for.main, photos |-> {u}])
  /\ owner' = [owner EXCEPT ![u] = c]

MayAttach ==
  LET r == busy.for IN
  IF r.owner = New THEN MayJoin(r.main) ELSE MayAppend(r.owner, r.base, Current(r.owner))

Attach ==
  /\ At("preparing") /\ MayAttach
  /\ IF busy.for.owner = New THEN \E c \in Character : Creates(c, busy.of)
     ELSE AttachesTo(busy.for.owner, busy.of)
  /\ made' = [made EXCEPT ![busy.of] =
       IF bytes[busy.of].zero THEN [whole |-> @.whole, wiped |-> @.wiped + 1]
       ELSE [whole |-> @.whole + 1, wiped |-> @.wiped]]
  /\ Ended
  /\ UNCHANGED <<stage, due, queue, asked, open, ticket>>

\* the transaction refuses, or the disk fails before it
Discard ==
  /\ At("preparing")
  /\ busy' = [busy EXCEPT !.at = "discarding"]
  /\ UNCHANGED <<libraryVars, stage, bytes, due, queue, made, asked, open>>

EndDiscard ==
  /\ At("discarding")
  /\ Ended
  /\ UNCHANGED <<libraryVars, stage, due, queue, made, asked, open>>
-----------------------------------------------------------------------------
\* the server closes: what is reserved is wiped, commits under way go on
Close ==
  /\ open
  /\ open' = FALSE
  /\ stage' = Unlinked({u \in Upload : Reserved(u)})
  /\ bytes' = Released({u \in Upload : Reserved(u)})
  /\ due' = {}
  /\ UNCHANGED <<libraryVars, queue, busy, made, asked>>

Requests ==
  \/ \E u \in Upload, label \in Label, main \in BOOLEAN : \E o \in Aims[u] : BeginStage(u, o, label, main)
  \/ \E u \in Upload : EndStage(u) \/ FailStage(u) \/ Cancel(u)
  \/ \E c \in Commit : AskCommit(c)
  \/ Preview \/ Close
Time == \E u \in Upload : Deadline(u) \/ Expire(u)
Committing ==
  RefuseCommit \/ OpenExisting \/ BeginCommit \/ EndCrop \/ FailCrop \/ Attach \/ Discard \/ EndDiscard

Next ==
  \/ open /\ LibraryNext /\ UNCHANGED intake
  \/ Requests \/ Time \/ Committing
Spec == Init /\ [][Next]_vars

\* file work ends, and the promises of a turn are run
FairSpec == Spec /\ WF_vars(Committing)
-----------------------------------------------------------------------------
(***************************************************************************)
(* A reservation becomes at most one photo, and no photo is made of bytes  *)
(* that a cancellation, a deadline or the end of the server wiped while    *)
(* its commit waited (PhotoReservationStore, StagedPhoto.value).           *)
(***************************************************************************)
PhotosAreWhole == \A u \in Upload : made[u].whole <= 1 /\ made[u].wiped = 0

(***************************************************************************)
(* Bytes of a photo stay in memory only while a reservation or a commit    *)
(* answers for them; only a deadline that passes during the last step of a *)
(* crop leaves some behind (releaseWithoutCleanup).                        *)
(***************************************************************************)
NoBytesLeft ==
  \A u \in Upload :
    /\ bytes[u].holder = "stage" => Reserved(u)
    /\ bytes[u].holder = "commit" => busy # Idle /\ busy.of = u

(***************************************************************************)
(* Every commit is answered, behind commits that fail or throw             *)
(* (serializedCommit).                                                     *)
(***************************************************************************)
CommitsAreAnswered == (queue # <<>> \/ busy # Idle) ~> (queue = <<>> /\ busy = Idle)
=============================================================================
