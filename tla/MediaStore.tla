----------------------------- MODULE MediaStore -----------------------------
(***************************************************************************)
(* Content-addressed media of src/src/assets: files on disk and, beside    *)
(* them, database rows with a reference count.  A producer (photo intake,  *)
(* an image, layout or print job, an import) writes the file first and     *)
(* commits the row together with its own document in a later transaction;  *)
(* between the two it awaits, so other producers, deletions and a crash    *)
(* come between.  OriginalAssetStore follows the same protocol in a        *)
(* namespace of its own.                                                   *)
(*                                                                         *)
(* A file is present under its final name or it is not: a write is a       *)
(* temporary file renamed at the end.  A media id is named after the       *)
(* producer that drew it.                                                  *)
(***************************************************************************)
EXTENDS Integers, FiniteSets

CONSTANTS
  Content,      \* checksums
  Scope,        \* owners of documents that a deletion can target
  Upload,       \* producers; each runs once
  UploadOf,     \* what each producer makes: its content, its scope, its protocol
  None          \* no media, no holder

(***************************************************************************)
(* The protocols: "prepared" commits what it prepared, "checked" verifies  *)
(* the file in the transaction of the commit (print outputs), "put" holds  *)
(* the lock of the checksum from the lookup to the commit (print profiles).*)
(***************************************************************************)
Protocols == {"prepared", "checked", "put"}
ASSUME UploadsAreWellFormed ==
  /\ UploadOf \in [Upload -> [content: Content, scope: Scope, protocol: Protocols]]
  /\ None \notin Upload /\ IsFiniteSet(Upload)

VARIABLES
  row,          \* per content: its row, with the media id and refCount
  file,         \* contents whose file is present
  doc,          \* per producer: the media its committed document references
  up,           \* per producer: how far it is, and whether it found no row (isNew)
  held,         \* per content: the producer that holds its lock (hashLocks)
  closed        \* scopes that are deleted: their owners refuse further writes
mediaVars == <<row, file, doc, up, held, closed>>

Media == Upload
Rows == [id: Media, refs: Nat]
NoRow == [id |-> None, refs |-> 0]
ContentOf(m) == UploadOf[m].content
ScopeOf(u) == UploadOf[u].scope
Stages == {"idle", "writing", "written", "removing", "ended"}

MediaTypeOK ==
  /\ row \in [Content -> Rows \cup {NoRow}]
  /\ file \subseteq Content
  /\ doc \in [Upload -> Media \cup {None}]
  /\ up \in [Upload -> [at: Stages, isNew: BOOLEAN]]
  /\ held \in [Content -> Upload \cup {None}]
  /\ closed \subseteq Scope

MediaInit ==
  /\ row = [c \in Content |-> NoRow]
  /\ file = {}
  /\ doc = [u \in Upload |-> None]
  /\ up = [u \in Upload |-> [at |-> "idle", isNew |-> FALSE]]
  /\ held = [c \in Content |-> None]
  /\ closed = {}
-----------------------------------------------------------------------------
Indexed(c) == row[c] # NoRow
\* the row that a media id names
HasRow(m) == row[ContentOf(m)].id = m
Enter(u, stage) == up' = [up EXCEPT ![u].at = stage]
Unlocked(u) == [c \in Content |-> IF held[c] = u THEN None ELSE held[c]]

(***************************************************************************)
(* prepare and put: the row is looked up before the file is written.       *)
(***************************************************************************)
BeginPrepare(u) ==
  LET c == ContentOf(u) IN
  /\ up[u].at = "idle"
  /\ ScopeOf(u) \notin closed
  /\ IF UploadOf[u].protocol = "put"
     THEN held[c] = None /\ held' = [held EXCEPT ![c] = u]
     ELSE UNCHANGED held
  /\ up' = [up EXCEPT ![u] = [at |-> "writing", isNew |-> ~Indexed(c)]]
  /\ UNCHANGED <<row, file, doc, closed>>

(***************************************************************************)
(* atomicWrite: keep a file that matches, or rename a synced temporary one *)
(* over the name.                                                          *)
(***************************************************************************)
WriteFile(u) ==
  /\ up[u].at = "writing"
  /\ file' = file \cup {ContentOf(u)}
  /\ Enter(u, "written")
  /\ UNCHANGED <<row, doc, held, closed>>

WriteFails(u) ==
  /\ up[u].at = "writing"
  /\ Enter(u, "ended")
  /\ held' = Unlocked(u)
  /\ UNCHANGED <<row, file, doc, closed>>

FaultyReferenced(u) ==
  IF Indexed(ContentOf(u)) /\ ~up[u].isNew
  THEN [row[ContentOf(u)] EXCEPT !.refs = @ + 1]
  ELSE [id |-> u, refs |-> 1]
\* commitPrepared: one more reference to the row there is now, or a new row
Referenced(u) ==
  IF Indexed(ContentOf(u)) THEN [row[ContentOf(u)] EXCEPT !.refs = @ + 1]
                           ELSE [id |-> u, refs |-> 1]

(***************************************************************************)
(* The producer's transaction: its document and the reference to the       *)
(* media.  A put that found a row needs the row to be there still.         *)
(***************************************************************************)
MayCommit(u) ==
  /\ ScopeOf(u) \notin closed
  /\ UploadOf[u].protocol = "checked" => ContentOf(u) \in file
  /\ UploadOf[u].protocol = "put" /\ ~up[u].isNew => Indexed(ContentOf(u))

CommitPrepared(u) ==
  LET new == Referenced(u) IN
  /\ up[u].at = "written"
  /\ MayCommit(u)
  /\ row' = [row EXCEPT ![ContentOf(u)] = new]
  /\ doc' = [doc EXCEPT ![u] = new.id]
  /\ Enter(u, "ended")
  /\ held' = Unlocked(u)
  /\ UNCHANGED <<file, closed>>

(***************************************************************************)
(* A commit that is refused (the owner changed, is locked or gone, or the  *)
(* file is missing) discards what was prepared: nothing when a row existed *)
(* or exists now, and otherwise the file, which is removed after an await. *)
(***************************************************************************)
Discardable(u) == up[u].isNew /\ ~Indexed(ContentOf(u))

DiscardPrepared(u) ==
  /\ up[u].at = "written"
  /\ Enter(u, IF Discardable(u) /\ UploadOf[u].protocol # "put" THEN "removing" ELSE "ended")
  /\ held' = Unlocked(u)
  /\ UNCHANGED <<row, file, doc, closed>>

RemoveFile(u) ==
  /\ up[u].at = "removing"
  /\ file' = file \ {ContentOf(u)}
  /\ Enter(u, "ended")
  /\ UNCHANGED <<row, doc, held, closed>>

(***************************************************************************)
(* A restart forgets producers and locks; files that no row names are      *)
(* collected before anything else runs (garbageCollectOrphans).            *)
(***************************************************************************)
Collected == {c \in file : ~Indexed(c)}

MediaRestart ==
  /\ up' = [u \in Upload |-> IF up[u].at = "idle" THEN up[u] ELSE [up[u] EXCEPT !.at = "ended"]]
  /\ held' = [c \in Content |-> None]
  /\ file' = file \ Collected
  /\ UNCHANGED <<row, doc, closed>>

Produce(u) ==
  \/ BeginPrepare(u) \/ WriteFile(u) \/ WriteFails(u)
  \/ CommitPrepared(u) \/ DiscardPrepared(u) \/ RemoveFile(u)
-----------------------------------------------------------------------------
(***************************************************************************)
(* releaseWithoutUnlinkInTransaction for every reference of the documents  *)
(* in gone: rows lose those references, and a row without any is deleted.  *)
(***************************************************************************)
Documents(s) == {u \in Upload : ScopeOf(u) = s /\ doc[u] # None}
MediaOf(docs) == {doc[u] : u \in docs}
ReferencesOf(docs, m) == Cardinality({u \in docs : doc[u] = m})
Left(docs, m) == row[ContentOf(m)].refs - ReferencesOf(docs, m)

(***************************************************************************)
(* selectDeletionGraph, which a deletion confirms and a replacing import   *)
(* pins: the documents of the scope and, for each media they reference,    *)
(* the references that remain without them.  A reference whose row is      *)
(* missing is a blocker (MediaBlocked).                                    *)
(***************************************************************************)
Inventories == [docs: SUBSET Upload, left: [Media -> Int]]
NoInventory == [docs |-> {}, left |-> [m \in Media |-> -1]]
Selected(s) ==
  [docs |-> Documents(s),
   left |-> [m \in Media |-> IF m \in MediaOf(Documents(s)) THEN Left(Documents(s), m) ELSE -1]]
MediaBlocked(s) == \E m \in MediaOf(Documents(s)) : ~HasRow(m) \/ Left(Documents(s), m) < 0

Released(docs) ==
  [c \in Content |->
     IF ~Indexed(c) \/ Left(docs, row[c].id) = 0 THEN NoRow
     ELSE [row[c] EXCEPT !.refs = Left(docs, row[c].id)]]

(***************************************************************************)
(* unlinkCleanupIntent: under the lock of the checksum, a file is removed  *)
(* only if no row has the media id or the content.                         *)
(***************************************************************************)
FaultyPreserved(m) == HasRow(m)
Preserved(m) == Indexed(ContentOf(m))

(***************************************************************************)
(* A media row counts exactly the documents that reference it, and a       *)
(* document's media has its row: commits, releases by several deletions,   *)
(* late producers and the exchange of an import never lose or invent a     *)
(* reference.                                                              *)
(***************************************************************************)
ReferencesCounted ==
  /\ \A c \in Content : Indexed(c) =>
       row[c].refs = Cardinality({u \in Upload : doc[u] = row[c].id}) /\ row[c].refs > 0
  /\ \A u \in Upload : doc[u] # None => HasRow(doc[u])
=============================================================================
