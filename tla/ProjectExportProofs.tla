-------------------------- MODULE ProjectExportProofs --------------------------
(***************************************************************************)
(* What an export holds stays counted and its snapshot stays one state of  *)
(* the project, for all producers, deletions, exports, executors and       *)
(* bounds.  The lemmas about producers and deletions are those of          *)
(* DeletionProofs, with the references that the exports hold as the extra  *)
(* ones.                                                                   *)
(***************************************************************************)
EXTENDS ProjectExport, DeletionProofs

\* the references that exports hold of the row of each content
Held1(c) == {x \in Export : row[c].id \in holds[x]}
Extra == [c \in Content |-> Cardinality(Held1(c))]

HeldHaveRows == \A x \in Export : \A m \in holds[x] : HasRow(m)

\* the lock of the project is that of the export that drains or stages
Locking == \A x \in Export : xlock.by = x <=> xop[x] \in {"waiting_quiescence", "staging"}

\* a snapshot is active while its export is staged, and holds exactly then
Active(x) == snap[x].state \in {"frozen", "staging"}
Snapshots ==
  \A x \in Export :
    /\ Active(x) <=> xop[x] = "staging"
    /\ Active(x) => Documents(Project) = snap[x].docs /\ holds[x] = snap[x].media
    /\ ~Active(x) => holds[x] = {}

\* a call of execute works on an export that was frozen and is not frozen any more
Executions ==
  \A e \in Executor : exec[e].step # "idle" =>
    /\ exec[e].export \in Export
    /\ xop[exec[e].export] \notin {"none", "waiting_quiescence"}
    /\ snap[exec[e].export].state # "frozen"

ExportInv == ExportTypeOK /\ HeldHaveRows /\ Locking /\ Snapshots /\ Executions
AllInv == MediaInv /\ CountedWith(Extra) /\ DeletionInv /\ ExportInv

-----------------------------------------------------------------------------
LEMMA HeldTypes ==
  ASSUME ExportTypeOK, NEW c
  PROVE  /\ IsFiniteSet(Held1(c)) /\ Cardinality(Held1(c)) \in Nat
         /\ \A x \in Export : holds[x] \in SUBSET Media
  <1>1. Held1(c) \in SUBSET Export
    BY DEF Held1
  <1> QED
    BY <1>1, ExportsAreWellFormed, FS_Subset, FS_CardinalityType DEF ExportTypeOK

LEMMA ExtraType ==
  ASSUME MediaTypeOK, ExportTypeOK
  PROVE  Extra \in Extras
  <1>1. Extra \in [Content -> Nat]
    BY HeldTypes DEF Extra
  <1>2. ASSUME NEW c \in Content, ~Indexed(c) PROVE Extra[c] = 0
    <2>1. row[c].id = None /\ None \notin Media
      BY <1>2, RowType, UploadsAreWellFormed DEF Media
    <2>2. Held1(c) = {}
      BY <2>1, HeldTypes DEF Held1
    <2> QED
      BY <2>2, FS_EmptySet DEF Extra
  <1> QED
    BY <1>1, <1>2 DEF Extras

\* rows that are added or removed are not held, so the counts remain right
LEMMA ExtraStays ==
  ASSUME AllInv, MediaInv', NEW extra, extra = Extra, CountedWith(extra)', UNCHANGED holds,
         HeldHaveRows',
         \A c \in Content : Indexed(c)' /\ Indexed(c) => row'[c].id = row[c].id
  PROVE  CountedWith(Extra)'
  <1>1. ASSUME NEW c \in Content, Indexed(c)' PROVE Extra'[c] = extra[c]
    <2>1. CASE Indexed(c)
      BY <1>1, <2>1 DEF Extra, Held1
    <2>2. CASE ~Indexed(c)
      <3>1. row'[c].id \in Media /\ ContentOf(row'[c].id) = c
        BY <1>1 DEF MediaInv, RowsAreNamed
      <3>2. row[c].id = None /\ row'[c].id # None
        BY <2>2, <3>1, RowType, UploadsAreWellFormed DEF AllInv, MediaInv, Media
      <3>3. \A x \in Export : row'[c].id \notin holds[x]
        BY <3>1, <3>2 DEF AllInv, ExportInv, HeldHaveRows, HasRow
      <3>4. Held1(c)' = {}
        BY <3>3 DEF Held1
      <3>5. Extra'[c] = 0
        BY <3>4, FS_EmptySet DEF Extra
      <3>6. extra[c] = 0
        BY <2>2, ExtraType DEF AllInv, MediaInv, ExportInv, Extras
      <3> QED
        BY <3>5, <3>6
    <2> QED
      BY <2>1, <2>2
  <1> QED
    BY <1>1 DEF CountedWith

LEMMA HeldStay ==
  ASSUME AllInv, UNCHANGED holds,
         \A c \in Content : Indexed(c) /\ Extra[c] > 0 => row'[c].id = row[c].id
  PROVE  HeldHaveRows'
  <1> SUFFICES ASSUME NEW x \in Export, NEW m \in holds[x] PROVE HasRow(m)'
    BY DEF HeldHaveRows
  <1> DEFINE c == ContentOf(m)
  <1>1. m \in Media /\ c \in Content /\ row[c].id = m /\ m # None
    BY HeldTypes, UploadType DEF AllInv, ExportInv, HeldHaveRows, HasRow, Media
  <1>2. Indexed(c)
    BY <1>1, RowType DEF AllInv, MediaInv
  <1>3. x \in Held1(c)
    BY <1>1 DEF Held1
  <1>4. Cardinality(Held1(c)) # 0
    BY <1>3, HeldTypes, FS_EmptySet DEF AllInv, ExportInv
  <1>5. Extra[c] > 0
    BY <1>1, <1>4, HeldTypes DEF Extra, AllInv, ExportInv
  <1> QED
    BY <1>1, <1>2, <1>5 DEF HasRow

-----------------------------------------------------------------------------
(***************************************************************************)
(* Steps that leave the exports alone.                                     *)
(***************************************************************************)
\* documents of the project stay while a snapshot of them is active
DocumentsStay == (\E x \in Export : Active(x)) => Documents(Project)' = Documents(Project)

LEMMA ExportsStay ==
  ASSUME AllInv, UNCHANGED exportVars, HeldHaveRows', DocumentsStay
  PROVE  ExportInv'
  <1>1. UNCHANGED <<xop, xlock, snap, holds, staged, archive, listed, expunge, exec>>
    BY DEF exportVars
  <1>2. ExportTypeOK' /\ Locking' /\ Executions'
    BY <1>1 DEF AllInv, ExportInv, ExportTypeOK, Locking, Executions
  <1>3. Snapshots'
    BY <1>1 DEF AllInv, ExportInv, Snapshots, Active, DocumentsStay
  <1> QED
    BY <1>2, <1>3 DEF ExportInv

LEMMA Locked ==
  ASSUME AllInv, NEW x \in Export, Active(x)
  PROVE  xlock.by = x /\ xlock # NoLock
  BY ExportsAreWellFormed DEF AllInv, ExportInv, Snapshots, Locking, NoLock

LEMMA ProducersKeep ==
  ASSUME AllInv, Producers
  PROVE  AllInv'
  <1> PICK extra : extra = Extra
    OBVIOUS
  <1> PICK u \in Upload :
         /\ \/ BeginPrepare(u) \/ WriteFile(u) \/ WriteFails(u) \/ DiscardPrepared(u) \/ RemoveFile(u)
            \/ MayWrite(u) /\ CommitPrepared(u)
         /\ UNCHANGED <<deletionVars, exportVars>>
    BY DEF Producers
  <1>1. extra \in Extras /\ CountedWith(extra) /\ MediaInv
    BY ExtraType DEF AllInv, MediaInv, ExportInv
  <1>2. MediaInv' /\ CountedWith(extra)' /\ RowsStay
    BY <1>1, ProduceKeeps DEF Produce
  <1>3. DeletionInv'
    <2>1. UNCHANGED closed
      BY DEF BeginPrepare, WriteFile, WriteFails, CommitPrepared, DiscardPrepared, RemoveFile
    <2> QED
      BY <2>1, OperationsStay DEF AllInv
  <1>4. HeldHaveRows'
    BY <1>2, HeldStay DEF RowsStay, exportVars
  <1>5. DocumentsStay
    <2> SUFFICES ASSUME NEW x \in Export, Active(x) PROVE Documents(Project)' = Documents(Project)
      BY DEF DocumentsStay
    <2>1. ~MayWrite(u) \/ ScopeOf(u) # Project
      BY Locked DEF MayWrite
    <2>2. \/ doc' = doc
          \/ ScopeOf(u) # Project /\ \A v \in Upload \ {u} : doc'[v] = doc[v]
      BY <2>1 DEF BeginPrepare, WriteFile, WriteFails, CommitPrepared, DiscardPrepared, RemoveFile,
                  AllInv, MediaInv, MediaTypeOK
    <2> QED
      BY <2>2 DEF Documents
  <1>6. ExportInv'
    BY <1>4, <1>5, ExportsStay
  <1>7. CountedWith(Extra)'
    BY <1>2, <1>4, ExtraStays DEF RowsStay, exportVars
  <1> QED
    BY <1>2, <1>3, <1>6, <1>7 DEF AllInv

-----------------------------------------------------------------------------
(***************************************************************************)
(* Taking and giving back the references of a snapshot.                    *)
(***************************************************************************)
LEMMA HeldRows ==
  ASSUME MediaInv, NEW media \in SUBSET Media, \A m \in media : HasRow(m), NEW n \in {1, -1},
         n = -1 => \A m \in media : row[ContentOf(m)].refs > 1,
         row' = Held(media, n), UNCHANGED <<file, doc, up, held, closed>>
  PROVE  /\ MediaInv'
         /\ \A c \in Content :
              /\ Indexed(c)' <=> Indexed(c)
              /\ row'[c].id = row[c].id
              /\ Indexed(c) => /\ row'[c].refs = row[c].refs + (IF row[c].id \in media THEN n ELSE 0)
                               /\ row[c].refs > 0 => row'[c].refs > 0
  <1>1. ASSUME NEW c \in Content, Indexed(c), row[c].id \in media
        PROVE  row'[c] \in Rows /\ row'[c].id = row[c].id /\ row'[c].refs = row[c].refs + n
               /\ row'[c].refs > 0 /\ row'[c] # NoRow
    <2>1. row[c] \in Rows /\ ContentOf(row[c].id) = c /\ row[c].refs \in Nat /\ row[c].id # None
      BY <1>1, RowType DEF MediaInv, RowsAreNamed
    <2>2. n = -1 => row[c].refs > 1
      BY <1>1, <2>1
    <2>3. row'[c] = [row[c] EXCEPT !.refs = @ + n]
      BY <1>1, <2>1 DEF Held
    <2>4. row[c].refs + n \in Nat /\ (row[c].refs > 0 => row[c].refs + n > 0) /\ (n = 1 => row[c].refs + n > 0)
      BY <2>1, <2>2
    <2>5. row[c].refs + n > 0
      BY <2>1, <2>2
    <2>6. row'[c] \in Rows /\ row'[c].id = row[c].id /\ row'[c].refs = row[c].refs + n
      BY <2>1, <2>3, <2>4 DEF Rows
    <2> QED
      BY <2>1, <2>5, <2>6 DEF NoRow
  <1>2. ASSUME NEW c \in Content, ~(Indexed(c) /\ row[c].id \in media)
        PROVE  row'[c] = row[c]
    <2>1. ~\E m \in media : ContentOf(m) = c
      <3> SUFFICES ASSUME NEW m \in media, ContentOf(m) = c PROVE FALSE
        OBVIOUS
      <3>1. row[c].id = m /\ m # None
        BY UploadType DEF HasRow, Media
      <3> QED
        BY <1>2, <3>1, RowType DEF MediaInv
    <2> QED
      BY <2>1 DEF Held
  <1>3. ASSUME NEW c \in Content
        PROVE  /\ Indexed(c)' <=> Indexed(c)
               /\ row'[c].id = row[c].id
               /\ row'[c] \in Rows \cup {NoRow}
               /\ Indexed(c) => /\ row'[c].refs = row[c].refs + (IF row[c].id \in media THEN n ELSE 0)
                                /\ row[c].refs > 0 => row'[c].refs > 0
    <2>1. CASE Indexed(c) /\ row[c].id \in media
      BY <1>1, <2>1 DEF Indexed
    <2>2. CASE ~(Indexed(c) /\ row[c].id \in media)
      <3>1. row'[c] = row[c] /\ row[c] \in Rows \cup {NoRow}
        BY <1>2, <2>2 DEF MediaInv, MediaTypeOK
      <3>2. Indexed(c) => row[c].refs \in Nat /\ row[c].id \notin media
        BY <2>2, RowType DEF MediaInv
      <3> QED
        BY <3>1, <3>2 DEF Indexed
    <2> QED
      BY <2>1, <2>2
  <1>4. MediaTypeOK'
    <2>1. row' \in [Content -> Rows \cup {NoRow}]
      BY <1>3 DEF Held
    <2> QED
      BY <2>1 DEF MediaInv, MediaTypeOK
  <1> QED
    BY <1>3, <1>4 DEF MediaInv, RowsAreNamed, DocumentsAreCommitted, ClosedAreEmpty, Documents

\* the counts follow the holds of one export that takes or gives back its media
LEMMA HoldsChange ==
  ASSUME AllInv, NEW x \in Export, NEW media \in SUBSET Media, \A m \in media : HasRow(m),
         NEW n \in {1, -1},
         n = -1 => \A m \in media : row[ContentOf(m)].refs > 1,
         row' = Held(media, n), UNCHANGED <<file, doc, up, held, closed>>,
         IF n = 1 THEN holds[x] = {} /\ holds' = [holds EXCEPT ![x] = media]
                  ELSE holds[x] = media /\ holds' = [holds EXCEPT ![x] = {}]
  PROVE  MediaInv' /\ CountedWith(Extra)' /\ HeldHaveRows'
  <1>1. MediaInv /\ ExportTypeOK
    BY DEF AllInv, ExportInv
  <1>2. /\ MediaInv'
        /\ \A c \in Content :
             /\ Indexed(c)' <=> Indexed(c)
             /\ row'[c].id = row[c].id
             /\ Indexed(c) => /\ row'[c].refs = row[c].refs + (IF row[c].id \in media THEN n ELSE 0)
                              /\ row[c].refs > 0 => row'[c].refs > 0
    BY <1>1, HeldRows
  <1>3. /\ \A y \in Export \ {x} : holds'[y] = holds[y]
        /\ n = 1 => holds[x] = {} /\ holds'[x] = media
        /\ n = -1 => holds[x] = media /\ holds'[x] = {}
    BY <1>1 DEF ExportTypeOK
  <1>4. HeldHaveRows'
    <2>1. ASSUME NEW m \in Media, HasRow(m) PROVE HasRow(m)'
      BY <1>2, <2>1, UploadType DEF HasRow, Media
    <2>2. ASSUME NEW y \in Export, NEW m \in holds'[y] PROVE m \in Media /\ HasRow(m)
      <3>1. \A z \in Export : holds[z] \in SUBSET Media
        BY <1>1, HeldTypes
      <3>2. CASE y # x
        BY <1>3, <2>2, <3>1, <3>2 DEF AllInv, ExportInv, HeldHaveRows
      <3>3. CASE y = x
        BY <1>3, <2>2, <3>3
      <3> QED
        BY <3>2, <3>3
    <2> QED
      BY <2>1, <2>2 DEF HeldHaveRows
  <1>5. ASSUME NEW c \in Content, Indexed(c)
        PROVE  Extra'[c] = Extra[c] + (IF row[c].id \in media THEN n ELSE 0)
    <2>1. Held1(c)' = {y \in Export : row[c].id \in holds'[y]}
      BY <1>2 DEF Held1
    <2>2. IsFiniteSet(Held1(c)) /\ Cardinality(Held1(c)) \in Nat
      BY <1>1, HeldTypes
    <2>3. CASE row[c].id \notin media
      <3>1. Held1(c)' = Held1(c)
        BY <1>3, <2>1, <2>3 DEF Held1
      <3> QED
        BY <2>2, <2>3, <3>1 DEF Extra
    <2>4. CASE row[c].id \in media /\ n = 1
      <3>1. Held1(c)' = Held1(c) \cup {x} /\ x \notin Held1(c)
        BY <1>3, <2>1, <2>4 DEF Held1
      <3>2. Cardinality(Held1(c)') = Cardinality(Held1(c)) + 1
        BY <2>2, <3>1, FS_AddElement
      <3> QED
        BY <2>4, <3>2 DEF Extra
    <2>5. CASE row[c].id \in media /\ n = -1
      <3>1. Held1(c)' = Held1(c) \ {x} /\ x \in Held1(c)
        BY <1>3, <2>1, <2>5 DEF Held1
      <3>2. Cardinality(Held1(c)') = Cardinality(Held1(c)) - 1
        BY <2>2, <3>1, FS_RemoveElement
      <3> QED
        BY <2>5, <2>2, <3>2 DEF Extra
    <2> QED
      BY <2>3, <2>4, <2>5
  <1>6. CountedWith(Extra)'
    <2>1. ASSUME NEW c \in Content, Indexed(c)'
          PROVE  row'[c].refs = Cardinality(Users(row[c].id)') + Extra'[c] /\ row'[c].refs > 0
      <3>1. Indexed(c) /\ Users(row[c].id)' = Users(row[c].id)
        BY <1>2, <2>1 DEF Users
      <3>2. row[c].refs = Cardinality(Users(row[c].id)) + Extra[c] /\ row[c].refs > 0
        BY <3>1 DEF AllInv, CountedWith
      <3>3. Cardinality(Users(row[c].id)) \in Nat /\ Extra[c] \in Nat
        BY <1>1, UsersAreFinite, ExtraType DEF MediaInv, Extras
      <3> QED
        BY <1>2, <1>5, <3>1, <3>2, <3>3
    <2>2. ASSUME NEW u \in Upload, doc'[u] # None PROVE HasRow(doc[u])'
      <3>1. doc[u] \in Media /\ HasRow(doc[u])
        BY <1>1, <2>2 DEF AllInv, CountedWith, MediaInv, MediaTypeOK
      <3> QED
        BY <1>2, <2>2, <3>1, UploadType DEF HasRow, Media
    <2>3. \A c \in Content : row'[c].id = row[c].id
      BY <1>2
    <2> QED
      BY <2>1, <2>2, <2>3 DEF CountedWith, Users
  <1> QED
    BY <1>2, <1>4, <1>6

-----------------------------------------------------------------------------
(***************************************************************************)
(* Deletions beside the exports.                                           *)
(***************************************************************************)
LEMMA MarksKeep ==
  ASSUME AllInv, UNCHANGED <<xop, xlock, snap, holds>>, ExportTypeOK', Executions', HeldHaveRows',
         DocumentsStay
  PROVE  ExportInv'
  <1>1. Locking' /\ Snapshots'
    BY DEF AllInv, ExportInv, Locking, Snapshots, Active, DocumentsStay
  <1> QED
    BY <1>1 DEF ExportInv

\* neither rows nor documents change
LEMMA StoreStays ==
  ASSUME AllInv, UNCHANGED <<row, doc, up, held, closed, holds>>, file' \subseteq file
  PROVE  MediaInv' /\ CountedWith(Extra)' /\ HeldHaveRows' /\ DocumentsStay
  <1> PICK extra : extra = Extra
    OBVIOUS
  <1>1. MediaInv' /\ CountedWith(extra)'
    BY MediaStays DEF AllInv
  <1>2. HeldHaveRows'
    BY HeldStay
  <1>3. CountedWith(Extra)'
    BY <1>1, <1>2, ExtraStays
  <1> QED
    BY <1>1, <1>2, <1>3 DEF DocumentsStay, Documents

LEMMA ListingKeeps ==
  ASSUME AllInv, NEW s \in Scope, Inventory(s)
  PROVE  AllInv'
  <1>1. UNCHANGED <<row, doc, up, held, closed, file, xop, xlock, snap, holds, staged, archive, expunge, exec>>
    BY DEF Inventory, CreateInventory, vars, mediaVars
  <1>2. MediaInv' /\ CountedWith(Extra)' /\ HeldHaveRows' /\ DocumentsStay
    BY <1>1, StoreStays
  <1>3. DeletionInv'
    <2>1. CASE CreateInventory(s)
      BY <2>1, InventoryKeeps DEF AllInv, MediaInv
    <2>2. CASE UNCHANGED vars
      BY <2>2, OperationsStay DEF AllInv, vars, mediaVars
    <2> QED
      BY <2>1, <2>2 DEF Inventory
  <1>4. listed' \in [Export -> ExportStates]
    BY DEF Inventory, AllInv, ExportInv, ExportTypeOK
  <1>5. ExportTypeOK' /\ Executions'
    BY <1>1, <1>4 DEF AllInv, ExportInv, ExportTypeOK, Executions
  <1> QED
    BY <1>1, <1>2, <1>3, <1>5, MarksKeep DEF AllInv

\* the holds of other exports survive a release, and the project is not deleted while it is locked
LEMMA ConfirmingKeeps ==
  ASSUME AllInv, NEW s \in Scope, Confirm(s)
  PROVE  AllInv'
  <1> PICK extra : extra = Extra
    OBVIOUS
  <1>1. extra \in Extras /\ CountedWith(extra) /\ MediaInv /\ DeletionInv /\ MediaTypeOK /\ ExportTypeOK
    BY ExtraType DEF AllInv, MediaInv, ExportInv
  <1>2. ConfirmDeletion(s) /\ UNCHANGED <<xlock, holds, staged, archive, listed, exec>>
    BY DEF Confirm
  <1>3. Releases(s) /\ DeletionInv'
    BY <1>1, <1>2, ConfirmReleases, ConfirmKeeps
  <1>4. /\ MediaInv' /\ CountedWith(extra)'
        /\ \A c \in Content : Indexed(c)' => Indexed(c) /\ row'[c].id = row[c].id
        /\ \A c \in Content : Indexed(c) /\ extra[c] > 0 => Indexed(c)'
    BY <1>1, <1>3, ReleaseKeeps
  <1>5. HeldHaveRows'
    BY <1>2, <1>4, HeldStay
  <1>6. CountedWith(Extra)'
    BY <1>2, <1>4, <1>5, ExtraStays
  <1>7. ExportInv'
    <2>1. CASE s # Project
      <3>1. Documents(Project)' = Documents(Project)
        BY <1>3, <2>1 DEF Releases, Documents
      <3>2. UNCHANGED <<xop, snap, expunge>>
        BY <2>1 DEF Confirm
      <3>3. ExportTypeOK' /\ Executions'
        BY <1>1, <1>2, <3>2 DEF ExportTypeOK, Executions, AllInv, ExportInv
      <3> QED
        BY <1>2, <1>5, <3>1, <3>2, <3>3, MarksKeep DEF DocumentsStay
    <2>2. CASE s = Project
      <3>1. /\ xlock = NoLock
            /\ xop' = [x \in Export |-> IF xop[x] = "none" THEN "none" ELSE "deleted"]
            /\ snap' = [x \in Export |-> NoSnapshot]
            /\ expunge' = {x \in Export : xop[x] = "ready"}
        BY <2>2 DEF Confirm
      <3>2. \A x \in Export : xlock.by # x
        BY <3>1, ExportsAreWellFormed DEF NoLock
      <3>3. \A x \in Export : xop[x] # "staging" /\ ~Active(x) /\ holds[x] = {}
        BY <3>2 DEF AllInv, ExportInv, Locking, Snapshots
      <3>4. \A x \in Export : xop'[x] \in {"none", "deleted"} /\ snap'[x] = NoSnapshot
        BY <3>1
      <3>5. NoSnapshot.state = "none" /\ \A x \in Export : ~Active(x)'
        BY <3>4 DEF NoSnapshot, Active
      <3>6. ExportTypeOK'
        BY <1>1, <1>2, <3>1 DEF ExportTypeOK, ExportStates, NoSnapshot
      <3>7. Locking' /\ Snapshots'
        BY <1>2, <3>2, <3>3, <3>4, <3>5 DEF Locking, Snapshots
      <3>8. Executions'
        BY <1>2, <3>1, <3>5 DEF Executions, AllInv, ExportInv
      <3> QED
        BY <1>5, <3>6, <3>7, <3>8 DEF ExportInv
    <2> QED
      BY <2>1, <2>2
  <1> QED
    BY <1>3, <1>4, <1>6, <1>7 DEF AllInv

LEMMA DeletesKeep ==
  ASSUME AllInv, Deletes
  PROVE  AllInv'
  <1>1. ASSUME NEW a \in Advance, NEW x \in Export, UnlinkArchive(a, x) PROVE AllInv'
    <2>1. /\ UNCHANGED <<vars, xop, xlock, snap, holds, staged, listed, exec>>
          /\ archive' \subseteq archive /\ expunge' \subseteq expunge
      BY <1>1 DEF UnlinkArchive
    <2>2. UNCHANGED <<row, doc, up, held, closed, file, deletionVars>>
      BY <2>1 DEF vars, mediaVars
    <2>3. MediaInv' /\ CountedWith(Extra)' /\ HeldHaveRows' /\ DocumentsStay /\ DeletionInv'
      BY <2>1, <2>2, StoreStays, OperationsStay DEF AllInv
    <2>4. ExportTypeOK' /\ Executions'
      BY <2>1 DEF AllInv, ExportInv, ExportTypeOK, Executions
    <2> QED
      BY <2>1, <2>3, <2>4, MarksKeep DEF AllInv
  <1>2. ASSUME NEW a \in Advance, UNCHANGED exportVars,
               \/ \E m \in Media : UnlinkEntry(a, m) \/ UnlinkFails(a, m) \/ VerifyEntry(a, m)
               \/ RecordOutcomes(a)
               \/ Finalize(a)
               \/ \E s \in Scope : StartAdvance(a, s)
        PROVE  AllInv'
    <2>1. DeletionInv' /\ UNCHANGED <<row, doc, up, held, closed>> /\ file' \subseteq file
      <3>1. CASE \E m \in Media : UnlinkEntry(a, m) \/ UnlinkFails(a, m)
        BY <3>1, UnlinkKeeps DEF AllInv
      <3>2. CASE \/ \E m \in Media : VerifyEntry(a, m)
                 \/ \E s \in Scope : StartAdvance(a, s)
                 \/ RecordOutcomes(a) \/ Finalize(a)
        <4>1. UNCHANGED mediaVars
          BY <3>2 DEF VerifyEntry, StartAdvance, RecordOutcomes, Finalize
        <4>2. DeletionInv'
          BY <3>2, VerifyKeeps, StartKeeps, RecordKeeps, FinalizeKeeps DEF AllInv
        <4> QED
          BY <4>1, <4>2 DEF mediaVars
      <3> QED
        BY <1>2, <3>1, <3>2
    <2>2. UNCHANGED holds
      BY <1>2 DEF exportVars
    <2>3. MediaInv' /\ CountedWith(Extra)' /\ HeldHaveRows' /\ DocumentsStay
      BY <2>1, <2>2, StoreStays
    <2> QED
      BY <1>2, <2>1, <2>3, ExportsStay DEF AllInv
  <1> QED
    BY <1>1, <1>2, ListingKeeps, ConfirmingKeeps DEF Deletes

\* calls end with the process; rows, documents, holds and lock outlive it
LEMMA ExportRestartKeeps ==
  ASSUME AllInv, ExportRestart
  PROVE  AllInv'
  <1> PICK extra : extra = Extra
    OBVIOUS
  <1>1. /\ Restart /\ MediaRestart /\ exec' = [e \in Executor |-> NoExec]
        /\ UNCHANGED <<xop, xlock, snap, holds, staged, archive, listed, expunge>>
    BY DEF ExportRestart, Restart
  <1>2. MediaInv' /\ CountedWith(extra)' /\ RowsStay /\ DeletionInv'
    BY <1>1, MediaRestartKeeps, DeletionRestartKeeps DEF AllInv
  <1>3. HeldHaveRows'
    BY <1>1, <1>2, HeldStay DEF RowsStay
  <1>4. CountedWith(Extra)'
    BY <1>1, <1>2, <1>3, ExtraStays DEF RowsStay
  <1>5. DocumentsStay
    BY <1>1 DEF MediaRestart, DocumentsStay, Documents
  <1>6. ExportTypeOK' /\ Executions'
    BY <1>1 DEF AllInv, ExportInv, ExportTypeOK, Executions, NoExec, ExportStates
  <1> QED
    BY <1>1, <1>2, <1>3, <1>4, <1>5, <1>6, MarksKeep DEF AllInv

-----------------------------------------------------------------------------
(***************************************************************************)
(* The calls of execute.                                                   *)
(***************************************************************************)
Calls == [step: ExecSteps \cup {"idle"}, export: Export \cup {None}, seen: ExportStates, todo: SUBSET Content]

\* a call goes on with its export or ends
Follows(e, new) ==
  /\ new \in Calls
  /\ new.step # "idle" => exec[e].step # "idle" /\ new.export = exec[e].export

LEMMA CallType ==
  ASSUME ExportInv, NEW e \in Executor
  PROVE  /\ exec[e] \in Calls /\ NoExec \in Calls /\ NoExec.step = "idle"
         /\ exec[e].step # "idle" =>
              LET x == exec[e].export IN
              x \in Export /\ xop[x] \notin {"none", "waiting_quiescence"} /\ snap[x].state # "frozen"
  BY DEF ExportInv, ExportTypeOK, Executions, Calls, NoExec, ExportStates

LEMMA StepFollows ==
  ASSUME ExportInv, NEW e \in Executor, exec[e].step # "idle", NEW step \in ExecSteps
  PROVE  Follows(e, [exec[e] EXCEPT !.step = step])
  <1>1. exec[e] \in Calls
    BY CallType
  <1> QED
    BY <1>1 DEF Calls, Follows

\* what a call does beside the documents, the operations and the snapshots
LEMMA CallKeeps ==
  ASSUME AllInv, NEW e \in Executor, NEW new, Follows(e, new), exec' = [exec EXCEPT ![e] = new],
         UNCHANGED <<mediaVars, inventory, op, ledger, adv, locked, restarts>>,
         faults' \in 0..MaxFaults,
         UNCHANGED <<xop, xlock, snap, holds, listed, expunge>>,
         staged' \in [Export -> SUBSET Content], archive' \subseteq Export
  PROVE  AllInv'
  <1>1. /\ UNCHANGED <<row, file, doc, up, held, closed>>
        /\ UNCHANGED <<inventory, op, ledger, adv, locked, restarts, closed>>
    BY DEF mediaVars
  <1>2. MediaInv' /\ CountedWith(Extra)' /\ HeldHaveRows' /\ DocumentsStay
    BY <1>1, StoreStays
  <1>3. DeletionInv'
    BY <1>1 DEF AllInv, DeletionInv, DeletionTypes, Operations, Advances, Checked, VerifiedAreDone
  <1>4. ExportTypeOK'
    BY DEF AllInv, ExportInv, ExportTypeOK, Follows, Calls
  <1>5. Executions'
    BY DEF AllInv, ExportInv, ExportTypeOK, Executions, Follows
  <1> QED
    BY <1>2, <1>3, <1>4, <1>5, MarksKeep DEF AllInv

LEMMA CopiesKeep ==
  ASSUME AllInv, NEW e \in Executor,
         \/ \E c \in Content : CopyMedia(e, c)
         \/ OpenStaged(e) \/ Scan(e) \/ Publish(e) \/ CleanupCopies(e) \/ ExecFails(e) \/ FailCleanup(e)
  PROVE  AllInv'
  <1> PICK x : x = exec[e].export
    OBVIOUS
  <1>1. ExportInv /\ ExportTypeOK
    BY DEF AllInv, ExportInv
  <1>2. faults \in 0..MaxFaults /\ (faults < MaxFaults => faults + 1 \in 0..MaxFaults)
    BY DeletionBounds DEF AllInv, DeletionInv, DeletionTypes
  <1>3. exec[e].step # "idle"
    BY DEF CopyMedia, OpenStaged, Scan, Publish, CleanupCopies, ExecFails, FailCleanup
  <1>4. x \in Export /\ exec[e] \in Calls /\ Follows(e, NoExec)
    BY <1>1, <1>3, CallType DEF Follows
  <1>5. \E new : Follows(e, new) /\ exec' = [exec EXCEPT ![e] = new]
    <2>1. ASSUME NEW step \in ExecSteps, Step(e, step)
          PROVE  \E new : Follows(e, new) /\ exec' = [exec EXCEPT ![e] = new]
      <3>1. exec' = [exec EXCEPT ![e] = [exec[e] EXCEPT !.step = step]]
        BY <2>1 DEF Step
      <3> QED
        BY <1>1, <1>3, <3>1, StepFollows
    <2>2. CASE CleanupCopies(e)
      BY <1>4, <2>2 DEF CleanupCopies, Ends
    <2>3. CASE \E c \in Content : CopyMedia(e, c)
      <3> PICK c \in Content : CopyMedia(e, c)
        BY <2>3
      <3>1. CASE c \in staged[x] \cup file
        <4> PICK rest : rest = exec[e].todo \ {c}
          OBVIOUS
        <4>1. exec' = [exec EXCEPT ![e] = [exec[e] EXCEPT !.todo = rest]]
          BY <3>1 DEF CopyMedia
        <4>2. [exec[e] EXCEPT !.todo = rest] \in Calls
          BY <1>4 DEF Calls
        <4>3. [exec[e] EXCEPT !.todo = rest].export = exec[e].export
          BY <1>4 DEF Calls
        <4> QED
          BY <1>3, <4>1, <4>2, <4>3 DEF Follows
      <3>2. CASE c \notin staged[x] \cup file
        BY <2>1, <3>2 DEF CopyMedia, ExecSteps
      <3> QED
        BY <3>1, <3>2
    <2>4. CASE OpenStaged(e) \/ Scan(e) \/ Publish(e) \/ ExecFails(e) \/ FailCleanup(e)
      <3>1. \E step \in ExecSteps : Step(e, step)
        BY <2>4 DEF OpenStaged, Scan, Publish, ExecFails, FailCleanup, ExecSteps
      <3> QED
        BY <2>1, <3>1
    <2> QED
      BY <2>2, <2>3, <2>4
  <1>6. /\ UNCHANGED <<mediaVars, inventory, op, ledger, adv, locked, restarts>>
        /\ faults' \in 0..MaxFaults
        /\ UNCHANGED <<xop, xlock, snap, holds, listed, expunge>>
    BY <1>2 DEF CopyMedia, OpenStaged, Scan, Publish, CleanupCopies, ExecFails, FailCleanup, vars, deletionVars
  <1>7. staged' \in [Export -> SUBSET Content]
    <2>1. staged \in [Export -> SUBSET Content]
      BY <1>1 DEF ExportTypeOK
    <2>2. CASE \E c \in Content : CopyMedia(e, c)
      BY <1>4, <2>1, <2>2 DEF CopyMedia
    <2>3. CASE OpenStaged(e) \/ Scan(e) \/ Publish(e) \/ CleanupCopies(e) \/ ExecFails(e) \/ FailCleanup(e)
      BY <1>4, <2>1, <2>3 DEF OpenStaged, Scan, Publish, CleanupCopies, ExecFails, FailCleanup
    <2> QED
      BY <2>2, <2>3
  <1>8. archive' \subseteq Export
    BY <1>1, <1>4 DEF CopyMedia, OpenStaged, Scan, Publish, CleanupCopies, ExecFails, FailCleanup, ExportTypeOK
  <1> QED
    BY <1>5, <1>6, <1>7, <1>8, CallKeeps

\* states of an export that neither waits for the project nor copies it
Unlocking == ExportStates \ {"none", "waiting_quiescence", "staging"}

LEMMA PassesKeep ==
  ASSUME AllInv, NEW e \in Executor, ScanPassed(e) \/ RecordReady(e)
  PROVE  AllInv'
  <1> PICK x : x = exec[e].export
    OBVIOUS
  <1>1. ExportInv /\ ExportTypeOK /\ exec[e].step # "idle"
    BY DEF AllInv, ExportInv, ScanPassed, RecordReady
  <1>2. /\ x \in Export /\ exec[e] \in Calls /\ Follows(e, NoExec)
        /\ xop[x] \notin {"none", "waiting_quiescence"} /\ snap[x].state # "frozen"
    BY <1>1, CallType DEF Follows
  <1>3. UNCHANGED <<vars, xlock, snap, holds, staged, archive, listed, expunge>>
    BY DEF ScanPassed, RecordReady
  <1>4. UNCHANGED <<row, file, doc, up, held, closed, deletionVars>>
    BY <1>3 DEF vars, mediaVars
  <1>5. MediaInv' /\ CountedWith(Extra)' /\ HeldHaveRows' /\ DocumentsStay /\ DeletionInv'
    BY <1>3, <1>4, StoreStays, OperationsStay DEF AllInv
  <1>6. \/ UNCHANGED xop
        \/ xop[x] \in Unlocking /\ \E s \in Unlocking : xop' = [xop EXCEPT ![x] = s]
    BY <1>2 DEF ScanPassed, RecordReady, Moves, Unlocking, ExportStates
  <1>7. \E new : Follows(e, new) /\ exec' = [exec EXCEPT ![e] = new]
    <2>1. ASSUME NEW step \in ExecSteps, Step(e, step)
          PROVE  \E new : Follows(e, new) /\ exec' = [exec EXCEPT ![e] = new]
      <3>1. exec' = [exec EXCEPT ![e] = [exec[e] EXCEPT !.step = step]]
        BY <2>1 DEF Step
      <3> QED
        BY <1>1, <3>1, StepFollows
    <2>2. CASE ScanPassed(e) /\ xop[x] = "packaging"
      <3> PICK new : new = [exec[e] EXCEPT !.step = "publish", !.seen = "secret_scanning"]
        OBVIOUS
      <3>1. exec' = [exec EXCEPT ![e] = new]
        BY <2>2 DEF ScanPassed
      <3>2. new \in Calls /\ new.export = exec[e].export
        BY <1>2 DEF Calls, ExecSteps, ExportStates
      <3> QED
        BY <1>1, <3>1, <3>2 DEF Follows
    <2>3. CASE ScanPassed(e) /\ xop[x] # "packaging"
      BY <2>1, <2>3 DEF ScanPassed, ExecSteps
    <2>4. CASE RecordReady(e)
      BY <1>2, <2>1, <2>4 DEF RecordReady, Ends, ExecSteps
    <2> QED
      BY <2>2, <2>3, <2>4
  <1>8. /\ xop' \in [Export -> ExportStates]
        /\ \A y \in Export : \/ xop'[y] = xop[y]
                             \/ xop[y] \in Unlocking /\ xop'[y] \in Unlocking
    <2>1. xop \in [Export -> ExportStates] /\ Unlocking \subseteq ExportStates
      BY <1>1 DEF ExportTypeOK, Unlocking
    <2>2. CASE UNCHANGED xop
      BY <2>1, <2>2
    <2>3. CASE xop[x] \in Unlocking /\ \E s \in Unlocking : xop' = [xop EXCEPT ![x] = s]
      BY <2>1, <2>3, <1>2
    <2> QED
      BY <1>6, <2>2, <2>3
  <1>9. exec' \in [Executor -> Calls]
    BY <1>1, <1>7 DEF ExportTypeOK, Calls, Follows
  <1>10. ExportTypeOK'
    BY <1>1, <1>3, <1>8, <1>9 DEF ExportTypeOK, Calls
  <1>11. Locking'
    BY <1>1, <1>3, <1>8 DEF ExportInv, Locking, Unlocking
  <1>12. Snapshots'
    BY <1>1, <1>3, <1>4, <1>8 DEF ExportInv, Snapshots, Active, Unlocking, Documents
  <1>13. Executions'
    <2> SUFFICES ASSUME NEW f \in Executor, exec'[f].step # "idle"
                 PROVE  /\ exec'[f].export \in Export
                        /\ xop'[exec'[f].export] \notin {"none", "waiting_quiescence"}
                        /\ snap'[exec'[f].export].state # "frozen"
      BY DEF Executions
    <2>1. exec[f].step # "idle" /\ exec'[f].export = exec[f].export
      BY <1>1, <1>7 DEF Follows, ExportTypeOK
    <2>2. exec[f].export \in Export /\ xop[exec[f].export] \notin {"none", "waiting_quiescence"}
      BY <1>1, <2>1 DEF ExportInv, Executions
    <2>3. xop'[exec[f].export] \notin {"none", "waiting_quiescence"}
      BY <1>8, <2>2 DEF Unlocking
    <2> QED
      BY <1>1, <1>3, <2>1, <2>2, <2>3 DEF ExportInv, Executions
  <1> QED
    BY <1>5, <1>10, <1>11, <1>12, <1>13 DEF AllInv, ExportInv

LEMMA ExecuteKeeps ==
  ASSUME AllInv, NEW e \in Executor, NEW x \in Export, Execute(e, x)
  PROVE  AllInv'
  <1> PICK new : new = [export |-> x, seen |-> xop[x],
         step |-> CASE xop[x] = "ready" -> "cleanup" [] xop[x] = "staging" -> "stage" [] OTHER -> "open",
         todo |-> IF xop[x] = "staging" THEN Sources(x) ELSE {}]
    OBVIOUS
  <1>1. /\ xop[x] \in Executable /\ exec' = [exec EXCEPT ![e] = new]
        /\ snap' = IF xop[x] = "staging" THEN [snap EXCEPT ![x].state = "staging"] ELSE snap
        /\ UNCHANGED <<vars, xop, xlock, holds, staged, archive, listed, expunge>>
    BY DEF Execute
  <1>2. ExportInv /\ ExportTypeOK /\ snap[x].docs \in SUBSET Upload /\ snap[x].media \in SUBSET Media
    BY DEF AllInv, ExportInv, ExportTypeOK
  <1>3. UNCHANGED <<row, file, doc, up, held, closed, deletionVars>>
    BY <1>1 DEF vars, mediaVars
  <1>4. MediaInv' /\ CountedWith(Extra)' /\ HeldHaveRows' /\ DocumentsStay /\ DeletionInv'
    BY <1>1, <1>3, StoreStays, OperationsStay DEF AllInv
  <1>5. new \in Calls
    <2>1. Sources(x) \in SUBSET Content
      BY <1>2, UploadType DEF Sources, Media
    <2>2. (CASE xop[x] = "ready" -> "cleanup" [] xop[x] = "staging" -> "stage" [] OTHER -> "open") \in ExecSteps
      BY DEF ExecSteps
    <2>3. xop[x] \in ExportStates
      BY <1>1 DEF Executable, ExportStates
    <2>4. new.export = x /\ new.seen = xop[x] /\ new.step \in ExecSteps /\ new.todo \in SUBSET Content
      BY <2>1, <2>2
    <2> QED
      BY <2>3, <2>4 DEF Calls
  <1>6. /\ \A y \in Export \ {x} : snap'[y] = snap[y]
        /\ snap'[x].docs = snap[x].docs /\ snap'[x].media = snap[x].media
        /\ IF xop[x] = "staging" THEN snap'[x].state = "staging" ELSE snap'[x] = snap[x]
        /\ snap' \in [Export -> [state: {"none", "frozen", "staging", "released", "failed"},
                                 docs: SUBSET Upload, media: SUBSET Media]]
    BY <1>1, <1>2 DEF ExportTypeOK
  <1>7. ExportTypeOK'
    BY <1>1, <1>2, <1>5, <1>6 DEF ExportTypeOK, Calls
  <1>8. Locking'
    BY <1>1, <1>2 DEF ExportInv, Locking
  <1>9. \A y \in Export : Active(y)' <=> Active(y)
    BY <1>2, <1>6 DEF ExportInv, Snapshots, Active
  <1>10. Snapshots'
    BY <1>1, <1>2, <1>3, <1>6, <1>9 DEF ExportInv, Snapshots, Documents
  <1>11. snap'[x].state # "frozen"
    BY <1>1, <1>2, <1>6 DEF ExportInv, Snapshots, Active
  <1>12. Executions'
    <2>1. exec'[e] = new /\ new.export = x /\ xop[x] \notin {"none", "waiting_quiescence"}
          /\ \A f \in Executor \ {e} : exec'[f] = exec[f]
      BY <1>1, <1>2 DEF ExportTypeOK, Executable
    <2> QED
      BY <1>1, <1>2, <1>6, <1>11, <2>1 DEF ExportInv, Executions
  <1> QED
    BY <1>4, <1>7, <1>8, <1>10, <1>12 DEF AllInv, ExportInv

LEMMA PauseKeeps ==
  ASSUME AllInv, NEW x \in Export, Pause(x)
  PROVE  AllInv'
  <1>1. /\ xop[x] = "none" /\ xlock = NoLock
        /\ xop' = [xop EXCEPT ![x] = "waiting_quiescence"]
        /\ xlock' = [by |-> x, phase |-> "draining"]
        /\ UNCHANGED <<vars, snap, holds, staged, archive, listed, expunge, exec>>
    BY DEF Pause, Moves
  <1>2. ExportInv /\ ExportTypeOK
    BY DEF AllInv, ExportInv
  <1>3. UNCHANGED <<row, file, doc, up, held, closed, deletionVars>>
    BY <1>1 DEF vars, mediaVars
  <1>4. MediaInv' /\ CountedWith(Extra)' /\ HeldHaveRows' /\ DocumentsStay /\ DeletionInv'
    BY <1>1, <1>3, StoreStays, OperationsStay DEF AllInv
  <1>5. xop'[x] = "waiting_quiescence" /\ \A y \in Export \ {x} : xop'[y] = xop[y]
    BY <1>1, <1>2 DEF ExportTypeOK
  <1>6. ExportTypeOK'
    BY <1>1, <1>2 DEF ExportTypeOK, ExportStates
  <1>7. Locking'
    BY <1>1, <1>2, <1>5, ExportsAreWellFormed DEF ExportInv, Locking, NoLock
  <1>8. Snapshots'
    BY <1>1, <1>2, <1>3, <1>5 DEF ExportInv, Snapshots, Active, Documents
  <1>9. Executions'
    BY <1>1, <1>2, <1>5 DEF ExportInv, Executions
  <1> QED
    BY <1>4, <1>6, <1>7, <1>8, <1>9 DEF AllInv, ExportInv

LEMMA StartingKeeps ==
  ASSUME AllInv, NEW x \in Export, Start(x)
  PROVE  AllInv'
  <1> PICK docs : docs = Documents(Project)
    OBVIOUS
  <1> PICK media : media = MediaOf(docs)
    OBVIOUS
  <1>1. /\ xop[x] = "waiting_quiescence" /\ \A m \in media : HasRow(m)
        /\ xlock' = [xlock EXCEPT !.phase = "snapshot"]
        /\ snap' = [snap EXCEPT ![x] = [state |-> "frozen", docs |-> docs, media |-> media]]
        /\ holds' = [holds EXCEPT ![x] = media]
        /\ row' = Held(media, 1)
        /\ xop' = [xop EXCEPT ![x] = "staging"]
        /\ UNCHANGED <<file, doc, up, held, closed, deletionVars, staged, archive, listed, expunge, exec>>
    BY DEF Start, Moves
  <1>2. ExportInv /\ ExportTypeOK /\ MediaTypeOK
    BY DEF AllInv, ExportInv, MediaInv
  <1>3. docs \in SUBSET Upload /\ media \in SUBSET Media
    BY <1>2 DEF Documents, MediaOf, MediaTypeOK
  <1>4. holds[x] = {}
    BY <1>1, <1>2 DEF ExportInv, Snapshots
  <1>5. MediaInv' /\ CountedWith(Extra)' /\ HeldHaveRows'
    <2>1. 1 \in {1, -1} /\ 1 # -1
      OBVIOUS
    <2> QED
      BY <1>1, <1>3, <1>4, <2>1, HoldsChange
  <1>6. DeletionInv'
    BY <1>1, OperationsStay DEF AllInv
  <1>7. /\ xop'[x] = "staging" /\ snap'[x].state = "frozen" /\ snap'[x].docs = docs /\ snap'[x].media = media
        /\ holds'[x] = media
        /\ \A y \in Export \ {x} : xop'[y] = xop[y] /\ snap'[y] = snap[y] /\ holds'[y] = holds[y]
        /\ xlock'.by = xlock.by
    BY <1>1, <1>2 DEF ExportTypeOK
  <1>8. ExportTypeOK'
    <2> PICK frozen : frozen = [state |-> "frozen", docs |-> docs, media |-> media]
      OBVIOUS
    <2>1. frozen \in [state: {"none", "frozen", "staging", "released", "failed"},
                      docs: SUBSET Upload, media: SUBSET Media]
      BY <1>3
    <2>2. snap' = [snap EXCEPT ![x] = frozen]
      BY <1>1
    <2>3. xlock' \in [by: Export \cup {None}, phase: {"none", "draining", "snapshot"}]
      BY <1>1, <1>2 DEF ExportTypeOK
    <2> QED
      BY <1>1, <1>2, <1>3, <2>1, <2>2, <2>3 DEF ExportTypeOK, ExportStates
  <1>9. Locking'
    BY <1>1, <1>2, <1>7 DEF ExportInv, Locking
  <1>10. Documents(Project)' = docs
    BY <1>1 DEF Documents
  <1>11. Snapshots'
    <2>1. \A y \in Export \ {x} : (Active(y)' <=> Active(y)) /\ (y # x)
      BY <1>7 DEF Active
    <2>2. Active(x)'
      BY <1>7 DEF Active
    <2>3. \A y \in Export \ {x} : Active(y) => Documents(Project)' = snap[y].docs
      BY <1>2, <1>10 DEF ExportInv, Snapshots
    <2>4. ASSUME NEW y \in Export \ {x}
          PROVE  /\ Active(y)' <=> xop'[y] = "staging"
                 /\ Active(y)' => Documents(Project)' = snap'[y].docs /\ holds'[y] = snap'[y].media
                 /\ ~Active(y)' => holds'[y] = {}
      BY <1>2, <1>7, <2>1, <2>3 DEF ExportInv, Snapshots
    <2> QED
      BY <1>7, <1>10, <2>2, <2>4 DEF Snapshots
  <1>12. Executions'
    BY <1>1, <1>2, <1>7 DEF ExportInv, Executions
  <1> QED
    BY <1>5, <1>6, <1>8, <1>9, <1>11, <1>12 DEF AllInv, ExportInv

(***************************************************************************)
(* The lock and the references are given back together, to go on or to     *)
(* fail.                                                                   *)
(***************************************************************************)
GivesBack(x, state, sstate) ==
  /\ xop[x] = "staging" /\ MayRelease(x)
  /\ row' = Held(holds[x], -1)
  /\ holds' = [holds EXCEPT ![x] = {}]
  /\ snap' = [snap EXCEPT ![x].state = sstate]
  /\ ReleasesLock(x)
  /\ xop' = [xop EXCEPT ![x] = state]
  /\ UNCHANGED <<file, doc, up, held, closed, deletionVars, staged, archive, listed, expunge>>

LEMMA GivingBackKeeps ==
  ASSUME AllInv, NEW e \in Executor, NEW x \in Export,
         NEW state \in Unlocking, NEW sstate \in {"released", "failed"},
         GivesBack(x, state, sstate),
         NEW new, Follows(e, new), exec' = [exec EXCEPT ![e] = new]
  PROVE  AllInv'
  <1> PICK media : media = holds[x]
    OBVIOUS
  <1>1. ExportInv /\ ExportTypeOK /\ media \in SUBSET Media
    BY DEF AllInv, ExportInv, ExportTypeOK
  <1>2. MediaInv' /\ CountedWith(Extra)' /\ HeldHaveRows'
    <2>1. \A m \in media : HasRow(m) /\ row[ContentOf(m)].refs > 1
      BY DEF GivesBack, MayRelease
    <2>2. -1 \in {1, -1} /\ -1 # 1
      OBVIOUS
    <2>3. row' = Held(media, -1) /\ holds' = [holds EXCEPT ![x] = {}]
          /\ UNCHANGED <<file, doc, up, held, closed>>
      BY DEF GivesBack
    <2> QED
      BY <1>1, <2>1, <2>2, <2>3, HoldsChange
  <1>3. DeletionInv'
    BY OperationsStay DEF AllInv, GivesBack
  <1>4. /\ xop[x] = "staging" /\ xop'[x] = state /\ snap'[x].state = sstate /\ holds'[x] = {}
        /\ \A y \in Export \ {x} : xop'[y] = xop[y] /\ snap'[y] = snap[y] /\ holds'[y] = holds[y]
        /\ UNCHANGED <<doc, staged, archive, listed, expunge>>
    BY <1>1 DEF ExportTypeOK, GivesBack
  <1>5. xlock.by = x /\ xlock' = NoLock
    BY <1>1, <1>4 DEF ExportInv, Locking, GivesBack, ReleasesLock
  <1>6. ExportTypeOK'
    <2>1. snap' \in [Export -> [state: {"none", "frozen", "staging", "released", "failed"},
                                docs: SUBSET Upload, media: SUBSET Media]]
      <3>1. snap[x] \in [state: {"none", "frozen", "staging", "released", "failed"},
                         docs: SUBSET Upload, media: SUBSET Media]
        BY <1>1 DEF ExportTypeOK
      <3>2. [snap[x] EXCEPT !.state = sstate] \in
              [state: {"none", "frozen", "staging", "released", "failed"},
               docs: SUBSET Upload, media: SUBSET Media]
        BY <3>1
      <3>3. snap' = [snap EXCEPT ![x] = [snap[x] EXCEPT !.state = sstate]]
        BY DEF GivesBack
      <3> QED
        BY <1>1, <3>2, <3>3 DEF ExportTypeOK
    <2>2. exec' \in [Executor -> Calls]
      BY <1>1 DEF ExportTypeOK, Calls, Follows
    <2>3. xlock' \in [by: Export \cup {None}, phase: {"none", "draining", "snapshot"}]
      BY <1>5 DEF NoLock
    <2>4. xop' \in [Export -> ExportStates] /\ holds' \in [Export -> SUBSET Media]
      BY <1>1 DEF GivesBack, ExportTypeOK, Unlocking
    <2> QED
      BY <1>1, <1>4, <2>1, <2>2, <2>3, <2>4 DEF ExportTypeOK, Calls
  <1>7. Locking'
    <2>1. \A y \in Export : y # None
      BY ExportsAreWellFormed
    <2> QED
      BY <1>1, <1>4, <1>5, <2>1 DEF ExportInv, Locking, NoLock, Unlocking
  <1>8. Snapshots'
    <2>1. \A y \in Export \ {x} : Active(y)' <=> Active(y)
      BY <1>4 DEF Active
    <2>2. ~Active(x)' /\ xop'[x] # "staging"
      BY <1>4 DEF Active, Unlocking
    <2>3. Documents(Project)' = Documents(Project)
      BY <1>4 DEF Documents
    <2>4. ASSUME NEW y \in Export \ {x}
          PROVE  /\ Active(y)' <=> xop'[y] = "staging"
                 /\ Active(y)' => Documents(Project)' = snap'[y].docs /\ holds'[y] = snap'[y].media
                 /\ ~Active(y)' => holds'[y] = {}
      BY <1>1, <1>4, <2>1, <2>3 DEF ExportInv, Snapshots
    <2> QED
      BY <1>4, <2>2, <2>4 DEF Snapshots
  <1>9. Executions'
    <2> SUFFICES ASSUME NEW f \in Executor, exec'[f].step # "idle"
                 PROVE  /\ exec'[f].export \in Export
                        /\ xop'[exec'[f].export] \notin {"none", "waiting_quiescence"}
                        /\ snap'[exec'[f].export].state # "frozen"
      BY DEF Executions
    <2> PICK y : y = exec[f].export
      OBVIOUS
    <2>1. exec[f].step # "idle" /\ exec'[f].export = y
      BY <1>1 DEF Follows, ExportTypeOK
    <2>2. y \in Export /\ xop[y] \notin {"none", "waiting_quiescence"} /\ snap[y].state # "frozen"
      BY <1>1, <2>1 DEF ExportInv, Executions
    <2>3. CASE y = x
      BY <1>4, <2>1, <2>2, <2>3 DEF Unlocking
    <2>4. CASE y # x
      BY <1>4, <2>1, <2>2, <2>4
    <2> QED
      BY <2>3, <2>4
  <1> QED
    BY <1>2, <1>3, <1>6, <1>7, <1>8, <1>9 DEF AllInv, ExportInv

LEMMA PackageKeeps ==
  ASSUME AllInv, NEW e \in Executor, Package(e)
  PROVE  AllInv'
  <1> PICK x : x = exec[e].export
    OBVIOUS
  <1>1. ExportInv /\ exec[e].step # "idle" /\ x \in Export /\ exec[e] \in Calls
    BY CallType DEF AllInv, Package
  <1>2. CASE xop[x] = "staging" /\ snap[x].state = "staging" /\ MayRelease(x)
    <2> PICK new : new = [exec[e] EXCEPT !.step = "scan", !.seen = "packaging"]
      OBVIOUS
    <2>1. exec' = [exec EXCEPT ![e] = new]
      BY <1>2 DEF Package
    <2>2. new \in Calls /\ new.export = exec[e].export
      BY <1>1 DEF Calls, ExecSteps, ExportStates
    <2>3. Follows(e, new)
      BY <1>1, <2>2 DEF Follows
    <2>4. GivesBack(x, "packaging", "released")
      BY <1>2 DEF Package, GivesBack, Moves
    <2>5. "packaging" \in Unlocking /\ "released" \in {"released", "failed"}
      BY DEF Unlocking, ExportStates
    <2> QED
      BY <1>1, <2>1, <2>3, <2>4, <2>5, GivingBackKeeps
  <1>3. CASE ~(xop[x] = "staging" /\ snap[x].state = "staging" /\ MayRelease(x))
    <2>1. /\ exec' = [exec EXCEPT ![e] = [exec[e] EXCEPT !.step = "fail"]]
          /\ UNCHANGED <<row, holds, snap, xlock, xop>>
          /\ UNCHANGED <<file, doc, up, held, closed, deletionVars, staged, archive, listed, expunge>>
      BY <1>3 DEF Package, Step
    <2>2. Follows(e, [exec[e] EXCEPT !.step = "fail"])
      BY <1>1, StepFollows DEF ExecSteps
    <2>3. UNCHANGED <<mediaVars, inventory, op, ledger, adv, locked, faults, restarts>>
      BY <2>1 DEF mediaVars, deletionVars
    <2>4. faults' \in 0..MaxFaults /\ staged' \in [Export -> SUBSET Content] /\ archive' \subseteq Export
      BY <2>1, <2>3 DEF AllInv, DeletionInv, DeletionTypes, ExportInv, ExportTypeOK
    <2> QED
      BY <2>1, <2>2, <2>3, <2>4, CallKeeps
  <1> QED
    BY <1>2, <1>3

LEMMA FailRecordKeeps ==
  ASSUME AllInv, NEW e \in Executor, FailRecord(e)
  PROVE  AllInv'
  <1> PICK x : x = exec[e].export
    OBVIOUS
  <1>1. /\ ExportInv /\ exec[e].step # "idle" /\ x \in Export /\ exec[e] \in Calls /\ Follows(e, NoExec)
        /\ xop[x] \notin {"none", "waiting_quiescence"} /\ snap[x].state # "frozen"
        /\ exec' = [exec EXCEPT ![e] = NoExec]
    BY CallType DEF AllInv, FailRecord, Follows, Ends
  <1>2. CASE xop[x] \in {"ready", "failed", "deleted"} \/ (snap[x].state = "staging" /\ ~MayRelease(x))
    <2>1. /\ UNCHANGED <<row, holds, snap, xlock, xop>>
          /\ UNCHANGED <<file, doc, up, held, closed, deletionVars, staged, archive, listed, expunge>>
      BY <1>2 DEF FailRecord
    <2>3. UNCHANGED <<mediaVars, inventory, op, ledger, adv, locked, faults, restarts>>
      BY <2>1 DEF mediaVars, deletionVars
    <2>4. faults' \in 0..MaxFaults /\ staged' \in [Export -> SUBSET Content] /\ archive' \subseteq Export
      BY <2>1, <2>3 DEF AllInv, DeletionInv, DeletionTypes, ExportInv, ExportTypeOK
    <2> QED
      BY <1>1, <2>1, <2>3, <2>4, CallKeeps
  <1>3. CASE /\ xop[x] \notin {"ready", "failed", "deleted"}
             /\ snap[x].state = "staging" /\ MayRelease(x)
    <2>1. xop[x] = "staging"
      BY <1>1, <1>3 DEF ExportInv, Snapshots, Active
    <2>2. GivesBack(x, "failed", "failed")
      BY <1>3, <2>1 DEF FailRecord, GivesBack, Moves
    <2>3. "failed" \in Unlocking /\ "failed" \in {"released", "failed"}
      BY DEF Unlocking, ExportStates
    <2> QED
      BY <1>1, <2>2, <2>3, GivingBackKeeps
  <1>4. CASE xop[x] \notin {"ready", "failed", "deleted"} /\ snap[x].state # "staging"
    <2>1. /\ xop' = [xop EXCEPT ![x] = "failed"] /\ ReleasesLock(x)
          /\ UNCHANGED <<row, holds, snap>>
          /\ UNCHANGED <<file, doc, up, held, closed, deletionVars, staged, archive, listed, expunge>>
      BY <1>4 DEF FailRecord, Moves
    <2>2. ~Active(x) /\ xop[x] # "staging"
      BY <1>1, <1>4 DEF ExportInv, Snapshots, Active
    <2>3. xlock.by # x /\ UNCHANGED xlock
      BY <1>1, <2>1, <2>2 DEF ExportInv, Locking, ReleasesLock
    <2>4. MediaInv' /\ CountedWith(Extra)' /\ HeldHaveRows' /\ DocumentsStay /\ DeletionInv'
      BY <2>1, StoreStays, OperationsStay DEF AllInv
    <2>5. xop'[x] = "failed" /\ \A y \in Export \ {x} : xop'[y] = xop[y]
      BY <1>1, <2>1 DEF ExportInv, ExportTypeOK
    <2>6. ExportTypeOK'
      BY <1>1, <2>1, <2>3 DEF ExportInv, ExportTypeOK, ExportStates, Follows, Calls
    <2>7. Locking'
      BY <1>1, <2>2, <2>3, <2>5 DEF ExportInv, Locking
    <2>8. Snapshots'
      BY <1>1, <2>1, <2>2, <2>5 DEF ExportInv, Snapshots, Active, Documents
    <2>9. Executions'
      <3>1. exec'[e].step = "idle" /\ \A f \in Executor \ {e} : exec'[f] = exec[f]
        BY <1>1 DEF ExportInv, ExportTypeOK, NoExec
      <3> QED
        BY <1>1, <2>1, <2>5, <3>1 DEF ExportInv, Executions
    <2> QED
      BY <2>4, <2>6, <2>7, <2>8, <2>9 DEF AllInv, ExportInv
  <1> QED
    BY <1>2, <1>3, <1>4

-----------------------------------------------------------------------------
LEMMA ExportInitInv == ExportInit => AllInv
  <1> SUFFICES ASSUME ExportInit PROVE AllInv
    OBVIOUS
  <1>1. MediaInv /\ CountedWith(Extra) /\ DeletionInv
    BY MediaInitInv, DeletionInitInv DEF ExportInit, Init
  <1>2. ExportTypeOK
    BY DEF ExportInit, ExportTypeOK, ExportStates, NoLock, NoSnapshot, NoExec
  <1>3. \A x \in Export : xlock.by # x /\ ~Active(x) /\ xop[x] = "none" /\ holds[x] = {}
    BY ExportsAreWellFormed DEF ExportInit, NoLock, NoSnapshot, Active
  <1>4. Executions
    BY DEF ExportInit, NoExec, Executions
  <1> QED
    BY <1>1, <1>2, <1>3, <1>4 DEF AllInv, ExportInv, HeldHaveRows, Locking, Snapshots

LEMMA ExportNextInv == AllInv /\ [ExportNext]_allVars => AllInv'
  <1> SUFFICES ASSUME AllInv, [ExportNext]_allVars PROVE AllInv'
    OBVIOUS
  <1>1. ASSUME NEW e \in Executor, Executing(e) PROVE AllInv'
    BY <1>1, CopiesKeep, PassesKeep, ExecuteKeeps, PackageKeeps, FailRecordKeeps DEF Executing
  <1>2. CASE UNCHANGED allVars
    <2>1. UNCHANGED <<exportVars, deletionVars, row, file, doc, up, held, closed, holds>>
      BY <1>2 DEF allVars, vars, mediaVars, exportVars
    <2>2. MediaInv' /\ CountedWith(Extra)' /\ HeldHaveRows' /\ DocumentsStay /\ DeletionInv'
      BY <2>1, StoreStays, OperationsStay DEF AllInv
    <2> QED
      BY <2>1, <2>2, ExportsStay DEF AllInv
  <1> QED
    BY <1>1, <1>2, ProducersKeep, DeletesKeep, ExportRestartKeeps, PauseKeeps, StartingKeeps DEF ExportNext

LEMMA AllInvAlways == ExportSpec => []AllInv
  BY ExportInitInv, ExportNextInv, PTL DEF ExportSpec

(***************************************************************************)
(* The documents of the project are those that were frozen until every     *)
(* copy is made, the snapshot holds exactly their media as long, and the   *)
(* project is locked from the pause to the last copy and no longer: for    *)
(* any number of exports, calls of execute, producers and deletions.       *)
(***************************************************************************)
THEOREM SnapshotsAreOneState == ExportSpec => []SnapshotIsOneState
  <1>1. AllInv => SnapshotIsOneState
    BY DEF AllInv, ExportInv, Locking, Snapshots, Active, SnapshotIsOneState
  <1> QED
    BY <1>1, AllInvAlways, PTL

(***************************************************************************)
(* A row counts the documents and the exports that reference its media,    *)
(* and is there for each of them, whatever producers share the content.    *)
(***************************************************************************)
ReferencesAndHolds ==
  /\ \A c \in Content : Indexed(c) =>
       row[c].refs = Cardinality({u \in Upload : doc[u] = row[c].id})
                     + Cardinality({x \in Export : row[c].id \in holds[x]})
  /\ \A u \in Upload : doc[u] # None => HasRow(doc[u])
  /\ \A x \in Export : \A m \in holds[x] : HasRow(m)

THEOREM HeldReferencesAreCounted == ExportSpec => []ReferencesAndHolds
  <1>1. AllInv => ReferencesAndHolds
    BY DEF AllInv, CountedWith, Users, Extra, Held1, ExportInv, HeldHaveRows, ReferencesAndHolds
  <1> QED
    BY <1>1, AllInvAlways, PTL

-----------------------------------------------------------------------------
(***************************************************************************)
(* The files of what a snapshot holds.                                     *)
(***************************************************************************)
LEMMA ExportFiles ==
  ASSUME MadeApart
  PROVE  AllInv /\ FileInv /\ [ExportNext]_allVars => FileInv'
  <1> SUFFICES ASSUME AllInv, FileInv, [ExportNext]_allVars PROVE FileInv'
    OBVIOUS
  <1>1. /\ MediaInv /\ CountedWith(Extra) /\ DeletionInv /\ Extra \in Extras
    BY ExtraType DEF AllInv, MediaInv, ExportInv
  <1>2. ASSUME UNCHANGED <<row, file, up, held, inventory, ledger, adv>> PROVE FileInv'
    BY <1>2, FilesStay DEF FileInv, UnlinksAreMade, Unlisted, Indexed
  <1>3. ASSUME UNCHANGED vars PROVE FileInv'
    BY <1>2, <1>3 DEF vars, mediaVars, deletionVars
  <1>4. CASE Producers
    BY <1>1, <1>4, ProduceKeepsFiles DEF Producers, Produce
  <1>5. CASE Deletes
    <2>1. ASSUME NEW s \in Scope, Inventory(s) PROVE FileInv'
      BY <1>1, <1>3, <2>1, ListKeepsFiles DEF Inventory
    <2>2. ASSUME NEW s \in Scope, Confirm(s) PROVE FileInv'
      <3>1. ConfirmDeletion(s) /\ Releases(s)
        BY <2>2, ConfirmReleases DEF Confirm
      <3>2. \A c \in Content : Indexed(c)' => Indexed(c) /\ row'[c].id = row[c].id
        BY <1>1, <3>1, ReleaseKeeps
      <3> QED
        BY <1>1, <3>1, <3>2, ConfirmKeepsFiles
    <2>3. ASSUME NEW a \in Advance, NEW x \in Export, UnlinkArchive(a, x) PROVE FileInv'
      BY <1>3, <2>3 DEF UnlinkArchive
    <2> QED
      BY <1>1, <1>5, <2>1, <2>2, <2>3, UnlinkKeepsFiles, AdvanceKeepsFiles DEF Deletes
  <1>6. CASE ExportRestart
    BY <1>1, <1>6, RestartKeepsFiles DEF ExportRestart
  <1>7. ASSUME NEW x \in Export, Pause(x) \/ Start(x) PROVE FileInv'
    <2>1. CASE Pause(x)
      BY <1>3, <2>1 DEF Pause
    <2>2. CASE Start(x)
      <3> PICK media : media = MediaOf(Documents(Project))
        OBVIOUS
      <3>1. /\ \A m \in media : HasRow(m)
            /\ row' = Held(media, 1)
            /\ UNCHANGED <<file, doc, up, held, closed, inventory, ledger, adv>>
        BY <2>2 DEF Start, deletionVars
      <3>2. media \in SUBSET Media /\ 1 \in {1, -1} /\ 1 # -1
        BY <1>1 DEF MediaOf, Documents, MediaInv, MediaTypeOK
      <3>3. \A c \in Content : (Indexed(c)' <=> Indexed(c)) /\ row'[c].id = row[c].id
        BY <1>1, <3>1, <3>2, HeldRows
      <3> QED
        BY <3>1, <3>3, FilesStay DEF FileInv, UnlinksAreMade, Unlisted
    <2> QED
      BY <1>7, <2>1, <2>2
  <1>8. ASSUME NEW e \in Executor, Executing(e) PROVE FileInv'
    <2>1. CASE \/ UNCHANGED vars
               \/ UNCHANGED <<mediaVars, inventory, op, ledger, adv, locked, restarts>>
      BY <1>2, <1>3, <2>1 DEF mediaVars
    <2>2. CASE Package(e) \/ FailRecord(e)
      <3> PICK x : x = exec[e].export
        OBVIOUS
      <3> PICK media : media = holds[x]
        OBVIOUS
      <3>1. UNCHANGED <<file, doc, up, held, closed, inventory, ledger, adv>>
        BY <2>2 DEF Package, FailRecord, deletionVars
      <3>2. CASE UNCHANGED row
        BY <1>2, <3>1, <3>2
      <3>3. CASE row' # row
        <4>1. exec[e].step # "idle" /\ row' = Held(media, -1)
          BY <2>2, <3>3 DEF Package, FailRecord
        <4>2. x \in Export /\ snap[x].state # "frozen"
          BY <4>1, CallType DEF AllInv
        <4>3. \A m \in media : HasRow(m) /\ row[ContentOf(m)].refs > 1
          BY <2>2, <3>3 DEF Package, FailRecord, MayRelease
        <4>4. media \in SUBSET Media /\ -1 \in {1, -1}
          BY <4>2, HeldTypes DEF AllInv, ExportInv
        <4>5. \A c \in Content : (Indexed(c)' <=> Indexed(c)) /\ row'[c].id = row[c].id
          BY <1>1, <3>1, <4>1, <4>3, <4>4, HeldRows
        <4> QED
          BY <3>1, <4>5, FilesStay DEF FileInv, UnlinksAreMade, Unlisted
      <3> QED
        BY <3>2, <3>3
    <2>3. ASSUME \/ \E x \in Export : Execute(e, x)
                 \/ \E c \in Content : CopyMedia(e, c)
                 \/ OpenStaged(e) \/ Scan(e) \/ ScanPassed(e) \/ Publish(e) \/ RecordReady(e)
                 \/ CleanupCopies(e) \/ ExecFails(e) \/ FailCleanup(e)
          PROVE  \/ UNCHANGED vars
                 \/ UNCHANGED <<mediaVars, inventory, op, ledger, adv, locked, restarts>>
      BY <2>3 DEF Execute, CopyMedia, OpenStaged, Scan, ScanPassed, Publish, RecordReady, CleanupCopies,
                  ExecFails, FailCleanup
    <2> QED
      BY <1>8, <2>1, <2>2, <2>3 DEF Executing
  <1>9. CASE UNCHANGED allVars
    BY <1>3, <1>9 DEF allVars
  <1> QED
    BY <1>4, <1>5, <1>6, <1>7, <1>8, <1>9 DEF ExportNext

(***************************************************************************)
(* While a snapshot holds media, rows count its references and the files   *)
(* are there to be copied: where a content has one producer, or producers  *)
(* that hold the lock of its checksum, whatever other owners delete and    *)
(* however many exports, calls and restarts there are.                     *)
(***************************************************************************)
THEOREM HeldMediaIsThere ==
  ASSUME MadeApart
  PROVE  ExportSpec => []HoldsAreCounted
  <1>1. ExportInit => FileInv
    BY FilesInit DEF ExportInit
  <1>2. ASSUME AllInv, FileInv PROVE HoldsAreCounted
    <2>1. ASSUME NEW x \in Export, NEW m \in holds[x] PROVE HasRow(m) /\ ContentOf(m) \in file
      <3>1. m \in Media /\ HasRow(m) /\ ContentOf(m) \in Content /\ m # None
        BY <1>2, <2>1, HeldTypes, UploadType DEF AllInv, ExportInv, HeldHaveRows, Media
      <3>2. Indexed(ContentOf(m))
        BY <1>2, <3>1, RowType DEF HasRow, AllInv, MediaInv
      <3> QED
        BY <1>2, <3>1, <3>2 DEF FileInv, RowsHaveFiles
    <2> QED
      BY <1>2, <2>1 DEF AllInv, CountedWith, Users, Extra, Held1, HoldsAreCounted
  <1>3. AllInv /\ FileInv => HoldsAreCounted
    BY <1>2
  <1> QED
    BY <1>1, <1>3, ExportFiles, AllInvAlways, PTL DEF ExportSpec

=============================================================================
