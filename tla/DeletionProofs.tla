---------------------------- MODULE DeletionProofs ----------------------------
(***************************************************************************)
(* References are counted and a verified deletion removed what it was to   *)
(* remove, for all contents, owners, producers, advances and bounds.       *)
(*                                                                         *)
(* The lemmas about the media store are stated for rows that others hold   *)
(* references of beside the documents, as many as `extra' says for each    *)
(* content: a deletion alone knows none, an export holds some.             *)
(***************************************************************************)
EXTENDS Deletion, FiniteSetTheorems, TLAPS

Users(m) == {u \in Upload : doc[u] = m}

\* a row bears the id of a media of its content
RowsAreNamed ==
  \A c \in Content : Indexed(c) => row[c].id \in Media /\ ContentOf(row[c].id) = c
\* a producer commits at most once, at its end
DocumentsAreCommitted == \A u \in Upload : doc[u] # None => up[u].at = "ended"
\* the owner of a deleted scope has no documents any more
ClosedAreEmpty == \A s \in closed : Documents(s) = {}

CountedWith(extra) ==
  /\ \A c \in Content : Indexed(c) =>
       row[c].refs = Cardinality(Users(row[c].id)) + extra[c] /\ row[c].refs > 0
  /\ \A u \in Upload : doc[u] # None => HasRow(doc[u])

MediaInv == MediaTypeOK /\ RowsAreNamed /\ DocumentsAreCommitted /\ ClosedAreEmpty

Extras == {extra \in [Content -> Nat] : \A c \in Content : ~Indexed(c) => extra[c] = 0}
\* rows are only added
RowsStay == \A c \in Content : Indexed(c) => row'[c].id = row[c].id /\ Indexed(c)'
-----------------------------------------------------------------------------
LEMMA UploadType ==
  ASSUME NEW u \in Upload
  PROVE  /\ ContentOf(u) \in Content /\ ScopeOf(u) \in Scope /\ u # None
         /\ UploadOf[u].protocol \in Protocols
  BY UploadsAreWellFormed DEF ContentOf, ScopeOf

LEMMA RowType ==
  ASSUME MediaTypeOK, NEW c \in Content
  PROVE  /\ Indexed(c) => row[c] \in Rows /\ row[c].id \in Media /\ row[c].id # None /\ row[c].refs \in Nat
         /\ ~Indexed(c) => row[c] = NoRow /\ row[c].id = None
  BY UploadsAreWellFormed DEF MediaTypeOK, Indexed, Rows, NoRow, Media

LEMMA UsersAreFinite ==
  /\ \A S \in SUBSET Upload : IsFiniteSet(S) /\ Cardinality(S) \in Nat
  /\ \A m : Users(m) \in SUBSET Upload
  <1>1. ASSUME NEW S \in SUBSET Upload PROVE IsFiniteSet(S) /\ Cardinality(S) \in Nat
    BY UploadsAreWellFormed, FS_Subset, FS_CardinalityType
  <1> QED
    BY <1>1 DEF Users

\* a document is of the one row there is for its media
LEMMA UsersOfRows ==
  ASSUME MediaInv, NEW extra, CountedWith(extra), NEW u \in Upload, doc[u] # None
  PROVE  LET c == ContentOf(doc[u]) IN
         doc[u] \in Media /\ c \in Content /\ Indexed(c) /\ row[c].id = doc[u]
  <1>1. doc[u] \in Media /\ HasRow(doc[u])
    BY DEF MediaInv, MediaTypeOK, CountedWith
  <1>2. ContentOf(doc[u]) \in Content /\ doc[u] # None
    BY <1>1, UploadType DEF Media
  <1> QED
    BY <1>1, <1>2, RowType DEF MediaInv, HasRow

-----------------------------------------------------------------------------
(***************************************************************************)
(* Producers.                                                              *)
(***************************************************************************)
LEMMA CommitKeeps ==
  ASSUME MediaInv, NEW extra \in Extras, CountedWith(extra), NEW u \in Upload, CommitPrepared(u)
  PROVE  MediaInv' /\ CountedWith(extra)' /\ RowsStay
  <1> DEFINE c == ContentOf(u)
  <1> PICK new : new = Referenced(u)
    OBVIOUS
  <1>1. c \in Content /\ ScopeOf(u) \in Scope /\ u # None /\ u \in Media
    BY UploadType DEF Media
  <1>2. doc[u] = None /\ ScopeOf(u) \notin closed
    BY DEF CommitPrepared, MayCommit, MediaInv, DocumentsAreCommitted
  <1>3. /\ row' = [row EXCEPT ![c] = new] /\ doc' = [doc EXCEPT ![u] = new.id]
        /\ up' = [up EXCEPT ![u].at = "ended"] /\ held' = Unlocked(u)
        /\ UNCHANGED <<file, closed>>
    BY DEF CommitPrepared, Enter
  <1>4. /\ new \in Rows /\ new.refs > 0 /\ ContentOf(new.id) = c
        /\ Indexed(c) => new.id = row[c].id /\ new.refs = row[c].refs + 1
        /\ ~Indexed(c) => new.id = u /\ new.refs = 1
    BY <1>1, RowType DEF Referenced, MediaInv, RowsAreNamed, Rows
  <1>5. new # NoRow /\ new.id \in Media /\ new.id # None /\ new.refs \in Nat
    BY <1>4, UploadsAreWellFormed DEF Rows, NoRow, Media
  <1>6. MediaTypeOK'
    BY <1>1, <1>3, <1>4, <1>5 DEF MediaInv, MediaTypeOK, Unlocked, Stages
  <1>7. /\ row'[c] = new /\ doc'[u] = new.id /\ Indexed(c)'
        /\ \A d \in Content \ {c} : row'[d] = row[d] /\ (Indexed(d)' <=> Indexed(d))
        /\ \A v \in Upload \ {u} : doc'[v] = doc[v]
    BY <1>1, <1>3, <1>5 DEF MediaInv, MediaTypeOK, Indexed
  <1>8. RowsAreNamed' /\ RowsStay
    BY <1>4, <1>5, <1>7 DEF MediaInv, RowsAreNamed, RowsStay
  <1>9. DocumentsAreCommitted'
    BY <1>3, <1>7 DEF MediaInv, MediaTypeOK, DocumentsAreCommitted
  <1>10. ClosedAreEmpty'
    BY <1>2, <1>3, <1>7 DEF MediaInv, ClosedAreEmpty, Documents
  <1>11. ASSUME NEW v \in Upload, doc'[v] # None PROVE HasRow(doc[v])'
    <2>1. CASE v = u
      BY <1>4, <1>7, <2>1 DEF HasRow
    <2>2. CASE v # u /\ ContentOf(doc[v]) = c
      BY <1>4, <1>7, <1>11, <2>2, UsersOfRows DEF HasRow
    <2>3. CASE v # u /\ ContentOf(doc[v]) # c
      BY <1>7, <1>11, <2>3, UsersOfRows DEF HasRow
    <2> QED
      BY <2>1, <2>2, <2>3
  <1>12. ASSUME NEW d \in Content, Indexed(d)'
         PROVE  row'[d].refs = Cardinality(Users(row[d].id)') + extra[d] /\ row'[d].refs > 0
    <2>1. CASE d # c
      <3>1. Indexed(d) /\ row'[d] = row[d]
        BY <1>7, <1>12, <2>1
      <3>2. row[d].id # new.id
        BY <1>4, <2>1, <3>1 DEF MediaInv, RowsAreNamed
      <3>3. Users(row[d].id)' = Users(row[d].id)
        BY <1>2, <1>7, <3>1, <3>2, RowType DEF Users, MediaInv
      <3> QED
        BY <3>1, <3>3 DEF CountedWith
    <2>2. CASE d = c
      <3>1. Users(new.id)' = Users(new.id) \cup {u} /\ u \notin Users(new.id)
        BY <1>2, <1>5, <1>7 DEF Users
      <3>2. Cardinality(Users(new.id)') = Cardinality(Users(new.id)) + 1
        BY <3>1, UsersAreFinite, FS_AddElement
      <3>3. CASE Indexed(c)
        BY <1>4, <1>7, <2>2, <3>2, <3>3, UsersAreFinite DEF CountedWith, Extras
      <3>4. CASE ~Indexed(c)
        <4>1. Users(new.id) = {}
          BY <1>4, <3>4, UsersOfRows, UploadType DEF Users
        <4>2. Cardinality(Users(new.id)) = 0 /\ extra[c] = 0
          BY <1>1, <3>4, <4>1, FS_EmptySet DEF Extras
        <4> QED
          BY <1>4, <1>7, <2>2, <3>2, <3>4, <4>2
      <3> QED
        BY <3>3, <3>4
    <2> QED
      BY <2>1, <2>2
  <1>13. CountedWith(extra)'
    BY <1>11, <1>12 DEF CountedWith, Users
  <1> QED
    BY <1>6, <1>8, <1>9, <1>10, <1>13 DEF MediaInv

LEMMA ProduceKeeps ==
  ASSUME MediaInv, NEW extra \in Extras, CountedWith(extra), NEW u \in Upload, Produce(u)
  PROVE  MediaInv' /\ CountedWith(extra)' /\ RowsStay
  <1>1. CASE CommitPrepared(u)
    BY <1>1, CommitKeeps
  <1>2. CASE \/ BeginPrepare(u) \/ WriteFile(u) \/ WriteFails(u) \/ DiscardPrepared(u) \/ RemoveFile(u)
    <2>1. UNCHANGED <<row, doc, closed>> /\ ContentOf(u) \in Content
      BY <1>2, UploadType DEF BeginPrepare, WriteFile, WriteFails, DiscardPrepared, RemoveFile
    <2>2. MediaTypeOK'
      <3>1. CASE BeginPrepare(u)
        BY <2>1, <3>1 DEF BeginPrepare, MediaInv, MediaTypeOK, Stages
      <3>2. CASE WriteFile(u) \/ WriteFails(u) \/ DiscardPrepared(u) \/ RemoveFile(u)
        BY <2>1, <3>2 DEF WriteFile, WriteFails, DiscardPrepared, RemoveFile, Enter, Unlocked,
                          MediaInv, MediaTypeOK, Stages
      <3> QED
        BY <1>2, <3>1, <3>2
    <2>3. up[u].at # "ended" /\ \A v \in Upload \ {u} : up'[v] = up[v]
      BY <1>2 DEF BeginPrepare, WriteFile, WriteFails, DiscardPrepared, RemoveFile, Enter, MediaInv, MediaTypeOK
    <2>4. DocumentsAreCommitted'
      BY <2>1, <2>3 DEF MediaInv, DocumentsAreCommitted
    <2> QED
      BY <2>1, <2>2, <2>4 DEF MediaInv, RowsAreNamed, ClosedAreEmpty, Documents, CountedWith, Users,
                              HasRow, Indexed, RowsStay
  <1> QED
    BY <1>1, <1>2 DEF Produce

\* a restart forgets producers and locks and collects files without a row
LEMMA MediaRestartKeeps ==
  ASSUME MediaInv, NEW extra, CountedWith(extra), MediaRestart
  PROVE  MediaInv' /\ CountedWith(extra)' /\ RowsStay
  <1>1. UNCHANGED <<row, doc, closed>> /\ file' \subseteq file
    BY DEF MediaRestart
  <1>2. \A u \in Upload : /\ up'[u] \in [at: Stages, isNew: BOOLEAN]
                          /\ up[u].at = "ended" => up'[u].at = "ended"
    BY DEF MediaRestart, MediaInv, MediaTypeOK, Stages
  <1>3. up' \in [Upload -> [at: Stages, isNew: BOOLEAN]]
    BY <1>2 DEF MediaRestart
  <1>4. MediaTypeOK'
    BY <1>1, <1>3 DEF MediaRestart, MediaInv, MediaTypeOK
  <1> QED
    BY <1>1, <1>2, <1>4 DEF MediaInv, RowsAreNamed, DocumentsAreCommitted, ClosedAreEmpty, Documents,
                            CountedWith, Users, HasRow, Indexed, RowsStay

-----------------------------------------------------------------------------
(***************************************************************************)
(* The transaction that releases the documents of a scope.                 *)
(***************************************************************************)
LEMMA LeftType ==
  ASSUME MediaTypeOK, NEW docs \in SUBSET Upload, NEW m \in Media
  PROVE  Left(docs, m) \in Int
  <1>1. {u \in docs : doc[u] = m} \in SUBSET Upload /\ ContentOf(m) \in Content
    BY UploadType DEF Media
  <1>2. row[ContentOf(m)].refs \in Nat
    BY <1>1, RowType DEF NoRow
  <1>3. Cardinality({u \in docs : doc[u] = m}) \in Nat
    BY <1>1, UsersAreFinite
  <1> QED
    BY <1>2, <1>3 DEF Left, ReferencesOf

LEMMA SelectedType ==
  ASSUME MediaTypeOK, NEW s
  PROVE  Selected(s) \in Inventories
  <1>1. Documents(s) \in SUBSET Upload
    BY DEF Documents
  <1>2. \A m \in Media : Left(Documents(s), m) \in Int
    BY <1>1, LeftType
  <1> QED
    BY <1>1, <1>2 DEF Selected, Inventories

Releases(s) ==
  /\ row' = Released(Documents(s))
  /\ doc' = [u \in Upload |-> IF u \in Documents(s) THEN None ELSE doc[u]]
  /\ closed' = closed \cup {s}
  /\ UNCHANGED <<file, up, held>>

\* what a row keeps is what the remaining documents and the others reference
LEMMA LeftCounts ==
  ASSUME MediaInv, NEW extra \in Extras, CountedWith(extra), NEW s \in Scope, Releases(s),
         NEW c \in Content, Indexed(c)
  PROVE  /\ Left(Documents(s), row[c].id) = Cardinality({u \in Upload : doc'[u] = row[c].id}) + extra[c]
         /\ {u \in Upload : doc'[u] = row[c].id} \in SUBSET Upload
  <1> PICK m : m = row[c].id
    OBVIOUS
  <1> DEFINE gone == {u \in Documents(s) : doc[u] = m}
             rest == {u \in Upload : doc'[u] = m}
  <1>1. m \in Media /\ m # None /\ ContentOf(m) = c
    BY RowType DEF MediaInv, RowsAreNamed
  <1>2. rest = Users(m) \ gone /\ gone = Users(m) \cap gone
    BY <1>1 DEF Releases, Users, Documents
  <1>3. Cardinality(rest) = Cardinality(Users(m)) - Cardinality(gone)
    <2>1. IsFiniteSet(Users(m))
      BY UsersAreFinite
    <2>2. Cardinality(Users(m) \ gone) = Cardinality(Users(m)) - Cardinality(Users(m) \cap gone)
      BY <2>1, FS_Difference
    <2> QED
      BY <1>2, <2>2
  <1>4. /\ Cardinality(rest) \in Nat /\ Cardinality(Users(m)) \in Nat /\ Cardinality(gone) \in Nat
        /\ extra[c] \in Nat
    <2>1. rest \in SUBSET Upload /\ gone \in SUBSET Upload
      BY DEF Documents
    <2> QED
      BY <2>1, UsersAreFinite DEF Extras
  <1>5. row[c].refs = Cardinality(Users(m)) + extra[c]
    BY DEF CountedWith
  <1>6. Left(Documents(s), m) = row[c].refs - Cardinality(gone)
    BY <1>1 DEF Left, ReferencesOf
  <1> HIDE DEF gone, rest
  <1>7. Left(Documents(s), m) = Cardinality(rest) + extra[c]
    BY <1>3, <1>4, <1>5, <1>6
  <1> QED
    BY <1>7 DEF rest

LEMMA ReleaseKeeps ==
  ASSUME MediaInv, NEW extra \in Extras, CountedWith(extra), NEW s \in Scope, Releases(s)
  PROVE  /\ MediaInv' /\ CountedWith(extra)'
         /\ \A c \in Content : Indexed(c)' => Indexed(c) /\ row'[c].id = row[c].id
         /\ \A c \in Content : Indexed(c) /\ extra[c] > 0 => Indexed(c)'
  <1> DEFINE rest(m) == {u \in Upload : doc'[u] = m}
  <1>1. \A m : rest(m) \in SUBSET Upload /\ IsFiniteSet(rest(m)) /\ Cardinality(rest(m)) \in Nat
    BY UsersAreFinite
  <1>2. ASSUME NEW c \in Content, ~Indexed(c)
        PROVE  row'[c] = NoRow
    BY <1>2 DEF Releases, Released
  <1>3. ASSUME NEW c \in Content, Indexed(c)
        PROVE  /\ rest(row[c].id) = {} /\ extra[c] = 0 => row'[c] = NoRow
               /\ rest(row[c].id) # {} \/ extra[c] # 0 =>
                    /\ row'[c] \in Rows /\ row'[c].id = row[c].id /\ row'[c] # NoRow
                    /\ row'[c].refs = Cardinality(rest(row[c].id)) + extra[c] /\ row'[c].refs > 0
    <2> PICK n : n = Left(Documents(s), row[c].id)
      OBVIOUS
    <2> PICK k : k = Cardinality(rest(row[c].id))
      OBVIOUS
    <2>1. n = k + extra[c] /\ k \in Nat /\ extra[c] \in Nat
      BY <1>1, <1>3, LeftCounts DEF Extras
    <2>2. k = 0 <=> rest(row[c].id) = {}
      BY <1>1, FS_EmptySet
    <2>3. row'[c] = IF n = 0 THEN NoRow ELSE [row[c] EXCEPT !.refs = n]
      BY <1>3 DEF Releases, Released
    <2>4. row[c] \in Rows /\ row[c].id # None
      BY <1>3, RowType DEF MediaInv
    <2>5. n # 0 => [row[c] EXCEPT !.refs = n] \in Rows /\ [row[c] EXCEPT !.refs = n].refs = n
                    /\ [row[c] EXCEPT !.refs = n].id = row[c].id
      BY <2>1, <2>4 DEF Rows
    <2> HIDE DEF rest
    <2> QED
      BY <2>1, <2>2, <2>3, <2>4, <2>5 DEF NoRow
  <1>4. ASSUME NEW c \in Content, Indexed(c)'
        PROVE  /\ Indexed(c) /\ row'[c].id = row[c].id /\ row'[c] \in Rows
               /\ row'[c].refs = Cardinality(rest(row[c].id)) + extra[c] /\ row'[c].refs > 0
    BY <1>2, <1>3, <1>4 DEF Indexed
  <1>5. ASSUME NEW c \in Content, Indexed(c), extra[c] > 0
        PROVE  Indexed(c)'
    <2>1. extra[c] # 0
      BY <1>5 DEF Extras
    <2>2. row'[c] # NoRow
      BY <1>3, <1>5, <2>1
    <2> QED
      BY <2>2 DEF Indexed
  <1>6. RowsAreNamed'
    BY <1>4 DEF MediaInv, RowsAreNamed
  <1>7. /\ DocumentsAreCommitted'
        /\ ClosedAreEmpty'
    BY DEF MediaInv, DocumentsAreCommitted, ClosedAreEmpty, Releases, Documents
  <1>8. MediaTypeOK'
    <2>1. row' \in [Content -> Rows \cup {NoRow}]
      <3>1. \A c \in Content : row'[c] \in Rows \cup {NoRow}
        BY <1>4 DEF Indexed
      <3> QED
        BY <3>1 DEF Releases, Released
    <2>2. doc' \in [Upload -> Media \cup {None}]
      BY DEF Releases, MediaInv, MediaTypeOK
    <2> QED
      BY <2>1, <2>2 DEF Releases, MediaInv, MediaTypeOK
  <1>9. CountedWith(extra)'
    <2>1. ASSUME NEW c \in Content, Indexed(c)'
          PROVE  row'[c].refs = Cardinality(Users(row[c].id)') + extra[c] /\ row'[c].refs > 0
      <3>1. Users(row[c].id)' = rest(row[c].id)
        BY <1>4, <2>1 DEF Users
      <3> QED
        BY <1>4, <2>1, <3>1
    <2>2. ASSUME NEW v \in Upload, doc'[v] # None
          PROVE  HasRow(doc[v])'
      <3>1. doc'[v] = doc[v] /\ doc[v] # None
        BY <2>2 DEF Releases
      <3> PICK c \in Content : c = ContentOf(doc[v]) /\ Indexed(c) /\ row[c].id = doc[v]
        BY <3>1, UsersOfRows
      <3>2. v \in rest(row[c].id)
        BY <3>1
      <3>3. row'[c].id = doc[v]
        BY <1>3, <3>2
      <3> QED
        BY <3>1, <3>3 DEF HasRow
    <2> QED
      BY <2>1, <2>2 DEF CountedWith, Users
  <1> QED
    BY <1>4, <1>5, <1>6, <1>7, <1>8, <1>9 DEF MediaInv

-----------------------------------------------------------------------------
(***************************************************************************)
(* Operations, their ledgers and the advances that work on them.           *)
(***************************************************************************)
Advancement == [step: {"idle", "unlink", "verify"}, scope: Scope \cup {None},
                todo: SUBSET Media, found: [Media -> Entries], ok: BOOLEAN]
DeletionTypes ==
  /\ inventory \in [Scope -> Inventories]
  /\ op \in [Scope -> OpStates]
  /\ ledger \in [Scope -> [Media -> Entries]]
  /\ adv \in [Advance -> Advancement]
  /\ locked \subseteq Scope
  /\ faults \in 0..MaxFaults /\ restarts \in 0..MaxRestart

Pending(e) == e.state = "pending"

\* an operation is there from the confirmation on, and locks until it is verified;
\* it has only entries of media that nothing referenced any more
Operations ==
  \A s \in Scope :
    /\ s \in closed <=> op[s] # "none"
    /\ s \in locked <=> op[s] \notin {"none", "verified"}
    /\ \A m \in Media : Pending(ledger[s][m]) => op[s] # "none" /\ inventory[s].left[m] = 0

\* what a verifying advance has found so far
Checked(a) ==
  LET s == adv[a].scope IN
  \A m \in Media :
    /\ Pending(ledger[s][m]) => Pending(adv[a].found[m])
    /\ adv[a].ok /\ inventory[s].left[m] = 0 /\ m \notin adv[a].todo => ~Pending(adv[a].found[m])
Advances ==
  \A a \in Advance :
    /\ adv[a].step # "idle" => adv[a].scope \in Scope /\ op[adv[a].scope] # "none"
    /\ adv[a].step = "unlink" => \A m \in Media : Pending(adv[a].found[m]) => m \in adv[a].todo
    /\ adv[a].step = "verify" => Checked(a)

VerifiedAreDone == \A s \in Scope : op[s] = "verified" => \A m \in Media : ~Pending(ledger[s][m])

DeletionInv == DeletionTypes /\ Operations /\ Advances /\ VerifiedAreDone

\* no references beside those of the documents
NoExtra == [c \in Content |-> 0]
Inv == MediaInv /\ CountedWith(NoExtra) /\ DeletionInv

LEMMA AdvanceType ==
  ASSUME DeletionInv, NEW a \in Advance
  PROVE  adv[a] \in Advancement
  BY DEF DeletionInv, DeletionTypes

\* one advance moves, the ledger and the inventories stay
LEMMA AdvanceMoves ==
  ASSUME DeletionInv, NEW a \in Advance, NEW new \in Advancement, adv' = [adv EXCEPT ![a] = new],
         UNCHANGED <<closed, inventory, op, ledger, locked>>,
         faults' \in 0..MaxFaults, restarts' \in 0..MaxRestart,
         new.step # "idle" => new.scope \in Scope /\ op[new.scope] # "none",
         new.step = "unlink" => \A m \in Media : Pending(new.found[m]) => m \in new.todo,
         new.step = "verify" =>
           \A m \in Media :
             /\ Pending(ledger[new.scope][m]) => Pending(new.found[m])
             /\ new.ok /\ inventory[new.scope].left[m] = 0 /\ m \notin new.todo => ~Pending(new.found[m])
  PROVE  DeletionInv'
  <1>1. adv'[a] = new /\ \A b \in Advance \ {a} : adv'[b] = adv[b]
    BY DEF DeletionInv, DeletionTypes
  <1>2. DeletionTypes'
    BY DEF DeletionInv, DeletionTypes
  <1>3. Operations' /\ VerifiedAreDone'
    BY DEF DeletionInv, Operations, VerifiedAreDone
  <1>4. Advances'
    <2>1. ASSUME NEW b \in Advance
          PROVE  /\ adv'[b].step # "idle" => adv'[b].scope \in Scope /\ op[adv'[b].scope] # "none"
                 /\ adv'[b].step = "unlink" => \A m \in Media : Pending(adv'[b].found[m]) => m \in adv'[b].todo
                 /\ adv'[b].step = "verify" => Checked(b)'
      <3>1. CASE b = a
        BY <1>1, <3>1 DEF Checked
      <3>2. CASE b # a
        BY <1>1, <3>2 DEF Checked, DeletionInv, Advances
      <3> QED
        BY <3>1, <3>2
    <2> QED
      BY <2>1 DEF Advances
  <1> QED
    BY <1>2, <1>3, <1>4 DEF DeletionInv

LEMMA IdleType == Idle \in Advancement
  BY DEF Idle, NoEntries, NoEntry, Entries, Advancement

LEMMA StartKeeps ==
  ASSUME DeletionInv, NEW a \in Advance, NEW s \in Scope, StartAdvance(a, s)
  PROVE  DeletionInv'
  <1> PICK new : new = [step |-> "unlink", scope |-> s, todo |-> Retryable(s), ok |-> TRUE,
                        found |-> [m \in Media |-> IF m \in Retryable(s) THEN ledger[s][m] ELSE NoEntry]]
    OBVIOUS
  <1>1. new \in Advancement
    BY DEF Advancement, Retryable, NoEntry, Entries, DeletionInv, DeletionTypes
  <1>2. \A m \in Media : Pending(new.found[m]) => m \in new.todo
    BY DEF Pending, NoEntry
  <1> QED
    BY <1>1, <1>2, AdvanceMoves DEF StartAdvance, DeletionInv, DeletionTypes, mediaVars

LEMMA OutcomeKeeps ==
  ASSUME DeletionInv, NEW a \in Advance, NEW m \in Media,
         NEW state \in {"unlinked", "preserved", "blocked"},
         adv[a].step = "unlink", Outcome(a, m, state),
         UNCHANGED <<closed, inventory, op, ledger, locked>>,
         faults' \in 0..MaxFaults, restarts' \in 0..MaxRestart
  PROVE  DeletionInv'
  <1> PICK old : old = adv[a]
    OBVIOUS
  <1> PICK entry : entry = [state |-> state, attempts |-> adv[a].found[m].attempts + 1]
    OBVIOUS
  <1> PICK found : found = [old.found EXCEPT ![m] = entry]
    OBVIOUS
  <1> PICK new : new = [old EXCEPT !.todo = old.todo \ {m}, !.found = found]
    OBVIOUS
  <1>1. old \in Advancement
    BY AdvanceType
  <1>2. entry \in Entries /\ ~Pending(entry)
    BY <1>1 DEF Entries, Advancement, Pending
  <1>3. found \in [Media -> Entries]
    BY <1>1, <1>2 DEF Advancement
  <1>4. /\ new \in Advancement /\ new.todo = old.todo \ {m} /\ new.found = found
        /\ new.step = old.step /\ new.scope = old.scope
    BY <1>1, <1>3 DEF Advancement
  <1>5. adv' = [adv EXCEPT ![a] = new]
    BY DEF Outcome, DeletionInv, DeletionTypes
  <1>6. \A k \in Media : Pending(new.found[k]) => k \in new.todo
    BY <1>1, <1>2, <1>4 DEF DeletionInv, Advances, Advancement
  <1>7. new.step = "unlink" /\ new.scope \in Scope /\ op[new.scope] # "none"
    BY <1>4 DEF DeletionInv, Advances
  <1> QED
    BY <1>4, <1>5, <1>6, <1>7, AdvanceMoves

LEMMA VerifyKeeps ==
  ASSUME DeletionInv, NEW a \in Advance, NEW m \in Media, VerifyEntry(a, m)
  PROVE  DeletionInv'
  <1> PICK old : old = adv[a]
    OBVIOUS
  <1> PICK ok \in BOOLEAN : ok = (old.ok /\ Passes(old.scope, m, old.found[m]))
    OBVIOUS
  <1> PICK new : new = [old EXCEPT !.todo = old.todo \ {m}, !.ok = ok]
    OBVIOUS
  <1>1. old \in Advancement /\ old.step = "verify"
    BY AdvanceType DEF VerifyEntry
  <1>2. /\ new \in Advancement /\ new.todo = old.todo \ {m} /\ new.ok = ok
        /\ new.step = old.step /\ new.scope = old.scope /\ new.found = old.found
    BY <1>1 DEF Advancement
  <1>3. adv' = [adv EXCEPT ![a] = new]
    BY DEF VerifyEntry, DeletionInv, DeletionTypes
  <1>4. old.scope \in Scope /\ op[old.scope] # "none" /\ Checked(a)
    BY <1>1 DEF DeletionInv, Advances
  <1>5. ok => old.ok /\ (inventory[old.scope].left[m] = 0 => ~Pending(old.found[m]))
    <2>1. ok => old.ok /\ Passes(old.scope, m, old.found[m])
      OBVIOUS
    <2>2. Passes(old.scope, m, old.found[m]) /\ inventory[old.scope].left[m] = 0
            => old.found[m].state \in {"unlinked", "preserved"}
      BY DEF Passes
    <2> QED
      BY <2>1, <2>2 DEF Pending
  <1>6. ASSUME NEW k \in Media
        PROVE  /\ Pending(ledger[new.scope][k]) => Pending(new.found[k])
               /\ new.ok /\ inventory[new.scope].left[k] = 0 /\ k \notin new.todo => ~Pending(new.found[k])
    BY <1>2, <1>4, <1>5 DEF Checked
  <1>7. /\ UNCHANGED <<closed, inventory, op, ledger, locked>>
        /\ faults' \in 0..MaxFaults /\ restarts' \in 0..MaxRestart
        /\ new.step = "verify" /\ new.scope \in Scope /\ op[new.scope] # "none"
    BY <1>1, <1>2, <1>4 DEF VerifyEntry, mediaVars, DeletionInv, DeletionTypes
  <1> QED
    BY <1>2, <1>3, <1>6, <1>7, AdvanceMoves

\* what is appended to a ledger is never pending, so no entry becomes pending again
LEMMA AppendedEntries ==
  ASSUME DeletionInv, NEW a \in Advance, adv[a].step = "unlink", adv[a].todo = {},
         NEW s \in Scope, s = adv[a].scope
  PROVE  /\ Appended(s, a) \in [Media -> Entries]
         /\ \A m \in Media : Pending(Appended(s, a)[m]) => Pending(ledger[s][m])
  <1>1. adv[a].found \in [Media -> Entries] /\ ledger[s] \in [Media -> Entries]
    BY AdvanceType DEF Advancement, DeletionInv, DeletionTypes
  <1>2. \A m \in Media : ~Pending(adv[a].found[m])
    BY DEF DeletionInv, Advances
  <1> QED
    BY <1>1, <1>2 DEF Appended

LEMMA RecordKeeps ==
  ASSUME DeletionInv, NEW a \in Advance, RecordOutcomes(a)
  PROVE  DeletionInv'
  <1> PICK s : s = adv[a].scope
    OBVIOUS
  <1> DEFINE blocked == \E m \in Media : adv[a].found[m].state = "blocked"
  <1> PICK next : next = IF blocked THEN "cleanup_required" ELSE "verifying"
    OBVIOUS
  <1>1. /\ adv[a].step = "unlink" /\ adv[a].todo = {} /\ s \in Scope /\ op[s] # "none"
        /\ UNCHANGED <<closed, inventory, locked, faults, restarts>>
    BY DEF RecordOutcomes, DeletionInv, Advances, mediaVars
  <1>2. CASE ~Allowed(op[s], next)
    <2>1. adv' = [adv EXCEPT ![a] = Idle] /\ UNCHANGED <<op, ledger>>
      BY <1>2 DEF RecordOutcomes
    <2>2. Idle.step = "idle" /\ faults' \in 0..MaxFaults /\ restarts' \in 0..MaxRestart
      BY <1>1 DEF Idle, DeletionInv, DeletionTypes
    <2> QED
      BY <1>1, <2>1, <2>2, IdleType, AdvanceMoves
  <1>3. CASE Allowed(op[s], next)
    <2> PICK entries : entries = Appended(s, a)
      OBVIOUS
    <2> PICK new : new = IF blocked THEN Idle
                         ELSE [step |-> "verify", scope |-> s, found |-> entries, ok |-> TRUE,
                               todo |-> {m \in Media : inventory[s].left[m] >= 0}]
      OBVIOUS
    <2>1. /\ op' = [op EXCEPT ![s] = next] /\ ledger' = [ledger EXCEPT ![s] = entries]
          /\ adv' = [adv EXCEPT ![a] = new]
      BY <1>3 DEF RecordOutcomes
    <2>2. /\ entries \in [Media -> Entries]
          /\ \A m \in Media : Pending(entries[m]) => Pending(ledger[s][m])
      BY <1>1, AppendedEntries
    <2>3. /\ next \in {"cleanup_required", "verifying"} /\ op[s] \notin {"none", "verified"}
      BY <1>3 DEF Allowed
    <2>4. new \in Advancement
      BY <1>1, <2>2, IdleType DEF Advancement
    <2>5. DeletionTypes'
      BY <1>1, <2>1, <2>2, <2>3, <2>4 DEF DeletionInv, DeletionTypes, OpStates
    <2>6. /\ op'[s] = next /\ \A t \in Scope \ {s} : op'[t] = op[t] /\ ledger'[t] = ledger[t]
          /\ ledger'[s] = entries /\ adv'[a] = new /\ \A b \in Advance \ {a} : adv'[b] = adv[b]
      BY <1>1, <2>1 DEF DeletionInv, DeletionTypes
    <2>7. \A t \in Scope, m \in Media : Pending(ledger'[t][m]) => Pending(ledger[t][m])
      BY <2>2, <2>6
    <2>8. Operations' /\ VerifiedAreDone'
      BY <1>1, <2>3, <2>6, <2>7 DEF DeletionInv, Operations, VerifiedAreDone
    <2>9. Advances'
      <3>1. \A t \in Scope : op[t] # "none" => op'[t] # "none"
        BY <2>3, <2>6
      <3>2. ASSUME NEW b \in Advance \ {a}
            PROVE  /\ adv'[b].step # "idle" => adv'[b].scope \in Scope /\ op'[adv'[b].scope] # "none"
                   /\ adv'[b].step = "unlink" => \A m \in Media : Pending(adv'[b].found[m]) => m \in adv'[b].todo
                   /\ adv'[b].step = "verify" => Checked(b)'
        BY <1>1, <2>6, <2>7, <3>1 DEF DeletionInv, Advances, Checked
      <3>3. CASE blocked
        BY <2>6, <3>2, <3>3 DEF Idle, Advances
      <3>4. CASE ~blocked
        <4>1. /\ new.step = "verify" /\ new.scope = s /\ new.found = entries
              /\ new.todo = {m \in Media : inventory[s].left[m] >= 0}
          BY <3>4
        <4>2. /\ adv'[a].scope = s /\ adv'[a].found = entries /\ adv'[a].todo = new.todo
              /\ ledger'[s] = entries /\ inventory' = inventory
          BY <1>1, <2>6, <4>1
        <4>3. ASSUME NEW m \in Media, inventory[s].left[m] = 0 PROVE m \in new.todo
          BY <4>1, <4>3
        <4>4. Checked(a)'
          BY <4>2, <4>3 DEF Checked
        <4> QED
          BY <1>1, <2>3, <2>6, <3>2, <4>1, <4>4 DEF Advances
      <3> QED
        BY <3>3, <3>4
    <2> QED
      BY <2>5, <2>8, <2>9 DEF DeletionInv
  <1> QED
    BY <1>2, <1>3

LEMMA FinalizeKeeps ==
  ASSUME DeletionInv, NEW a \in Advance, Finalize(a)
  PROVE  DeletionInv'
  <1> PICK s : s = adv[a].scope
    OBVIOUS
  <1> PICK next : next = IF adv[a].ok THEN "verified" ELSE "cleanup_required"
    OBVIOUS
  <1>1. /\ adv[a].step = "verify" /\ adv[a].todo = {} /\ s \in Scope /\ op[s] # "none" /\ Checked(a)
        /\ adv' = [adv EXCEPT ![a] = Idle]
        /\ UNCHANGED <<closed, inventory, ledger, faults, restarts>>
    BY DEF Finalize, DeletionInv, Advances, mediaVars
  <1>2. Idle.step = "idle" /\ faults' \in 0..MaxFaults /\ restarts' \in 0..MaxRestart
    BY <1>1 DEF Idle, DeletionInv, DeletionTypes
  <1>3. CASE ~Allowed(op[s], next)
    <2>1. UNCHANGED <<op, locked>>
      BY <1>3 DEF Finalize
    <2> QED
      BY <1>1, <1>2, <2>1, IdleType, AdvanceMoves
  <1>4. CASE Allowed(op[s], next)
    <2>1. /\ op' = [op EXCEPT ![s] = next]
          /\ locked' = IF adv[a].ok THEN locked \ {s} ELSE locked
      BY <1>4 DEF Finalize
    <2>2. next \in {"verified", "cleanup_required"} /\ op[s] \notin {"none", "verified"}
          /\ (next = "verified" <=> adv[a].ok)
      BY <1>4, AdvanceType DEF Allowed, Advancement
    <2>3. DeletionTypes'
      BY <1>1, <1>2, <2>1, <2>2, IdleType DEF DeletionInv, DeletionTypes, OpStates
    <2>4. op'[s] = next /\ \A t \in Scope \ {s} : op'[t] = op[t]
      BY <1>1, <2>1 DEF DeletionInv, DeletionTypes
    <2>5. Operations'
      BY <1>1, <2>1, <2>2, <2>4 DEF DeletionInv, Operations
    <2>6. next = "verified" => \A m \in Media : ~Pending(ledger[s][m])
      BY <1>1, <2>2 DEF Checked, DeletionInv, Operations
    <2>7. VerifiedAreDone'
      BY <1>1, <2>4, <2>6 DEF DeletionInv, VerifiedAreDone
    <2>8. Advances'
      <3>1. adv'[a] = Idle /\ \A b \in Advance \ {a} : adv'[b] = adv[b]
        BY <1>1 DEF DeletionInv, DeletionTypes
      <3>2. \A t \in Scope : op[t] # "none" => op'[t] # "none"
        BY <2>2, <2>4
      <3>3. ASSUME NEW b \in Advance \ {a}
            PROVE  /\ adv'[b].step # "idle" => adv'[b].scope \in Scope /\ op'[adv'[b].scope] # "none"
                   /\ adv'[b].step = "unlink" => \A m \in Media : Pending(adv'[b].found[m]) => m \in adv'[b].todo
                   /\ adv'[b].step = "verify" => Checked(b)'
        BY <1>1, <3>1, <3>2 DEF DeletionInv, Advances, Checked
      <3> QED
        BY <3>1, <3>3, <1>2 DEF Advances, Idle
    <2> QED
      BY <2>3, <2>5, <2>7, <2>8 DEF DeletionInv
  <1> QED
    BY <1>3, <1>4

\* steps of the media store leave the operations alone
LEMMA OperationsStay ==
  ASSUME DeletionInv, UNCHANGED <<deletionVars, closed>>
  PROVE  DeletionInv'
  <1>1. /\ UNCHANGED <<inventory, op, ledger, adv, locked, faults, restarts, closed>>
    BY DEF deletionVars
  <1> QED
    BY <1>1 DEF DeletionInv, DeletionTypes, Operations, Advances, Checked, VerifiedAreDone

LEMMA InventoryKeeps ==
  ASSUME DeletionInv, MediaTypeOK, NEW s \in Scope, CreateInventory(s)
  PROVE  DeletionInv'
  <1>1. /\ inventory' = [inventory EXCEPT ![s] = Selected(s)] /\ op[s] = "none"
        /\ UNCHANGED <<op, ledger, adv, locked, faults, restarts, closed>>
    BY DEF CreateInventory, mediaVars, DeletionInv, Operations
  <1>2. DeletionTypes'
    BY <1>1, SelectedType DEF DeletionInv, DeletionTypes
  <1>3. \A t \in Scope \ {s} : inventory'[t] = inventory[t]
    BY <1>1 DEF DeletionInv, DeletionTypes
  <1>4. Operations' /\ VerifiedAreDone'
    BY <1>1, <1>3 DEF DeletionInv, Operations, VerifiedAreDone
  <1>5. Advances'
    BY <1>1, <1>3 DEF DeletionInv, Advances, Checked
  <1> QED
    BY <1>2, <1>4, <1>5 DEF DeletionInv

LEMMA ConfirmReleases ==
  ASSUME NEW s \in Scope, ConfirmDeletion(s)
  PROVE  Releases(s) /\ inventory[s] = Selected(s) /\ op[s] = "none"
  BY DEF ConfirmDeletion, Fresh, Selected, Releases

LEMMA ConfirmKeeps ==
  ASSUME DeletionInv, MediaTypeOK, NEW s \in Scope, ConfirmDeletion(s)
  PROVE  DeletionInv'
  <1> PICK entries : entries = UnlinksOf(s)
    OBVIOUS
  <1>1. /\ op[s] = "none" /\ closed' = closed \cup {s} /\ locked' = locked \cup {s}
        /\ ledger' = [ledger EXCEPT ![s] = entries] /\ op' = [op EXCEPT ![s] = "unlinking"]
        /\ UNCHANGED <<inventory, adv, faults, restarts>>
    BY DEF ConfirmDeletion
  <1>2. /\ entries \in [Media -> Entries]
        /\ \A m \in Media : Pending(entries[m]) => inventory[s].left[m] = 0
    BY DEF UnlinksOf, NoEntry, Entries, Pending
  <1>3. DeletionTypes'
    BY <1>1, <1>2 DEF DeletionInv, DeletionTypes, OpStates
  <1>4. /\ op'[s] = "unlinking" /\ ledger'[s] = entries
        /\ \A t \in Scope \ {s} : op'[t] = op[t] /\ ledger'[t] = ledger[t]
    BY <1>1 DEF DeletionInv, DeletionTypes
  <1>5. Operations'
    BY <1>1, <1>2, <1>4 DEF DeletionInv, Operations
  <1>6. Advances'
    BY <1>1, <1>4 DEF DeletionInv, Advances, Checked
  <1>7. VerifiedAreDone'
    BY <1>4 DEF DeletionInv, VerifiedAreDone
  <1> QED
    BY <1>3, <1>5, <1>6, <1>7 DEF DeletionInv

\* an unlink touches a file, never a row or a document
LEMMA UnlinkKeeps ==
  ASSUME DeletionInv, NEW a \in Advance, NEW m \in Media, UnlinkEntry(a, m) \/ UnlinkFails(a, m)
  PROVE  DeletionInv' /\ UNCHANGED <<row, doc, up, held, closed>> /\ file' \subseteq file
  <1>1. faults \in 0..MaxFaults /\ restarts \in 0..MaxRestart
    BY DEF DeletionInv, DeletionTypes
  <1>2. CASE UnlinkEntry(a, m)
    <2>1. /\ UNCHANGED <<row, doc, up, held, closed, inventory, op, ledger, locked, faults, restarts>>
          /\ adv[a].step = "unlink" /\ file' \subseteq file
          /\ Outcome(a, m, "preserved") \/ Outcome(a, m, "unlinked")
      BY <1>2 DEF UnlinkEntry
    <2> QED
      BY <1>1, <2>1, OutcomeKeeps
  <1>3. CASE UnlinkFails(a, m)
    <2>1. /\ UNCHANGED <<row, file, doc, up, held, closed, inventory, op, ledger, locked, restarts>>
          /\ adv[a].step = "unlink" /\ Outcome(a, m, "blocked")
          /\ faults' = faults + 1 /\ faults < MaxFaults
      BY <1>3 DEF UnlinkFails, mediaVars
    <2>2. faults' \in 0..MaxFaults
      BY <1>1, <2>1, DeletionBounds
    <2> QED
      BY <1>1, <2>1, <2>2, OutcomeKeeps
  <1> QED
    BY <1>2, <1>3

LEMMA DeletionRestartKeeps ==
  ASSUME DeletionInv, Restart
  PROVE  DeletionInv'
  <1>1. /\ restarts' \in 0..MaxRestart
    BY DeletionBounds DEF Restart, DeletionInv, DeletionTypes
  <1>2. \A a \in Advance : adv'[a] = Idle
    BY DEF Restart
  <1>3. UNCHANGED <<inventory, op, ledger, locked, faults, closed>>
    BY DEF Restart, MediaRestart
  <1>4. DeletionTypes'
    BY <1>1, <1>3, IdleType DEF Restart, DeletionInv, DeletionTypes
  <1>5. Advances'
    BY <1>2 DEF Advances, Idle
  <1> QED
    BY <1>3, <1>4, <1>5 DEF DeletionInv, Operations, VerifiedAreDone

\* a step that changes no row, no document and no producer, and at most removes files
LEMMA MediaStays ==
  ASSUME MediaInv, NEW extra, CountedWith(extra), UNCHANGED <<row, doc, up, held, closed>>,
         file' \subseteq file
  PROVE  MediaInv' /\ CountedWith(extra)' /\ RowsStay
  BY DEF MediaInv, MediaTypeOK, RowsAreNamed, DocumentsAreCommitted, ClosedAreEmpty, Documents,
         CountedWith, Users, HasRow, Indexed, RowsStay
-----------------------------------------------------------------------------
(***************************************************************************)
(* Files.  The discard of a refused commit looks for a row and removes the *)
(* file after an await, so two producers of one content that do not hold   *)
(* its lock can leave a row without a file.  Where contents are made by    *)
(* one producer, or by producers that hold the lock of the checksum, no    *)
(* row is ever without its file.                                           *)
(***************************************************************************)
MadeApart ==
  \A u, v \in Upload : ContentOf(u) = ContentOf(v) /\ UploadOf[u].protocol # "put" => u = v

RowsHaveFiles == \A c \in Content : Indexed(c) => c \in file
WritesAreThere == \A u \in Upload : up[u].at = "written" => ContentOf(u) \in file
PutsLock ==
  \A u \in Upload : UploadOf[u].protocol = "put" =>
    /\ up[u].at \in {"writing", "written"} => held[ContentOf(u)] = u
    /\ up[u].at # "removing"
\* only the media of a producer that has committed has a row or is ever to be unlinked
RowsAreMade == \A c \in Content : Indexed(c) => up[row[c].id].at = "ended"
Unlisted(m) ==
  /\ \A s \in Scope : ~(inventory[s].left[m] >= 0) /\ ledger[s][m] = NoEntry
  /\ \A a \in Advance : adv[a].step = "unlink" => m \notin adv[a].todo /\ adv[a].found[m] = NoEntry
UnlinksAreMade == \A m \in Media : up[m].at # "ended" => Unlisted(m)

FileInv == RowsHaveFiles /\ WritesAreThere /\ PutsLock /\ RowsAreMade /\ UnlinksAreMade

LEMMA ProduceKeepsFiles ==
  ASSUME MadeApart, MediaInv, FileInv, NEW u \in Upload, Produce(u), UNCHANGED deletionVars
  PROVE  FileInv'
  <1> DEFINE c == ContentOf(u)
  <1>1. c \in Content /\ u \in Media /\ u # None
    BY UploadType DEF Media
  <1>2. /\ \A v \in Upload \ {u} : up'[v] = up[v]
        /\ up[u].at # "ended"
        /\ UNCHANGED <<inventory, op, ledger, adv>>
    BY DEF Produce, BeginPrepare, WriteFile, WriteFails, CommitPrepared, DiscardPrepared, RemoveFile, Enter,
           MediaInv, MediaTypeOK, deletionVars
  <1>3. UnlinksAreMade'
    BY <1>2 DEF FileInv, UnlinksAreMade, Unlisted, Media
  <1>4. PutsLock'
    <2>1. ASSUME NEW v \in Upload, UploadOf[v].protocol = "put"
          PROVE  (up'[v].at \in {"writing", "written"} => held'[ContentOf(v)] = v) /\ up'[v].at # "removing"
      <3>1. ContentOf(v) \in Content
        BY UploadType
      <3>2. CASE BeginPrepare(u)
        <4>1. CASE v = u
          BY <1>1, <2>1, <3>2, <4>1 DEF BeginPrepare, MediaInv, MediaTypeOK
        <4>2. CASE v # u
          <5>1. up'[v] = up[v]
            BY <1>2, <4>2
          <5>2. \/ UNCHANGED held
                \/ held[c] = None /\ held' = [held EXCEPT ![c] = u]
            BY <3>2 DEF BeginPrepare
          <5>3. v # None
            BY UploadType
          <5> QED
            BY <1>1, <2>1, <3>1, <5>1, <5>2, <5>3 DEF FileInv, PutsLock, MediaInv, MediaTypeOK
        <4> QED
          BY <4>1, <4>2
      <3>3. CASE WriteFile(u)
        BY <2>1, <3>1, <3>3 DEF WriteFile, Enter, FileInv, PutsLock, MediaInv, MediaTypeOK
      <3>4. CASE WriteFails(u) \/ CommitPrepared(u) \/ DiscardPrepared(u)
        <4>1. held' = Unlocked(u)
          BY <3>4 DEF WriteFails, CommitPrepared, DiscardPrepared
        <4>2. CASE v = u
          BY <2>1, <3>4, <4>2 DEF WriteFails, CommitPrepared, DiscardPrepared, Enter, MediaInv, MediaTypeOK
        <4>3. CASE v # u
          BY <1>2, <2>1, <3>1, <4>1, <4>3 DEF Unlocked, FileInv, PutsLock
        <4> QED
          BY <4>2, <4>3
      <3>5. CASE RemoveFile(u)
        BY <2>1, <3>5 DEF RemoveFile, Enter, FileInv, PutsLock, MediaInv, MediaTypeOK
      <3> QED
        BY <3>2, <3>3, <3>4, <3>5 DEF Produce
    <2> QED
      BY <2>1 DEF PutsLock
  <1>5. CASE CommitPrepared(u)
    <2> PICK new : new = Referenced(u)
      OBVIOUS
    <2>1. /\ up[u].at = "written" /\ row' = [row EXCEPT ![c] = new]
          /\ up' = [up EXCEPT ![u].at = "ended"] /\ UNCHANGED file
      BY <1>5 DEF CommitPrepared, Enter
    <2>2. up'[u].at = "ended" /\ row'[c] = new /\ \A d \in Content \ {c} : row'[d] = row[d]
      BY <1>1, <2>1 DEF MediaInv, MediaTypeOK
    <2>3. Indexed(c) => new.id = row[c].id
      BY <1>1, RowType DEF Referenced, MediaInv, Rows
    <2>4. ~Indexed(c) => new.id = u
      BY DEF Referenced
    <2>5. \A m \in Media : up[m].at = "ended" => up'[m].at = "ended"
      BY <1>2 DEF Media
    <2>6. RowsAreMade'
      <3> SUFFICES ASSUME NEW d \in Content, Indexed(d)' PROVE up'[row'[d].id].at = "ended"
        BY DEF RowsAreMade
      <3>1. CASE d = c
        <4>1. CASE Indexed(c)
          BY <1>1, <2>2, <2>3, <2>5, <3>1, <4>1, RowType DEF FileInv, RowsAreMade, MediaInv
        <4>2. CASE ~Indexed(c)
          BY <2>2, <2>4, <3>1, <4>2
        <4> QED
          BY <4>1, <4>2
      <3>2. CASE d # c
        <4>1. Indexed(d) /\ row'[d] = row[d]
          BY <2>2, <3>2 DEF Indexed
        <4> QED
          BY <2>5, <4>1, RowType DEF FileInv, RowsAreMade, MediaInv
      <3> QED
        BY <3>1, <3>2
    <2>7. RowsHaveFiles' /\ WritesAreThere'
      BY <1>1, <1>2, <2>1, <2>2 DEF FileInv, RowsHaveFiles, WritesAreThere, Indexed
    <2> QED
      BY <1>3, <1>4, <2>6, <2>7 DEF FileInv
  <1>6. CASE BeginPrepare(u) \/ WriteFile(u) \/ WriteFails(u) \/ DiscardPrepared(u)
    <2>1. UNCHANGED row /\ file \subseteq file' /\ (up'[u].at = "written" => c \in file')
      BY <1>6 DEF BeginPrepare, WriteFile, WriteFails, DiscardPrepared, Enter, MediaInv, MediaTypeOK
    <2>2. RowsAreMade'
      <3>1. \A m \in Media : up[m].at = "ended" => up'[m].at = "ended"
        BY <1>2 DEF Media
      <3> QED
        BY <2>1, <3>1, RowType DEF FileInv, RowsAreMade, Indexed, MediaInv
    <2>3. RowsHaveFiles' /\ WritesAreThere'
      BY <1>2, <2>1 DEF FileInv, RowsHaveFiles, WritesAreThere, Indexed
    <2> QED
      BY <1>3, <1>4, <2>2, <2>3 DEF FileInv
  <1>7. CASE RemoveFile(u)
    <2>1. /\ up[u].at = "removing" /\ UNCHANGED row /\ file' = file \ {c} /\ up'[u].at = "ended"
      BY <1>7 DEF RemoveFile, Enter, MediaInv, MediaTypeOK
    <2>2. UploadOf[u].protocol # "put"
      BY <2>1 DEF FileInv, PutsLock
    <2>3. \A v \in Upload : ContentOf(v) = c => v = u
      BY <2>2 DEF MadeApart
    <2>4. ~Indexed(c)
      <3> SUFFICES ASSUME Indexed(c) PROVE FALSE
        OBVIOUS
      <3>1. row[c].id = u
        BY <1>1, <2>3, RowType DEF MediaInv, RowsAreNamed, Media
      <3> QED
        BY <1>1, <2>1, <3>1 DEF FileInv, RowsAreMade
    <2>5. RowsAreMade'
      <3>1. \A m \in Media : up[m].at = "ended" => up'[m].at = "ended"
        BY <1>2 DEF Media
      <3> QED
        BY <2>1, <3>1, RowType DEF FileInv, RowsAreMade, Indexed, MediaInv
    <2>6. RowsHaveFiles'
      BY <2>1, <2>4 DEF FileInv, RowsHaveFiles, Indexed
    <2>7. WritesAreThere'
      BY <1>2, <2>1, <2>3 DEF FileInv, WritesAreThere
    <2> QED
      BY <1>3, <1>4, <2>5, <2>6, <2>7 DEF FileInv
  <1> QED
    BY <1>5, <1>6, <1>7 DEF Produce

\* a step that may drop rows and changes neither producers nor what is to be unlinked
LEMMA FilesStay ==
  ASSUME FileInv, UNCHANGED <<file, up, held>>, UnlinksAreMade',
         \A c \in Content : Indexed(c)' => Indexed(c) /\ row'[c].id = row[c].id
  PROVE  FileInv'
  BY DEF FileInv, RowsHaveFiles, WritesAreThere, PutsLock, RowsAreMade

LEMMA ListKeepsFiles ==
  ASSUME FileInv, MediaInv, DeletionInv, NEW extra, CountedWith(extra), NEW s \in Scope, CreateInventory(s)
  PROVE  FileInv'
  <1> PICK new : new = Selected(s)
    OBVIOUS
  <1>1. /\ UNCHANGED <<row, file, up, held, ledger, adv>> /\ inventory' = [inventory EXCEPT ![s] = new]
    BY DEF CreateInventory, mediaVars
  <1>2. ASSUME NEW m \in Media, up[m].at # "ended" PROVE ~(new.left[m] >= 0)
    <2>1. m \notin MediaOf(Documents(s))
      <3> SUFFICES ASSUME NEW u \in Documents(s), doc[u] = m PROVE FALSE
        BY DEF MediaOf
      <3>1. ContentOf(m) \in Content /\ Indexed(ContentOf(m)) /\ row[ContentOf(m)].id = m
        BY UsersOfRows DEF Documents
      <3> QED
        BY <1>2, <3>1 DEF FileInv, RowsAreMade
    <2>2. new.left[m] = -1
      BY <2>1 DEF Selected
    <2> QED
      BY <2>2
  <1>3. UnlinksAreMade'
    BY <1>1, <1>2 DEF FileInv, UnlinksAreMade, Unlisted, DeletionInv, DeletionTypes
  <1> QED
    BY <1>1, <1>3, FilesStay DEF Indexed

LEMMA ConfirmKeepsFiles ==
  ASSUME FileInv, DeletionInv, NEW s \in Scope, ConfirmDeletion(s),
         \A c \in Content : Indexed(c)' => Indexed(c) /\ row'[c].id = row[c].id
  PROVE  FileInv'
  <1> PICK entries : entries = UnlinksOf(s)
    OBVIOUS
  <1>1. UNCHANGED <<file, up, held, inventory, adv>> /\ ledger' = [ledger EXCEPT ![s] = entries]
    BY DEF ConfirmDeletion
  <1>2. ASSUME NEW m \in Media, up[m].at # "ended" PROVE entries[m] = NoEntry
    <2>1. inventory[s].left[m] # 0
      BY <1>2 DEF FileInv, UnlinksAreMade, Unlisted
    <2> QED
      BY <2>1 DEF UnlinksOf
  <1>3. UnlinksAreMade'
    BY <1>1, <1>2 DEF FileInv, UnlinksAreMade, Unlisted, DeletionInv, DeletionTypes
  <1> QED
    BY <1>1, <1>3, FilesStay

\* an unlink waits for the lock of the checksum and finds no row
LEMMA UnlinkKeepsFiles ==
  ASSUME MadeApart, FileInv, MediaInv, DeletionInv, NEW a \in Advance, NEW m \in Media,
         UnlinkEntry(a, m) \/ UnlinkFails(a, m)
  PROVE  FileInv'
  <1> DEFINE c == ContentOf(m)
  <1>1. c \in Content /\ up[m].at = "ended" /\ adv[a].step = "unlink" /\ adv[a] \in Advancement
    BY UploadType, AdvanceType DEF UnlinkEntry, UnlinkFails, FileInv, UnlinksAreMade, Unlisted, Media
  <1>2. UNCHANGED <<row, up, held, inventory, ledger>>
    BY DEF UnlinkEntry, UnlinkFails, mediaVars
  <1>3. ASSUME NEW v \in Upload, ContentOf(v) = c, held[c] = None PROVE up[v].at # "written"
    <2>1. CASE UploadOf[v].protocol = "put"
      BY <1>3, <2>1, UploadType DEF FileInv, PutsLock
    <2>2. CASE UploadOf[v].protocol # "put"
      <3>1. v = m
        BY <1>3, <2>2 DEF MadeApart, Media
      <3> QED
        BY <1>1, <3>1
    <2> QED
      BY <2>1, <2>2
  <1>4. RowsHaveFiles' /\ WritesAreThere'
    <2>1. CASE UNCHANGED file
      BY <1>2, <2>1 DEF FileInv, RowsHaveFiles, WritesAreThere, Indexed
    <2>2. CASE file' # file
      <3>1. ~Indexed(c) /\ file' = file \ {c} /\ held[c] = None
        BY <2>2 DEF UnlinkEntry, UnlinkFails, Preserved, mediaVars
      <3>2. RowsHaveFiles'
        BY <1>2, <3>1 DEF FileInv, RowsHaveFiles, Indexed
      <3>3. WritesAreThere'
        BY <1>2, <1>3, <3>1 DEF FileInv, WritesAreThere
      <3> QED
        BY <3>2, <3>3
    <2> QED
      BY <2>1, <2>2
  <1>5. UnlinksAreMade'
    <2> SUFFICES ASSUME NEW n \in Media, up[n].at # "ended" PROVE Unlisted(n)'
      BY <1>2 DEF UnlinksAreMade
    <2>1. n # m /\ Unlisted(n)
      BY <1>1 DEF FileInv, UnlinksAreMade
    <2> PICK todo : todo = adv[a].todo \ {m}
      OBVIOUS
    <2>2. \E state : Outcome(a, m, state)
      BY DEF UnlinkEntry, UnlinkFails
    <2>3. PICK entry : adv' = [adv EXCEPT ![a].todo = todo, ![a].found = [adv[a].found EXCEPT ![m] = entry]]
      BY <2>2 DEF Outcome
    <2> PICK found : found = [adv[a].found EXCEPT ![m] = entry]
      OBVIOUS
    <2>4. adv' = [adv EXCEPT ![a].todo = todo, ![a].found = found]
      BY <2>3
    <2>5. found[n] = adv[a].found[n]
      BY <1>1, <2>1 DEF Advancement
    <2>6. /\ adv'[a].step = "unlink" /\ adv'[a].todo = todo /\ adv'[a].found = found
          /\ \A b \in Advance \ {a} : adv'[b] = adv[b]
      BY <1>1, <2>4 DEF DeletionInv, DeletionTypes, Advancement
    <2>7. n \notin todo
      BY <1>1, <2>1 DEF Unlisted
    <2>8. found[n] = NoEntry
      BY <1>1, <2>1, <2>5 DEF Unlisted
    <2> QED
      BY <1>2, <2>1, <2>6, <2>7, <2>8 DEF Unlisted
  <1> QED
    BY <1>2, <1>4, <1>5 DEF FileInv, PutsLock, RowsAreMade, Indexed

LEMMA AdvanceKeepsFiles ==
  ASSUME FileInv, DeletionInv, NEW a \in Advance,
         \/ \E m \in Media : VerifyEntry(a, m)
         \/ \E s \in Scope : StartAdvance(a, s)
         \/ RecordOutcomes(a) \/ Finalize(a)
  PROVE  FileInv'
  <1>1. UNCHANGED <<row, file, up, held, inventory>>
    BY DEF VerifyEntry, StartAdvance, RecordOutcomes, Finalize, mediaVars
  <1> SUFFICES ASSUME NEW n \in Media, up[n].at # "ended" PROVE Unlisted(n)'
    BY <1>1, FilesStay DEF UnlinksAreMade, Indexed
  <1>2. Unlisted(n)
    BY DEF FileInv, UnlinksAreMade
  <1>3. CASE \E m \in Media : VerifyEntry(a, m)
    <2> PICK m \in Media : VerifyEntry(a, m)
      BY <1>3
    <2>1. UNCHANGED ledger /\ adv'[a].step = adv[a].step /\ adv[a].step = "verify"
          /\ \A b \in Advance \ {a} : adv'[b] = adv[b]
      BY AdvanceType DEF VerifyEntry, DeletionInv, DeletionTypes, Advancement
    <2> QED
      BY <1>1, <1>2, <2>1 DEF Unlisted
  <1>4. CASE \E s \in Scope : StartAdvance(a, s)
    <2> PICK s \in Scope : StartAdvance(a, s)
      BY <1>4
    <2>1. n \notin Retryable(s)
      BY <1>2 DEF Retryable, Unlisted, NoEntry
    <2>2. UNCHANGED ledger /\ n \notin adv'[a].todo /\ adv'[a].found[n] = NoEntry
          /\ \A b \in Advance \ {a} : adv'[b] = adv[b]
      BY <2>1 DEF StartAdvance, DeletionInv, DeletionTypes
    <2> QED
      BY <1>1, <1>2, <2>2 DEF Unlisted
  <1>5. CASE Finalize(a)
    <2>1. UNCHANGED ledger /\ adv'[a].step = "idle" /\ \A b \in Advance \ {a} : adv'[b] = adv[b]
      BY <1>5 DEF Finalize, DeletionInv, DeletionTypes, Idle
    <2> QED
      BY <1>1, <1>2, <2>1 DEF Unlisted
  <1>6. CASE RecordOutcomes(a)
    <2> PICK s : s = adv[a].scope
      OBVIOUS
    <2>1. adv[a].step = "unlink"
      BY <1>6 DEF RecordOutcomes
    <2>2. adv'[a].step # "unlink" /\ \A b \in Advance \ {a} : adv'[b] = adv[b]
      BY <1>6 DEF RecordOutcomes, DeletionInv, DeletionTypes, Idle
    <2>3. \/ UNCHANGED ledger
          \/ ledger' = [ledger EXCEPT ![s] = Appended(s, a)]
      BY <1>6 DEF RecordOutcomes
    <2>4. s \in Scope => Appended(s, a)[n] = NoEntry
      BY <1>2, <2>1 DEF Appended, Unlisted
    <2>5. \A t \in Scope : ledger'[t][n] = NoEntry
      BY <1>2, <2>3, <2>4 DEF Unlisted, DeletionInv, DeletionTypes
    <2> QED
      BY <1>1, <1>2, <2>2, <2>5 DEF Unlisted
  <1> QED
    BY <1>3, <1>4, <1>5, <1>6

LEMMA RestartKeepsFiles ==
  ASSUME FileInv, MediaInv, Restart
  PROVE  FileInv'
  <1>1. /\ UNCHANGED <<row, inventory, ledger>> /\ file' = file \ Collected
        /\ \A a \in Advance : adv'[a].step = "idle"
        /\ up' = [u \in Upload |-> IF up[u].at = "idle" THEN up[u] ELSE [up[u] EXCEPT !.at = "ended"]]
    BY DEF Restart, MediaRestart, Idle
  <1>2. \A u \in Upload : /\ up[u].at = "ended" => up'[u].at = "ended"
                          /\ up'[u].at \in {"idle", "ended"}
    BY <1>1 DEF MediaInv, MediaTypeOK
  <1>3. RowsAreMade'
    BY <1>1, <1>2, RowType DEF FileInv, RowsAreMade, Indexed, MediaInv, Media
  <1>4. UnlinksAreMade'
    BY <1>1, <1>2 DEF FileInv, UnlinksAreMade, Unlisted, Media
  <1>5. RowsHaveFiles'
    BY <1>1 DEF FileInv, RowsHaveFiles, Collected, Indexed
  <1> QED
    BY <1>2, <1>3, <1>4, <1>5 DEF FileInv, WritesAreThere, PutsLock

LEMMA FilesInit == ASSUME Init PROVE FileInv
  <1>1. \A m \in Media : Unlisted(m)
    BY DEF Init, Unlisted, NoInventory, NoEntries, Idle
  <1> QED
    BY <1>1 DEF Init, MediaInit, FileInv, RowsHaveFiles, WritesAreThere, PutsLock, RowsAreMade, UnlinksAreMade, Indexed

-----------------------------------------------------------------------------
(***************************************************************************)
(* The invariant of a system of producers and deletions.                   *)
(***************************************************************************)
LEMMA NoExtraType == NoExtra \in Extras /\ NoExtra' = NoExtra
  BY DEF NoExtra, Extras

LEMMA MediaInitInv == ASSUME MediaInit, NEW extra PROVE MediaInv /\ CountedWith(extra)
  <1>1. MediaTypeOK
    BY DEF MediaInit, MediaTypeOK, Stages
  <1> QED
    BY <1>1 DEF MediaInit, MediaInv, RowsAreNamed, DocumentsAreCommitted, ClosedAreEmpty, CountedWith, Indexed

LEMMA DeletionInitInv ==
  ASSUME Init
  PROVE  DeletionInv
  <1>1. NoInventory \in Inventories /\ NoEntries \in [Media -> Entries]
    BY DEF NoInventory, Inventories, NoEntries, NoEntry, Entries
  <1>2. DeletionTypes
    BY <1>1, IdleType, DeletionBounds DEF Init, DeletionTypes, OpStates
  <1>3. \A s \in Scope, m \in Media : ~Pending(ledger[s][m])
    BY DEF Init, NoEntries, NoEntry, Pending
  <1>4. Operations /\ VerifiedAreDone
    BY <1>3 DEF Init, MediaInit, Operations, VerifiedAreDone
  <1>5. Advances
    BY DEF Init, Advances, Idle
  <1> QED
    BY <1>2, <1>4, <1>5 DEF DeletionInv

LEMMA NextInv == Inv /\ [Next]_vars => Inv'
  <1> SUFFICES ASSUME Inv, [Next]_vars PROVE Inv'
    OBVIOUS
  <1> USE NoExtraType
  <1>1. MediaInv /\ MediaTypeOK /\ CountedWith(NoExtra) /\ DeletionInv
    BY DEF Inv, MediaInv
  <1>2. CASE Producer
    <2> PICK u \in Upload : Produce(u) /\ UNCHANGED deletionVars
      BY <1>2 DEF Producer
    <2>1. UNCHANGED closed
      BY DEF Produce, BeginPrepare, WriteFile, WriteFails, CommitPrepared, DiscardPrepared, RemoveFile
    <2> QED
      BY <1>1, <2>1, ProduceKeeps, OperationsStay DEF Inv
  <1>3. ASSUME NEW s \in Scope, CreateInventory(s) PROVE Inv'
    BY <1>1, <1>3, InventoryKeeps, MediaStays DEF Inv, CreateInventory, mediaVars
  <1>4. ASSUME NEW s \in Scope, ConfirmDeletion(s) PROVE Inv'
    BY <1>1, <1>4, ConfirmKeeps, ConfirmReleases, ReleaseKeeps DEF Inv
  <1>5. ASSUME NEW a \in Advance, NEW m \in Media, UnlinkEntry(a, m) \/ UnlinkFails(a, m) PROVE Inv'
    BY <1>1, <1>5, UnlinkKeeps, MediaStays DEF Inv
  <1>6. ASSUME NEW a \in Advance,
               \/ \E m \in Media : VerifyEntry(a, m)
               \/ \E s \in Scope : StartAdvance(a, s)
               \/ RecordOutcomes(a) \/ Finalize(a)
        PROVE  Inv'
    <2>1. UNCHANGED mediaVars
      BY <1>6 DEF VerifyEntry, StartAdvance, RecordOutcomes, Finalize
    <2>2. DeletionInv'
      BY <1>1, <1>6, VerifyKeeps, StartKeeps, RecordKeeps, FinalizeKeeps
    <2> QED
      BY <1>1, <2>1, <2>2, MediaStays DEF Inv, mediaVars
  <1>7. CASE Restart
    BY <1>1, <1>7, DeletionRestartKeeps, MediaRestartKeeps DEF Inv, Restart
  <1>8. CASE UNCHANGED vars
    BY <1>1, <1>8, OperationsStay, MediaStays DEF Inv, vars, mediaVars
  <1> QED
    BY <1>2, <1>3, <1>4, <1>5, <1>6, <1>7, <1>8 DEF Next, Operator, Cleanup, Advancing

LEMMA InvAlways == Spec => []Inv
  <1>1. Init => Inv
    BY MediaInitInv, DeletionInitInv DEF Init, Inv
  <1> QED
    BY <1>1, NextInv, PTL DEF Spec

(***************************************************************************)
(* Every media row counts exactly the documents that reference it and is   *)
(* there for each of them, whatever commits, releases and discards of any  *)
(* number of producers and deletions come between.                         *)
(***************************************************************************)
THEOREM EveryReferenceIsCounted == Spec => []ReferencesCounted
  <1>1. Inv => ReferencesCounted
    <2> SUFFICES ASSUME Inv PROVE ReferencesCounted
      OBVIOUS
    <2>1. ASSUME NEW c \in Content, Indexed(c)
          PROVE  row[c].refs = Cardinality({u \in Upload : doc[u] = row[c].id}) /\ row[c].refs > 0
      <3>1. row[c].refs = Cardinality(Users(row[c].id)) + 0 /\ row[c].refs > 0
        BY <2>1 DEF Inv, CountedWith, NoExtra
      <3>2. Cardinality(Users(row[c].id)) \in Nat
        BY UsersAreFinite
      <3> QED
        BY <3>1, <3>2 DEF Users
    <2> QED
      BY <2>1 DEF Inv, CountedWith, ReferencesCounted
  <1> QED
    BY <1>1, InvAlways, PTL

(***************************************************************************)
(* A deletion is reported as verified only when its scope has no document  *)
(* left and no unlink is pending, though several advances record, verify   *)
(* and fail at the same time and a restart may interrupt them.             *)
(***************************************************************************)
THEOREM VerifiedIsRemoved == Spec => []VerifiedMeansRemoved
  <1>1. Inv => VerifiedMeansRemoved
    BY DEF Inv, MediaInv, ClosedAreEmpty, DeletionInv, Operations, VerifiedAreDone, Pending, VerifiedMeansRemoved
  <1> QED
    BY <1>1, InvAlways, PTL


LEMMA NextFiles ==
  ASSUME MadeApart
  PROVE  Inv /\ FileInv /\ [Next]_vars => FileInv'
  <1> SUFFICES ASSUME Inv, FileInv, [Next]_vars PROVE FileInv'
    OBVIOUS
  <1>1. MediaInv /\ CountedWith(NoExtra) /\ DeletionInv /\ NoExtra \in Extras
    BY NoExtraType DEF Inv
  <1>2. CASE Producer
    BY <1>1, <1>2, ProduceKeepsFiles DEF Producer
  <1>3. ASSUME NEW s \in Scope, CreateInventory(s) PROVE FileInv'
    BY <1>1, <1>3, ListKeepsFiles
  <1>4. ASSUME NEW s \in Scope, ConfirmDeletion(s) PROVE FileInv'
    <2>1. \A c \in Content : Indexed(c)' => Indexed(c) /\ row'[c].id = row[c].id
      BY <1>1, <1>4, ConfirmReleases, ReleaseKeeps
    <2> QED
      BY <1>1, <1>4, <2>1, ConfirmKeepsFiles
  <1>5. ASSUME NEW a \in Advance, Advancing(a) \/ \E s \in Scope : StartAdvance(a, s) PROVE FileInv'
    BY <1>1, <1>5, UnlinkKeepsFiles, AdvanceKeepsFiles DEF Advancing
  <1>6. CASE Restart
    BY <1>1, <1>6, RestartKeepsFiles
  <1>7. CASE UNCHANGED vars
    BY <1>7, FilesStay DEF vars, mediaVars, deletionVars, FileInv, UnlinksAreMade, Unlisted, Indexed
  <1> QED
    BY <1>2, <1>3, <1>4, <1>5, <1>6, <1>7 DEF Next, Operator, Cleanup

(***************************************************************************)
(* No row is without its file, whatever deletions unlink and producers     *)
(* discard meanwhile, where a content has one producer or producers that   *)
(* hold the lock of its checksum.  Without that condition a late discard   *)
(* removes the file of a row committed during its await.                   *)
(***************************************************************************)
THEOREM FilesOutliveDeletions ==
  ASSUME MadeApart
  PROVE  Spec => []RowsHaveFiles
  <1>1. Init => FileInv
    BY FilesInit
  <1>2. FileInv => RowsHaveFiles
    BY DEF FileInv
  <1> QED
    BY <1>1, <1>2, NextFiles, InvAlways, PTL DEF Spec


(***************************************************************************)
(* Whatever is under way, a file with a row is removed by no step but the  *)
(* late one of a discard: advances look for a row of the content, not of   *)
(* the media, in the step that unlinks, and a restart collects only what   *)
(* no row names.                                                           *)
(***************************************************************************)
THEOREM LiveMediaAreSpared == Spec => CleanupSparesLiveMedia
  <1> DEFINE Spares == \A c \in file \ file' :
               Indexed(c) => \E u \in Upload : ContentOf(u) = c /\ RemoveFile(u)
  <1>1. ASSUME [Next]_vars PROVE Spares
    <2>1. ASSUME NEW u \in Upload, Produce(u) PROVE Spares
      <3>1. CASE RemoveFile(u)
        BY <3>1 DEF RemoveFile
      <3>2. CASE ~RemoveFile(u)
        BY <2>1, <3>2 DEF Produce, BeginPrepare, WriteFile, WriteFails, CommitPrepared, DiscardPrepared
      <3> QED
        BY <3>1, <3>2
    <2>2. ASSUME NEW s \in Scope, CreateInventory(s) \/ ConfirmDeletion(s) PROVE Spares
      BY <2>2 DEF CreateInventory, ConfirmDeletion, mediaVars
    <2>3. ASSUME NEW a \in Advance, NEW m \in Media, UnlinkEntry(a, m) PROVE Spares
      BY <2>3 DEF UnlinkEntry, Preserved
    <2>4. ASSUME NEW a \in Advance,
                 \/ RecordOutcomes(a) \/ Finalize(a)
                 \/ \E m \in Media : UnlinkFails(a, m) \/ VerifyEntry(a, m)
                 \/ \E s \in Scope : StartAdvance(a, s)
          PROVE  Spares
      BY <2>4 DEF RecordOutcomes, Finalize, UnlinkFails, VerifyEntry, StartAdvance, mediaVars
    <2>5. CASE Restart
      BY <2>5 DEF Restart, MediaRestart, Collected
    <2>6. CASE UNCHANGED vars
      BY <2>6 DEF vars, mediaVars
    <2> QED
      BY <1>1, <2>1, <2>2, <2>3, <2>4, <2>5, <2>6
         DEF Next, Producer, Operator, Cleanup, Advancing
  <1>2. [Next]_vars => [Spares]_vars
    BY <1>1
  <1> QED
    BY <1>2, PTL DEF Spec, CleanupSparesLiveMedia

=============================================================================
