---------------------------- MODULE FamilyLibrary ----------------------------
(***************************************************************************)
(* The library of one family of one customer                               *)
(* (src/src/domain/library/library-core.ts, versioned-library.ts,          *)
(* library-service.ts): characters and their shared looks with lineages of *)
(* immutable versions, the child the family is anchored on, archiving and  *)
(* restoring, and the photos that versions refer to.                       *)
(*                                                                         *)
(* Of a version the model keeps what duplicates, the anchor and photos     *)
(* depend on.  Every operation is one transaction.                         *)
(***************************************************************************)
EXTENDS Naturals, Sequences, FiniteSets, FiniteSetsExt

CONSTANTS
  Character, Look, \* ids of characters, ids of looks
  Label,           \* what normalized name and relationship of a profile compare as
  Photo,           \* reference photos, by the upload they come from
  Nobody,          \* no character
  LookOf,          \* the character each look belongs to
  SourceOf,        \* the checksum of the file each photo is made from
  MaxVersion,      \* bound: versions that edits and new records without photo reach
  Shelved          \* bound: the records that are archived, one at a time

Entity == Character \cup Look

ASSUME LibraryAssumption ==
  /\ Nobody \notin Entity \cup Photo
  /\ Character \cap Look = {} /\ {"customer", "family"} \cap Entity = {}
  /\ LookOf \in [Look -> Character]
  /\ MaxVersion \in Nat

VARIABLES
  status,   \* active or archived, of customer, family, characters and looks
  anchor,   \* Family.anchorCharacterId
  version,  \* lineage of each character and look, the head last
  owner,    \* ReferencePhoto.owner
  ticket    \* CharacterCreatePreflightStore: what each creation was shown

library == <<status, anchor, version, owner>>
libraryVars == <<library, ticket>>

(* CharacterProfile and LookContent *)
Content == [label : Label, main : BOOLEAN, photos : SUBSET Photo]
Ticket == [label : Label, main : BOOLEAN, shown : SUBSET Character]
NoTicket == [label |-> "none"]

LibraryTypeOK ==
  /\ status \in [Entity \cup {"customer", "family"} -> {"absent", "active", "archived"}]
  /\ anchor \in Character \cup {Nobody}
  /\ version \in [Entity -> Seq(Content)]
  /\ owner \in [Photo -> Entity \cup {Nobody}]
  /\ ticket \in [Character -> Ticket \cup {NoTicket}]

LibraryInit ==
  /\ status = [x \in Entity \cup {"customer", "family"} |->
                 IF x \in Entity THEN "absent" ELSE "active"]
  /\ anchor = Nobody
  /\ version = [e \in Entity |-> <<>>]
  /\ owner = [p \in Photo |-> Nobody]
  /\ ticket = [c \in Character |-> NoTicket]

Current(e) == version[e][Len(version[e])]
Members == {c \in Character : status[c] # "absent"}
OwnPhotos(e) == {p \in Photo : owner[p] = e}

\* the bound
MayGrow == MapThenSumSet(LAMBDA e : Len(version[e]), Entity) < MaxVersion

(* assertActive of the owners and of the record itself *)
Active(xs) == \A x \in xs : status[x] = "active"
Mutable(e) ==
  Active({"customer", "family", e}) /\ (e \in Look => Active({LookOf[e]}))

-----------------------------------------------------------------------------
(* the anchor may be taken again *)
FaultyMayJoin(main) ==
  /\ Active({"customer", "family"})
  /\ anchor = Nobody => main
  /\ anchor # Nobody => Active({anchor})

(* assertNewMemberAnchor: the first character is the main child, no other is *)
MayJoin(main) ==
  /\ Active({"customer", "family"})
  /\ IF anchor = Nobody THEN main ELSE Active({anchor}) /\ ~main

(* insertInitialCharacter *)
Joins(c, content) ==
  /\ status[c] = "absent"
  /\ MayJoin(content.main)
  /\ status' = [status EXCEPT ![c] = "active"]
  /\ version' = [version EXCEPT ![c] = <<content>>]
  /\ anchor' = IF anchor = Nobody THEN c ELSE anchor

(* A version extends the head that its author saw.  The relationship to the *)
(* anchor stays (assertRelationshipUpdate), and the photos are the entity's *)
(* own (assertCharacterReferenceOwnership).                                 *)
MayAppend(e, expected, content) ==
  /\ Mutable(e)
  /\ Len(version[e]) = expected
  /\ e \in Character => (content.main <=> anchor = e)
Appended(e, content) == [version EXCEPT ![e] = Append(@, content)]

-----------------------------------------------------------------------------
(* normalized name and relationship, or the very file of a photo in use *)
DuplicateCandidates(label, main, source) ==
  {c \in Members :
     \/ Current(c).label = label /\ Current(c).main = main
     \/ \E p \in Current(c).photos : SourceOf[p] = source}

-----------------------------------------------------------------------------
(* The form shows the duplicates that the server finds, under a ticket. *)
IssuePreflight(c, label, main) ==
  /\ status[c] = "absent" /\ ticket[c] = NoTicket
  /\ ticket' = [ticket EXCEPT ![c] =
       [label |-> label, main |-> main, shown |-> DuplicateCandidates(label, main, "none")]]
  /\ UNCHANGED library

(* The ticket is used up, by a refusal too; it holds for what was shown. *)
CreateCharacter(c) ==
  LET t == ticket[c] IN
  /\ t # NoTicket /\ MayGrow
  /\ ticket' = [ticket EXCEPT ![c] = NoTicket]
  /\ IF t.shown = DuplicateCandidates(t.label, t.main, "none") /\ MayJoin(t.main)
     THEN Joins(c, [label |-> t.label, main |-> t.main, photos |-> {}]) /\ UNCHANGED owner
     ELSE UNCHANGED library

CreateLook(l, label) ==
  /\ status[l] = "absent" /\ MayGrow
  /\ status[LookOf[l]] # "absent" /\ Mutable(LookOf[l])
  /\ status' = [status EXCEPT ![l] = "active"]
  /\ version' = [version EXCEPT ![l] = <<[label |-> label, main |-> FALSE, photos |-> {}]>>]
  /\ UNCHANGED <<anchor, owner, ticket>>

(* appendCharacterVersion, appendLookVersion *)
Edit(e, content) ==
  /\ status[e] # "absent" /\ MayGrow
  /\ content.photos \subseteq OwnPhotos(e)
  /\ MayAppend(e, Len(version[e]), content)
  /\ version' = Appended(e, content)
  /\ UNCHANGED <<status, anchor, owner, ticket>>

(* revertCharacterVersion, revertLookVersion: the old content as a new version *)
Revert(e, n) ==
  /\ n \in 1..Len(version[e])
  /\ Edit(e, version[e][n])

(* archive and restore of customer, family, character or look: no guard but  *)
(* the record's own status, whatever depends on it                           *)
SetStatus(x, next) ==
  /\ status[x] \in {"active", "archived"} \ {next}
  /\ next = "archived" => x \in Shelved /\ \A y \in Shelved : status[y] # "archived"
  /\ status' = [status EXCEPT ![x] = next]
  /\ UNCHANGED <<anchor, version, owner, ticket>>

LibraryNext ==
  \/ \E c \in Character, label \in Label, main \in BOOLEAN : IssuePreflight(c, label, main)
  \/ \E c \in Character : CreateCharacter(c)
  \/ \E l \in Look, label \in Label : CreateLook(l, label)
  \/ \E e \in Entity, content \in Content : Edit(e, content)
  \/ \E e \in Entity, n \in 1..MaxVersion : Revert(e, n)
  \/ \E x \in DOMAIN status, next \in {"active", "archived"} : SetStatus(x, next)

-----------------------------------------------------------------------------
(* A family has exactly one main child, its first member, in every version of *)
(* every member, archived ones included.  (assertNewMemberAnchor,             *)
(* assertRelationshipUpdate)                                                  *)
OneMainChild ==
  /\ anchor = Nobody <=> Members = {}
  /\ \A c \in Members : \A n \in 1..Len(version[c]) : version[c][n].main <=> c = anchor
=============================================================================
