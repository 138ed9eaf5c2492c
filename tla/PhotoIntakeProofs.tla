-------------------------- MODULE PhotoIntakeProofs --------------------------
(***************************************************************************)
(* Theorems about PhotoIntake and FamilyLibrary, for all characters,       *)
(* looks, photos and bounds, with their proofs.                            *)
(***************************************************************************)
EXTENDS PhotoIntake, SequenceTheorems, TLAPS

(***************************************************************************)
(* The library: what a transaction does to members, anchor and versions.   *)
(***************************************************************************)
\* what LibraryTypeOK says of the variables the anchor depends on
Lineages ==
  /\ status \in [Entity \cup {"customer", "family"} -> {"absent", "active", "archived"}]
  /\ anchor \in Character \cup {Nobody}
  /\ version \in [Entity -> Seq(Content)]
  /\ ticket \in [Character -> Ticket \cup {NoTicket}]

\* a record that is there has a first version
Begun == \A e \in Entity : status[e] # "absent" => version[e] # <<>>

LibraryInv == Lineages /\ Begun /\ OneMainChild

\* the version a record shows is one of its versions
LEMMA CurrentType ==
  ASSUME Lineages, NEW e \in Entity, version[e] # <<>>
  PROVE  Current(e) \in Content /\ Len(version[e]) \in 1..Len(version[e])
  <1>1. version[e] \in Seq(Content)
    BY DEF Lineages
  <1>2. Len(version[e]) \in 1..Len(version[e])
    BY <1>1
  <1> QED
    BY <1>1, <1>2 DEF Current

\* a member joins: assertNewMemberAnchor keeps the anchor the only main child
LEMMA JoinsKeepsInv ==
  ASSUME LibraryInv, NEW c \in Character, NEW content \in Content, Joins(c, content),
         ticket' \in [Character -> Ticket \cup {NoTicket}]
  PROVE  LibraryInv'
  <1> USE DEF LibraryInv, Entity
  <1>1. /\ status[c] = "absent" /\ MayJoin(content.main)
        /\ status' = [status EXCEPT ![c] = "active"]
        /\ version' = [version EXCEPT ![c] = <<content>>]
        /\ anchor' = IF anchor = Nobody THEN c ELSE anchor
    BY DEF Joins
  <1>2. <<content>> \in Seq(Content) /\ <<content>> # <<>> /\ Len(<<content>>) = 1
    OBVIOUS
  <1>3. Lineages'
    BY <1>1, <1>2 DEF Lineages
  <1>4. Begun'
    BY <1>1, <1>2 DEF Begun, Lineages
  <1>5. Members' = Members \cup {c} /\ c \notin Members
    BY <1>1 DEF Members, Lineages
  <1>6. Nobody \notin Character
    BY LibraryAssumption
  <1>7. (anchor = Nobody <=> Members = {})'
    BY <1>1, <1>5, <1>6 DEF Lineages
  <1>8. content.main \in BOOLEAN
    BY DEF Content
  <1>9. content.main <=> c = anchor'
    <2>1. CASE anchor = Nobody
      BY <2>1, <1>1 DEF MayJoin
    <2>2. CASE anchor # Nobody
      <3>1. ~content.main /\ status[anchor] = "active"
        BY <2>2, <1>1 DEF MayJoin, Active
      <3> QED
        BY <2>2, <3>1, <1>1
    <2> QED
      BY <2>1, <2>2
  <1>10. ASSUME NEW d \in Members', NEW n \in 1..Len(version'[d])
         PROVE  version'[d][n].main <=> d = anchor'
    <2>1. CASE d = c
      BY <2>1, <1>1, <1>2, <1>9 DEF Lineages
    <2>2. CASE d # c
      <3>1. d \in Members /\ version'[d] = version[d] /\ anchor # Nobody
        BY <2>2, <1>1, <1>5, <1>10 DEF Lineages, OneMainChild, Members
      <3> QED
        BY <3>1, <1>1, <1>10 DEF OneMainChild
    <2> QED
      BY <2>1, <2>2
  <1> QED
    BY <1>3, <1>4, <1>7, <1>10 DEF OneMainChild

\* a version is appended: assertRelationshipUpdate keeps the main child what it was
LEMMA AppendedKeepsInv ==
  ASSUME LibraryInv, NEW e \in Entity, NEW content \in Content, NEW expected,
         MayAppend(e, expected, content),
         version' = Appended(e, content), UNCHANGED <<status, anchor, ticket>>
  PROVE  LibraryInv'
  <1> USE DEF LibraryInv, Entity
  <1>1. version' = [version EXCEPT ![e] = Append(version[e], content)]
    BY DEF Appended
  <1>2. version[e] \in Seq(Content)
    BY DEF Lineages
  <1>3. /\ Append(version[e], content) \in Seq(Content)
        /\ Append(version[e], content) # <<>>
        /\ Len(Append(version[e], content)) = Len(version[e]) + 1
        /\ \A n \in 1..Len(version[e]) : Append(version[e], content)[n] = version[e][n]
        /\ Append(version[e], content)[Len(version[e]) + 1] = content
    BY <1>2, AppendProperties
  <1>4. Lineages'
    BY <1>1, <1>3 DEF Lineages
  <1>5. Begun'
    BY <1>1, <1>3 DEF Begun, Lineages
  <1>6. Members' = Members /\ (anchor = Nobody <=> Members = {})
    BY DEF Members, OneMainChild
  <1>7. ASSUME NEW d \in Members, NEW n \in 1..Len(version'[d])
        PROVE  version'[d][n].main <=> d = anchor
    <2>1. CASE d = e
      <3>1. content.main <=> anchor = e
        BY <2>1 DEF MayAppend, Members
      <3>2. version'[d] = Append(version[e], content)
        BY <2>1, <1>1 DEF Lineages
      <3>3. CASE n = Len(version[e]) + 1
        BY <3>1, <3>2, <3>3, <1>3, <2>1
      <3>4. CASE n # Len(version[e]) + 1
        <4>1. n \in 1..Len(version[d]) /\ version'[d][n] = version[d][n]
          BY <3>2, <3>4, <1>2, <1>3, <2>1, <1>7
        <4> QED
          BY <4>1 DEF OneMainChild
      <3> QED
        BY <3>3, <3>4
    <2>2. CASE d # e
      <3>1. version'[d] = version[d]
        BY <2>2, <1>1 DEF Lineages, Members
      <3> QED
        BY <3>1, <1>7 DEF OneMainChild
    <2> QED
      BY <2>1, <2>2
  <1> QED
    BY <1>4, <1>5, <1>6, <1>7 DEF OneMainChild

(***************************************************************************)
(* Every operation of the library keeps the invariant.                     *)
(***************************************************************************)
LEMMA LibraryKeepsInv ==
  ASSUME LibraryInv, LibraryNext
  PROVE  LibraryInv'
  <1> USE DEF LibraryInv
  <1>1. ASSUME NEW c \in Character, NEW label \in Label, NEW main \in BOOLEAN,
               IssuePreflight(c, label, main)
        PROVE  LibraryInv'
    <2>1. DuplicateCandidates(label, main, "none") \subseteq Character
      BY DEF DuplicateCandidates, Members
    <2>2. ticket' \in [Character -> Ticket \cup {NoTicket}]
      BY <1>1, <2>1 DEF IssuePreflight, Lineages, Ticket
    <2> QED
      BY <1>1, <2>2 DEF IssuePreflight, library, Lineages, Begun, OneMainChild, Members
  <1>2. ASSUME NEW c \in Character, CreateCharacter(c)
        PROVE  LibraryInv'
    <2> DEFINE t == ticket[c]
               content == [label |-> t.label, main |-> t.main, photos |-> {}]
    <2>1. t \in Ticket /\ content \in Content
      BY <1>2 DEF CreateCharacter, Lineages, Ticket, Content
    <2>2. ticket' \in [Character -> Ticket \cup {NoTicket}]
      BY <1>2 DEF CreateCharacter, Lineages
    <2>3. CASE UNCHANGED library
      BY <2>2, <2>3 DEF library, Lineages, Begun, OneMainChild, Members
    <2>4. CASE Joins(c, content)
      BY <2>1, <2>2, <2>4, JoinsKeepsInv
    <2> QED
      BY <1>2, <2>3, <2>4 DEF CreateCharacter
  <1>3. ASSUME NEW l \in Look, NEW label \in Label, CreateLook(l, label)
        PROVE  LibraryInv'
    <2> DEFINE content == [label |-> label, main |-> FALSE, photos |-> {}]
    <2>1. content \in Content /\ <<content>> \in Seq(Content) /\ <<content>> # <<>>
      BY DEF Content
    <2>2. /\ status' = [status EXCEPT ![l] = "active"]
          /\ version' = [version EXCEPT ![l] = <<content>>]
          /\ anchor' = anchor /\ ticket' = ticket
      BY <1>3 DEF CreateLook
    <2>3. Character \cap Look = {}
      BY LibraryAssumption
    <2> HIDE DEF content
    <2>4. \A c \in Character : status'[c] = status[c] /\ version'[c] = version[c]
      BY <2>2, <2>3 DEF Lineages, Entity
    <2>5. Members' = Members
      BY <2>4 DEF Members
    <2>6. OneMainChild'
      BY <2>2, <2>4, <2>5 DEF OneMainChild, Members
    <2>7. Lineages' /\ Begun'
      BY <2>1, <2>2 DEF Lineages, Begun, Entity
    <2> QED
      BY <2>6, <2>7
  <1>4. ASSUME NEW e \in Entity, NEW content \in Content, Edit(e, content)
        PROVE  LibraryInv'
    BY <1>4, AppendedKeepsInv DEF Edit
  <1>5. ASSUME NEW e \in Entity, NEW n \in 1..MaxVersion, Revert(e, n)
        PROVE  LibraryInv'
    <2>1. n \in 1..Len(version[e]) /\ version[e] \in Seq(Content)
      BY <1>5 DEF Revert, Lineages
    <2>2. version[e][n] \in Content
      BY <2>1, ElementOfSeq
    <2> QED
      BY <1>4, <1>5, <2>2 DEF Revert
  <1>6. ASSUME NEW x \in DOMAIN status, NEW next \in {"active", "archived"}, SetStatus(x, next)
        PROVE  LibraryInv'
    <2>1. /\ status[x] # "absent" /\ status' = [status EXCEPT ![x] = next]
          /\ UNCHANGED <<anchor, version, owner, ticket>>
      BY <1>6 DEF SetStatus
    <2>2. \A y \in Entity : status'[y] = "absent" <=> status[y] = "absent"
      BY <2>1 DEF Lineages
    <2>3. Members' = Members
      BY <2>2 DEF Members, Entity
    <2> QED
      BY <2>1, <2>2, <2>3 DEF Lineages, Begun, OneMainChild
  <1> QED
    BY <1>1, <1>2, <1>3, <1>4, <1>5, <1>6 DEF LibraryNext

LEMMA LibraryInitInv == LibraryInit => LibraryInv
  <1> SUFFICES ASSUME LibraryInit PROVE LibraryInv
    OBVIOUS
  <1>1. Lineages /\ Begun
    BY DEF LibraryInit, Lineages, Begun, Entity
  <1>2. Members = {} /\ anchor = Nobody
    BY DEF LibraryInit, Members, Entity
  <1> QED
    BY <1>1, <1>2 DEF LibraryInv, OneMainChild

(***************************************************************************)
(* The intake: who holds the bytes of an upload.                           *)
(***************************************************************************)
Holders ==
  /\ stage \in [Upload -> Reservation \cup {NoStage}]
  /\ bytes \in [Upload -> [holder : {"none", "stage", "commit", "lost"}, zero : BOOLEAN]]
  /\ made \in [Upload -> [whole : Nat, wiped : Nat]]
  /\ busy \in Work \cup {Idle}
  /\ queue \in Seq(Commit)

Busy(steps) == busy # Idle /\ busy.at \in steps

\* the state of the bytes of upload u, from the first read to the photo
Kept(u) ==
  /\ stage[u].at = "reading" => bytes[u] = Unread
  /\ Reserved(u) => bytes[u].holder = "stage"
  /\ bytes[u].holder = "stage" => Reserved(u)
  /\ bytes[u].holder = "commit" <=> Busy({"preparing", "discarding"}) /\ busy.of = u
  /\ bytes[u].holder # "none" => bytes[u].zero = FALSE
  /\ bytes[u].holder # "none" \/ bytes[u] = Unread => made[u].whole = 0
  /\ made[u].whole <= 1 /\ made[u].wiped = 0

IntakeInv == Holders /\ \A u \in Upload : Kept(u)

LEMMA IntakeInitInv == Init => IntakeInv
  BY DEF Init, IntakeInv, Holders, Kept, Busy, Reserved, NoStage, Unread

LEMMA WipedType == Wiped \in [holder : {"none", "stage", "commit", "lost"}, zero : BOOLEAN]
  BY DEF Wiped

\* the sweep and what is given up with it
LEMMA DroppedKeepsInv ==
  ASSUME IntakeInv, NEW us \in SUBSET Upload, \A u \in us : Reserved(u), Dropped(us),
         UNCHANGED <<busy, made>>, queue' \in Seq(Commit)
  PROVE  IntakeInv'
  BY DEF IntakeInv, Holders, Kept, Busy, Reserved, Dropped, Unlinked, Released, Overdue,
         NoStage, Unread, Wiped, Reservation

\* the same, when a commit that needs a crop has its turn
LEMMA CroppingKeepsInv ==
  ASSUME IntakeInv, busy = Idle, NEW u \in Upload, Reserved(u), Dropped({}),
         busy' = Working(u, stage[u], "cropping"), UNCHANGED made, queue' \in Seq(Commit)
  PROVE  IntakeInv'
  <1>1. stage[u] \in Reservation
    BY DEF IntakeInv, Holders, Reserved, NoStage
  <1>2. busy' \in Work /\ busy'.at = "cropping" /\ busy' # Idle
    BY <1>1, IntakeAssumption DEF Working, Work
  <1> QED
    BY <1>2 DEF IntakeInv, Holders, Kept, Busy, Reserved, Dropped, Unlinked, Released, Overdue,
                NoStage, Unread, Wiped, Reservation

\* the bytes of a reservation are handed to its commit
LEMMA TakenKeepsInv ==
  ASSUME IntakeInv, ~Busy({"preparing", "discarding"}), NEW u \in Upload, NEW r \in Reservation,
         bytes[u].holder = "stage", Taken(u, r), UNCHANGED made, queue' \in Seq(Commit)
  PROVE  IntakeInv'
  <1>1. Working(u, r, "preparing") \in Work /\ Working(u, r, "preparing") # Idle
    BY IntakeAssumption DEF Working, Work
  <1>2. busy' \in Work \cup {Idle}
    BY <1>1 DEF Taken
  <1>3. Busy({"preparing", "discarding"})' <=> u \notin Overdue
    BY <1>1 DEF Taken, Busy, Working
  <1>4. u \notin Overdue => busy'.of = u
    BY DEF Taken, Working
  <1>5. Holders'
    BY <1>2 DEF IntakeInv, Holders, Taken, Unlinked, Released, Overdue, NoStage, Wiped
  <1>6. Kept(u)'
    BY <1>3, <1>4 DEF IntakeInv, Holders, Kept, Reserved, Taken, Unlinked, Released, Overdue,
         NoStage, Unread, Wiped
  <1>7. ASSUME NEW v \in Upload, v # u
        PROVE  Kept(v)'
    <2>1. bytes[v].holder # "commit"
      BY DEF IntakeInv, Kept
    <2>2. Busy({"preparing", "discarding"})' => busy'.of # v
      BY <1>3, <1>4, <1>7
    <2> QED
      BY <2>1, <2>2, <1>7 DEF IntakeInv, Holders, Kept, Reserved, Taken, Unlinked, Released,
           Overdue, NoStage, Unread, Wiped
  <1> QED
    BY <1>5, <1>6, <1>7 DEF IntakeInv

\* whose turn it is, and what else waits
LEMMA TurnType ==
  ASSUME IntakeInv, Turn
  PROVE  First \in Commit /\ First.of \in Upload /\ queue' \in Seq(Commit)
  <1>1. queue \in Seq(Commit) /\ queue # <<>>
    BY DEF Turn, IntakeInv, Holders
  <1>2. First \in Commit /\ Tail(queue) \in Seq(Commit)
    BY <1>1, HeadTailProperties DEF First
  <1> QED
    BY <1>2 DEF Turn, Commit

(***************************************************************************)
(* Every step of the intake keeps the invariant, and but for Attach leaves *)
(* the library alone.                                                      *)
(***************************************************************************)
LEMMA RequestsKeepInv ==
  ASSUME IntakeInv, Requests
  PROVE  IntakeInv' /\ UNCHANGED libraryVars
  <1>1. ASSUME NEW u \in Upload, NEW label \in Label, NEW main \in BOOLEAN, NEW o \in Aims[u],
               BeginStage(u, o, label, main)
        PROVE  IntakeInv' /\ UNCHANGED libraryVars
    <2> DEFINE r == [at |-> "reading", owner |-> o, base |-> IF o = New THEN 0 ELSE Len(version[o]),
                     label |-> label, main |-> main, shown |-> {}]
    <2>1. r \in Reservation /\ r.at = "reading"
      BY <1>1, IntakeAssumption DEF Reservation, BeginStage
    <2>2. stage' = [stage EXCEPT ![u] = r] /\ bytes[u] = Unread
      BY <1>1 DEF BeginStage
    <2>3. stage'[u] = r /\ \A v \in Upload \ {u} : stage'[v] = stage[v]
      BY <2>2 DEF IntakeInv, Holders
    <2> HIDE DEF r
    <2>4. Holders' /\ UNCHANGED libraryVars
      BY <1>1, <2>1, <2>2 DEF BeginStage, IntakeInv, Holders
    <2>5. ASSUME NEW v \in Upload
          PROVE  Kept(v)'
      <3>1. Kept(v) /\ bytes' = bytes /\ made' = made /\ busy' = busy
        BY <1>1 DEF BeginStage, IntakeInv
      <3>2. CASE v = u
        BY <2>1, <2>2, <2>3, <3>1, <3>2 DEF Kept, Busy, Reserved, Unread
      <3>3. CASE v # u
        BY <2>3, <3>1, <3>3 DEF Kept, Busy, Reserved, Unread
      <3> QED
        BY <3>2, <3>3
    <2> QED
      BY <2>4, <2>5 DEF IntakeInv
  <1>2. ASSUME NEW u \in Upload, EndStage(u)
        PROVE  IntakeInv' /\ UNCHANGED libraryVars
    <2>1. PICK r \in Reservation :
            /\ stage' = [Unlinked(Overdue) EXCEPT ![u] = r] /\ r.at = "reserved"
            /\ stage[u].at = "reading"
      <3>1. stage[u] \in Reservation
        BY <1>2 DEF EndStage, IntakeInv, Holders, NoStage
      <3>2. DuplicateCandidates(stage[u].label, stage[u].main, SourceOf[u]) \subseteq Character
        BY DEF DuplicateCandidates, Members
      <3> DEFINE shown == IF stage[u].owner = New
                 THEN DuplicateCandidates(stage[u].label, stage[u].main, SourceOf[u]) ELSE {}
                 r == [stage[u] EXCEPT !.at = "reserved", !.shown = shown]
      <3>3. r \in Reservation /\ r.at = "reserved"
        BY <3>1, <3>2 DEF Reservation
      <3>4. stage' = [Unlinked(Overdue) EXCEPT ![u] = r] /\ stage[u].at = "reading"
        BY <1>2 DEF EndStage
      <3> QED
        BY <3>3, <3>4
    <2>2. /\ bytes' = [Released(Overdue) EXCEPT ![u].holder = "stage"]
          /\ UNCHANGED <<libraryVars, queue, busy, made>>
      BY <1>2 DEF EndStage
    <2>3. u \notin Overdue /\ bytes[u] = Unread
      BY <2>1 DEF Overdue, Reserved, IntakeInv, Kept
    <2>4. Holders'
      BY <2>1, <2>2 DEF IntakeInv, Holders, Unlinked, Released, NoStage, Wiped
    <2>5. Kept(u)'
      BY <2>1, <2>2, <2>3 DEF IntakeInv, Holders, Kept, Busy, Reserved, Unlinked, Released, Unread
    <2>6. ASSUME NEW v \in Upload, v # u
          PROVE  Kept(v)'
      BY <2>1, <2>2, <2>6 DEF IntakeInv, Holders, Kept, Busy, Reserved, Unlinked, Released,
         Overdue, NoStage, Unread, Wiped
    <2> QED
      BY <2>2, <2>4, <2>5, <2>6 DEF IntakeInv
  <1>3. ASSUME NEW u \in Upload, FailStage(u)
        PROVE  IntakeInv' /\ UNCHANGED libraryVars
    BY <1>3 DEF FailStage, IntakeInv, Holders, Kept, Busy, Reserved, Unlinked, NoStage, Unread
  <1>4. ASSUME NEW u \in Upload, Cancel(u)
        PROVE  IntakeInv' /\ UNCHANGED libraryVars
    BY <1>4, DroppedKeepsInv DEF Cancel, Found, IntakeInv, Holders
  <1>5. ASSUME NEW c \in Commit, AskCommit(c)
        PROVE  IntakeInv' /\ UNCHANGED libraryVars
    <2>1. Append(queue, c) \in Seq(Commit)
      BY DEF IntakeInv, Holders
    <2> QED
      BY <1>5, <2>1 DEF AskCommit, IntakeInv, Holders, Kept, Busy, Reserved
  <1>6. CASE Preview
    BY <1>6, DroppedKeepsInv DEF Preview, IntakeInv, Holders
  <1>7. CASE Close
    BY <1>7 DEF Close, IntakeInv, Holders, Kept, Busy, Reserved, Unlinked, Released, NoStage,
         Unread, Wiped
  <1> QED
    BY <1>1, <1>2, <1>3, <1>4, <1>5, <1>6, <1>7 DEF Requests

LEMMA TimeKeepsInv ==
  ASSUME IntakeInv, Time
  PROVE  IntakeInv' /\ UNCHANGED libraryVars
  <1>1. ASSUME NEW u \in Upload, Deadline(u)
        PROVE  IntakeInv' /\ UNCHANGED libraryVars
    BY <1>1 DEF Deadline, IntakeInv, Holders, Kept, Busy, Reserved
  <1>2. ASSUME NEW u \in Upload, Expire(u)
        PROVE  IntakeInv' /\ UNCHANGED libraryVars
    BY <1>2 DEF Expire, IntakeInv, Holders, Kept, Busy, Reserved, Unlinked, Released, Overdue,
         NoStage, Unread, Wiped
  <1> QED
    BY <1>1, <1>2 DEF Time

LEMMA CommittingKeepsInv ==
  ASSUME IntakeInv, Committing
  PROVE  IntakeInv' /\ (UNCHANGED libraryVars \/ Attach)
  <1>1. CASE RefuseCommit
    BY <1>1, TurnType, DroppedKeepsInv DEF RefuseCommit
  <1>2. CASE OpenExisting
    BY <1>2, TurnType, DroppedKeepsInv DEF OpenExisting, Found
  <1>3. CASE BeginCommit
    <2> DEFINE u == First.of
    <2>1. /\ u \in Upload /\ queue' \in Seq(Commit) /\ busy = Idle
          /\ Reserved(u) /\ UNCHANGED libraryVars /\ UNCHANGED made
      BY <1>3, TurnType DEF BeginCommit, Found, Turn
    <2>2. bytes[u].holder = "stage" /\ stage[u] \in Reservation
      BY <2>1 DEF IntakeInv, Holders, Kept, Reserved, NoStage
    <2>3. CASE Dropped({}) /\ busy' = Working(u, stage[u], "cropping")
      BY <2>1, <2>3, CroppingKeepsInv
    <2>4. CASE Taken(u, stage[u])
      BY <2>1, <2>2, <2>4, TakenKeepsInv DEF Busy
    <2> QED
      BY <1>3, <2>1, <2>3, <2>4 DEF BeginCommit
  <1>4. CASE EndCrop
    <2>1. /\ busy \in Work /\ busy.at = "cropping"
          /\ UNCHANGED libraryVars /\ UNCHANGED made /\ UNCHANGED queue
      BY <1>4 DEF EndCrop, At, IntakeInv, Holders
    <2>2. busy.of \in Upload /\ busy.for \in Reservation /\ queue' \in Seq(Commit)
      BY <2>1 DEF Work, IntakeInv, Holders
    <2>3. CASE Transferable(busy.of) /\ Taken(busy.of, busy.for)
      BY <2>1, <2>2, <2>3, TakenKeepsInv DEF Transferable, Busy
    <2>4. CASE Thrown /\ UNCHANGED <<stage, bytes, due>>
      BY <2>1, <2>4 DEF Thrown, IntakeInv, Holders, Kept, Busy, Reserved
    <2> QED
      BY <1>4, <2>1, <2>3, <2>4 DEF EndCrop
  <1>5. CASE FailCrop
    BY <1>5 DEF FailCrop, At, Thrown, IntakeInv, Holders, Kept, Busy, Reserved
  <1>6. CASE Attach
    <2>1. busy \in Work /\ busy.at = "preparing" /\ busy # Idle
      BY <1>6 DEF Attach, At, IntakeInv, Holders
    <2>2. PICK u \in Upload : u = busy.of
      BY <2>1 DEF Work
    <2>3. bytes[u].holder = "commit" /\ ~bytes[u].zero /\ made[u].whole = 0
      BY <2>1, <2>2 DEF IntakeInv, Kept, Busy
    <2>4. made' = [made EXCEPT ![u] = [whole |-> made[u].whole + 1, wiped |-> made[u].wiped]]
      <3> DEFINE more(v) == IF bytes[v].zero THEN [whole |-> made[v].whole, wiped |-> made[v].wiped + 1]
                            ELSE [whole |-> made[v].whole + 1, wiped |-> made[v].wiped]
      <3>1. made' = [made EXCEPT ![busy.of] = more(busy.of)]
        BY <1>6 DEF Attach
      <3>2. more(u) = [whole |-> made[u].whole + 1, wiped |-> made[u].wiped]
        BY <2>3
      <3> HIDE DEF more
      <3> QED
        BY <2>2, <3>1, <3>2
    <2>5. /\ bytes' = [bytes EXCEPT ![u] = Wiped] /\ busy' = Idle
          /\ stage' = stage /\ queue' = queue
      BY <1>6, <2>2 DEF Attach, Ended, Thrown
    <2>6. /\ made[u] \in [whole : Nat, wiped : Nat]
          /\ [whole |-> made[u].whole + 1, wiped |-> made[u].wiped] \in [whole : Nat, wiped : Nat]
      BY DEF IntakeInv, Holders
    <2>7. Holders'
      <3>1. made' \in [Upload -> [whole : Nat, wiped : Nat]]
        BY <2>4, <2>6 DEF IntakeInv, Holders
      <3>2. bytes' \in [Upload -> [holder : {"none", "stage", "commit", "lost"}, zero : BOOLEAN]]
        BY <2>5, WipedType DEF IntakeInv, Holders
      <3> QED
        BY <2>5, <3>1, <3>2 DEF IntakeInv, Holders
    <2>8. Kept(u)'
      BY <2>3, <2>4, <2>5, <2>6 DEF IntakeInv, Holders, Kept, Busy, Reserved, Wiped, Unread
    <2>9. ASSUME NEW v \in Upload, v # u
          PROVE  Kept(v)'
      BY <2>1, <2>2, <2>4, <2>5, <2>9 DEF IntakeInv, Holders, Kept, Busy, Reserved, Wiped, Unread
    <2> QED
      BY <1>6, <2>7, <2>8, <2>9 DEF IntakeInv
  <1>7. CASE Discard
    <2>1. /\ busy \in Work /\ busy.at = "preparing" /\ busy' = [busy EXCEPT !.at = "discarding"]
          /\ UNCHANGED <<libraryVars, stage, bytes, queue, made>>
      BY <1>7 DEF Discard, At, IntakeInv, Holders
    <2>2. busy' \in Work /\ busy'.at = "discarding" /\ busy'.of = busy.of
      BY <2>1 DEF Work
    <2>3. Holders'
      BY <2>1, <2>2 DEF IntakeInv, Holders
    <2>4. Busy({"preparing", "discarding"}) /\ Busy({"preparing", "discarding"})'
      BY <2>1, <2>2, IntakeAssumption DEF Busy
    <2> QED
      BY <2>1, <2>2, <2>3, <2>4 DEF IntakeInv, Kept, Reserved
  <1>8. CASE EndDiscard
    <2>1. busy \in Work /\ busy.at = "discarding" /\ busy # Idle
      BY <1>8 DEF EndDiscard, At, IntakeInv, Holders
    <2>2. PICK u \in Upload : u = busy.of
      BY <2>1 DEF Work
    <2>3. /\ bytes' = [bytes EXCEPT ![u] = Wiped] /\ busy' = Idle
          /\ UNCHANGED <<libraryVars, stage, queue, made>>
      BY <1>8, <2>2 DEF EndDiscard, Ended, Thrown
    <2>4. bytes[u].holder = "commit"
      BY <2>1, <2>2 DEF IntakeInv, Kept, Busy
    <2>5. Holders'
      BY <2>2, <2>3, WipedType DEF IntakeInv, Holders
    <2>6. Kept(u)'
      BY <2>2, <2>3, <2>4 DEF IntakeInv, Holders, Kept, Busy, Reserved, Wiped, Unread
    <2>7. ASSUME NEW v \in Upload, v # u
          PROVE  Kept(v)'
      BY <2>1, <2>2, <2>3, <2>7 DEF IntakeInv, Holders, Kept, Busy, Reserved, Wiped, Unread
    <2> QED
      BY <2>3, <2>5, <2>6, <2>7 DEF IntakeInv
  <1> QED
    BY <1>1, <1>2, <1>3, <1>4, <1>5, <1>6, <1>7, <1>8 DEF Committing

\* a photo that is attached extends a lineage, or is the first version of a new member
LEMMA AttachKeepsLibrary ==
  ASSUME LibraryInv, IntakeInv, Attach
  PROVE  LibraryInv'
  <1>1. busy \in Work
    BY DEF Attach, At, IntakeInv, Holders
  <1>2. busy.of \in Upload /\ busy.for \in Reservation /\ UNCHANGED ticket
    BY <1>1 DEF Work, Attach
  <1>3. /\ busy.for.owner \in Owner /\ busy.for.label \in Label /\ busy.for.main \in BOOLEAN
        /\ busy.of \in Photo
    BY <1>2 DEF Reservation, Upload
  <1>4. CASE busy.for.owner = New
    <2> DEFINE content == [label |-> busy.for.label, main |-> busy.for.main, photos |-> {busy.of}]
    <2>1. PICK c \in Character : Joins(c, content)
      BY <1>4 DEF Attach, Creates
    <2>2. content \in Content /\ ticket' \in [Character -> Ticket \cup {NoTicket}]
      BY <1>2, <1>3 DEF Content, LibraryInv, Lineages
    <2> QED
      BY <2>1, <2>2, JoinsKeepsInv
  <1>5. CASE busy.for.owner # New
    <2> DEFINE e == busy.for.owner
               content == [Current(e) EXCEPT !.photos = @ \cup {busy.of}]
    <2>1. /\ e \in Entity /\ MayAppend(e, busy.for.base, content)
          /\ version' = Appended(e, content) /\ UNCHANGED <<status, anchor, ticket>>
      BY <1>2, <1>3, <1>5 DEF Owner, Attach, AttachesTo
    <2>2. status[e] # "absent"
      BY <2>1 DEF MayAppend, Mutable, Active
    <2>3. Current(e) \in Content
      BY <2>1, <2>2, CurrentType DEF LibraryInv, Begun
    <2>4. content \in Content
      BY <2>3, <1>3 DEF Content
    <2> QED
      BY <2>1, <2>4, AppendedKeepsInv
  <1> QED
    BY <1>4, <1>5

-----------------------------------------------------------------------------
Inv == LibraryInv /\ IntakeInv

LEMMA StepKeepsInv == Inv /\ [Next]_vars => Inv'
  <1> SUFFICES ASSUME Inv, [Next]_vars PROVE Inv'
    OBVIOUS
  <1>1. UNCHANGED libraryVars => LibraryInv'
    BY DEF Inv, libraryVars, library, LibraryInv, Lineages, Begun, OneMainChild, Members
  <1>2. UNCHANGED intake => IntakeInv'
    BY DEF Inv, intake, IntakeInv, Holders, Kept, Busy, Reserved
  <1>3. CASE LibraryNext /\ UNCHANGED intake
    BY <1>2, <1>3, LibraryKeepsInv DEF Inv
  <1>4. CASE Requests
    BY <1>1, <1>4, RequestsKeepInv DEF Inv
  <1>5. CASE Time
    BY <1>1, <1>5, TimeKeepsInv DEF Inv
  <1>6. CASE Committing
    BY <1>1, <1>6, CommittingKeepsInv, AttachKeepsLibrary DEF Inv
  <1>7. CASE UNCHANGED vars
    BY <1>1, <1>2, <1>7 DEF vars, Inv
  <1> QED
    BY <1>3, <1>4, <1>5, <1>6, <1>7 DEF Next

LEMMA InvAlways == Spec => []Inv
  <1>1. Init => Inv
    BY LibraryInitInv, IntakeInitInv DEF Init, Inv
  <1> QED
    BY <1>1, StepKeepsInv, PTL DEF Spec

(***************************************************************************)
(* However cancellations, deadlines, double commits and the end of the     *)
(* server fall between the awaits of a commit, an upload becomes at most   *)
(* one photo, never of wiped bytes (PhotoReservationStore).                *)
(***************************************************************************)
THEOREM PhotosStayWhole == Spec => []PhotosAreWhole
  <1>1. Inv => PhotosAreWhole
    BY DEF Inv, IntakeInv, Kept, PhotosAreWhole
  <1> QED
    BY <1>1, InvAlways, PTL

(***************************************************************************)
(* Bytes in memory belong to a reservation or to the commit that has its   *)
(* turn (StagedPhoto, releaseWithoutCleanup).                              *)
(***************************************************************************)
THEOREM BytesAreAnsweredFor == Spec => []NoBytesLeft
  <1>1. Inv => NoBytesLeft
    BY DEF Inv, IntakeInv, Kept, Busy, NoBytesLeft
  <1> QED
    BY <1>1, InvAlways, PTL

(***************************************************************************)
(* A family has exactly one main child in every version of every member,   *)
(* whether a member came by form or by photo (assertNewMemberAnchor,       *)
(* assertRelationshipUpdate).                                              *)
(***************************************************************************)
THEOREM MainChildIsOne == Spec => []OneMainChild
  <1>1. Inv => OneMainChild
    BY DEF Inv, LibraryInv
  <1> QED
    BY <1>1, InvAlways, PTL
=============================================================================
