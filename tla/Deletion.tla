------------------------------ MODULE Deletion ------------------------------
(***************************************************************************)
(* Permanent deletion of a project or customer                             *)
(* (src/src/domain/portability/deletion-*.ts) over the media store.  One   *)
(* transaction removes the documents of the scope and its references, and  *)
(* leaves a ledger of files to unlink; the rest is an advance that awaits  *)
(* between unlinking, recording and verifying.  Confirmation, every        *)
(* operator retry and recovery at start begin an advance, so several may   *)
(* be under way for one operation.                                         *)
(***************************************************************************)
EXTENDS MediaStore

CONSTANTS
  Advance,      \* advances that can be under way at a time
  CleanupLimit, \* maximumCleanupAttempts
  MaxFaults,    \* bound: file operations that fail
  MaxRestart    \* bound: starts after a crash

ASSUME DeletionBounds ==
  /\ CleanupLimit \in Nat /\ MaxFaults \in Nat /\ MaxRestart \in Nat

VARIABLES
  inventory,    \* per scope: the inventory the operator confirms
  op,           \* per scope: state of its deletion operation
  ledger,       \* per scope: the latest unlink entry of each media
  adv,          \* advances: their operation, what is left to do, what they found
  locked,       \* scopes whose exclusive lock is held
  faults, restarts
deletionVars == <<inventory, op, ledger, adv, locked, faults, restarts>>
vars == <<mediaVars, deletionVars>>

OpStates == {"none", "unlinking", "verifying", "cleanup_required", "verified"}
Entries == [state: {"none", "pending", "unlinked", "preserved", "blocked"}, attempts: Nat]
NoEntry == [state |-> "none", attempts |-> 0]
NoEntries == [m \in Media |-> NoEntry]
Idle == [step |-> "idle", scope |-> None, todo |-> {}, found |-> NoEntries, ok |-> TRUE]

TypeOK ==
  /\ MediaTypeOK
  /\ inventory \in [Scope -> Inventories]
  /\ op \in [Scope -> OpStates]
  /\ ledger \in [Scope -> [Media -> Entries]]
  /\ adv \in [Advance -> [step: {"idle", "unlink", "verify"}, scope: Scope \cup {None},
                          todo: SUBSET Media, found: [Media -> Entries], ok: BOOLEAN]]
  /\ locked \subseteq Scope
  /\ faults \in 0..MaxFaults /\ restarts \in 0..MaxRestart

Init ==
  /\ MediaInit
  /\ inventory = [s \in Scope |-> NoInventory]
  /\ op = [s \in Scope |-> "none"]
  /\ ledger = [s \in Scope |-> NoEntries]
  /\ adv = [a \in Advance |-> Idle]
  /\ locked = {} /\ faults = 0 /\ restarts = 0
-----------------------------------------------------------------------------
CreateInventory(s) ==
  /\ s \notin closed
  /\ inventory[s] # Selected(s)
  /\ inventory' = [inventory EXCEPT ![s] = Selected(s)]
  /\ UNCHANGED <<mediaVars, op, ledger, adv, locked, faults, restarts>>

FaultyFresh(s) == inventory[s] # NoInventory
\* freshInventory: what was shown to the operator is what there is now
Fresh(s) == inventory[s] = Selected(s)

\* the cleanup intents that releasing the media returns
UnlinksOf(s) == [m \in Media |->
  IF inventory[s].left[m] = 0 THEN [state |-> "pending", attempts |-> 0] ELSE NoEntry]

(***************************************************************************)
(* commitDeletion: under a lock that turns exclusive in this transaction,  *)
(* release the media, delete the documents, record the operation.  From    *)
(* here on the owner of the scope refuses writes.  The first advance is    *)
(* the caller's and begins with StartAdvance.                              *)
(***************************************************************************)
ConfirmDeletion(s) ==
  LET docs == inventory[s].docs IN
  /\ op[s] = "none" /\ inventory[s] # NoInventory
  /\ Fresh(s) /\ ~MediaBlocked(s)
  /\ row' = Released(docs)
  /\ doc' = [u \in Upload |-> IF u \in docs THEN None ELSE doc[u]]
  /\ closed' = closed \cup {s}
  /\ locked' = locked \cup {s}
  /\ ledger' = [ledger EXCEPT ![s] = UnlinksOf(s)]
  /\ op' = [op EXCEPT ![s] = "unlinking"]
  /\ UNCHANGED <<file, up, held, inventory, adv, faults, restarts>>
-----------------------------------------------------------------------------
Retryable(s) == {m \in Media : ledger[s][m].state \in {"pending", "blocked"}}

(***************************************************************************)
(* advanceCleanup, up to its first await: what is pending or blocked now   *)
(* is what this advance will try.                                          *)
(***************************************************************************)
StartAdvance(a, s) ==
  /\ adv[a] = Idle
  /\ op[s] \notin {"none", "verified"}
  /\ \A m \in Retryable(s) : ledger[s][m].attempts < CleanupLimit
  /\ adv' = [adv EXCEPT ![a] =
       [step |-> "unlink", scope |-> s, todo |-> Retryable(s), ok |-> TRUE,
        found |-> [m \in Media |-> IF m \in Retryable(s) THEN ledger[s][m] ELSE NoEntry]]]
  /\ UNCHANGED <<mediaVars, inventory, op, ledger, locked, faults, restarts>>

Outcome(a, m, state) ==
  LET entry == [state |-> state, attempts |-> adv[a].found[m].attempts + 1] IN
  adv' = [adv EXCEPT ![a].todo = @ \ {m}, ![a].found = [adv[a].found EXCEPT ![m] = entry]]

(***************************************************************************)
(* executeOne: unlinkCleanupIntent of one entry, which waits for the lock  *)
(* of the checksum and then runs without an await.  An absent file counts  *)
(* as unlinked; a file operation that fails blocks the entry.              *)
(***************************************************************************)
UnlinkEntry(a, m) ==
  /\ adv[a].step = "unlink" /\ m \in adv[a].todo
  /\ held[ContentOf(m)] = None
  /\ IF Preserved(m)
     THEN Outcome(a, m, "preserved") /\ UNCHANGED file
     ELSE Outcome(a, m, "unlinked") /\ file' = file \ {ContentOf(m)}
  /\ UNCHANGED <<row, doc, up, held, closed, inventory, op, ledger, locked, faults, restarts>>

UnlinkFails(a, m) ==
  /\ adv[a].step = "unlink" /\ m \in adv[a].todo
  /\ ~Preserved(m) /\ ContentOf(m) \in file
  /\ faults < MaxFaults /\ faults' = faults + 1
  /\ Outcome(a, m, "blocked")
  /\ UNCHANGED <<mediaVars, inventory, op, ledger, locked, restarts>>

\* allowedTransitions of DeletionOperationRepository
Allowed(from, to) ==
  \/ from \in {"unlinking", "cleanup_required"} /\ to \in {"verifying", "cleanup_required", "verified"}
  \/ from = "verifying" /\ to \in {"verified", "cleanup_required"}

(***************************************************************************)
(* latestManagedUnlinks after outcomes are appended: of two entries of one *)
(* media the later one counts unless it has fewer attempts.                *)
(***************************************************************************)
Appended(s, a) ==
  LET outcome == adv[a].found IN
  [m \in Media |-> IF /\ outcome[m] # NoEntry
                     /\ outcome[m].attempts >= ledger[s][m].attempts
                  THEN outcome[m] ELSE ledger[s][m]]

(***************************************************************************)
(* recordCleanupOutcomes: with a blocked entry the advance ends, otherwise *)
(* it goes on to verify the ledger it reads in the same turn.  A           *)
(* transition the repository refuses ends the advance with an error and no *)
(* effect.                                                                 *)
(***************************************************************************)
RecordOutcomes(a) ==
  LET s == adv[a].scope
      blocked == \E m \in Media : adv[a].found[m].state = "blocked"
      next == IF blocked THEN "cleanup_required" ELSE "verifying"
  IN
  /\ adv[a].step = "unlink" /\ adv[a].todo = {}
  /\ IF Allowed(op[s], next)
     THEN /\ op' = [op EXCEPT ![s] = next]
          /\ ledger' = [ledger EXCEPT ![s] = Appended(s, a)]
          /\ adv' = [adv EXCEPT ![a] = IF blocked THEN Idle ELSE
               [step |-> "verify", scope |-> s, found |-> Appended(s, a), ok |-> TRUE,
                todo |-> {m \in Media : inventory[s].left[m] >= 0}]]
     ELSE /\ adv' = [adv EXCEPT ![a] = Idle]
          /\ UNCHANGED <<op, ledger>>
  /\ UNCHANGED <<mediaVars, inventory, locked, faults, restarts>>

(***************************************************************************)
(* verifySharedMedia and ManagedDeletionCleanup.verify: shared media keeps *)
(* exactly the references the inventory left it; an unlinked media has     *)
(* neither row nor file; a preserved one still has its own row.            *)
(***************************************************************************)
Passes(s, m, e) ==
  LET c == ContentOf(m) IN
  CASE inventory[s].left[m] > 0 -> HasRow(m) /\ row[c].refs = inventory[s].left[m] /\ c \in file
    [] e.state = "unlinked" -> ~HasRow(m) /\ c \notin file
    [] e.state = "preserved" -> HasRow(m) /\ c \in file
    [] OTHER -> FALSE

VerifyEntry(a, m) ==
  /\ adv[a].step = "verify" /\ m \in adv[a].todo
  /\ adv' = [adv EXCEPT ![a].todo = @ \ {m},
                        ![a].ok = @ /\ Passes(adv[a].scope, m, adv[a].found[m])]
  /\ UNCHANGED <<mediaVars, inventory, op, ledger, locked, faults, restarts>>

(***************************************************************************)
(* The last transaction of verifyAndFinalize: a failed check asks for      *)
(* cleanup again; otherwise the report is written and the lock released.   *)
(***************************************************************************)
Finalize(a) ==
  LET s == adv[a].scope
      next == IF adv[a].ok THEN "verified" ELSE "cleanup_required"
  IN
  /\ adv[a].step = "verify" /\ adv[a].todo = {}
  /\ adv' = [adv EXCEPT ![a] = Idle]
  /\ IF Allowed(op[s], next)
     THEN /\ op' = [op EXCEPT ![s] = next]
          /\ locked' = IF adv[a].ok THEN locked \ {s} ELSE locked
     ELSE UNCHANGED <<op, locked>>
  /\ UNCHANGED <<mediaVars, inventory, ledger, faults, restarts>>

\* the process dies and starts again; recover() advances what is not verified
Restart ==
  /\ restarts < MaxRestart /\ restarts' = restarts + 1
  /\ MediaRestart
  /\ adv' = [a \in Advance |-> Idle]
  /\ UNCHANGED <<inventory, op, ledger, locked, faults>>
-----------------------------------------------------------------------------
Producer == \E u \in Upload : Produce(u) /\ UNCHANGED deletionVars
Operator == \E s \in Scope : CreateInventory(s) \/ ConfirmDeletion(s)
Advancing(a) ==
  \/ \E m \in Media : UnlinkEntry(a, m) \/ UnlinkFails(a, m) \/ VerifyEntry(a, m)
  \/ RecordOutcomes(a) \/ Finalize(a)
Cleanup == \E a \in Advance : Advancing(a) \/ \E s \in Scope : StartAdvance(a, s)

Next == Producer \/ Operator \/ Cleanup \/ Restart
Spec == Init /\ [][Next]_vars
-----------------------------------------------------------------------------
(***************************************************************************)
(* The file of a content that has a row is removed by no cleanup, however  *)
(* many advances work from ledgers they read earlier, by no restart and    *)
(* with no failed write, although the row may be a new one of the same     *)
(* content that a producer committed after the deletion released the old   *)
(* one.  The late removal of a discard is the one step that may do it.     *)
(***************************************************************************)
CleanupSparesLiveMedia ==
  [][ \A c \in file \ file' :
        Indexed(c) => \E u \in Upload : ContentOf(u) = c /\ RemoveFile(u) ]_vars

(***************************************************************************)
(* A deletion that reports success has no document left in its scope, and  *)
(* every file it was to remove had been unlinked or preserved when some    *)
(* advance recorded it: no entry is still pending.  The lock of the scope  *)
(* is held exactly from the confirmation to the report.                    *)
(***************************************************************************)
VerifiedMeansRemoved ==
  \A s \in Scope :
    /\ op[s] = "verified" => /\ Documents(s) = {}
                             /\ \A m \in Media : ledger[s][m].state # "pending"
    /\ s \in locked <=> op[s] \notin {"none", "verified"}

=============================================================================
