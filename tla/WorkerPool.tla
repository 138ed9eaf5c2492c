----------------------------- MODULE WorkerPool -----------------------------
(***************************************************************************)
(* The worker pool of one process (src/src/jobs/worker-pool.ts) under the  *)
(* runtime that starts and stops it (runtime.ts): executions with their    *)
(* abort signals, timeouts and heartbeats, the map of active executions,   *)
(* what a database or disk failure does to them, and the results that are  *)
(* committed or discarded.                                                 *)
(*                                                                         *)
(* The pool is one thread: an action is what runs until the next await.    *)
(* The scheduler's rows are kept as far as the pool's fences tell them     *)
(* apart; JobScheduler models the rest.  Leases do not lapse here.         *)
(***************************************************************************)
EXTENDS Integers, FiniteSets

CONSTANTS
  Job,         \* ids of jobs, all of one provider
  Damaged,     \* the jobs one of whose assets may turn out damaged
  MaxWorkers,  \* JobWorkerPoolOptions.maxWorkers
  MaxAttempt,  \* bound: claims of a job
  MaxBoot,     \* bound: processes
  MaxOutage    \* bound: times the database becomes unavailable

ASSUME PoolAssumption ==
  /\ Damaged \subseteq Job
  /\ MaxWorkers \in 1..4
  /\ {MaxAttempt, MaxBoot} \subseteq Nat \ {0}
  /\ MaxOutage \in Nat

VARIABLES
  row,       \* documents of the jobs: state, attempts, whether this boot claimed it
  storage,   \* the storage control row is active
  phase,     \* what each execution awaits
  aborted,   \* executions whose AbortController has fired
  output,    \* what became of the result of each execution
  active,    \* JobWorkerPool.active: the attempt filed under each job id
  accepting, \* JobWorkerPool.accepting
  status,    \* JobRuntime.workerStatus
  stopping,  \* JobWorkerPool.stop awaits the executions
  database,  \* the database answers
  outages, boot

rows == <<row, storage>>
executions == <<phase, aborted, output, active>>
pool == <<accepting, status, stopping>>
world == <<database, outages, boot>>
vars == <<rows, executions, pool, world>>

Attempt == 1..MaxAttempt
Execution == Job \X Attempt
Claimed == {"claimed", "running"}

(* a result that is not committed is discarded first, for one of four reasons: *)
(* the signal has fired, the owner refuses, the fence is lost, no database     *)
Discarding == {"timed_out", "refused", "unowned", "unsaved"}
Awaiting == {"preparing", "executing", "returned"} \cup Discarding
Phases == Awaiting \cup {"none", "late", "late_discarding", "ended"}

(* in JobWorkerPool.inflight: not resolved yet *)
Inflight == {x \in Execution : phase[x] \in Awaiting}

TypeOK ==
  /\ row \in [Job -> [state : {"queued", "claimed", "running", "paused", "succeeded", "failed"},
                      reason : {"none", "storage", "asset_integrity"},
                      under : {"none", "asset_integrity"},
                      attempt : 0..MaxAttempt]]
  /\ storage \in BOOLEAN
  /\ phase \in [Execution -> Phases]
  /\ aborted \subseteq Execution
  /\ output \in [Execution -> {"none", "made", "committed", "discarded"}]
  /\ active \in [Job -> 0..MaxAttempt]
  /\ accepting \in BOOLEAN
  /\ status \in {"stopped", "running", "halted"}
  /\ stopping \in BOOLEAN
  /\ database \in BOOLEAN
  /\ outages \in 0..MaxOutage
  /\ boot \in 1..MaxBoot

Init ==
  /\ row = [j \in Job |-> [state |-> "queued", reason |-> "none", under |-> "none", attempt |-> 0]]
  /\ storage = FALSE
  /\ phase = [x \in Execution |-> "none"]
  /\ aborted = {}
  /\ output = [x \in Execution |-> "none"]
  /\ active = [j \in Job |-> 0]
  /\ accepting = TRUE
  /\ status = "stopped"
  /\ stopping = FALSE
  /\ database = TRUE
  /\ outages = 0
  /\ boot = 1

-----------------------------------------------------------------------------
(* assertOwned: the row still carries the claim of execution x *)
Owned(x) == row[x[1]].state \in Claimed /\ row[x[1]].attempt = x[2]

(* what abortActive reaches: the executions filed in the map *)
Filed(map) == {x \in Execution : map[x[1]] = x[2]}

(* finally: the entry of the job id goes, whichever execution filed it *)
EntryRemoved(x) == [active EXCEPT ![x[1]] = 0]

(* the execution resolves: its slot is free and its timers are cleared *)
Ends(x, p) ==
  /\ phase' = [phase EXCEPT ![x] = p]
  /\ active' = EntryRemoved(x)

(* haltForDatabase, once: nothing is claimed any more, what runs is aborted *)
Halts ==
  /\ accepting' = FALSE
  /\ status' = "halted"
  /\ aborted' = aborted \cup Filed(active)
  /\ UNCHANGED stopping

-----------------------------------------------------------------------------
(* What the scheduler makes of a failure. *)
StoragePausable(r) ==
  \/ r.state \in Claimed \cup {"queued"}
  \/ r.state = "paused" /\ r.reason # "storage"

RetriedRow(r) == [r EXCEPT !.state = "queued"]
FailedRow(r) == [r EXCEPT !.state = "failed"]
StoppedRow(r) ==
  IF StoragePausable(r)
  THEN [r EXCEPT !.state = "paused", !.under = r.reason, !.reason = "storage"]
  ELSE r
RestoredRow(r) ==
  IF r.reason = "storage"
  THEN [r EXCEPT !.state = IF r.under = "none" THEN "queued" ELSE "paused",
                 !.reason = r.under, !.under = "none"]
  ELSE r

(* a disk failure: the scheduler stops for storage, then abortActive *)
RecordDisk(x) ==
  /\ row' = [j \in Job |-> StoppedRow(row[j])]
  /\ storage' = TRUE
  /\ aborted' = aborted \cup Filed(active)
  /\ UNCHANGED pool

RecordRow(x, next) ==
  /\ row' = [row EXCEPT ![x[1]] = next]
  /\ UNCHANGED <<storage, aborted, pool>>

(* recordFailure and, around it, recordUnexpected: without the database the  *)
(* pool halts and the row stays as it is; a fence that no longer holds is    *)
(* ownership loss, which is dropped                                          *)
RecordFailure(x, category) ==
  IF ~database \/ category = "database_unavailable" THEN Halts /\ UNCHANGED rows
  ELSE IF ~Owned(x) THEN UNCHANGED <<rows, aborted, pool>>
  ELSE CASE category = "disk_write_failure" -> RecordDisk(x)
         [] category = "stale_dependency" -> RecordRow(x, FailedRow(row[x[1]]))
         [] OTHER -> RecordRow(x, RetriedRow(row[x[1]]))

-----------------------------------------------------------------------------
(* Claiming. *)
MayClaim(j) ==
  /\ accepting /\ status = "running"
  /\ Cardinality(Inflight) < MaxWorkers
  /\ ~storage
  /\ row[j].state = "queued"
  /\ row[j].attempt < MaxAttempt

(* runOne: claimNext, markRunning and the call of prepare are one turn *)
RunOne(j) ==
  LET a == row[j].attempt + 1 IN
  /\ MayClaim(j) /\ database
  /\ row' = [row EXCEPT ![j].state = "running", ![j].attempt = a]
  /\ active' = [active EXCEPT ![j] = a]
  /\ phase' = [phase EXCEPT ![<<j, a>>] = "preparing"]
  /\ UNCHANGED <<storage, aborted, output, pool, world>>

(* the claim is written, the transition to running is not *)
RunOneCut(j) ==
  /\ MayClaim(j) /\ database
  /\ outages < MaxOutage
  /\ row' = [row EXCEPT ![j].state = "claimed", ![j].attempt = @ + 1]
  /\ Halts
  /\ database' = FALSE
  /\ outages' = outages + 1
  /\ UNCHANGED <<storage, phase, output, active, boot>>

(* a poll, a heartbeat or a health request finds the database gone *)
NoticeOutage ==
  /\ ~database
  /\ status = "running"
  /\ accepting \/ Inflight # {}
  /\ Halts
  /\ UNCHANGED <<rows, phase, output, active, world>>

-----------------------------------------------------------------------------
(* Executions. *)
Prepared(x) ==
  /\ phase[x] = "preparing" /\ x \notin aborted
  /\ phase' = [phase EXCEPT ![x] = "executing"]
  /\ UNCHANGED <<rows, aborted, output, active, pool, world>>

(* prepare or execute fails or throws *)
Fails(x, category) ==
  /\ phase[x] \in {"preparing", "executing"} /\ x \notin aborted
  /\ RecordFailure(x, category)
  /\ Ends(x, "ended")
  /\ UNCHANGED <<output, world>>

(* execute resolves with a value, files of it included *)
Returns(x) ==
  /\ phase[x] = "executing" /\ x \notin aborted
  /\ phase' = [phase EXCEPT ![x] = "returned"]
  /\ output' = [output EXCEPT ![x] = "made"]
  /\ UNCHANGED <<rows, aborted, active, pool, world>>

(* settleBeforeAbort: the operation is left to itself, and what it may still *)
(* return is discarded when it does (discardLateSuccess)                     *)
GivesUp(x) ==
  /\ x \in aborted
  /\ phase[x] \in {"preparing", "executing"}
  /\ RecordFailure(x, "timeout")
  /\ Ends(x, IF phase[x] = "executing" THEN "late" ELSE "ended")
  /\ UNCHANGED <<output, world>>

(* what it returned late is left where it is *)
FaultyLateReturn(x) ==
  /\ phase[x] = "late"
  /\ phase' = [phase EXCEPT ![x] = "ended"]
  /\ output' = [output EXCEPT ![x] = "made"]
  /\ UNCHANGED <<rows, aborted, active, pool, world>>

LateReturn(x) ==
  /\ phase[x] = "late"
  /\ phase' = [phase EXCEPT ![x] = "late_discarding"]
  /\ output' = [output EXCEPT ![x] = "made"]
  /\ UNCHANGED <<rows, aborted, active, pool, world>>

LateDiscarded(x) ==
  /\ phase[x] = "late_discarding"
  /\ phase' = [phase EXCEPT ![x] = "ended"]
  /\ output' = [output EXCEPT ![x] = "discarded"]
  /\ UNCHANGED <<rows, aborted, active, pool, world>>

(* commitWith *)
Commit(x) ==
  /\ phase[x] = "returned" /\ x \notin aborted
  /\ database /\ Owned(x)
  /\ row' = [row EXCEPT ![x[1]].state = "succeeded"]
  /\ output' = [output EXCEPT ![x] = "committed"]
  /\ Ends(x, "ended")
  /\ UNCHANGED <<storage, aborted, pool, world>>

(* why a result is not committed; the owner may find that its inputs changed *)
Rejection(x) ==
  IF x \in aborted THEN "timed_out"
  ELSE IF ~database THEN "unsaved"
  ELSE IF ~Owned(x) THEN "unowned"
  ELSE "refused"

(* definition.discard is awaited *)
Reject(x) ==
  /\ phase[x] = "returned"
  /\ phase' = [phase EXCEPT ![x] = Rejection(x)]
  /\ UNCHANGED <<rows, aborted, output, active, pool, world>>

(* a refusal is taken for lost ownership whenever the signal has fired *)
FaultyDropped(x) == phase[x] = "unowned" \/ (phase[x] # "timed_out" /\ x \in aborted)

(* recordUnexpected is silent about lost ownership, and about anything that is *)
(* thrown by an aborted execution of a pool that no longer accepts work        *)
Dropped(x) ==
  \/ phase[x] = "unowned"
  \/ phase[x] # "timed_out" /\ x \in aborted /\ ~accepting

CategoryOf(x) ==
  CASE phase[x] = "timed_out" -> "timeout"
    [] phase[x] = "unsaved" -> "database_unavailable"
    [] OTHER -> "stale_dependency"

Discarded(x) ==
  /\ phase[x] \in Discarding
  /\ output' = [output EXCEPT ![x] = "discarded"]
  /\ IF Dropped(x) THEN UNCHANGED <<rows, aborted, pool>>
                   ELSE RecordFailure(x, CategoryOf(x))
  /\ Ends(x, "ended")
  /\ UNCHANGED world

(* only execute is given a deadline *)
FaultyTimeout(x) ==
  /\ x \in Inflight /\ phase[x] # "preparing" /\ x \notin aborted
  /\ aborted' = aborted \cup {x}
  /\ UNCHANGED <<rows, phase, output, active, pool, world>>

(* setTimeout: the deadline covers prepare, execute and discard *)
Timeout(x) ==
  /\ x \in Inflight /\ x \notin aborted
  /\ aborted' = aborted \cup {x}
  /\ UNCHANGED <<rows, phase, output, active, pool, world>>

(* a heartbeat that the scheduler refuses aborts the execution *)
Heartbeat(x) ==
  /\ database /\ ~Owned(x)
  /\ Timeout(x)

-----------------------------------------------------------------------------
(* JobRuntime. *)
Start ==
  /\ status = "stopped" /\ accepting
  /\ status' = "running"
  /\ UNCHANGED <<rows, executions, accepting, stopping, world>>

Requeued(j) == active[j] # 0 /\ Owned(<<j, active[j]>>)

(* stop: no more claims, abort, and the claims that are still owned go back; *)
(* without a database they stay and the pool halts                           *)
Stop ==
  /\ status # "stopped" /\ ~stopping
  /\ stopping' = TRUE
  /\ accepting' = FALSE
  /\ aborted' = aborted \cup Filed(active)
  /\ status' = IF ~database /\ Filed(active) # {} THEN "halted" ELSE status
  /\ row' = [j \in Job |-> IF database /\ Requeued(j) THEN RetriedRow(row[j]) ELSE row[j]]
  /\ UNCHANGED <<storage, phase, output, active, world>>

Stopped ==
  /\ stopping
  /\ Inflight = {}
  /\ stopping' = FALSE
  /\ status' = IF database THEN "stopped" ELSE "halted"
  /\ UNCHANGED <<rows, executions, accepting, world>>

(* the process ends, in whatever state; the next one recovers the claims *)
Restart ==
  /\ boot < MaxBoot
  /\ boot' = boot + 1
  /\ phase' = [x \in Execution |-> IF phase[x] = "none" THEN "none" ELSE "ended"]
  /\ output' = [x \in Execution |-> IF output[x] = "made" THEN "none" ELSE output[x]]
  /\ aborted' = {}
  /\ active' = [j \in Job |-> 0]
  /\ accepting' = TRUE
  /\ status' = "stopped"
  /\ stopping' = FALSE
  /\ database' = TRUE
  /\ row' = [j \in Job |-> IF row[j].state \in Claimed THEN RetriedRow(row[j]) ELSE row[j]]
  /\ UNCHANGED <<storage, outages>>

-----------------------------------------------------------------------------
(* The scheduler's other callers, and the world. *)
PauseForIntegrity(j) ==
  /\ j \in Damaged /\ database
  /\ row[j].state \in Claimed \cup {"queued"}
  /\ row' = [row EXCEPT ![j].state = "paused", ![j].reason = "asset_integrity"]
  /\ UNCHANGED <<storage, executions, pool, world>>

Retry(j) ==
  /\ database
  /\ row[j].state = "paused" /\ row[j].reason = "asset_integrity"
  /\ row' = [row EXCEPT ![j].state = "queued", ![j].reason = "none"]
  /\ UNCHANGED <<storage, executions, pool, world>>

ResumeStorage ==
  /\ storage /\ database
  /\ storage' = FALSE
  /\ row' = [j \in Job |-> RestoredRow(row[j])]
  /\ UNCHANGED <<executions, pool, world>>

DatabaseFails ==
  /\ database /\ outages < MaxOutage
  /\ database' = FALSE
  /\ outages' = outages + 1
  /\ UNCHANGED <<rows, executions, pool, boot>>

DatabaseReturns ==
  /\ ~database
  /\ database' = TRUE
  /\ UNCHANGED <<rows, executions, pool, outages, boot>>

-----------------------------------------------------------------------------
Categories == {"network_failure", "stale_dependency", "disk_write_failure", "database_unavailable"}

Settles(x) == Commit(x) \/ Reject(x)

Step(x) ==
  \/ Prepared(x) \/ Returns(x) \/ GivesUp(x) \/ Settles(x) \/ Discarded(x)
  \/ LateReturn(x) \/ LateDiscarded(x) \/ Timeout(x) \/ Heartbeat(x)
  \/ \E category \in Categories : Fails(x, category)

Next ==
  \/ \E x \in Execution : Step(x)
  \/ \E j \in Job : RunOne(j) \/ RunOneCut(j) \/ PauseForIntegrity(j) \/ Retry(j)
  \/ NoticeOutage \/ Start \/ Stop \/ Stopped \/ Restart
  \/ ResumeStorage \/ DatabaseFails \/ DatabaseReturns

(* Timers fire, and what they resolve goes on.  prepare and execute may hang, *)
(* an operation that gave up may never return; discarding a result is the     *)
(* program's own file work and ends.                                          *)
Fairness ==
  /\ \A x \in Execution :
       /\ WF_vars(Timeout(x)) /\ WF_vars(GivesUp(x)) /\ WF_vars(Settles(x))
       /\ WF_vars(Discarded(x)) /\ WF_vars(LateDiscarded(x))
  /\ WF_vars(Stopped)

Spec == Init /\ [][Next]_vars
FairSpec == Spec /\ Fairness

-----------------------------------------------------------------------------
(* While the pool accepts work, every claim that the database shows has an    *)
(* execution that will report it: no failure, refusal or timeout of this      *)
(* process is swallowed with the row still running.  (executeClaim,           *)
(* recordUnexpected)                                                          *)
ClaimsAreWatched ==
  accepting /\ status = "running" =>
    \A j \in Job : row[j].state \in Claimed => <<j, row[j].attempt>> \in Inflight

(* Whatever an execution produced, in time or after it was given up, is       *)
(* committed or discarded in the end, unless the process ends: no prepared    *)
(* file is forgotten.  (commitResult, discardLateSuccess)                     *)
ResultsAreSettled ==
  \A x \in Execution : output[x] = "made" ~> output[x] # "made"

(* A shutdown ends, though an execution that lost its entry in the map of     *)
(* active executions is not aborted by it: the deadline ends that one.        *)
(* (JobWorkerPool.stop awaits every execution in flight)                      *)
ShutdownEnds == stopping ~> ~stopping
=============================================================================
