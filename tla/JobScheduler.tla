---------------------------- MODULE JobScheduler ----------------------------
(***************************************************************************)
(* The durable job scheduler of src/src/jobs: one SQLite table of job      *)
(* rows, written only by synchronous transactions of a single process.     *)
(* Every action below is one such transaction; what interleaves is which   *)
(* caller runs the next one: an execution of the worker pool that comes    *)
(* back from an await, an operator request, a timer, a portability         *)
(* operation that locks a project, or a crash of the process.              *)
(*                                                                         *)
(* The optimistic checks on revision and expected state make a request     *)
(* that was prepared against an older row fail without effect, so a        *)
(* request is modelled as acting on the row it finds.                      *)
(*                                                                         *)
(* Definitions named Faulty... are not part of the model: each is the      *)
(* definition after it with one plausible mistake, kept to show that a     *)
(* property of the runs would notice the mistake.                          *)
(***************************************************************************)
EXTENDS Integers, FiniteSets

CONSTANTS
  Job,          \* identifiers of job rows; within a batch rows are numbered by id
  Spare,        \* identifiers kept for the successors of superseded jobs
  Batches,      \* sets of planned jobs that callers enqueue together
  Plan,         \* what each planned job is: scope, lane, gate kind, deps, follow-ups
  Scope,        \* owners of jobs: projects and standalone scopes
  Project,      \* the scopes a portability operation can lock
  Lane,         \* provider targets, one per provider and operation
  NoLane,       \* target null: local work and human gates
  Provider, ProviderOf,     \* the provider of each lane
  OperationOf,  \* the operation (text, structured, image) of each lane
  Cap,          \* concurrencyPerProvider
  LeaseTtl,     \* clock ticks a lease lasts
  RetryDelay,   \* clock ticks an automatic retry waits
  Failures,     \* failure categories an execution may report
  Priorities,   \* priorities an operator may set; a new job has DefaultPriority
  DefaultPriority,
  MaxAttempts,  \* bound: claims of one job
  MaxBoot       \* bound: starts of the process

GateKinds == {"none", "review", "owner"}

(***************************************************************************)
(* SpareJobs are never planned; a planned job depends on planned jobs and  *)
(* a human gate has no provider target, as every caller enqueues it.       *)
(***************************************************************************)
ASSUME JobsAreNumbers == Job \subseteq Nat /\ IsFiniteSet(Job) /\ Spare \subseteq Job
ASSUME PlanIsWellFormed ==
  /\ Plan \in [Job -> [scope: Scope, lane: Lane \cup {NoLane}, gate: GateKinds,
                       deps: SUBSET Job, follow: SUBSET Job]]
  /\ \A j \in Job : Plan[j].gate # "none" => Plan[j].lane = NoLane
  /\ Batches \subseteq SUBSET (Job \ Spare)
  /\ \A j \in Job : Plan[j].follow \cap Spare = {}
\* every caller enqueues a human gate on its own or with the commit of the one job it
\* waits for, so that it is never inserted before what it depends on has succeeded
ASSUME GatesAreReady ==
  /\ \A batch \in Batches : \A k \in batch : Plan[k].gate # "none" => Plan[k].deps = {}
  /\ \A j \in Job : \A k \in Plan[j].follow : Plan[k].gate # "none" => Plan[k].deps \subseteq {j}
ASSUME LanesHaveProviders ==
  /\ NoLane \notin Lane
  /\ ProviderOf \in [Lane -> Provider]
  /\ DOMAIN OperationOf = Lane
  /\ Project \subseteq Scope
ASSUME BoundsArePositive ==
  /\ Cap \in Nat \ {0} /\ LeaseTtl \in Nat \ {0} /\ RetryDelay \in Nat
  /\ MaxAttempts \in Nat /\ MaxBoot \in Nat
  /\ Priorities \subseteq Nat /\ DefaultPriority \in Priorities

VARIABLES
  attr,      \* immutable columns of a row: role in the plan, lane, deps, createdSequence
  job,       \* mutable columns of a row; state "absent" where there is no row
  inflight,  \* per job, the attempts whose execution is alive in this process
  quota,     \* per lane, the open quota incident if there is one
  cred,      \* per provider, the open credential incident if there is one
  storage,   \* the global storage control row
  lock,      \* per project, the portability scope lock
  boot,      \* number of the running process
  winner     \* history: the attempt whose result was committed, 0 if none

vars == <<attr, job, inflight, quota, cred, storage, lock, boot, winner>>
incidents == <<quota, cred, storage>>

Terminal == {"succeeded", "failed", "canceled"}
Active == {"claimed", "running"}
Waiting == {"queued", "blocked"}
States == Terminal \cup Active \cup Waiting
            \cup {"absent", "paused", "waiting_review"}
RetriedFailures == {"provider_unavailable", "rate_limited", "network_failure",
  "timeout", "malformed_output", "output_validation_failed", "media_decode_failure"}
FinalFailures == {"invalid_input", "safety_refusal", "stale_dependency",
  "missing_reference_asset", "user_canceled", "unknown"}
StorageFailures == {"disk_write_failure", "insufficient_disk_space"}
Categories == RetriedFailures \cup FinalFailures \cup StorageFailures
                \cup {"invalid_credentials", "quota_exhausted"}
Reasons == {"none", "dependency", "operator", "asset_integrity", "quota",
  "credentials", "storage", "retry_delay", "retry_exhausted", "recovered",
  "shutdown", "superseded"} \cup Categories
ASSUME FailuresAreCategories == Failures \subseteq Categories

NoLease == [boot |-> 0, ttl |-> 0]
NoRetry == [boot |-> 0, wait |-> 0]
NoResume == [state |-> "none", reason |-> "none"]
NoQuota == [open |-> FALSE, owned |-> {}, decided |-> {}]
NoCred == [open |-> FALSE, owned |-> {}]
NoStorage == [active |-> FALSE, owned |-> {}]
NoLock == [phase |-> "none", captured |-> {}]

NoRow == [state |-> "absent", reason |-> "none", resume |-> NoResume,
          lease |-> NoLease, retry |-> NoRetry, attempts |-> 0, autoRetry |-> 0,
          priority |-> DefaultPriority]

Init ==
  /\ attr = [j \in Job |-> [role |-> j, lane |-> Plan[j].lane,
                            deps |-> Plan[j].deps, seq |-> 0]]
  /\ job = [j \in Job |-> NoRow]
  /\ inflight = [j \in Job |-> {}]
  /\ quota = [l \in Lane |-> NoQuota]
  /\ cred = [p \in Provider |-> NoCred]
  /\ storage = NoStorage
  /\ lock = [s \in Project |-> NoLock]
  /\ boot = 1
  /\ winner = [j \in Job |-> 0]

(***************************************************************************)
(* Reading rows.  `as' and `rows' are the two halves of the jobs table,    *)
(* passed in where a transaction reads what it has already written.        *)
(***************************************************************************)
Exists(j) == job[j].state # "absent"
GateOf(as, j) == Plan[as[j].role].gate
IsGate(as, j) == GateOf(as, j) # "none"
ScopeOf(as, j) == Plan[as[j].role].scope
LockOf(s) == IF s \in Project THEN lock[s] ELSE NoLock

\* every scheduler purpose but scheduler_run and scheduler_commit
Unlocked(as, j) == LockOf(ScopeOf(as, j)).phase = "none"

\* a draining project refuses even what it captured
FaultyMayFinish(j) == Unlocked(attr, j)

\* scheduler_run and scheduler_commit: a captured attempt may also finish a drain
MayFinish(j) ==
  \/ Unlocked(attr, j)
  \/ /\ LockOf(ScopeOf(attr, j)).phase = "draining"
     /\ <<j, job[j].attempts>> \in LockOf(ScopeOf(attr, j)).captured

\* a fence of an older claim passes
FaultyOwns(j, a, state) ==
  /\ job[j].state = state
  /\ job[j].lease # NoLease
  /\ job[j].lease.boot = boot
  /\ a <= job[j].attempts
  /\ job[j].lease.ttl > 0

\* the fence of attempt a still owns the row: newest claim, unexpired lease of this boot
Owns(j, a, state) ==
  /\ job[j].state = state
  /\ job[j].lease # NoLease
  /\ job[j].lease.boot = boot
  /\ job[j].attempts = a
  /\ job[j].lease.ttl > 0

DependenciesSucceeded(as, rows, j) ==
  \A d \in as[j].deps : rows[d].state = "succeeded"

(***************************************************************************)
(* Changes of one row that several transactions share.                     *)
(***************************************************************************)
Resumable(state) == IF state \in Active THEN "queued" ELSE state

\* paused for `why', remembering `because' as the reason to come back to
PausedRow(r, why, because) ==
  [r EXCEPT !.state = "paused", !.reason = why, !.lease = NoLease,
            !.resume = [state |-> Resumable(r.state), reason |-> because]]

RestoredRow(r) ==
  [r EXCEPT !.state = IF r.resume.state = "none" THEN "queued" ELSE r.resume.state,
            !.reason = r.resume.reason,
            !.resume = NoResume]

\* the lease outlives the claim
FaultyRequeuedRow(r, why) == [r EXCEPT !.state = "queued", !.reason = why]

RequeuedRow(r, why) ==
  [r EXCEPT !.state = "queued", !.reason = why, !.lease = NoLease]

SucceededRow(r) == [r EXCEPT !.state = "succeeded", !.reason = "none", !.lease = NoLease]

CanceledRow(r) ==
  [r EXCEPT !.state = "canceled", !.reason = "user_canceled",
            !.lease = NoLease, !.retry = NoRetry, !.resume = NoResume]

(***************************************************************************)
(* promoteReady: every transaction that can complete a dependency, and     *)
(* every poll for work, ends the wait of the rows that are ready.          *)
(***************************************************************************)
\* rows are promoted whatever state they are in
FaultyPromotable(as, rows, j) ==
  /\ rows[j].state # "absent"
  /\ DependenciesSucceeded(as, rows, j)
  /\ Unlocked(as, j)

Promotable(as, rows, j) ==
  /\ rows[j].state = "blocked"
  /\ DependenciesSucceeded(as, rows, j)
  /\ Unlocked(as, j)

\* human gates are not woken
FaultyPromoted(as, rows) ==
  [j \in Job |->
     IF Promotable(as, rows, j) /\ ~IsGate(as, j)
     THEN [rows[j] EXCEPT !.state = "queued", !.reason = "none"]
     ELSE rows[j]]

Promoted(as, rows) ==
  [j \in Job |->
     IF Promotable(as, rows, j)
     THEN [rows[j] EXCEPT
             !.state = IF IsGate(as, j) THEN "waiting_review" ELSE "queued",
             !.reason = "none"]
     ELSE rows[j]]

(***************************************************************************)
(* enqueueInTransaction.  An open incident of the provider, or of its      *)
(* lane, takes in a new job at birth.                                      *)
(***************************************************************************)
InitialRow(as, rows, j, priority) ==
  LET fresh == [NoRow EXCEPT !.priority = priority] IN
  IF ~DependenciesSucceeded(as, rows, j)
  THEN [fresh EXCEPT !.state = "blocked", !.reason = "dependency"]
  ELSE [fresh EXCEPT !.state = IF IsGate(as, j) THEN "waiting_review" ELSE "queued"]

CredOpen(as, j) == as[j].lane \in Lane /\ cred[ProviderOf[as[j].lane]].open
QuotaOpen(as, j) == as[j].lane \in Lane /\ quota[as[j].lane].open

NewRow(as, rows, j, priority) ==
  LET r == InitialRow(as, rows, j, priority) IN
  IF IsGate(as, j) THEN r
  ELSE IF CredOpen(as, j) THEN PausedRow(r, "credentials", r.reason)
  ELSE IF QuotaOpen(as, j) THEN PausedRow(r, "quota", r.reason)
  ELSE r

Inserted(as, rows, new, priority) ==
  [j \in Job |-> IF j \in new THEN NewRow(as, rows, j, priority[j]) ELSE rows[j]]

\* a job born under an open incident is paused but not taken in
FaultyQuotaWith(as, rows, new) == quota

\* the incidents with the new rows of `as' that they took in
QuotaWith(as, rows, new) ==
  [l \in Lane |-> [quota[l] EXCEPT !.owned = @ \cup
     {j \in new : as[j].lane = l /\ rows[j].state = "paused" /\ rows[j].reason = "quota"}]]
CredWith(as, rows, new) ==
  [p \in Provider |-> [cred[p] EXCEPT !.owned = @ \cup
     {j \in new : /\ as[j].lane \in Lane /\ ProviderOf[as[j].lane] = p
                  /\ rows[j].state = "paused" /\ rows[j].reason = "credentials"}]]

\* createdSequence: numbers after those of every row there is
Sequence(new, j) ==
  Cardinality({k \in Job : Exists(k)}) + Cardinality({k \in new : k <= j})

\* no set of rows in which each waits for another of the set
Acyclic(as, rows) ==
  \A S \in SUBSET rows : S # {} => {j \in S : as[j].deps \cap S = {}} # {}

ValidDag(as, new) ==
  /\ \A j \in new : \A d \in as[j].deps :
       /\ d \in (new \ {j}) \cup {k \in Job : Exists(k)}
       /\ ScopeOf(as, d) = ScopeOf(as, j)
  /\ Acyclic(as, new \cup {j \in Job : Exists(j)})

\* rows that can be inserted now: admitted by their scope, a legal graph
Insertable(as, new) ==
  /\ \A j \in new : Unlocked(as, j)
  /\ ValidDag(as, new)

\* a request for an intent that has a row already returns that row
Fresh(batch) == {j \in batch : ~Exists(j)}

NumberedAttr(new, depsOf) ==
  [j \in Job |-> IF j \in new
                 THEN [attr[j] EXCEPT !.deps = depsOf[j], !.seq = Sequence(new, j)]
                 ELSE attr[j]]

Enqueue(batch) ==
  LET new == Fresh(batch)
      as == NumberedAttr(new, [j \in new |-> Plan[j].deps])
      rows == Inserted(as, job, new, [j \in new |-> DefaultPriority])
  IN /\ new # {}
     /\ Insertable(as, new)
     /\ attr' = as
     /\ job' = rows
     /\ quota' = QuotaWith(as, rows, new)
     /\ cred' = CredWith(as, rows, new)
     /\ UNCHANGED <<inflight, storage, lock, boot, winner>>

(***************************************************************************)
(* Claiming work.                                                          *)
(***************************************************************************)
InProvider(rows, p) ==
  {j \in Job : /\ rows[j].state \in Active
               /\ attr[j].lane \in Lane /\ ProviderOf[attr[j].lane] = p}

\* off by one
FaultyBelowCap(rows, j) ==
  attr[j].lane \in Lane =>
    Cardinality(InProvider(rows, ProviderOf[attr[j].lane])) <= Cap

BelowCap(rows, j) ==
  attr[j].lane \in Lane =>
    Cardinality(InProvider(rows, ProviderOf[attr[j].lane])) < Cap

\* a monotonic delay of another boot is waited for, though that clock is gone
FaultyRetryDue(r, j, due) == r.retry = NoRetry \/ (r.retry.boot = boot /\ r.retry.wait = 0)

\* retry delays set by another boot end by the wall clock, which the model
\* leaves open: `due' are the ones it has reached
RetryDue(r, j, due) ==
  \/ r.retry = NoRetry
  \/ r.retry.boot = boot /\ r.retry.wait = 0
  \/ r.retry.boot # boot /\ j \in due

Eligible(rows, due) ==
  {j \in Job : /\ rows[j].state = "queued"
               /\ Unlocked(attr, j)
               /\ RetryDue(rows[j], j, due)
               /\ BelowCap(rows, j)}

\* ORDER BY priority DESC, createdSequence
ClaimedFirst(rows, j, candidates) ==
  \A k \in candidates :
    \/ rows[j].priority > rows[k].priority
    \/ rows[j].priority = rows[k].priority /\ attr[j].seq <= attr[k].seq

ClaimedRow(r) ==
  [r EXCEPT !.state = "claimed", !.reason = "none", !.retry = NoRetry,
            !.lease = [boot |-> boot, ttl |-> LeaseTtl],
            !.attempts = @ + 1]

WallClock == SUBSET {j \in Job : job[j].retry.boot \notin {0, boot}}

ClaimNext(j, due) ==
  LET rows == Promoted(attr, job) IN
  /\ ~storage.active
  /\ j \in Eligible(rows, due)
  /\ ClaimedFirst(rows, j, Eligible(rows, due))
  /\ rows[j].attempts < MaxAttempts
  /\ job' = [rows EXCEPT ![j] = ClaimedRow(@)]
  /\ inflight' = [inflight EXCEPT ![j] = @ \cup {job[j].attempts + 1}]
  /\ UNCHANGED <<attr, incidents, lock, boot, winner>>

\* a poll that finds nothing to claim has promoted all the same
Poll(due) ==
  /\ ~storage.active
  /\ Eligible(Promoted(attr, job), due) = {}
  /\ job' = Promoted(attr, job)
  /\ UNCHANGED <<attr, inflight, incidents, lock, boot, winner>>

(***************************************************************************)
(* What the execution of attempt a of job j does.                          *)
(***************************************************************************)
Ends(j, a) == inflight' = [inflight EXCEPT ![j] = @ \ {a}]

CanMarkRunning(j, a) == Owns(j, a, "claimed") /\ MayFinish(j)

MarkRunning(j, a) ==
  /\ CanMarkRunning(j, a)
  /\ job' = [job EXCEPT ![j].state = "running"]
  /\ UNCHANGED <<attr, inflight, incidents, lock, boot, winner>>

CanReport(j, a) == Owns(j, a, "running") /\ MayFinish(j)

Heartbeat(j, a) ==
  /\ CanReport(j, a)
  /\ job' = [job EXCEPT ![j].lease.ttl = LeaseTtl]
  /\ UNCHANGED <<attr, inflight, incidents, lock, boot, winner>>

\* the jobs the owner's commit enqueues, depending on the job itself
FollowUps(j) == Fresh(Plan[attr[j].role].follow)
FollowUpAttr(j) ==
  NumberedAttr(FollowUps(j),
    [k \in FollowUps(j) |->
       {IF d = attr[j].role THEN j ELSE d : d \in Plan[k].deps}])

CanCommit(j, a) ==
  /\ CanReport(j, a)
  /\ Insertable(FollowUpAttr(j), FollowUps(j))

\* commitWith: the owner's writes, the result and the promotions are one transaction
Commit(j, a) ==
  LET new == FollowUps(j)
      as == FollowUpAttr(j)
      rows == Inserted(as, job, new, [k \in new |-> job[j].priority])
  IN /\ CanCommit(j, a)
     /\ attr' = as
     /\ job' = Promoted(as, [rows EXCEPT ![j] = SucceededRow(@)])
     /\ quota' = QuotaWith(as, rows, new)
     /\ cred' = CredWith(as, rows, new)
     /\ Ends(j, a)
     /\ winner' = [winner EXCEPT ![j] = a]
     /\ UNCHANGED <<storage, lock, boot>>

\* an execution whose report the scheduler refuses is dropped without a trace in the row
Abandon(j, a) ==
  /\ ~CanMarkRunning(j, a)
  /\ ~CanCommit(j, a)
  /\ Ends(j, a)
  /\ UNCHANGED <<attr, job, incidents, lock, boot, winner>>

(***************************************************************************)
(* RETRY_POLICIES: how often each category is retried, and what ends it.   *)
(* An error code that a definition attaches to the failure would replace   *)
(* the reason; the category stands for it.                                 *)
(***************************************************************************)
RetryLimit(c) ==
  CASE c \in {"provider_unavailable", "rate_limited", "network_failure"} -> 3
    [] c \in {"timeout", "malformed_output", "output_validation_failed"} -> 2
    [] c = "media_decode_failure" -> 1
    [] OTHER -> 0

Exhausted(c) ==
  CASE c \in {"invalid_input", "safety_refusal", "stale_dependency"} ->
         [state |-> "failed", reason |-> c]
    [] c = "user_canceled" -> [state |-> "canceled", reason |-> c]
    [] c = "missing_reference_asset" -> [state |-> "paused", reason |-> "dependency"]
    [] c = "provider_unavailable" -> [state |-> "paused", reason |-> c]
    [] c = "unknown" -> [state |-> "paused", reason |-> "operator"]
    [] OTHER -> [state |-> "paused", reason |-> "retry_exhausted"]

RetriedRow(r) ==
  [RequeuedRow(r, "retry_delay") EXCEPT
     !.retry = [boot |-> r.lease.boot, wait |-> RetryDelay],
     !.autoRetry = @ + 1]

ExhaustedRow(r, c) ==
  [r EXCEPT !.state = Exhausted(c).state, !.reason = Exhausted(c).reason, !.lease = NoLease]

FailRetry(j, a, c) ==
  /\ CanReport(j, a)
  /\ c \in RetriedFailures \cup FinalFailures
  /\ job[j].autoRetry < RetryLimit(c)
  /\ job' = [job EXCEPT ![j] = RetriedRow(@)]
  /\ Ends(j, a)
  /\ UNCHANGED <<attr, incidents, lock, boot, winner>>

FailFinal(j, a, c) ==
  /\ CanReport(j, a)
  /\ c \in RetriedFailures \cup FinalFailures
  /\ job[j].autoRetry >= RetryLimit(c)
  /\ job' = [job EXCEPT ![j] = ExhaustedRow(@, c)]
  /\ Ends(j, a)
  /\ UNCHANGED <<attr, incidents, lock, boot, winner>>

\* rows an incident of job j sweeps up: itself, and what waits for the same target
WaitingIn(j, lanes) ==
  {j} \cup {k \in Job : job[k].state \in Waiting /\ attr[k].lane \in lanes}

\* the incident is opened, or the open one takes in more rows
Opened(incident, swept) == [incident EXCEPT !.open = TRUE, !.owned = @ \cup swept]

ActivateQuota(j, a) ==
  LET l == attr[j].lane
      swept == WaitingIn(j, {l})
  IN /\ CanReport(j, a)
     /\ l \in Lane
     /\ job' = [k \in Job |-> IF k \in swept THEN PausedRow(job[k], "quota", "none")
                                              ELSE job[k]]
     /\ quota' = [quota EXCEPT ![l] = Opened(@, swept)]
     /\ Ends(j, a)
     /\ UNCHANGED <<attr, cred, storage, lock, boot, winner>>

ActivateCredentials(j, a) ==
  LET p == ProviderOf[attr[j].lane]
      swept == WaitingIn(j, {l \in Lane : ProviderOf[l] = p})
  IN /\ CanReport(j, a)
     /\ attr[j].lane \in Lane
     /\ job' = [k \in Job |-> IF k \in swept
                               THEN PausedRow(job[k], "credentials", job[k].reason)
                               ELSE job[k]]
     /\ cred' = [cred EXCEPT ![p] = Opened(@, swept)]
     /\ Ends(j, a)
     /\ UNCHANGED <<attr, quota, storage, lock, boot, winner>>

\* claims that have not started yet are overlooked
FaultyStoragePausable ==
  {j \in Job : /\ job[j].state \notin Terminal \cup {"absent", "waiting_review", "claimed"}
               /\ ~(job[j].state = "paused" /\ job[j].reason = "storage")}

\* a full or failing disk stops every row that could still write, paused ones too
StoragePausable ==
  {j \in Job : /\ job[j].state \notin Terminal \cup {"absent", "waiting_review"}
               /\ ~(job[j].state = "paused" /\ job[j].reason = "storage")}

\* jobRecordSchema refuses a human gate in any other state than these
GateStates == {"absent", "blocked", "waiting_review", "succeeded", "canceled"}
NoGateIn(S) == \A j \in S : ~IsGate(attr, j)

ActivateStorage(j, a) ==
  /\ CanReport(j, a)
  /\ NoGateIn(StoragePausable)
  /\ job' = [k \in Job |->
       IF k \in StoragePausable
       THEN PausedRow(job[k], "storage",
                      IF job[k].state = "paused" THEN job[k].reason ELSE "none")
       ELSE job[k]]
  /\ storage' = [active |-> TRUE,
                 owned |-> StoragePausable \cup (IF storage.active THEN storage.owned ELSE {})]
  /\ Ends(j, a)
  /\ UNCHANGED <<attr, quota, cred, lock, boot, winner>>

RecordFailure(j, a, c) ==
  \/ FailRetry(j, a, c)
  \/ FailFinal(j, a, c)
  \/ c = "quota_exhausted" /\ ActivateQuota(j, a)
  \/ c = "invalid_credentials" /\ ActivateCredentials(j, a)
  \/ c \in StorageFailures /\ ActivateStorage(j, a)

\* JobWorkerPool.stop: the execution is aborted, its row goes back to the queue
RequeueOwned(j, a) ==
  /\ Owns(j, a, "claimed") \/ Owns(j, a, "running")
  /\ Unlocked(attr, j)
  /\ job' = [job EXCEPT ![j] = RequeuedRow(@, "shutdown")]
  /\ UNCHANGED <<attr, inflight, incidents, lock, boot, winner>>

(***************************************************************************)
(* The process dies with its executions; the next one recovers the claims  *)
(* of dead boots, once, before it claims anything (JobRuntime.recover).    *)
(***************************************************************************)
Restart ==
  /\ boot < MaxBoot
  /\ boot' = boot + 1
  /\ inflight' = [j \in Job |-> {}]
  /\ job' = [j \in Job |->
       IF job[j].state \in Active /\ Unlocked(attr, j)
       THEN RequeuedRow(job[j], "recovered") ELSE job[j]]
  /\ UNCHANGED <<attr, incidents, lock, winner>>

\* no floor
FaultyElapsed(n) == n - 1

\* the monotonic clock of this boot: leases and retry delays run down to zero
Elapsed(n) == IF n > 0 THEN n - 1 ELSE 0

AgedRow(r) ==
  [r EXCEPT !.lease.ttl = IF r.lease.boot = boot THEN Elapsed(@) ELSE @,
            !.retry.wait = IF r.retry.boot = boot THEN Elapsed(@) ELSE @]

Tick ==
  /\ job' = [j \in Job |-> AgedRow(job[j])]
  /\ UNCHANGED <<attr, inflight, incidents, lock, boot, winner>>

(***************************************************************************)
(* Operator requests and owner callbacks.                                  *)
(***************************************************************************)
SetPriority(j, p) ==
  /\ job[j].state \in Waiting \cup {"paused", "waiting_review"}
  /\ job' = [job EXCEPT ![j].priority = p]
  /\ UNCHANGED <<attr, inflight, incidents, lock, boot, winner>>

PausedByOperator(S) ==
  [j \in Job |-> IF j \in S THEN PausedRow(job[j], "operator", job[j].reason) ELSE job[j]]

Pause(j) ==
  /\ job[j].state \in Waiting
  /\ NoGateIn({j})
  /\ job' = PausedByOperator({j})
  /\ UNCHANGED <<attr, inflight, incidents, lock, boot, winner>>

\* the owner of a damaged asset takes the job out, whatever it is doing
PauseForIntegrity(j) ==
  /\ job[j].state \in Waiting \cup Active
  /\ NoGateIn({j})
  /\ job' = [job EXCEPT ![j] = PausedRow(@, "asset_integrity", @.reason)]
  /\ UNCHANGED <<attr, inflight, incidents, lock, boot, winner>>

ReleaseIntegrityPause(j) ==
  /\ job[j].state = "paused" /\ job[j].reason = "asset_integrity"
  /\ job' = [job EXCEPT ![j].reason = "operator"]
  /\ UNCHANGED <<attr, inflight, incidents, lock, boot, winner>>

\* every remediation restores its rows or none, and then promotes
Restored(S) == [j \in Job |-> IF j \in S THEN RestoredRow(job[j]) ELSE job[j]]

Restore(S) ==
  /\ \A j \in S : Unlocked(attr, j)
  /\ job' = Promoted(attr, Restored(S))
  /\ UNCHANGED <<attr, inflight, lock, boot, winner>>

PausedFor(why) == {j \in Job : job[j].state = "paused" /\ job[j].reason = why}
JobsOf(s) == {j \in Job : Exists(j) /\ ScopeOf(attr, j) = s}

Resume(j) ==
  /\ j \in PausedFor("operator")
  /\ Restore({j})
  /\ UNCHANGED incidents

ResumeProject(s) ==
  /\ Restore(JobsOf(s) \cap PausedFor("operator"))
  /\ UNCHANGED incidents

PauseProject(s) ==
  LET swept == {j \in JobsOf(s) : job[j].state \in Waiting} IN
  /\ NoGateIn(swept)
  /\ job' = PausedByOperator(swept)

PauseProjectJobs(s) ==
  /\ PauseProject(s)
  /\ UNCHANGED <<attr, inflight, incidents, lock, boot, winner>>

\* pauses that only their own remediation may end
OwnRemediation == {"credentials", "quota", "storage", "operator"}

\* a retry does not look at the dependencies
FaultyReadiedRow(r, ready) ==
  [r EXCEPT !.state = "queued", !.reason = "none",
            !.resume = NoResume, !.lease = NoLease, !.retry = NoRetry, !.autoRetry = 0]

ReadiedRow(r, ready) ==
  [r EXCEPT !.state = IF ready THEN "queued" ELSE "blocked",
            !.reason = IF ready THEN "none" ELSE "dependency",
            !.resume = NoResume, !.lease = NoLease, !.retry = NoRetry, !.autoRetry = 0]

Retry(j) ==
  /\ job[j].state = "paused"
  /\ job[j].reason \notin OwnRemediation
  /\ Unlocked(attr, j)
  /\ job' = [job EXCEPT ![j] = ReadiedRow(@, DependenciesSucceeded(attr, job, j))]
  /\ UNCHANGED <<attr, inflight, incidents, lock, boot, winner>>

Cancel(j) ==
  /\ job[j].state \notin Terminal \cup {"absent"}
  /\ GateOf(attr, j) # "owner"
  /\ job' = [job EXCEPT ![j] = CanceledRow(@)]
  /\ UNCHANGED <<attr, inflight, incidents, lock, boot, winner>>

\* a superseding owner version withdraws its own gate
CancelOwnedHumanGate(j) ==
  /\ GateOf(attr, j) = "owner"
  /\ job[j].state = "waiting_review"
  /\ job' = [job EXCEPT ![j] = CanceledRow(@)]
  /\ UNCHANGED <<attr, inflight, incidents, lock, boot, winner>>

CompleteHumanGate(j) ==
  /\ IsGate(attr, j)
  /\ job[j].state = "waiting_review"
  /\ MayFinish(j)
  /\ job' = Promoted(attr, [job EXCEPT ![j] = SucceededRow(@)])
  /\ UNCHANGED <<attr, inflight, incidents, lock, boot, winner>>

(***************************************************************************)
(* Remediation of incidents.  Availability checks and the storage probe    *)
(* are awaited before; what was confirmed is checked again in the          *)
(* transaction, which therefore acts on what it finds or not at all.       *)
(***************************************************************************)
ResumeQuota(l) ==
  /\ quota[l].open
  /\ Restore({j \in quota[l].owned \cap PausedFor("quota") : attr[j].lane = l})
  /\ quota' = [quota EXCEPT ![l] = NoQuota]
  /\ UNCHANGED <<cred, storage>>

ResumeCredentials(p) ==
  /\ cred[p].open
  /\ Restore({j \in cred[p].owned \cap PausedFor("credentials") :
                attr[j].lane \in Lane /\ ProviderOf[attr[j].lane] = p})
  /\ cred' = [cred EXCEPT ![p] = NoCred]
  /\ UNCHANGED <<quota, storage>>

ResumeStorage ==
  /\ storage.active
  /\ Restore(storage.owned \cap PausedFor("storage"))
  /\ storage' = NoStorage
  /\ UNCHANGED <<quota, cred>>

(***************************************************************************)
(* Successors on another target.  `heir' maps each superseded row to a new *)
(* row, in the order of the superseded ones; a dependency on a superseded  *)
(* row becomes one on its heir, any other is kept.                         *)
(***************************************************************************)
Heirs(S) ==
  {heir \in [S -> {j \in Spare : ~Exists(j)}] :
     \A j, k \in S : attr[j].seq < attr[k].seq => heir[j] < heir[k]}

HeirAttr(S, heir, alternate) ==
  LET new == {heir[j] : j \in S}
      original == [k \in new |-> CHOOSE j \in S : heir[j] = k]
      as == NumberedAttr(new,
              [k \in new |-> {IF d \in S THEN heir[d] ELSE d : d \in attr[original[k]].deps}])
  IN [k \in Job |-> IF k \in new
                    THEN [as[k] EXCEPT !.role = attr[original[k]].role, !.lane = alternate]
                    ELSE as[k]]

HeirPriority(S, heir) ==
  [k \in {heir[j] : j \in S} |-> job[CHOOSE j \in S : heir[j] = k].priority]

\* the superseded row stays where it was
FaultySupersededRow(r) == [r EXCEPT !.reason = "superseded"]

SupersededRow(r) ==
  [r EXCEPT !.state = "canceled", !.reason = "superseded", !.resume = NoResume]

DecideWait(l, s) ==
  /\ quota[l].open /\ s \notin quota[l].decided
  /\ quota' = [quota EXCEPT ![l].decided = @ \cup {s}]
  /\ UNCHANGED <<attr, job, inflight, cred, storage, lock, boot, winner>>

DecideContinue(l, s, alternate) ==
  LET S == {j \in quota[l].owned \cap PausedFor("quota") \cap JobsOf(s) : attr[j].lane = l} IN
  /\ quota[l].open /\ s \notin quota[l].decided
  /\ OperationOf[alternate] = OperationOf[l] /\ ProviderOf[alternate] # ProviderOf[l]
  /\ S # {}
  /\ \E heir \in Heirs(S) :
       LET new == {heir[j] : j \in S}
           as == HeirAttr(S, heir, alternate)
           rows == Inserted(as, job, new, HeirPriority(S, heir))
       IN /\ Insertable(as, new)
          /\ attr' = as
          /\ job' = [j \in Job |-> IF j \in S THEN SupersededRow(rows[j]) ELSE rows[j]]
          /\ quota' = [QuotaWith(as, rows, new) EXCEPT ![l].decided = @ \cup {s}]
          /\ cred' = CredWith(as, rows, new)
  /\ UNCHANGED <<inflight, storage, lock, boot, winner>>

\* the disposition of a successor follows the pause of the row it replaces
DisposedRow(original, r, available) ==
  IF r.state = "paused" THEN r
  ELSE IF original.state = "paused" THEN PausedRow(r, original.reason, r.reason)
  ELSE IF available THEN r
  ELSE PausedRow(r, "provider_unavailable", r.reason)

\* a Settings change moves what has not started yet to the new target
RetargetRemaining(alternate, available) ==
  LET S == {j \in Job : /\ job[j].state \in Waiting \cup {"paused"}
                        /\ attr[j].lane \in Lane \ {alternate}
                        /\ OperationOf[attr[j].lane] = OperationOf[alternate]} IN
  /\ S # {}
  /\ \E heir \in Heirs(S) :
       LET new == {heir[j] : j \in S}
           as == HeirAttr(S, heir, alternate)
           rows == Inserted(as, job, new, HeirPriority(S, heir))
       IN /\ Insertable(as, new)
          /\ attr' = as
          /\ job' = [k \in Job |->
               IF k \in S THEN SupersededRow(rows[k])
               ELSE IF k \in new
                    THEN DisposedRow(job[CHOOSE j \in S : heir[j] = k], rows[k], available)
                    ELSE rows[k]]
          /\ quota' = QuotaWith(as, rows, new)
          /\ cred' = CredWith(as, rows, new)
  /\ UNCHANGED <<inflight, storage, lock, boot, winner>>

(***************************************************************************)
(* The export of a project, as far as the scheduler sees it: pause and     *)
(* capture, wait for the captured attempts, freeze, release.               *)
(***************************************************************************)
BeginExportDrain(s) ==
  /\ lock[s].phase = "none"
  /\ PauseProject(s)
  /\ lock' = [lock EXCEPT ![s] =
       [phase |-> "draining",
        captured |-> {<<j, job[j].attempts>> : j \in {k \in JobsOf(s) : job[k].state \in Active}}]]
  /\ UNCHANGED <<attr, inflight, incidents, boot, winner>>

\* a claim that has not started yet is overlooked
FaultyFreezeSnapshot(s) ==
  /\ lock[s].phase = "draining"
  /\ \A j \in JobsOf(s) : job[j].state # "running"
  /\ lock' = [lock EXCEPT ![s].phase = "snapshot"]
  /\ UNCHANGED <<attr, job, inflight, incidents, boot, winner>>

FreezeSnapshot(s) ==
  /\ lock[s].phase = "draining"
  /\ \A j \in JobsOf(s) : job[j].state \notin Active
  /\ lock' = [lock EXCEPT ![s].phase = "snapshot"]
  /\ UNCHANGED <<attr, job, inflight, incidents, boot, winner>>

ReleaseSnapshotLock(s) ==
  /\ lock[s].phase = "snapshot"
  /\ lock' = [lock EXCEPT ![s] = NoLock]
  /\ UNCHANGED <<attr, job, inflight, incidents, boot, winner>>

(***************************************************************************)
(* The callers.                                                            *)
(***************************************************************************)
Worker ==
  \/ \E j \in Job, due \in WallClock : ClaimNext(j, due)
  \/ \E due \in WallClock : Poll(due)
  \/ \E j \in Job : \E a \in inflight[j] :
       \/ MarkRunning(j, a)
       \/ Heartbeat(j, a)
       \/ Commit(j, a)
       \/ Abandon(j, a)
       \/ \E c \in Failures : RecordFailure(j, a, c)

Caller == \E batch \in Batches : Enqueue(batch)

Shutdown ==
  \/ \E j \in Job : \E a \in inflight[j] : RequeueOwned(j, a)
  \/ Restart

JobControl ==
  \E j \in Job :
    \/ \E p \in Priorities : SetPriority(j, p)
    \/ Pause(j)
    \/ Resume(j)
    \/ Retry(j)
    \/ Cancel(j)

Integrity == \E j \in Job : PauseForIntegrity(j) \/ ReleaseIntegrityPause(j)

Reviewer == \E j \in Job : CancelOwnedHumanGate(j) \/ CompleteHumanGate(j)

ProjectControl == \E s \in Scope : PauseProjectJobs(s) \/ ResumeProject(s)

Remediation ==
  \/ \E l \in Lane : ResumeQuota(l)
  \/ \E p \in Provider : ResumeCredentials(p)
  \/ ResumeStorage

QuotaDecision ==
  \E l \in Lane, s \in Scope :
    \/ DecideWait(l, s)
    \/ \E alternate \in Lane : DecideContinue(l, s, alternate)

Settings ==
  \E alternate \in Lane, available \in BOOLEAN : RetargetRemaining(alternate, available)

Export ==
  \E s \in Project : BeginExportDrain(s) \/ FreezeSnapshot(s) \/ ReleaseSnapshotLock(s)

Next ==
  \/ Caller \/ Worker \/ Shutdown \/ Tick
  \/ JobControl \/ Integrity \/ Reviewer \/ ProjectControl
  \/ Remediation \/ QuotaDecision \/ Settings
  \/ Export

Spec == Init /\ [][Next]_vars

(***************************************************************************)
(* What the running process keeps doing: its poll timer fires, a claim is  *)
(* started in the same turn, an execution ends or times out, the clock     *)
(* advances.  Nothing is assumed of operators, callers or shutdowns.       *)
(***************************************************************************)
PollTimer ==
  \/ \E j \in Job, due \in WallClock : ClaimNext(j, due)
  \/ \E due \in WallClock : Poll(due)
Start(j) == \E a \in inflight[j] : MarkRunning(j, a)
Finish(j) ==
  \E a \in inflight[j] :
    \/ Commit(j, a)
    \/ Abandon(j, a)
    \/ \E c \in Failures : RecordFailure(j, a, c)
Fairness ==
  /\ WF_vars(PollTimer)
  /\ \A j \in Job : WF_vars(Start(j)) /\ WF_vars(Finish(j))

-----------------------------------------------------------------------------
(***************************************************************************)
(* Types.                                                                  *)
(***************************************************************************)
Row == [state: States, reason: Reasons,
        resume: [state: (States \ Active) \cup {"none"}, reason: Reasons],
        lease: [boot: Nat, ttl: Nat], retry: [boot: Nat, wait: Nat],
        attempts: Nat, autoRetry: Nat, priority: Nat]
Attr == [role: Job, lane: Lane \cup {NoLane}, deps: SUBSET Job, seq: Nat]

\* Every variable keeps its shape: rows are job records, incidents own jobs,
\* locks capture attempts of jobs.
TypeOK ==
  /\ attr \in [Job -> Attr]
  /\ job \in [Job -> Row]
  /\ inflight \in [Job -> SUBSET Nat]
  /\ quota \in [Lane -> [open: BOOLEAN, owned: SUBSET Job, decided: SUBSET Scope]]
  /\ cred \in [Provider -> [open: BOOLEAN, owned: SUBSET Job]]
  /\ storage \in [active: BOOLEAN, owned: SUBSET Job]
  /\ lock \in [Project -> [phase: {"none", "draining", "snapshot"},
                           captured: SUBSET (Job \X Nat)]]
  /\ boot \in Nat \ {0}
  /\ winner \in [Job -> Nat]

(***************************************************************************)
(* Safety.                                                                 *)
(***************************************************************************)
\* A full or failing disk is a global stop: from the report of the failure to the
\* confirmed resume no job is claimed or running, whoever held it
\* (activateStorage, claimNextAdmitted).
StorageStop == storage.active => \A j \in Job : job[j].state \notin Active

\* Claimed and running jobs of a provider never exceed concurrencyPerProvider,
\* however claims, recoveries, restores and new targets interleave (atomicClaimSql).
ConcurrencyCap == \A p \in Provider : Cardinality(InProvider(job, p)) <= Cap

\* A job is claimed only after every job it depends on has succeeded, through
\* every pause, restore, retry, recovery and replacement that may lie between
\* (initializeState, promoteReady, restoreState, retry).
DependenciesBeforeRun ==
  \A j \in Job : job[j].state \in Active => DependenciesSucceeded(attr, job, j)

\* No transaction leaves a row jobRecordSchema would refuse to write next: a lease
\* is held exactly while claimed or running, only a paused row has a state to come
\* back to, and a human gate is never left blocked, where a storage stop or a
\* project pause would have to pause it and would fail as a whole.
RowsStorable ==
  \A j \in Job :
    /\ job[j].lease # NoLease <=> job[j].state \in Active
    /\ job[j].resume # NoResume => job[j].state = "paused"
    /\ IsGate(attr, j) => job[j].state \in GateStates \ {"blocked"}

\* The result of a job is that of its newest claim, committed once: the late answer
\* of an attempt that was paused, requeued or canceled meanwhile never lands
\* (assertOwned in commitWith).
SingleWinner ==
  \A j \in Job :
    IF job[j].state = "succeeded" /\ ~IsGate(attr, j)
    THEN winner[j] = job[j].attempts /\ winner[j] > 0
    ELSE winner[j] = 0

\* A dependency that succeeds wakes what waits for it in the same transaction: no
\* unlocked job stays blocked although everything it depends on has succeeded
\* (every caller of promoteReady).
NoReadyJobLeftBlocked == \A j \in Job : ~Promotable(attr, job, j)

\* While a project is frozen for export none of its jobs can still commit
\* (assertQuiescent, scope admission).
SnapshotQuiescent ==
  \A s \in Project : lock[s].phase = "snapshot" =>
    \A j \in JobsOf(s) : job[j].state \notin Active

\* A job paused by an incident belongs to that open incident, so that resuming or
\* deciding the incident reaches it; nothing else may end such a pause
\* (quotaIncidentJobs, credentialIncidentJobs, storageIncidentJobs).
IncidentOwnership ==
  \A j \in Job : job[j].state = "paused" =>
    /\ job[j].reason = "quota" =>
         attr[j].lane \in Lane /\ quota[attr[j].lane].open /\ j \in quota[attr[j].lane].owned
    /\ job[j].reason = "credentials" =>
         /\ attr[j].lane \in Lane
         /\ cred[ProviderOf[attr[j].lane]].open /\ j \in cred[ProviderOf[attr[j].lane]].owned
    /\ job[j].reason = "storage" => storage.active /\ j \in storage.owned

\* The work of a planned job is carried by one row at a time: a superseded row and
\* its successor are never both alive (linkSupersedingSuccessor).
OneLiveRowPerRole ==
  \A j, k \in Job :
    (/\ Exists(j) /\ Exists(k) /\ attr[j].role = attr[k].role
     /\ {job[j].state, job[k].state} \cap {"canceled", "failed"} = {}) => j = k

(***************************************************************************)
(* Action properties.                                                      *)
(***************************************************************************)
\* Success, failure and cancellation are final: no late result, retry, restore,
\* promotion or recovery moves such a job again.
TerminalStands ==
  \A j \in Job : job[j].state \in Terminal =>
    job'[j].state = job[j].state /\ winner'[j] = winner[j]
TerminalAbsorbing == [][TerminalStands]_vars

(***************************************************************************)
(* The ledger of planned work that the rows, with all their attempts,      *)
(* pauses and successors, keep.  A planned job is carried by the rows of   *)
(* its role, and dropped when every one of them is canceled or failed.     *)
(***************************************************************************)
Over == {"canceled", "failed"}
Carried(states) == {w \in Job : \E j \in Job : attr[j].role = w /\ job[j].state \in states}
Ledger == INSTANCE WorkLedger WITH
  Work <- Job,
  Human <- {w \in Job : Plan[w].gate # "none"},
  Home <- [w \in Job |-> Plan[w].scope],
  Lockable <- Project,
  planned <- Carried(States \ {"absent"}),
  held <- Carried(Active),
  done <- Carried({"succeeded"}),
  dropped <- Carried(Over) \ Carried(States \ (Over \cup {"absent"})),
  stopped <- storage.active,
  phase <- [s \in Project |-> lock[s].phase]

\* Whoever interleaves, planned work is admitted once, is in the hands of one attempt
\* at a time, ends once, and is not dropped by being moved to another target: every
\* transaction of the scheduler is a step of WorkLedger or hidden from it.
ImplementsLedger == Ledger!Spec

(***************************************************************************)
(* Liveness.                                                               *)
(***************************************************************************)
\* Work that entered the queue is not lost: it ends, or stands visibly paused, or its
\* project is closed for an export.
QueuedSettles ==
  \A j \in Job : job[j].state \in Active \cup {"queued"} ~>
    job[j].state \in Terminal \cup {"paused"} \/ ~Unlocked(attr, j)

\* A draining project comes to rest: its captured attempts finish.
DrainQuiesces ==
  \A s \in Project : lock[s].phase = "draining" ~>
    \A j \in JobsOf(s) : job[j].state \notin Active

=============================================================================
