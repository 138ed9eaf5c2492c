------------------------- MODULE JobSchedulerProofs -------------------------
(***************************************************************************)
(* Theorems about JobScheduler, for every plan, every set of lanes,        *)
(* providers and projects and every bound, with their proofs.              *)
(***************************************************************************)
EXTENDS JobScheduler, FiniteSetTheorems, TLAPS

(***************************************************************************)
(* What the row operators return.                                          *)
(***************************************************************************)
LEMMA StatesAre ==
  /\ {"absent", "queued", "blocked", "claimed", "running", "paused", "waiting_review",
      "succeeded", "failed", "canceled"} \subseteq States
  /\ {"queued", "blocked", "paused", "waiting_review", "none", "absent"}
       \subseteq (States \ Active) \cup {"none"}
  BY DEF States, Active, Terminal, Waiting

LEMMA ReasonsAre ==
  /\ {"none", "dependency", "operator", "asset_integrity", "quota", "credentials",
      "storage", "retry_delay", "retry_exhausted", "recovered", "shutdown",
      "superseded", "user_canceled", "provider_unavailable"} \subseteq Reasons
  /\ Categories \subseteq Reasons
  BY DEF Reasons, Categories, FinalFailures, RetriedFailures

LEMMA WithState ==
  ASSUME NEW r \in Row, NEW state \in States, NEW why \in Reasons
  PROVE  [r EXCEPT !.state = state, !.reason = why] \in Row
  BY DEF Row

LEMMA NoRowType == NoRow \in Row
  <1>1. DefaultPriority \in Nat
    BY BoundsArePositive
  <1> QED
    BY <1>1, StatesAre, ReasonsAre DEF NoRow, Row, NoResume, NoLease, NoRetry

LEMMA ResumableType ==
  ASSUME NEW state \in States
  PROVE  Resumable(state) \in (States \ Active) \cup {"none"}
  BY DEF Resumable, States, Active, Waiting

LEMMA PausedRowType ==
  ASSUME NEW r \in Row, NEW why \in Reasons, NEW because \in Reasons
  PROVE  PausedRow(r, why, because) \in Row
  <1>1. Resumable(r.state) \in (States \ Active) \cup {"none"}
    BY ResumableType DEF Row
  <1> QED
    BY <1>1, StatesAre DEF PausedRow, Row, NoLease

LEMMA RestoredRowType ==
  ASSUME NEW r \in Row
  PROVE  RestoredRow(r) \in Row
  <1>1. /\ r.resume.state = "none" \/ r.resume.state \in States
        /\ r.resume.reason \in Reasons
    BY DEF Row
  <1>2. NoResume \in [state: (States \ Active) \cup {"none"}, reason: Reasons]
    BY StatesAre, ReasonsAre DEF NoResume
  <1> DEFINE to == IF r.resume.state = "none" THEN "queued" ELSE r.resume.state
  <1>3. to \in States
    BY <1>1, StatesAre
  <1> HIDE DEF to
  <1>4. [r EXCEPT !.state = to, !.reason = r.resume.reason, !.resume = NoResume] \in Row
    BY <1>1, <1>2, <1>3 DEF Row
  <1> QED
    BY <1>4 DEF RestoredRow, to

LEMMA RequeuedRowType ==
  ASSUME NEW r \in Row, NEW why \in Reasons
  PROVE  RequeuedRow(r, why) \in Row
  BY StatesAre DEF RequeuedRow, Row, NoLease

LEMMA SucceededRowType ==
  ASSUME NEW r \in Row
  PROVE  SucceededRow(r) \in Row
  BY StatesAre, ReasonsAre DEF SucceededRow, Row, NoLease

LEMMA RetriedRowType ==
  ASSUME NEW r \in Row
  PROVE  RetriedRow(r) \in Row
  <1> DEFINE q == RequeuedRow(r, "retry_delay")
             delay == [boot |-> r.lease.boot, wait |-> RetryDelay]
             count == q.autoRetry + 1
  <1>1. q \in Row
    BY RequeuedRowType, ReasonsAre
  <1>2. delay \in [boot: Nat, wait: Nat] /\ count \in Nat
    BY <1>1, BoundsArePositive DEF Row
  <1> HIDE DEF q, delay, count
  <1>3. [q EXCEPT !.retry = delay, !.autoRetry = count] \in Row
    BY <1>1, <1>2 DEF Row
  <1> QED
    BY <1>3 DEF RetriedRow, q, delay, count

LEMMA ExhaustedRowType ==
  ASSUME NEW r \in Row, NEW c \in RetriedFailures \cup FinalFailures
  PROVE  ExhaustedRow(r, c) \in Row
  <1>1. Exhausted(c).state \in States /\ Exhausted(c).reason \in Reasons
    BY StatesAre, ReasonsAre DEF Exhausted, Categories, RetriedFailures, FinalFailures
  <1> QED
    BY <1>1 DEF ExhaustedRow, Row, NoLease

LEMMA ReadiedRowType ==
  ASSUME NEW r \in Row, NEW ready \in BOOLEAN
  PROVE  ReadiedRow(r, ready) \in Row
  <1> DEFINE to == IF ready THEN "queued" ELSE "blocked"
             why == IF ready THEN "none" ELSE "dependency"
  <1>1. to \in States /\ why \in Reasons
    BY StatesAre, ReasonsAre
  <1>2. /\ NoResume \in [state: (States \ Active) \cup {"none"}, reason: Reasons]
        /\ NoLease \in [boot: Nat, ttl: Nat] /\ NoRetry \in [boot: Nat, wait: Nat]
    BY StatesAre, ReasonsAre DEF NoResume, NoLease, NoRetry
  <1> HIDE DEF to, why
  <1>3. [r EXCEPT !.state = to, !.reason = why, !.resume = NoResume, !.lease = NoLease,
                  !.retry = NoRetry, !.autoRetry = 0] \in Row
    BY <1>1, <1>2 DEF Row
  <1> QED
    BY <1>3 DEF ReadiedRow, to, why

LEMMA AgedRowType ==
  ASSUME NEW r \in Row
  PROVE  AgedRow(r) \in Row
  <1> DEFINE ttl == IF r.lease.boot = boot THEN Elapsed(r.lease.ttl) ELSE r.lease.ttl
             wait == IF r.retry.boot = boot THEN Elapsed(r.retry.wait) ELSE r.retry.wait
  <1>1. /\ r.lease \in [boot: Nat, ttl: Nat]
        /\ r.retry \in [boot: Nat, wait: Nat]
    BY DEF Row
  <1>2. ttl \in Nat /\ wait \in Nat
    BY <1>1 DEF Elapsed
  <1> HIDE DEF ttl, wait
  <1>3. /\ [r.lease EXCEPT !.ttl = ttl] \in [boot: Nat, ttl: Nat]
        /\ [r.retry EXCEPT !.wait = wait] \in [boot: Nat, wait: Nat]
    BY <1>1, <1>2
  <1>4. [r EXCEPT !.lease = [r.lease EXCEPT !.ttl = ttl],
                  !.retry = [r.retry EXCEPT !.wait = wait]] \in Row
    BY <1>3 DEF Row
  <1>5. AgedRow(r) = [r EXCEPT !.lease = [r.lease EXCEPT !.ttl = ttl],
                               !.retry = [r.retry EXCEPT !.wait = wait]]
    BY DEF AgedRow, ttl, wait, Row
  <1> QED
    BY <1>4, <1>5

LEMMA CanceledRowType ==
  ASSUME NEW r \in Row
  PROVE  CanceledRow(r) \in Row /\ SupersededRow(r) \in Row
  <1>1. NoResume \in [state: (States \ Active) \cup {"none"}, reason: Reasons]
    BY StatesAre, ReasonsAre DEF NoResume
  <1> QED
    BY <1>1, StatesAre, ReasonsAre DEF CanceledRow, SupersededRow, Row, NoLease, NoRetry

LEMMA ClaimedRowType ==
  ASSUME NEW r \in Row, boot \in Nat
  PROVE  ClaimedRow(r) \in Row
  <1> DEFINE lease == [boot |-> boot, ttl |-> LeaseTtl]
             count == r.attempts + 1
  <1>1. lease \in [boot: Nat, ttl: Nat]
    BY BoundsArePositive
  <1>2. count \in Nat
    BY DEF Row
  <1>3. NoRetry \in [boot: Nat, wait: Nat]
    BY DEF NoRetry
  <1> HIDE DEF lease, count
  <1>4. [r EXCEPT !.state = "claimed", !.reason = "none", !.retry = NoRetry,
                  !.lease = lease, !.attempts = count] \in Row
    BY <1>1, <1>2, <1>3, StatesAre, ReasonsAre DEF Row
  <1> QED
    BY <1>4 DEF ClaimedRow, lease, count

LEMMA PromotedType ==
  ASSUME NEW as, NEW rows \in [Job -> Row]
  PROVE  Promoted(as, rows) \in [Job -> Row]
  <1> SUFFICES ASSUME NEW j \in Job
               PROVE  Promoted(as, rows)[j] \in Row
    BY DEF Promoted
  <1> DEFINE to == IF IsGate(as, j) THEN "waiting_review" ELSE "queued"
  <1>1. rows[j] \in Row /\ to \in States /\ "none" \in Reasons
    BY StatesAre, ReasonsAre
  <1> HIDE DEF to
  <1>2. [rows[j] EXCEPT !.state = to, !.reason = "none"] \in Row
    BY <1>1, WithState
  <1> QED
    BY <1>1, <1>2 DEF Promoted, to

LEMMA NewRowType ==
  ASSUME NEW as, NEW rows, NEW j \in Job, NEW priority \in Nat
  PROVE  NewRow(as, rows, j, priority) \in Row
  <1> DEFINE fresh == [NoRow EXCEPT !.priority = priority]
             to == IF IsGate(as, j) THEN "waiting_review" ELSE "queued"
  <1>1. fresh \in Row
    BY NoRowType DEF Row
  <1>2. to \in States /\ "blocked" \in States /\ "dependency" \in Reasons
    BY StatesAre, ReasonsAre
  <1> HIDE DEF fresh, to
  <1>3. [fresh EXCEPT !.state = "blocked", !.reason = "dependency"] \in Row
    BY <1>1, <1>2, WithState
  <1>4. [fresh EXCEPT !.state = to] \in Row
    BY <1>1, <1>2 DEF Row
  <1>5. InitialRow(as, rows, j, priority) \in Row
    BY <1>3, <1>4 DEF InitialRow, fresh, to
  <1>6. InitialRow(as, rows, j, priority).reason \in Reasons
    BY <1>5 DEF Row
  <1> QED
    BY <1>5, <1>6, ReasonsAre, PausedRowType DEF NewRow

LEMMA InsertedType ==
  ASSUME NEW as, NEW rows \in [Job -> Row], NEW new \in SUBSET Job,
         NEW priority \in [new -> Nat]
  PROVE  Inserted(as, rows, new, priority) \in [Job -> Row]
  BY NewRowType DEF Inserted

LEMMA NumberedAttrType ==
  ASSUME attr \in [Job -> Attr], NEW new \in SUBSET Job, NEW depsOf \in [new -> SUBSET Job]
  PROVE  NumberedAttr(new, depsOf) \in [Job -> Attr]
  <1>1. ASSUME NEW j \in Job PROVE Sequence(new, j) \in Nat
    <2>1. IsFiniteSet({k \in Job : Exists(k)}) /\ IsFiniteSet({k \in new : k <= j})
      BY JobsAreNumbers, FS_Subset
    <2> QED
      BY <2>1, FS_CardinalityType DEF Sequence
  <1> SUFFICES ASSUME NEW j \in Job
               PROVE  NumberedAttr(new, depsOf)[j] \in Attr
    BY DEF NumberedAttr
  <1> DEFINE n == Sequence(new, j)
  <1>2. n \in Nat
    BY <1>1
  <1> HIDE DEF n
  <1>3. CASE j \in new
    <2>1. depsOf[j] \in SUBSET Job /\ attr[j] \in Attr
      BY <1>3
    <2>2. [attr[j] EXCEPT !.deps = depsOf[j], !.seq = n] \in Attr
      BY <1>2, <2>1 DEF Attr
    <2> QED
      BY <1>3, <2>2 DEF NumberedAttr, n
  <1>4. CASE j \notin new
    BY <1>4 DEF NumberedAttr
  <1> QED
    BY <1>3, <1>4

(***************************************************************************)
(* What the operators on whole tables return.                              *)
(***************************************************************************)
LEMMA PausedByOperatorType ==
  ASSUME TypeOK, NEW S \in SUBSET Job
  PROVE  PausedByOperator(S) \in [Job -> Row]
  <1>1. \A j \in Job : job[j] \in Row /\ job[j].reason \in Reasons
    BY DEF TypeOK, Row
  <1> QED
    BY <1>1, PausedRowType, ReasonsAre DEF PausedByOperator

LEMMA RestoredType ==
  ASSUME TypeOK, NEW S
  PROVE  Restored(S) \in [Job -> Row]
  BY RestoredRowType DEF Restored, TypeOK

LEMMA IncidentsWithType ==
  ASSUME TypeOK, NEW as, NEW rows, NEW new \in SUBSET Job
  PROVE  /\ QuotaWith(as, rows, new) \in
              [Lane -> [open: BOOLEAN, owned: SUBSET Job, decided: SUBSET Scope]]
         /\ CredWith(as, rows, new) \in [Provider -> [open: BOOLEAN, owned: SUBSET Job]]
  <1>1. ASSUME NEW q \in [open: BOOLEAN, owned: SUBSET Job, decided: SUBSET Scope],
               NEW T \in SUBSET Job
        PROVE  [q EXCEPT !.owned = @ \cup T] \in
                  [open: BOOLEAN, owned: SUBSET Job, decided: SUBSET Scope]
    OBVIOUS
  <1>2. ASSUME NEW c \in [open: BOOLEAN, owned: SUBSET Job], NEW T \in SUBSET Job
        PROVE  [c EXCEPT !.owned = @ \cup T] \in [open: BOOLEAN, owned: SUBSET Job]
    OBVIOUS
  <1>3. ASSUME NEW l \in Lane
        PROVE  QuotaWith(as, rows, new)[l] \in
                 [open: BOOLEAN, owned: SUBSET Job, decided: SUBSET Scope]
    <2> DEFINE T == {j \in new : as[j].lane = l /\ rows[j].state = "paused"
                                  /\ rows[j].reason = "quota"}
    <2>1. T \in SUBSET Job /\ quota[l] \in
            [open: BOOLEAN, owned: SUBSET Job, decided: SUBSET Scope]
      BY <1>3 DEF TypeOK
    <2> HIDE DEF T
    <2>2. [quota[l] EXCEPT !.owned = @ \cup T] \in
            [open: BOOLEAN, owned: SUBSET Job, decided: SUBSET Scope]
      BY <1>1, <2>1
    <2> QED
      BY <1>3, <2>2 DEF QuotaWith, T
  <1>4. ASSUME NEW p \in Provider
        PROVE  CredWith(as, rows, new)[p] \in [open: BOOLEAN, owned: SUBSET Job]
    <2> DEFINE T == {j \in new : /\ as[j].lane \in Lane /\ ProviderOf[as[j].lane] = p
                                  /\ rows[j].state = "paused"
                                  /\ rows[j].reason = "credentials"}
    <2>1. T \in SUBSET Job /\ cred[p] \in [open: BOOLEAN, owned: SUBSET Job]
      BY <1>4 DEF TypeOK
    <2> HIDE DEF T
    <2>2. [cred[p] EXCEPT !.owned = @ \cup T] \in [open: BOOLEAN, owned: SUBSET Job]
      BY <1>2, <2>1
    <2> QED
      BY <1>4, <2>2 DEF CredWith, T
  <1> QED
    BY <1>3, <1>4 DEF QuotaWith, CredWith

(***************************************************************************)
(* The successors of S, seen through their one-to-one map `heir'.          *)
(***************************************************************************)
LEMMA HeirsType ==
  ASSUME TypeOK, NEW S \in SUBSET Job, NEW heir \in Heirs(S), NEW alternate \in Lane
  PROVE  /\ {heir[j] : j \in S} \in SUBSET {k \in Job : ~Exists(k)}
         /\ HeirAttr(S, heir, alternate) \in [Job -> Attr]
         /\ HeirPriority(S, heir) \in [{heir[j] : j \in S} -> Nat]
  <1> DEFINE new == {heir[j] : j \in S}
             original == [k \in new |-> CHOOSE j \in S : heir[j] = k]
             depsOf == [k \in new |->
                          {IF d \in S THEN heir[d] ELSE d : d \in attr[original[k]].deps}]
  <1>1. new \in SUBSET {k \in Job : ~Exists(k)}
    BY JobsAreNumbers DEF Heirs
  <1>2. original \in [new -> S]
    OBVIOUS
  <1>3. \A k \in new : attr[original[k]] \in Attr
    BY <1>2 DEF TypeOK
  <1>4. depsOf \in [new -> SUBSET Job]
    <2>1. ASSUME NEW k \in new PROVE depsOf[k] \in SUBSET Job
      <3>1. attr[original[k]].deps \in SUBSET Job
        BY <1>3 DEF Attr
      <3>2. \A d \in S : heir[d] \in Job
        BY <1>1
      <3> HIDE DEF original
      <3> QED
        BY <3>1, <3>2
    <2> HIDE DEF new, original
    <2> QED
      BY <2>1
  <1>5. NumberedAttr(new, depsOf) \in [Job -> Attr]
    BY <1>1, <1>4, NumberedAttrType DEF TypeOK
  <1>6. HeirAttr(S, heir, alternate) \in [Job -> Attr]
    <2> SUFFICES ASSUME NEW k \in Job
                 PROVE  HeirAttr(S, heir, alternate)[k] \in Attr
      BY DEF HeirAttr
    <2> DEFINE as == NumberedAttr(new, depsOf)
    <2>1. as[k] \in Attr
      BY <1>5
    <2>2. HeirAttr(S, heir, alternate)[k] =
            IF k \in new THEN [as[k] EXCEPT !.role = attr[original[k]].role, !.lane = alternate]
                         ELSE as[k]
      BY DEF HeirAttr
    <2> HIDE DEF as, original, new
    <2>3. CASE k \in new
      <3>1. attr[original[k]].role \in Job
        BY <1>3, <2>3 DEF Attr
      <3> QED
        BY <2>1, <2>2, <2>3, <3>1 DEF Attr
    <2> QED
      BY <2>1, <2>2, <2>3
  <1>7. HeirPriority(S, heir) \in [new -> Nat]
    BY <1>2 DEF HeirPriority, TypeOK, Row
  <1> QED
    BY <1>1, <1>6, <1>7

(***************************************************************************)
(* Type correctness.  Most actions write job rows and nothing else but     *)
(* the set of live executions.                                             *)
(***************************************************************************)
LEMMA EndsType ==
  ASSUME TypeOK, NEW j \in Job, NEW a, Ends(j, a)
  PROVE  inflight' \in [Job -> SUBSET Nat]
  BY DEF TypeOK, Ends

LEMMA RowsWrittenType ==
  ASSUME TypeOK, job' \in [Job -> Row], inflight' \in [Job -> SUBSET Nat],
         UNCHANGED <<attr, incidents, lock, boot, winner>>
  PROVE  TypeOK'
  BY DEF TypeOK, incidents

LEMMA InitType == Init => TypeOK
  <1> SUFFICES ASSUME Init PROVE TypeOK
    OBVIOUS
  <1>1. attr \in [Job -> Attr]
    BY PlanIsWellFormed DEF Init, Attr
  <1>2. job \in [Job -> Row]
    BY NoRowType DEF Init
  <1>3. /\ quota \in [Lane -> [open: BOOLEAN, owned: SUBSET Job, decided: SUBSET Scope]]
        /\ cred \in [Provider -> [open: BOOLEAN, owned: SUBSET Job]]
        /\ storage \in [active: BOOLEAN, owned: SUBSET Job]
    BY DEF Init, NoQuota, NoCred, NoStorage
  <1>4. /\ lock \in [Project -> [phase: {"none", "draining", "snapshot"},
                                 captured: SUBSET (Job \X Nat)]]
        /\ inflight \in [Job -> SUBSET Nat]
        /\ boot \in Nat \ {0} /\ winner \in [Job -> Nat]
    BY DEF Init, NoLock
  <1> QED
    BY <1>1, <1>2, <1>3, <1>4 DEF TypeOK

LEMMA EnqueueType ==
  ASSUME TypeOK, NEW batch \in Batches, Enqueue(batch)
  PROVE  TypeOK'
  <1> DEFINE new == Fresh(batch)
             depsOf == [j \in new |-> Plan[j].deps]
             as == NumberedAttr(new, depsOf)
             priority == [j \in new |-> DefaultPriority]
             rows == Inserted(as, job, new, priority)
  <1>1. new \in SUBSET Job
    BY PlanIsWellFormed DEF Fresh
  <1>2. depsOf \in [new -> SUBSET Job] /\ priority \in [new -> Nat]
    BY <1>1, PlanIsWellFormed, BoundsArePositive
  <1>3. /\ attr' = as /\ job' = rows
        /\ quota' = QuotaWith(as, rows, new) /\ cred' = CredWith(as, rows, new)
        /\ UNCHANGED <<inflight, storage, lock, boot, winner>>
    BY DEF Enqueue
  <1> HIDE DEF new, depsOf, priority
  <1>4. as \in [Job -> Attr] /\ rows \in [Job -> Row]
    BY <1>1, <1>2, NumberedAttrType, InsertedType DEF TypeOK
  <1>5. /\ quota' \in [Lane -> [open: BOOLEAN, owned: SUBSET Job, decided: SUBSET Scope]]
        /\ cred' \in [Provider -> [open: BOOLEAN, owned: SUBSET Job]]
    BY <1>1, <1>3, IncidentsWithType
  <1> HIDE DEF as, rows
  <1> QED
    BY <1>3, <1>4, <1>5 DEF TypeOK

LEMMA ClaimType ==
  ASSUME TypeOK
  PROVE  /\ \A j \in Job : \A due : ClaimNext(j, due) => TypeOK'
         /\ \A due : Poll(due) => TypeOK'
  <1>1. Promoted(attr, job) \in [Job -> Row] /\ boot \in Nat
    BY PromotedType DEF TypeOK
  <1>2. ASSUME NEW j \in Job, NEW due, ClaimNext(j, due) PROVE TypeOK'
    <2>1. ClaimedRow(Promoted(attr, job)[j]) \in Row
      BY <1>1, ClaimedRowType
    <2>2. job' \in [Job -> Row]
      BY <1>1, <1>2, <2>1 DEF ClaimNext
    <2>3. job[j].attempts + 1 \in Nat
      BY DEF TypeOK, Row
    <2>4. inflight' \in [Job -> SUBSET Nat]
      BY <1>2, <2>3 DEF ClaimNext, TypeOK
    <2> QED
      BY <1>2, <2>2, <2>4, RowsWrittenType DEF ClaimNext
  <1>3. ASSUME NEW due, Poll(due) PROVE TypeOK'
    BY <1>1, <1>3, RowsWrittenType DEF Poll, TypeOK
  <1> QED
    BY <1>2, <1>3

LEMMA CommitType ==
  ASSUME TypeOK, NEW j \in Job, NEW a \in inflight[j], Commit(j, a)
  PROVE  TypeOK'
  <1> DEFINE new == FollowUps(j)
             depsOf == [k \in new |->
                          {IF d = attr[j].role THEN j ELSE d : d \in Plan[k].deps}]
             as == NumberedAttr(new, depsOf)
             priority == [k \in new |-> job[j].priority]
             rows == Inserted(as, job, new, priority)
             done == [rows EXCEPT ![j] = SucceededRow(@)]
  <1>1. /\ attr' = as /\ job' = Promoted(as, done)
        /\ quota' = QuotaWith(as, rows, new) /\ cred' = CredWith(as, rows, new)
        /\ winner' = [winner EXCEPT ![j] = a] /\ Ends(j, a)
        /\ UNCHANGED <<storage, lock, boot>>
    BY DEF Commit, FollowUpAttr
  <1>2. new \in SUBSET Job
    BY PlanIsWellFormed DEF FollowUps, Fresh, TypeOK, Attr
  <1>3. depsOf \in [new -> SUBSET Job]
    <2>1. \A k \in new : Plan[k].deps \in SUBSET Job
      BY <1>2, PlanIsWellFormed
    <2> HIDE DEF new
    <2> QED
      BY <2>1
  <1>4. priority \in [new -> Nat]
    BY DEF TypeOK, Row
  <1> HIDE DEF new, depsOf, priority
  <1>5. as \in [Job -> Attr] /\ rows \in [Job -> Row]
    BY <1>2, <1>3, <1>4, NumberedAttrType, InsertedType DEF TypeOK
  <1>6. /\ quota' \in [Lane -> [open: BOOLEAN, owned: SUBSET Job, decided: SUBSET Scope]]
        /\ cred' \in [Provider -> [open: BOOLEAN, owned: SUBSET Job]]
    BY <1>1, <1>2, IncidentsWithType
  <1> HIDE DEF as, rows
  <1>7. done \in [Job -> Row]
    BY <1>5, SucceededRowType
  <1>8. job' \in [Job -> Row]
    BY <1>1, <1>7, PromotedType
  <1>9. inflight' \in [Job -> SUBSET Nat] /\ winner' \in [Job -> Nat]
    BY <1>1, EndsType DEF TypeOK
  <1> QED
    BY <1>1, <1>5, <1>6, <1>8, <1>9 DEF TypeOK

LEMMA RecordFailureType ==
  ASSUME TypeOK, NEW j \in Job, NEW a \in inflight[j], NEW c \in Failures,
         RecordFailure(j, a, c)
  PROVE  TypeOK'
  <1>1. /\ job \in [Job -> Row] /\ job[j] \in Row
        /\ \A k \in Job : job[k] \in Row /\ job[k].reason \in Reasons
    BY DEF TypeOK, Row
  <1>2. CASE FailRetry(j, a, c)
    <2>1. job' \in [Job -> Row]
      BY <1>1, <1>2, RetriedRowType DEF FailRetry
    <2>2. inflight' \in [Job -> SUBSET Nat]
      BY <1>2, EndsType DEF FailRetry
    <2> QED
      BY <1>2, <2>1, <2>2, RowsWrittenType DEF FailRetry
  <1>3. CASE FailFinal(j, a, c)
    <2>1. job' \in [Job -> Row]
      BY <1>1, <1>3, ExhaustedRowType DEF FailFinal
    <2>2. inflight' \in [Job -> SUBSET Nat]
      BY <1>3, EndsType DEF FailFinal
    <2> QED
      BY <1>3, <2>1, <2>2, RowsWrittenType DEF FailFinal
  <1>4. CASE ActivateQuota(j, a)
    <2> DEFINE l == attr[j].lane
               swept == WaitingIn(j, {l})
    <2>1. swept \in SUBSET Job
      BY DEF WaitingIn
    <2>2. /\ l \in Lane /\ Ends(j, a)
          /\ job' = [k \in Job |-> IF k \in swept THEN PausedRow(job[k], "quota", "none")
                                                   ELSE job[k]]
          /\ quota' = [quota EXCEPT ![l] = Opened(@, swept)]
          /\ UNCHANGED <<attr, cred, storage, lock, boot, winner>>
      BY <1>4 DEF ActivateQuota
    <2> HIDE DEF swept, l
    <2>3. job' \in [Job -> Row]
      BY <1>1, <2>2, PausedRowType, ReasonsAre
    <2>4. inflight' \in [Job -> SUBSET Nat]
      BY <2>2, EndsType
    <2>5. quota[l] \in [open: BOOLEAN, owned: SUBSET Job, decided: SUBSET Scope]
      BY <2>2 DEF TypeOK
    <2>6. Opened(quota[l], swept) \in [open: BOOLEAN, owned: SUBSET Job, decided: SUBSET Scope]
      BY <2>1, <2>5 DEF Opened
    <2>7. quota' \in [Lane -> [open: BOOLEAN, owned: SUBSET Job, decided: SUBSET Scope]]
      BY <2>2, <2>6 DEF TypeOK
    <2> QED
      BY <2>2, <2>3, <2>4, <2>7 DEF TypeOK
  <1>5. CASE ActivateCredentials(j, a)
    <2> DEFINE p == ProviderOf[attr[j].lane]
               swept == WaitingIn(j, {l \in Lane : ProviderOf[l] = p})
    <2>1. swept \in SUBSET Job
      BY DEF WaitingIn
    <2>2. /\ p \in Provider /\ Ends(j, a)
          /\ job' = [k \in Job |-> IF k \in swept
                                   THEN PausedRow(job[k], "credentials", job[k].reason)
                                   ELSE job[k]]
          /\ cred' = [cred EXCEPT ![p] = Opened(@, swept)]
          /\ UNCHANGED <<attr, quota, storage, lock, boot, winner>>
      BY <1>5, LanesHaveProviders DEF ActivateCredentials
    <2> HIDE DEF swept, p
    <2>3. job' \in [Job -> Row]
      BY <1>1, <2>2, PausedRowType, ReasonsAre
    <2>4. inflight' \in [Job -> SUBSET Nat]
      BY <2>2, EndsType
    <2>5. cred[p] \in [open: BOOLEAN, owned: SUBSET Job]
      BY <2>2 DEF TypeOK
    <2>6. Opened(cred[p], swept) \in [open: BOOLEAN, owned: SUBSET Job]
      BY <2>1, <2>5 DEF Opened
    <2>7. cred' \in [Provider -> [open: BOOLEAN, owned: SUBSET Job]]
      BY <2>2, <2>6 DEF TypeOK
    <2> QED
      BY <2>2, <2>3, <2>4, <2>7 DEF TypeOK
  <1>6. CASE ActivateStorage(j, a)
    <2>1. job' \in [Job -> Row]
      BY <1>1, <1>6, PausedRowType, ReasonsAre DEF ActivateStorage
    <2>2. inflight' \in [Job -> SUBSET Nat]
      BY <1>6, EndsType DEF ActivateStorage
    <2>3. storage' \in [active: BOOLEAN, owned: SUBSET Job]
      BY <1>6 DEF ActivateStorage, StoragePausable, TypeOK
    <2> QED
      BY <1>6, <2>1, <2>2, <2>3 DEF ActivateStorage, TypeOK
  <1> QED
    BY <1>2, <1>3, <1>4, <1>5, <1>6 DEF RecordFailure

LEMMA WorkerType ==
  ASSUME TypeOK, Worker
  PROVE  TypeOK'
  <1> SUFFICES ASSUME NEW j \in Job, NEW a \in inflight[j],
                      MarkRunning(j, a) \/ Heartbeat(j, a) \/ Commit(j, a) \/ Abandon(j, a)
                        \/ \E c \in Failures : RecordFailure(j, a, c)
               PROVE  TypeOK'
    BY ClaimType DEF Worker
  <1>1. job[j] \in Row /\ inflight \in [Job -> SUBSET Nat]
    BY DEF TypeOK
  <1>2. CASE MarkRunning(j, a)
    <2>1. [job[j] EXCEPT !.state = "running"] \in Row
      BY <1>1, StatesAre DEF Row
    <2>2. job' \in [Job -> Row]
      BY <1>2, <2>1 DEF MarkRunning, TypeOK
    <2> QED
      BY <1>1, <1>2, <2>2, RowsWrittenType DEF MarkRunning
  <1>3. CASE Heartbeat(j, a)
    <2>1. [job[j] EXCEPT !.lease = [@ EXCEPT !.ttl = LeaseTtl]] \in Row
      BY <1>1, BoundsArePositive DEF Row
    <2>2. job' \in [Job -> Row]
      BY <1>3, <2>1 DEF Heartbeat, TypeOK
    <2> QED
      BY <1>1, <1>3, <2>2, RowsWrittenType DEF Heartbeat
  <1>4. CASE Commit(j, a)
    BY <1>4, CommitType
  <1>5. CASE Abandon(j, a)
    <2>1. inflight' \in [Job -> SUBSET Nat]
      BY <1>5, EndsType DEF Abandon
    <2> QED
      BY <1>5, <2>1, RowsWrittenType DEF Abandon, TypeOK
  <1>6. CASE \E c \in Failures : RecordFailure(j, a, c)
    BY <1>6, RecordFailureType
  <1> QED
    BY <1>2, <1>3, <1>4, <1>5, <1>6

LEMMA ShutdownType ==
  ASSUME TypeOK, Shutdown \/ Tick
  PROVE  TypeOK'
  <1>1. job \in [Job -> Row] /\ inflight \in [Job -> SUBSET Nat]
    BY DEF TypeOK
  <1>2. ASSUME NEW j \in Job, NEW a \in inflight[j], RequeueOwned(j, a) PROVE TypeOK'
    <2>1. job' \in [Job -> Row]
      BY <1>1, <1>2, RequeuedRowType, ReasonsAre DEF RequeueOwned
    <2> QED
      BY <1>1, <1>2, <2>1, RowsWrittenType DEF RequeueOwned
  <1>3. CASE Restart
    <2>1. job' \in [Job -> Row]
      BY <1>1, <1>3, RequeuedRowType, ReasonsAre DEF Restart
    <2>2. boot' \in Nat \ {0} /\ inflight' \in [Job -> SUBSET Nat]
      BY <1>3 DEF Restart, TypeOK
    <2> QED
      BY <1>3, <2>1, <2>2 DEF Restart, TypeOK, incidents
  <1>4. CASE Tick
    <2>1. job' \in [Job -> Row]
      BY <1>1, <1>4, AgedRowType DEF Tick
    <2> QED
      BY <1>1, <1>4, <2>1, RowsWrittenType DEF Tick
  <1> QED
    BY <1>2, <1>3, <1>4 DEF Shutdown

LEMMA OperatorType ==
  ASSUME TypeOK, JobControl \/ Integrity \/ Reviewer
  PROVE  TypeOK'
  <1>1. job \in [Job -> Row] /\ inflight \in [Job -> SUBSET Nat]
    BY DEF TypeOK
  <1> SUFFICES ASSUME NEW j \in Job,
                      \/ \E p \in Priorities : SetPriority(j, p)
                      \/ Pause(j) \/ Resume(j) \/ Retry(j) \/ Cancel(j)
                      \/ PauseForIntegrity(j) \/ ReleaseIntegrityPause(j)
                      \/ CancelOwnedHumanGate(j) \/ CompleteHumanGate(j)
               PROVE  /\ job' \in [Job -> Row]
                      /\ UNCHANGED <<attr, inflight, incidents, lock, boot, winner>>
    <2>1. \E j \in Job : \/ \E p \in Priorities : SetPriority(j, p)
                         \/ Pause(j) \/ Resume(j) \/ Retry(j) \/ Cancel(j)
                         \/ PauseForIntegrity(j) \/ ReleaseIntegrityPause(j)
                         \/ CancelOwnedHumanGate(j) \/ CompleteHumanGate(j)
      BY DEF JobControl, Integrity, Reviewer
    <2> QED
      BY <1>1, <2>1, RowsWrittenType
  <1>2. job[j] \in Row /\ job[j].reason \in Reasons
    BY <1>1 DEF Row
  <1>3. ASSUME NEW p \in Priorities, SetPriority(j, p)
        PROVE  /\ job' \in [Job -> Row]
               /\ UNCHANGED <<attr, inflight, incidents, lock, boot, winner>>
    <2>1. p \in Nat
      BY BoundsArePositive
    <2>2. [job[j] EXCEPT !.priority = p] \in Row
      BY <1>2, <2>1 DEF Row
    <2> QED
      BY <1>1, <1>3, <2>2 DEF SetPriority
  <1>4. CASE Pause(j)
    BY <1>4, PausedByOperatorType DEF Pause
  <1>5. CASE Resume(j)
    BY <1>5, PromotedType, RestoredType DEF Resume, Restore
  <1>6. CASE Retry(j)
    BY <1>1, <1>2, <1>6, ReadiedRowType DEF Retry, DependenciesSucceeded
  <1>7. CASE Cancel(j)
    BY <1>1, <1>2, <1>7, CanceledRowType DEF Cancel
  <1>8. CASE PauseForIntegrity(j)
    BY <1>1, <1>2, <1>8, PausedRowType, ReasonsAre DEF PauseForIntegrity
  <1>9. CASE ReleaseIntegrityPause(j)
    <2>1. [job[j] EXCEPT !.reason = "operator"] \in Row
      BY <1>2, ReasonsAre DEF Row
    <2> QED
      BY <1>1, <1>9, <2>1 DEF ReleaseIntegrityPause
  <1>10. CASE CancelOwnedHumanGate(j)
    BY <1>1, <1>2, <1>10, CanceledRowType DEF CancelOwnedHumanGate
  <1>11. CASE CompleteHumanGate(j)
    <2>1. [job EXCEPT ![j] = SucceededRow(@)] \in [Job -> Row]
      BY <1>1, <1>2, SucceededRowType
    <2> QED
      BY <1>11, <2>1, PromotedType DEF CompleteHumanGate
  <1> QED
    BY <1>3, <1>4, <1>5, <1>6, <1>7, <1>8, <1>9, <1>10, <1>11

LEMMA PauseProjectType ==
  ASSUME TypeOK, NEW s, PauseProject(s)
  PROVE  job' \in [Job -> Row]
  BY PausedByOperatorType DEF PauseProject, JobsOf

LEMMA RemediationType ==
  ASSUME TypeOK, ProjectControl \/ Remediation
  PROVE  TypeOK'
  <1>1. ASSUME NEW S, Restore(S)
        PROVE  job' \in [Job -> Row] /\ UNCHANGED <<attr, inflight, lock, boot, winner>>
    BY <1>1, PromotedType, RestoredType DEF Restore
  <1>2. inflight \in [Job -> SUBSET Nat]
    BY DEF TypeOK
  <1>3. ASSUME NEW s \in Scope, PauseProjectJobs(s) PROVE TypeOK'
    BY <1>2, <1>3, PauseProjectType, RowsWrittenType DEF PauseProjectJobs
  <1>4. ASSUME NEW s \in Scope, ResumeProject(s) PROVE TypeOK'
    BY <1>1, <1>2, <1>4, RowsWrittenType DEF ResumeProject
  <1>5. ASSUME NEW l \in Lane, ResumeQuota(l) PROVE TypeOK'
    <2>1. quota' \in [Lane -> [open: BOOLEAN, owned: SUBSET Job, decided: SUBSET Scope]]
      BY <1>5 DEF ResumeQuota, NoQuota, TypeOK
    <2> QED
      BY <1>1, <1>5, <2>1 DEF ResumeQuota, TypeOK
  <1>6. ASSUME NEW p \in Provider, ResumeCredentials(p) PROVE TypeOK'
    <2>1. cred' \in [Provider -> [open: BOOLEAN, owned: SUBSET Job]]
      BY <1>6 DEF ResumeCredentials, NoCred, TypeOK
    <2> QED
      BY <1>1, <1>6, <2>1 DEF ResumeCredentials, TypeOK
  <1>7. CASE ResumeStorage
    BY <1>1, <1>7 DEF ResumeStorage, NoStorage, TypeOK
  <1> QED
    BY <1>3, <1>4, <1>5, <1>6, <1>7 DEF ProjectControl, Remediation

LEMMA ExportType ==
  ASSUME TypeOK, Export
  PROVE  TypeOK'
  <1> SUFFICES ASSUME NEW s \in Project,
                      BeginExportDrain(s) \/ FreezeSnapshot(s) \/ ReleaseSnapshotLock(s)
               PROVE  TypeOK'
    BY DEF Export
  <1> DEFINE Lock == [phase: {"none", "draining", "snapshot"}, captured: SUBSET (Job \X Nat)]
  <1>1. lock \in [Project -> Lock] /\ lock[s] \in Lock
    BY DEF TypeOK
  <1>2. CASE BeginExportDrain(s)
    <2> DEFINE held == {<<j, job[j].attempts>> :
                           j \in {k \in JobsOf(s) : job[k].state \in Active}}
    <2>1. \A j \in JobsOf(s) : j \in Job /\ job[j].attempts \in Nat
      BY DEF JobsOf, TypeOK, Row
    <2>2. held \in SUBSET (Job \X Nat)
      BY <2>1
    <2>3. lock' = [lock EXCEPT ![s] = [phase |-> "draining", captured |-> held]]
      BY <1>2 DEF BeginExportDrain
    <2> HIDE DEF held
    <2>4. lock' \in [Project -> Lock]
      BY <1>1, <2>2, <2>3
    <2> QED
      BY <1>2, <2>4, PauseProjectType DEF BeginExportDrain, TypeOK, incidents
  <1>3. CASE FreezeSnapshot(s)
    <2>1. lock' \in [Project -> Lock]
      BY <1>1, <1>3 DEF FreezeSnapshot
    <2> QED
      BY <1>3, <2>1 DEF FreezeSnapshot, TypeOK, incidents
  <1>4. CASE ReleaseSnapshotLock(s)
    <2>1. lock' \in [Project -> Lock]
      BY <1>1, <1>4 DEF ReleaseSnapshotLock, NoLock
    <2> QED
      BY <1>4, <2>1 DEF ReleaseSnapshotLock, TypeOK, incidents
  <1> QED
    BY <1>2, <1>3, <1>4

LEMMA QuotaDecisionType ==
  ASSUME TypeOK, NEW l \in Lane, NEW s \in Scope
  PROVE  /\ DecideWait(l, s) => TypeOK'
         /\ \A alternate \in Lane : DecideContinue(l, s, alternate) => TypeOK'
  <1> DEFINE Quota == [open: BOOLEAN, owned: SUBSET Job, decided: SUBSET Scope]
  <1>1. ASSUME DecideWait(l, s) PROVE TypeOK'
    <2>1. quota' \in [Lane -> Quota]
      BY <1>1 DEF DecideWait, TypeOK
    <2> QED
      BY <1>1, <2>1 DEF DecideWait, TypeOK
  <1>2. ASSUME NEW alternate \in Lane, DecideContinue(l, s, alternate) PROVE TypeOK'
    <2> DEFINE S == {j \in quota[l].owned \cap PausedFor("quota") \cap JobsOf(s) :
                       attr[j].lane = l}
    <2>1. S \in SUBSET Job
      BY DEF JobsOf
    <2>2. PICK heir \in Heirs(S) :
            LET new == {heir[j] : j \in S}
                as == HeirAttr(S, heir, alternate)
                rows == Inserted(as, job, new, HeirPriority(S, heir))
            IN /\ attr' = as
               /\ job' = [j \in Job |-> IF j \in S THEN SupersededRow(rows[j]) ELSE rows[j]]
               /\ quota' = [QuotaWith(as, rows, new) EXCEPT ![l].decided = @ \cup {s}]
               /\ cred' = CredWith(as, rows, new)
      BY <1>2 DEF DecideContinue
    <2> DEFINE new == {heir[j] : j \in S}
               as == HeirAttr(S, heir, alternate)
               rows == Inserted(as, job, new, HeirPriority(S, heir))
    <2>3. UNCHANGED <<inflight, storage, lock, boot, winner>>
      BY <1>2 DEF DecideContinue
    <2>4. /\ attr' = as
          /\ job' = [j \in Job |-> IF j \in S THEN SupersededRow(rows[j]) ELSE rows[j]]
          /\ quota' = [QuotaWith(as, rows, new) EXCEPT ![l].decided = @ \cup {s}]
          /\ cred' = CredWith(as, rows, new)
      BY <2>2
    <2> HIDE DEF S
    <2>5. /\ new \in SUBSET Job /\ as \in [Job -> Attr]
          /\ HeirPriority(S, heir) \in [new -> Nat]
      BY <2>1, HeirsType
    <2> HIDE DEF new, as
    <2>6. rows \in [Job -> Row]
      BY <2>5, InsertedType DEF TypeOK
    <2> HIDE DEF rows
    <2>7. job' \in [Job -> Row]
      BY <2>4, <2>6, CanceledRowType
    <2>8. QuotaWith(as, rows, new) \in [Lane -> Quota] /\ cred' \in
            [Provider -> [open: BOOLEAN, owned: SUBSET Job]]
      BY <2>4, <2>5, IncidentsWithType
    <2>9. quota' \in [Lane -> Quota]
      BY <2>4, <2>8, ZenonT(40)
    <2> QED
      BY <2>3, <2>4, <2>5, <2>7, <2>8, <2>9 DEF TypeOK
  <1> QED
    BY <1>1, <1>2

LEMMA RetargetType ==
  ASSUME TypeOK, NEW alternate \in Lane, NEW available \in BOOLEAN,
         RetargetRemaining(alternate, available)
  PROVE  TypeOK'
  <1> DEFINE S == {j \in Job : /\ job[j].state \in Waiting \cup {"paused"}
                               /\ attr[j].lane \in Lane \ {alternate}
                               /\ OperationOf[attr[j].lane] = OperationOf[alternate]}
  <1>1. S \in SUBSET Job
    OBVIOUS
  <1>2. PICK heir \in Heirs(S) :
          LET new == {heir[j] : j \in S}
              as == HeirAttr(S, heir, alternate)
              rows == Inserted(as, job, new, HeirPriority(S, heir))
          IN /\ attr' = as
             /\ job' = [k \in Job |->
                  IF k \in S THEN SupersededRow(rows[k])
                  ELSE IF k \in new
                       THEN DisposedRow(job[CHOOSE j \in S : heir[j] = k], rows[k], available)
                       ELSE rows[k]]
             /\ quota' = QuotaWith(as, rows, new)
             /\ cred' = CredWith(as, rows, new)
    BY DEF RetargetRemaining
  <1> DEFINE new == {heir[j] : j \in S}
             as == HeirAttr(S, heir, alternate)
             rows == Inserted(as, job, new, HeirPriority(S, heir))
             original(k) == CHOOSE j \in S : heir[j] = k
  <1>3. UNCHANGED <<inflight, storage, lock, boot, winner>>
    BY DEF RetargetRemaining
  <1>4. /\ attr' = as
        /\ job' = [k \in Job |->
             IF k \in S THEN SupersededRow(rows[k])
             ELSE IF k \in new THEN DisposedRow(job[original(k)], rows[k], available)
                  ELSE rows[k]]
        /\ quota' = QuotaWith(as, rows, new)
        /\ cred' = CredWith(as, rows, new)
    BY <1>2
  <1>5. \A k \in new : original(k) \in S
    OBVIOUS
  <1> HIDE DEF S
  <1>6. /\ new \in SUBSET Job /\ as \in [Job -> Attr]
        /\ HeirPriority(S, heir) \in [new -> Nat]
    BY <1>1, HeirsType
  <1> HIDE DEF new, as, original
  <1>7. rows \in [Job -> Row]
    BY <1>6, InsertedType DEF TypeOK
  <1> HIDE DEF rows
  <1>8. ASSUME NEW k \in new
        PROVE  DisposedRow(job[original(k)], rows[k], available) \in Row
    <2>1. rows[k] \in Row /\ rows[k].reason \in Reasons /\ job[original(k)].reason \in Reasons
      BY <1>1, <1>5, <1>6, <1>7 DEF TypeOK, Row
    <2> QED
      BY <2>1, PausedRowType, ReasonsAre DEF DisposedRow
  <1>9. job' \in [Job -> Row]
    BY <1>4, <1>7, <1>8, CanceledRowType
  <1>10. /\ quota' \in [Lane -> [open: BOOLEAN, owned: SUBSET Job, decided: SUBSET Scope]]
         /\ cred' \in [Provider -> [open: BOOLEAN, owned: SUBSET Job]]
    BY <1>4, <1>6, IncidentsWithType
  <1> QED
    BY <1>3, <1>4, <1>6, <1>9, <1>10 DEF TypeOK

\* Rows, incidents, locks and executions keep their shape through every step, for
\* any plan, lanes and bounds (jobRecordSchema and the incident schemas).
THEOREM TypeCorrect == Spec => []TypeOK
  <1>1. Init => TypeOK
    BY InitType
  <1>2. ASSUME TypeOK, [Next]_vars PROVE TypeOK'
    <2>1. CASE Caller
      BY <2>1, <1>2, EnqueueType DEF Caller
    <2>2. CASE Worker
      BY <2>2, <1>2, WorkerType
    <2>3. CASE Shutdown \/ Tick
      BY <2>3, <1>2, ShutdownType
    <2>4. CASE JobControl \/ Integrity \/ Reviewer
      BY <2>4, <1>2, OperatorType
    <2>5. CASE ProjectControl \/ Remediation
      BY <2>5, <1>2, RemediationType
    <2>6. CASE QuotaDecision
      BY <2>6, <1>2, QuotaDecisionType DEF QuotaDecision
    <2>7. CASE Settings
      BY <2>7, <1>2, RetargetType DEF Settings
    <2>8. CASE Export
      BY <2>8, <1>2, ExportType
    <2>9. CASE UNCHANGED vars
      BY <2>9, <1>2 DEF TypeOK, vars
    <2> QED
      BY <1>2, <2>1, <2>2, <2>3, <2>4, <2>5, <2>6, <2>7, <2>8, <2>9 DEF Next
  <1> QED
    BY <1>1, <1>2, PTL DEF Spec

(***************************************************************************)
(* Calm steps.  Only a claim makes a row active, a final row keeps its     *)
(* state, and the immutable columns of a row that exists stay: Quiet says  *)
(* it of a row, Calm of all rows in a set.                                 *)
(***************************************************************************)
Quiet(r, s) ==
  /\ s.state \in Active => r.state \in Active
  /\ r.state \in Terminal => s.state = r.state

Calm(S) ==
  \A j \in S : /\ Quiet(job[j], job'[j])
               /\ Exists(j) => attr'[j] = attr[j]
               /\ job[j].state \in Terminal => winner'[j] = winner[j]

LEMMA QuietRows ==
  ASSUME NEW r \in Row
  PROVE  /\ Quiet(r, r)
         /\ r.state \notin Terminal =>
              /\ \A why, because : Quiet(r, PausedRow(r, why, because))
              /\ \A why : Quiet(r, RequeuedRow(r, why))
              /\ Quiet(r, CanceledRow(r)) /\ Quiet(r, SupersededRow(r))
              /\ Quiet(r, SucceededRow(r)) /\ Quiet(r, RetriedRow(r))
              /\ \A ready : Quiet(r, ReadiedRow(r, ready))
              /\ \A c \in RetriedFailures \cup FinalFailures : Quiet(r, ExhaustedRow(r, c))
         /\ r.state = "paused" => Quiet(r, RestoredRow(r))
         /\ Quiet(r, AgedRow(r))
  <1>1. Quiet(r, r) /\ Quiet(r, AgedRow(r))
    BY DEF Quiet, AgedRow, Row
  <1>2. ASSUME r.state \notin Terminal, NEW t, t.state \notin Active
        PROVE  Quiet(r, t)
    BY <1>2 DEF Quiet
  <1>3. /\ \A why, because : PausedRow(r, why, because).state = "paused"
        /\ \A why : RequeuedRow(r, why).state = "queued"
        /\ CanceledRow(r).state = "canceled" /\ SupersededRow(r).state = "canceled"
        /\ SucceededRow(r).state = "succeeded" /\ RetriedRow(r).state = "queued"
        /\ \A ready : ReadiedRow(r, ready).state \in Waiting
    BY DEF PausedRow, RequeuedRow, CanceledRow, SupersededRow, SucceededRow, RetriedRow,
       ReadiedRow, Waiting, Row
  <1>4. \A c \in RetriedFailures \cup FinalFailures :
          ExhaustedRow(r, c).state \in {"failed", "canceled", "paused"}
    BY DEF ExhaustedRow, Exhausted, Row, RetriedFailures, FinalFailures
  <1>5. ASSUME r.state = "paused" PROVE Quiet(r, RestoredRow(r))
    <2>1. RestoredRow(r).state \notin Active
      BY DEF RestoredRow, Row, Active
    <2> QED
      BY <1>5, <2>1 DEF Quiet, Terminal
  <1> QED
    BY <1>1, <1>2, <1>3, <1>4, <1>5 DEF Active, Waiting

LEMMA QuietTrans ==
  ASSUME NEW r, NEW s, NEW t, Quiet(r, s), Quiet(s, t)
  PROVE  Quiet(r, t)
  BY DEF Quiet

LEMMA PromotedQuiet ==
  ASSUME NEW as, NEW rows \in [Job -> Row], NEW j \in Job
  PROVE  Quiet(rows[j], Promoted(as, rows)[j])
  <1>1. CASE Promotable(as, rows, j)
    BY <1>1 DEF Promoted, Promotable, Quiet, Row, Active, Terminal
  <1>2. CASE ~Promotable(as, rows, j)
    BY <1>2, QuietRows DEF Promoted
  <1> QED
    BY <1>1, <1>2

LEMMA InsertedQuiet ==
  ASSUME NEW as, NEW rows \in [Job -> Row], NEW new \in SUBSET Job, NEW priority,
         \A j \in new : rows[j].state = "absent",
         NEW j \in Job
  PROVE  Quiet(rows[j], Inserted(as, rows, new, priority)[j])
  <1>1. CASE j \in new
    <2>1. NewRow(as, rows, j, priority[j]).state \notin Active
      BY DEF NewRow, InitialRow, PausedRow, NoRow, Active
    <2> QED
      BY <1>1, <2>1 DEF Inserted, Quiet, Terminal
  <1>2. CASE j \notin new
    BY <1>2, QuietRows DEF Inserted
  <1> QED
    BY <1>1, <1>2

LEMMA NumberedAttrStays ==
  ASSUME NEW new \in SUBSET {k \in Job : ~Exists(k)}, NEW depsOf, NEW j \in Job, Exists(j)
  PROVE  NumberedAttr(new, depsOf)[j] = attr[j]
  BY DEF NumberedAttr

LEMMA RowsCalm ==
  ASSUME \A j \in Job : Quiet(job[j], job'[j]), attr' = attr, winner' = winner
  PROVE  Calm(Job)
  BY DEF Calm

LEMMA RestoreCalm ==
  ASSUME TypeOK, NEW S \in SUBSET {j \in Job : job[j].state = "paused"}, Restore(S)
  PROVE  Calm(Job)
  <1>1. Restored(S) \in [Job -> Row] /\ job \in [Job -> Row]
    BY RestoredType DEF TypeOK
  <1>2. \A j \in Job : Quiet(job[j], Restored(S)[j])
    BY <1>1, QuietRows DEF Restored
  <1>3. \A j \in Job : Quiet(job[j], job'[j])
    BY <1>1, <1>2, PromotedQuiet, QuietTrans DEF Restore
  <1> QED
    BY <1>3, RowsCalm DEF Restore

LEMMA PauseProjectCalm ==
  ASSUME TypeOK, NEW s, PauseProject(s), NEW j \in Job
  PROVE  Quiet(job[j], job'[j])
  <1>1. job[j] \in Row
    BY DEF TypeOK
  <1> QED
    BY <1>1, QuietRows DEF PauseProject, PausedByOperator, Waiting, Terminal

LEMMA EnqueueCalm ==
  ASSUME TypeOK, NEW batch \in Batches, Enqueue(batch)
  PROVE  Calm(Job)
  <1>1. Fresh(batch) \in SUBSET {k \in Job : ~Exists(k)}
    BY PlanIsWellFormed DEF Fresh
  <1>2. \A j \in Job : Quiet(job[j], job'[j])
    BY <1>1, InsertedQuiet DEF Enqueue, TypeOK, Exists
  <1>3. \A j \in Job : Exists(j) => attr'[j] = attr[j]
    BY <1>1, NumberedAttrStays DEF Enqueue
  <1> QED
    BY <1>2, <1>3 DEF Calm, Enqueue

LEMMA ClaimSteps ==
  ASSUME TypeOK
  PROVE  /\ \A due : Poll(due) => Calm(Job)
         /\ \A j \in Job : \A due : ClaimNext(j, due) =>
              Calm(Job \ {j}) /\ attr' = attr /\ job[j].state \in Waiting
  <1>1. job \in [Job -> Row] /\ Promoted(attr, job) \in [Job -> Row]
    BY PromotedType DEF TypeOK
  <1>2. ASSUME NEW due, Poll(due) PROVE Calm(Job)
    BY <1>1, <1>2, PromotedQuiet, RowsCalm DEF Poll
  <1>3. ASSUME NEW j \in Job, NEW due, ClaimNext(j, due)
        PROVE  Calm(Job \ {j}) /\ attr' = attr /\ job[j].state \in Waiting
    <2>1. \A k \in Job \ {j} : Quiet(job[k], job'[k])
      BY <1>1, <1>3, PromotedQuiet DEF ClaimNext
    <2>2. attr' = attr /\ winner' = winner
      BY <1>3 DEF ClaimNext
    <2>3. job[j].state \in Waiting
      <3>1. Promoted(attr, job)[j].state = "queued"
        BY <1>3 DEF ClaimNext, Eligible
      <3> QED
        BY <3>1 DEF Promoted, Promotable, Waiting
    <2> QED
      BY <2>1, <2>2, <2>3 DEF Calm
  <1> QED
    BY <1>2, <1>3

LEMMA CommitCalm ==
  ASSUME TypeOK, NEW j \in Job, NEW a \in inflight[j], Commit(j, a)
  PROVE  Calm(Job)
  <1> DEFINE new == FollowUps(j)
             as == FollowUpAttr(j)
             priority == [k \in new |-> job[j].priority]
             rows == Inserted(as, job, new, priority)
             done == [rows EXCEPT ![j] = SucceededRow(@)]
  <1>1. /\ attr' = as /\ job' = Promoted(as, done)
        /\ winner' = [winner EXCEPT ![j] = a]
        /\ job[j].state = "running"
    BY DEF Commit, CanCommit, CanReport, Owns
  <1>2. new \in SUBSET {k \in Job : ~Exists(k)}
    BY PlanIsWellFormed DEF FollowUps, Fresh, TypeOK, Attr
  <1>3. \A k \in Job : Exists(k) => attr'[k] = attr[k]
    BY <1>1, <1>2, NumberedAttrStays DEF FollowUpAttr
  <1>4. priority \in [new -> Nat] /\ job \in [Job -> Row]
    BY DEF TypeOK, Row
  <1> HIDE DEF new, as, priority
  <1>5. rows \in [Job -> Row] /\ \A k \in Job : Quiet(job[k], rows[k])
    BY <1>2, <1>4, InsertedType, InsertedQuiet DEF Exists
  <1>6. rows[j] = job[j]
    BY <1>1, <1>2 DEF Inserted, Exists
  <1> HIDE DEF rows
  <1>7. done \in [Job -> Row]
    BY <1>5, SucceededRowType
  <1>8. \A k \in Job : Quiet(rows[k], done[k])
    <2>1. Quiet(rows[j], SucceededRow(rows[j]))
      BY <1>1, <1>5, <1>6, QuietRows DEF Terminal
    <2> QED
      BY <1>5, <2>1, QuietRows
  <1> HIDE DEF done
  <1>9. \A k \in Job : Quiet(job[k], job'[k])
    BY <1>1, <1>5, <1>7, <1>8, PromotedQuiet, QuietTrans
  <1>10. \A k \in Job : job[k].state \in Terminal => winner'[k] = winner[k]
    BY <1>1 DEF Terminal, TypeOK
  <1> QED
    BY <1>3, <1>9, <1>10 DEF Calm

LEMMA RecordFailureCalm ==
  ASSUME TypeOK, NEW j \in Job, NEW a \in inflight[j], NEW c \in Failures,
         RecordFailure(j, a, c)
  PROVE  Calm(Job)
  <1>1. \A k \in Job : job[k] \in Row
    BY DEF TypeOK
  <1>2. attr' = attr /\ winner' = winner
    BY DEF RecordFailure, FailRetry, FailFinal, ActivateQuota, ActivateCredentials,
       ActivateStorage
  <1>3. job[j].state = "running"
    BY DEF RecordFailure, FailRetry, FailFinal, ActivateQuota, ActivateCredentials,
       ActivateStorage, CanReport, Owns
  <1> SUFFICES ASSUME NEW k \in Job PROVE Quiet(job[k], job'[k])
    BY <1>2, RowsCalm
  <1>4. CASE FailRetry(j, a, c)
    BY <1>1, <1>3, <1>4, QuietRows DEF FailRetry, Terminal, TypeOK
  <1>5. CASE FailFinal(j, a, c)
    BY <1>1, <1>3, <1>5, QuietRows DEF FailFinal, Terminal, TypeOK
  <1>6. CASE ActivateQuota(j, a)
    BY <1>1, <1>3, <1>6, QuietRows DEF ActivateQuota, WaitingIn, Waiting, Terminal
  <1>7. CASE ActivateCredentials(j, a)
    BY <1>1, <1>3, <1>7, QuietRows DEF ActivateCredentials, WaitingIn, Waiting, Terminal
  <1>8. CASE ActivateStorage(j, a)
    BY <1>1, <1>8, QuietRows DEF ActivateStorage, StoragePausable
  <1> QED
    BY <1>4, <1>5, <1>6, <1>7, <1>8 DEF RecordFailure

LEMMA ExecutionCalm ==
  ASSUME TypeOK, NEW j \in Job, NEW a \in inflight[j],
         MarkRunning(j, a) \/ Heartbeat(j, a) \/ Abandon(j, a) \/ RequeueOwned(j, a)
  PROVE  Calm(Job)
  <1>1. job \in [Job -> Row] /\ attr' = attr /\ winner' = winner
    BY DEF TypeOK, MarkRunning, Heartbeat, Abandon, RequeueOwned
  <1> SUFFICES ASSUME NEW k \in Job PROVE Quiet(job[k], job'[k])
    BY <1>1, RowsCalm
  <1>2. CASE MarkRunning(j, a)
    <2>1. job'[k] = IF k = j THEN [job[j] EXCEPT !.state = "running"] ELSE job[k]
      BY <1>1, <1>2 DEF MarkRunning
    <2>2. job[j].state = "claimed"
      BY <1>2 DEF MarkRunning, CanMarkRunning, Owns
    <2> QED
      BY <1>1, <2>1, <2>2 DEF Quiet, Active, Terminal, Row
  <1>3. CASE Heartbeat(j, a)
    <2>1. job'[k].state = job[k].state
      BY <1>1, <1>3 DEF Heartbeat, Row
    <2> QED
      BY <2>1 DEF Quiet
  <1>4. CASE Abandon(j, a)
    BY <1>1, <1>4, QuietRows DEF Abandon
  <1>5. CASE RequeueOwned(j, a)
    BY <1>1, <1>5, QuietRows DEF RequeueOwned, Owns, Terminal
  <1> QED
    BY <1>2, <1>3, <1>4, <1>5

LEMMA ClockCalm ==
  ASSUME TypeOK, Restart \/ Tick
  PROVE  Calm(Job)
  <1>1. job \in [Job -> Row] /\ attr' = attr /\ winner' = winner
    BY DEF TypeOK, Restart, Tick
  <1> SUFFICES ASSUME NEW k \in Job PROVE Quiet(job[k], job'[k])
    BY <1>1, RowsCalm
  <1>2. CASE Restart
    BY <1>1, <1>2, QuietRows DEF Restart, Active, Terminal
  <1>3. CASE Tick
    BY <1>1, <1>3, QuietRows DEF Tick
  <1> QED
    BY <1>2, <1>3

LEMMA OperatorCalm ==
  ASSUME TypeOK, JobControl \/ Integrity \/ Reviewer
  PROVE  Calm(Job)
  <1>1. job \in [Job -> Row] /\ \A k \in Job : Quiet(job[k], job[k])
    BY QuietRows DEF TypeOK
  <1>2. ASSUME NEW j \in Job, NEW r, Quiet(job[j], r), job' = [job EXCEPT ![j] = r],
               attr' = attr, winner' = winner
        PROVE  Calm(Job)
    BY <1>1, <1>2, RowsCalm
  <1> SUFFICES ASSUME NEW j \in Job,
                      \/ \E p \in Priorities : SetPriority(j, p)
                      \/ Pause(j) \/ Resume(j) \/ Retry(j) \/ Cancel(j)
                      \/ PauseForIntegrity(j) \/ ReleaseIntegrityPause(j)
                      \/ CancelOwnedHumanGate(j) \/ CompleteHumanGate(j)
               PROVE  Calm(Job)
    BY DEF JobControl, Integrity, Reviewer
  <1>3. job[j] \in Row
    BY <1>1
  <1>4. ASSUME NEW p \in Priorities, SetPriority(j, p) PROVE Calm(Job)
    <2>1. Quiet(job[j], [job[j] EXCEPT !.priority = p])
      BY <1>3 DEF Quiet, Row
    <2> QED
      BY <1>2, <1>4, <2>1 DEF SetPriority
  <1>5. CASE Pause(j)
    BY <1>1, <1>5, QuietRows, RowsCalm DEF Pause, PausedByOperator, Waiting, Terminal
  <1>6. CASE Resume(j)
    BY <1>6, RestoreCalm DEF Resume, PausedFor
  <1>7. CASE Retry(j)
    BY <1>2, <1>3, <1>7, QuietRows DEF Retry, Terminal
  <1>8. CASE Cancel(j)
    BY <1>2, <1>3, <1>8, QuietRows DEF Cancel
  <1>9. CASE PauseForIntegrity(j)
    BY <1>2, <1>3, <1>9, QuietRows DEF PauseForIntegrity, Waiting, Active, Terminal
  <1>10. CASE ReleaseIntegrityPause(j)
    <2>1. Quiet(job[j], [job[j] EXCEPT !.reason = "operator"])
      BY <1>3 DEF Quiet, Row
    <2> QED
      BY <1>2, <1>10, <2>1 DEF ReleaseIntegrityPause
  <1>11. CASE CancelOwnedHumanGate(j)
    BY <1>2, <1>3, <1>11, QuietRows DEF CancelOwnedHumanGate, Terminal
  <1>12. CASE CompleteHumanGate(j)
    <2> DEFINE rows == [job EXCEPT ![j] = SucceededRow(@)]
    <2>1. rows \in [Job -> Row]
      BY <1>1, <1>3, SucceededRowType
    <2>2. \A k \in Job : Quiet(job[k], rows[k])
      BY <1>1, <1>3, <1>12, QuietRows DEF CompleteHumanGate, Terminal
    <2>3. job' = Promoted(attr, rows) /\ attr' = attr /\ winner' = winner
      BY <1>12 DEF CompleteHumanGate
    <2> HIDE DEF rows
    <2>4. \A k \in Job : Quiet(job[k], job'[k])
      BY <2>1, <2>2, <2>3, PromotedQuiet, QuietTrans
    <2> QED
      BY <2>3, <2>4, RowsCalm
  <1> QED
    BY <1>4, <1>5, <1>6, <1>7, <1>8, <1>9, <1>10, <1>11, <1>12

LEMMA RemediationCalm ==
  ASSUME TypeOK, ProjectControl \/ Remediation
  PROVE  Calm(Job)
  <1>1. ASSUME NEW s \in Scope, PauseProjectJobs(s) PROVE Calm(Job)
    BY <1>1, PauseProjectCalm, RowsCalm DEF PauseProjectJobs
  <1>2. ASSUME NEW s \in Scope, ResumeProject(s) PROVE Calm(Job)
    BY <1>2, RestoreCalm DEF ResumeProject, PausedFor
  <1>3. ASSUME NEW l \in Lane, ResumeQuota(l) PROVE Calm(Job)
    BY <1>3, RestoreCalm DEF ResumeQuota, PausedFor
  <1>4. ASSUME NEW p \in Provider, ResumeCredentials(p) PROVE Calm(Job)
    BY <1>4, RestoreCalm DEF ResumeCredentials, PausedFor
  <1>5. CASE ResumeStorage
    BY <1>5, RestoreCalm DEF ResumeStorage, PausedFor
  <1> QED
    BY <1>1, <1>2, <1>3, <1>4, <1>5 DEF ProjectControl, Remediation

LEMMA ExportCalm ==
  ASSUME TypeOK, Export
  PROVE  Calm(Job)
  <1>1. \A k \in Job : Quiet(job[k], job[k])
    BY QuietRows DEF TypeOK
  <1>2. ASSUME NEW s \in Project, BeginExportDrain(s) PROVE Calm(Job)
    BY <1>2, PauseProjectCalm, RowsCalm DEF BeginExportDrain
  <1>3. ASSUME NEW s \in Project, FreezeSnapshot(s) \/ ReleaseSnapshotLock(s)
        PROVE  Calm(Job)
    BY <1>1, <1>3, RowsCalm DEF FreezeSnapshot, ReleaseSnapshotLock
  <1> QED
    BY <1>2, <1>3 DEF Export

LEMMA HeirsCalm ==
  ASSUME TypeOK, NEW S \in SUBSET {j \in Job : job[j].state \in Waiting \cup {"paused"}},
         NEW heir \in Heirs(S), NEW alternate \in Lane
  PROVE  LET new == {heir[j] : j \in S}
             as == HeirAttr(S, heir, alternate)
             rows == Inserted(as, job, new, HeirPriority(S, heir))
         IN /\ \A j \in Job : Exists(j) => as[j] = attr[j]
            /\ \A j \in S : rows[j] = job[j]
            /\ \A j \in S : Quiet(job[j], SupersededRow(rows[j]))
            /\ \A j \in Job : Quiet(job[j], rows[j])
            /\ \A j \in new : rows[j].state \notin Active /\ job[j].state = "absent"
  <1> DEFINE new == {heir[j] : j \in S}
             as == HeirAttr(S, heir, alternate)
             priority == HeirPriority(S, heir)
             rows == Inserted(as, job, new, priority)
  <1>1. new \in SUBSET {k \in Job : ~Exists(k)}
    BY JobsAreNumbers DEF Heirs
  <1>2. job \in [Job -> Row]
    BY DEF TypeOK
  <1>3. \A j \in Job : Exists(j) => as[j] = attr[j]
    BY <1>1, NumberedAttrStays DEF HeirAttr
  <1> HIDE DEF new, as, priority
  <1>4. \A j \in S : rows[j] = job[j]
    BY <1>1 DEF Inserted, Exists, Waiting
  <1>5. \A j \in S : Quiet(job[j], SupersededRow(job[j]))
    BY <1>2, QuietRows DEF Waiting, Terminal
  <1>6. \A j \in Job : Quiet(job[j], rows[j])
    BY <1>1, <1>2, InsertedQuiet DEF Exists
  <1>7. \A j \in new : rows[j].state \notin Active /\ job[j].state = "absent"
    BY <1>1, <1>6 DEF Quiet, Exists, Active
  <1> QED
    BY <1>3, <1>4, <1>5, <1>6, <1>7 DEF new, as, priority

LEMMA DecideContinueCalm ==
  ASSUME TypeOK, NEW l \in Lane, NEW s \in Scope, NEW alternate \in Lane,
         DecideContinue(l, s, alternate)
  PROVE  Calm(Job)
  <1> DEFINE S == {j \in quota[l].owned \cap PausedFor("quota") \cap JobsOf(s) :
                     attr[j].lane = l}
  <1>1. PICK heir \in Heirs(S) :
          LET new == {heir[j] : j \in S}
              as == HeirAttr(S, heir, alternate)
              rows == Inserted(as, job, new, HeirPriority(S, heir))
          IN /\ attr' = as
             /\ job' = [j \in Job |-> IF j \in S THEN SupersededRow(rows[j]) ELSE rows[j]]
    BY DEF DecideContinue
  <1>2. S \in SUBSET {j \in Job : job[j].state \in Waiting \cup {"paused"}}
    BY DEF PausedFor, JobsOf
  <1> HIDE DEF S
  <1>3. \A j \in Job : Quiet(job[j], job'[j])
    BY <1>1, <1>2, HeirsCalm
  <1>4. \A j \in Job : Exists(j) => attr'[j] = attr[j]
    BY <1>1, <1>2, HeirsCalm
  <1>5. winner' = winner
    BY DEF DecideContinue
  <1> QED
    BY <1>3, <1>4, <1>5 DEF Calm

LEMMA RetargetCalm ==
  ASSUME TypeOK, NEW alternate \in Lane, NEW available \in BOOLEAN,
         RetargetRemaining(alternate, available)
  PROVE  Calm(Job)
  <1> DEFINE S == {j \in Job : /\ job[j].state \in Waiting \cup {"paused"}
                               /\ attr[j].lane \in Lane \ {alternate}
                               /\ OperationOf[attr[j].lane] = OperationOf[alternate]}
  <1>1. PICK heir \in Heirs(S) :
          LET new == {heir[j] : j \in S}
              as == HeirAttr(S, heir, alternate)
              rows == Inserted(as, job, new, HeirPriority(S, heir))
          IN /\ attr' = as
             /\ job' = [k \in Job |->
                  IF k \in S THEN SupersededRow(rows[k])
                  ELSE IF k \in new
                       THEN DisposedRow(job[CHOOSE j \in S : heir[j] = k], rows[k], available)
                       ELSE rows[k]]
    BY DEF RetargetRemaining
  <1>2. S \in SUBSET {j \in Job : job[j].state \in Waiting \cup {"paused"}}
    OBVIOUS
  <1> HIDE DEF S
  <1>3. ASSUME NEW r, NEW original, r.state \notin Active
        PROVE  DisposedRow(original, r, available).state \notin Active
    BY <1>3 DEF DisposedRow, PausedRow, Active
  <1>4. \A j \in Job : Quiet(job[j], job'[j])
    <2> TAKE j \in Job
    <2> DEFINE new == {heir[k] : k \in S}
               rows == Inserted(HeirAttr(S, heir, alternate), job, new, HeirPriority(S, heir))
    <2>1. CASE j \in S
      BY <1>1, <1>2, <2>1, HeirsCalm
    <2>2. CASE j \in new \ S
      <3>1. job'[j] = DisposedRow(job[CHOOSE k \in S : heir[k] = j], rows[j], available)
        BY <1>1, <2>2
      <3>2. rows[j].state \notin Active /\ job[j].state = "absent"
        BY <1>2, <2>2, HeirsCalm
      <3>3. job'[j].state \notin Active
        BY <1>3, <3>1, <3>2
      <3> QED
        BY <3>2, <3>3 DEF Quiet, Terminal
    <2>3. CASE j \notin new \cup S
      <3>1. job'[j] = rows[j]
        BY <1>1, <2>3
      <3> QED
        BY <1>2, <3>1, HeirsCalm
    <2> QED
      BY <2>1, <2>2, <2>3
  <1>5. \A j \in Job : Exists(j) => attr'[j] = attr[j]
    BY <1>1, <1>2, HeirsCalm
  <1>6. winner' = winner
    BY DEF RetargetRemaining
  <1> QED
    BY <1>4, <1>5, <1>6 DEF Calm

LEMMA DecideWaitCalm ==
  ASSUME TypeOK, NEW l \in Lane, NEW s \in Scope, DecideWait(l, s)
  PROVE  Calm(Job)
  <1>1. \A k \in Job : Quiet(job[k], job[k])
    BY QuietRows DEF TypeOK
  <1> QED
    BY <1>1, RowsCalm DEF DecideWait

LEMMA UnchangedCalm ==
  ASSUME TypeOK, UNCHANGED vars
  PROVE  Calm(Job)
  <1>1. \A k \in Job : Quiet(job[k], job[k])
    BY QuietRows DEF TypeOK
  <1> QED
    BY <1>1, RowsCalm DEF vars

(***************************************************************************)
(* Every step claims one waiting row and is calm for the others, or is     *)
(* calm altogether.                                                        *)
(***************************************************************************)
LEMMA StepCalm ==
  ASSUME TypeOK, [Next]_vars
  PROVE  Calm(Job) \/ \E j \in Job : \E due \in WallClock : ClaimNext(j, due)
  <1>1. CASE Caller
    BY <1>1, EnqueueCalm DEF Caller
  <1>2. CASE Worker
    BY <1>2, ClaimSteps, CommitCalm, ExecutionCalm, RecordFailureCalm DEF Worker
  <1>3. CASE Shutdown \/ Tick
    BY <1>3, ExecutionCalm, ClockCalm DEF Shutdown
  <1>4. CASE JobControl \/ Integrity \/ Reviewer
    BY <1>4, OperatorCalm
  <1>5. CASE ProjectControl \/ Remediation
    BY <1>5, RemediationCalm
  <1>6. CASE QuotaDecision
    BY <1>6, DecideWaitCalm, DecideContinueCalm DEF QuotaDecision
  <1>7. CASE Settings
    BY <1>7, RetargetCalm DEF Settings
  <1>8. CASE Export
    BY <1>8, ExportCalm
  <1>9. CASE UNCHANGED vars
    BY <1>9, UnchangedCalm
  <1> QED
    BY <1>1, <1>2, <1>3, <1>4, <1>5, <1>6, <1>7, <1>8, <1>9 DEF Next

LEMMA StepTerminal ==
  ASSUME TypeOK, [Next]_vars
  PROVE  TerminalStands
  <1>1. CASE Calm(Job)
    BY <1>1 DEF Calm, Quiet, TerminalStands
  <1>2. ASSUME NEW j \in Job, NEW due \in WallClock, ClaimNext(j, due)
        PROVE  TerminalStands
    BY <1>2, ClaimSteps DEF Calm, Quiet, TerminalStands, Waiting, Terminal
  <1> QED
    BY <1>1, <1>2, StepCalm

\* No step of any caller moves a job out of success, failure or cancellation, or
\* replaces the result it was committed with.
THEOREM TerminalIsAbsorbing == Spec => TerminalAbsorbing
  <1>1. ASSUME TypeOK, [Next]_vars PROVE [TerminalStands]_vars
    BY <1>1, StepTerminal
  <1> QED
    BY <1>1, TypeCorrect, PTL DEF Spec, TerminalAbsorbing

(***************************************************************************)
(* Who writes the storage control row and the portability locks.           *)
(***************************************************************************)
LEMMA WorkerWrites ==
  ASSUME Worker
  PROVE  /\ lock' = lock
         /\ \/ storage' = storage
            \/ /\ Failures \cap StorageFailures # {}
               /\ \E j \in Job : \E a \in inflight[j] : ActivateStorage(j, a)
  <1>1. ASSUME NEW j, NEW due, ClaimNext(j, due) PROVE lock' = lock /\ storage' = storage
    BY <1>1 DEF ClaimNext, incidents
  <1>2. ASSUME NEW due, Poll(due) PROVE lock' = lock /\ storage' = storage
    BY <1>2 DEF Poll, incidents
  <1>3. ASSUME NEW j, NEW a, MarkRunning(j, a) \/ Heartbeat(j, a) \/ Abandon(j, a)
        PROVE  lock' = lock /\ storage' = storage
    BY <1>3 DEF MarkRunning, Heartbeat, Abandon, incidents
  <1>4. ASSUME NEW j, NEW a, Commit(j, a) PROVE lock' = lock /\ storage' = storage
    BY <1>4 DEF Commit
  <1>5. ASSUME NEW j, NEW a, NEW c \in Failures, RecordFailure(j, a, c)
        PROVE  /\ lock' = lock
               /\ \/ storage' = storage
                  \/ Failures \cap StorageFailures # {} /\ ActivateStorage(j, a)
    <2>1. CASE FailRetry(j, a, c) \/ FailFinal(j, a, c)
      BY <2>1 DEF FailRetry, FailFinal, incidents
    <2>2. CASE ActivateQuota(j, a)
      BY <2>2 DEF ActivateQuota
    <2>3. CASE ActivateCredentials(j, a)
      BY <2>3 DEF ActivateCredentials
    <2>4. CASE c \in StorageFailures /\ ActivateStorage(j, a)
      BY <2>4 DEF ActivateStorage
    <2> QED
      BY <1>5, <2>1, <2>2, <2>3, <2>4 DEF RecordFailure
  <1> QED
    BY <1>1, <1>2, <1>3, <1>4, <1>5 DEF Worker

LEMMA DecisionWrites ==
  ASSUME QuotaDecision \/ Settings
  PROVE  lock' = lock /\ storage' = storage
  <1>1. ASSUME NEW l, NEW s, DecideWait(l, s) PROVE lock' = lock /\ storage' = storage
    BY <1>1 DEF DecideWait
  <1>2. ASSUME NEW l, NEW s, NEW alternate, DecideContinue(l, s, alternate)
        PROVE  lock' = lock /\ storage' = storage
    BY <1>2 DEF DecideContinue
  <1>3. ASSUME NEW alternate, NEW available, RetargetRemaining(alternate, available)
        PROVE  lock' = lock /\ storage' = storage
    BY <1>3 DEF RetargetRemaining
  <1> QED
    BY <1>1, <1>2, <1>3 DEF QuotaDecision, Settings

LEMMA StorageWrites ==
  ASSUME [Next]_vars
  PROVE  \/ storage' = storage
         \/ storage' = NoStorage
         \/ /\ Failures \cap StorageFailures # {}
            /\ \E j \in Job : \E a \in inflight[j] : ActivateStorage(j, a)
  <1>1. CASE Caller \/ Shutdown \/ Tick
    BY <1>1 DEF Caller, Enqueue, Shutdown, RequeueOwned, Restart, Tick, incidents
  <1>2. CASE Worker
    BY <1>2, WorkerWrites
  <1>3. CASE JobControl \/ Integrity \/ Reviewer
    BY <1>3 DEF JobControl, SetPriority, Pause, Resume, Retry, Cancel, Integrity,
       PauseForIntegrity, ReleaseIntegrityPause, Reviewer, CancelOwnedHumanGate,
       CompleteHumanGate, incidents
  <1>4. CASE ProjectControl \/ Remediation
    BY <1>4 DEF ProjectControl, PauseProjectJobs, ResumeProject, Remediation,
       ResumeQuota, ResumeCredentials, ResumeStorage, incidents
  <1>5. CASE QuotaDecision \/ Settings
    BY <1>5, DecisionWrites
  <1>6. CASE Export
    BY <1>6 DEF Export, BeginExportDrain, FreezeSnapshot, ReleaseSnapshotLock, incidents
  <1>7. CASE UNCHANGED vars
    BY <1>7 DEF vars
  <1> QED
    BY <1>1, <1>2, <1>3, <1>4, <1>5, <1>6, <1>7 DEF Next

LEMMA LockWrites ==
  ASSUME [Next]_vars
  PROVE  lock' = lock \/ Export
  <1>1. CASE Caller \/ Shutdown \/ Tick
    BY <1>1 DEF Caller, Enqueue, Shutdown, RequeueOwned, Restart, Tick
  <1>2. CASE Worker
    BY <1>2, WorkerWrites
  <1>3. CASE JobControl \/ Integrity \/ Reviewer
    BY <1>3 DEF JobControl, SetPriority, Pause, Resume, Restore, Retry, Cancel, Integrity,
       PauseForIntegrity, ReleaseIntegrityPause, Reviewer, CancelOwnedHumanGate,
       CompleteHumanGate
  <1>4. CASE ProjectControl \/ Remediation
    BY <1>4 DEF ProjectControl, PauseProjectJobs, ResumeProject, Restore, Remediation,
       ResumeQuota, ResumeCredentials, ResumeStorage
  <1>5. CASE QuotaDecision \/ Settings
    BY <1>5, DecisionWrites
  <1>6. CASE UNCHANGED vars
    BY <1>6 DEF vars
  <1> QED
    BY <1>1, <1>2, <1>3, <1>4, <1>5, <1>6 DEF Next

\* From the report of a failing disk until the storage incident is resumed, nothing is
\* claimed or running, whatever the callers do meanwhile.
THEOREM StorageStops == Spec => []StorageStop
  <1>1. Init => StorageStop
    BY DEF Init, NoStorage, StorageStop
  <1>2. ASSUME TypeOK, StorageStop, [Next]_vars PROVE StorageStop'
    <2>1. ASSUME NEW j \in Job, NEW a \in inflight[j], ActivateStorage(j, a)
          PROVE  StorageStop'
      <3> SUFFICES ASSUME NEW k \in Job PROVE job'[k].state \notin Active
        BY DEF StorageStop
      <3>1. CASE k \in StoragePausable
        <4>1. PICK because : job'[k] = PausedRow(job[k], "storage", because)
          BY <2>1, <3>1 DEF ActivateStorage
        <4>2. job'[k].state = "paused"
          BY <1>2, <4>1 DEF PausedRow, TypeOK, Row
        <4> QED
          BY <4>2 DEF Active
      <3>2. CASE k \notin StoragePausable
        BY <2>1, <3>2 DEF ActivateStorage, StoragePausable, Active, Terminal
      <3> QED
        BY <3>1, <3>2
    <2>2. CASE storage' = NoStorage
      BY <2>2 DEF StorageStop, NoStorage
    <2>3. CASE storage' = storage /\ Calm(Job)
      BY <1>2, <2>3 DEF StorageStop, Calm, Quiet
    <2>4. ASSUME NEW j \in Job, NEW due \in WallClock, ClaimNext(j, due)
          PROVE  StorageStop'
      BY <2>4 DEF ClaimNext, StorageStop, incidents
    <2> QED
      BY <1>2, <2>1, <2>2, <2>3, <2>4, StorageWrites, StepCalm
  <1> QED
    BY <1>1, <1>2, TypeCorrect, PTL DEF Spec

LEMMA ProviderIsFinite ==
  ASSUME NEW rows, NEW p
  PROVE  IsFiniteSet(InProvider(rows, p)) /\ Cardinality(InProvider(rows, p)) \in Nat
  <1>1. InProvider(rows, p) \in SUBSET Job
    BY DEF InProvider
  <1> QED
    BY <1>1, JobsAreNumbers, FS_Subset, FS_CardinalityType

LEMMA ClaimBelowCap ==
  ASSUME TypeOK, ConcurrencyCap, NEW j \in Job, NEW due, ClaimNext(j, due), NEW p \in Provider
  PROVE  Cardinality(InProvider(job, p)') <= Cap
  <1> DEFINE rows == Promoted(attr, job)
             before == InProvider(rows, p)
             after == InProvider(job, p)'
  <1>1. attr' = attr /\ job' = [rows EXCEPT ![j] = ClaimedRow(@)] /\ BelowCap(rows, j)
    BY DEF ClaimNext, Eligible
  <1>2. rows \in [Job -> Row] /\ \A k \in Job : Quiet(job[k], rows[k])
    BY PromotedType, PromotedQuiet DEF TypeOK
  <1>3. Cardinality(before) <= Cap
    <2>1. before \in SUBSET InProvider(job, p)
      BY <1>2 DEF InProvider, Quiet
    <2>2. Cardinality(before) <= Cardinality(InProvider(job, p))
      BY <2>1, ProviderIsFinite, FS_Subset
    <2> QED
      BY <2>2, ProviderIsFinite, BoundsArePositive DEF ConcurrencyCap
  <1>4. CASE attr[j].lane \in Lane /\ ProviderOf[attr[j].lane] = p
    <2>1. after \in SUBSET (before \cup {j})
      BY <1>1, <1>2 DEF InProvider
    <2>2. Cardinality(before) < Cap
      BY <1>1, <1>4 DEF BelowCap
    <2>3. /\ IsFiniteSet(before \cup {j})
          /\ Cardinality(before \cup {j}) <= Cardinality(before) + 1
      BY ProviderIsFinite, FS_AddElement
    <2>4. Cardinality(after) <= Cardinality(before \cup {j}) /\ Cardinality(after) \in Nat
      BY <2>1, <2>3, FS_Subset, FS_CardinalityType
    <2> QED
      BY <2>2, <2>3, <2>4, ProviderIsFinite, FS_CardinalityType, BoundsArePositive
  <1>5. CASE ~(attr[j].lane \in Lane /\ ProviderOf[attr[j].lane] = p)
    <2>1. after \in SUBSET before
      BY <1>1, <1>2, <1>5 DEF InProvider
    <2>2. Cardinality(after) <= Cardinality(before) /\ Cardinality(after) \in Nat
      BY <2>1, ProviderIsFinite, FS_Subset, FS_CardinalityType
    <2> QED
      BY <1>3, <2>2, ProviderIsFinite, BoundsArePositive
  <1> QED
    BY <1>4, <1>5

\* Claimed and running jobs of a provider never exceed concurrencyPerProvider, for
\* any concurrency, any number of lanes a provider has, and any caller.
THEOREM CapHolds == Spec => []ConcurrencyCap
  <1>1. Init => ConcurrencyCap
    <2> SUFFICES ASSUME Init, NEW p \in Provider
                 PROVE  Cardinality(InProvider(job, p)) <= Cap
      BY DEF ConcurrencyCap
    <2>1. InProvider(job, p) = {}
      BY DEF Init, InProvider, NoRow, Active
    <2> QED
      BY <2>1, FS_EmptySet, BoundsArePositive
  <1>2. ASSUME TypeOK, ConcurrencyCap, [Next]_vars PROVE ConcurrencyCap'
    <2> SUFFICES ASSUME NEW p \in Provider
                 PROVE  Cardinality(InProvider(job, p)') <= Cap
      BY DEF ConcurrencyCap
    <2>1. CASE Calm(Job)
      <3>1. InProvider(job, p)' \in SUBSET InProvider(job, p)
        BY <2>1 DEF InProvider, Calm, Quiet, Exists, Active
      <3>2. /\ Cardinality(InProvider(job, p)') <= Cardinality(InProvider(job, p))
            /\ Cardinality(InProvider(job, p)') \in Nat
        BY <3>1, ProviderIsFinite, FS_Subset, FS_CardinalityType
      <3> QED
        BY <1>2, <3>2, ProviderIsFinite, BoundsArePositive DEF ConcurrencyCap
    <2>2. CASE \E j \in Job : \E due \in WallClock : ClaimNext(j, due)
      BY <1>2, <2>2, ClaimBelowCap
    <2> QED
      BY <1>2, <2>1, <2>2, StepCalm
  <1> QED
    BY <1>1, <1>2, TypeCorrect, PTL DEF Spec

\* No job of a project frozen for export is claimed or running, so none can still
\* commit into the snapshot.
THEOREM SnapshotIsQuiescent == Spec => []SnapshotQuiescent
  <1>1. Init => SnapshotQuiescent
    BY DEF Init, NoLock, SnapshotQuiescent
  <1>2. ASSUME TypeOK, SnapshotQuiescent, [Next]_vars PROVE SnapshotQuiescent'
    <2> SUFFICES ASSUME NEW s \in Project, lock'[s].phase = "snapshot", NEW j \in Job,
                        j \in JobsOf(s)', job'[j].state \in Active
                 PROVE  FALSE
      BY DEF SnapshotQuiescent, JobsOf
    <2>1. CASE Calm(Job)
      <3>1. job[j].state \in Active /\ Exists(j) /\ attr'[j] = attr[j]
        BY <2>1 DEF Calm, Quiet, Exists, Active
      <3>2. j \in JobsOf(s)
        BY <3>1 DEF JobsOf, ScopeOf
      <3>3. lock[s].phase # "snapshot"
        BY <1>2, <3>1, <3>2 DEF SnapshotQuiescent
      <3>4. Export
        BY <1>2, <3>3, LockWrites
      <3>5. PICK t \in Project :
              BeginExportDrain(t) \/ FreezeSnapshot(t) \/ ReleaseSnapshotLock(t)
        BY <3>4 DEF Export
      <3>6. t = s /\ FreezeSnapshot(s)
        BY <1>2, <3>3, <3>5 DEF BeginExportDrain, FreezeSnapshot, ReleaseSnapshotLock, NoLock,
           TypeOK
      <3> QED
        BY <3>1, <3>2, <3>6 DEF FreezeSnapshot
    <2>2. ASSUME NEW k \in Job, NEW due \in WallClock, ClaimNext(k, due)
          PROVE  FALSE
      <3>1. lock' = lock /\ attr' = attr
        BY <2>2 DEF ClaimNext
      <3>2. CASE j = k
        <4>1. LockOf(ScopeOf(attr, j)).phase = "none"
          BY <2>2, <3>2 DEF ClaimNext, Eligible, Unlocked
        <4>2. ScopeOf(attr, j) = s
          BY <3>1 DEF JobsOf, ScopeOf
        <4> QED
          BY <3>1, <4>1, <4>2 DEF LockOf
      <3>3. CASE j # k
        <4>1. job[j].state \in Active /\ Exists(j)
          BY <1>2, <2>2, <3>3, ClaimSteps DEF Calm, Quiet, Exists, Active
        <4>2. j \in JobsOf(s)
          BY <3>1, <4>1 DEF JobsOf, ScopeOf
        <4> QED
          BY <1>2, <3>1, <4>1, <4>2 DEF SnapshotQuiescent
      <3> QED
        BY <3>2, <3>3
    <2> QED
      BY <1>2, <2>1, <2>2, StepCalm
  <1> QED
    BY <1>1, <1>2, TypeCorrect, PTL DEF Spec

-----------------------------------------------------------------------------
(***************************************************************************)
(* Rows that fit.  What a row holds besides its type: a lease and an       *)
(* attempt exactly while it is claimed or running, a state to come back to *)
(* only while it is paused, a human gate only a state of gates.            *)
(***************************************************************************)
RowFits(gate, r) ==
  /\ r.state \in Active => r.lease.boot # 0 /\ r.attempts > 0
  /\ r.state \notin Active => r.lease = NoLease
  /\ r.state # "paused" => r.resume = NoResume
  /\ r.resume.state \in {"none", "queued", "blocked", "paused"}
  /\ gate => r.state \in GateStates

WinnerFits(gate, r, win) ==
  IF r.state = "succeeded" /\ ~gate THEN win = r.attempts /\ win > 0 ELSE win = 0

Fits(as, rows, win, k) ==
  /\ RowFits(IsGate(as, k), rows[k])
  /\ IsGate(as, k) => as[k].lane = NoLane
  /\ WinnerFits(IsGate(as, k), rows[k], win[k])

\* the row runs, or will when it is claimed or resumed, without a look at its dependencies
Needs(r) ==
  \/ r.state \in Active \cup {"queued"}
  \/ r.state = "paused" /\ r.resume.state \in {"queued", "none"}
\* only a storage stop pauses what is paused already
Unnested(r) == r.resume.state # "paused"

(***************************************************************************)
(* Tame: a change of one row that keeps it fitting, does not create it,    *)
(* does not complete it and does not make it wait or run.  Only a storage  *)
(* stop may nest a pause.                                                  *)
(***************************************************************************)
Tame(gate, r, s, stop) ==
  /\ RowFits(gate, r) => RowFits(gate, s)
  /\ r.state = "absent" <=> s.state = "absent"
  /\ r.state = "succeeded" <=> s.state = "succeeded"
  /\ r.state = "succeeded" => s.attempts = r.attempts
  /\ s.state = "blocked" => r.state = "blocked"
  /\ (Unnested(r) /\ ~stop) => Unnested(s) /\ (Needs(s) => Needs(r))

LEMMA TamePause ==
  ASSUME NEW r \in Row, NEW stop \in BOOLEAN, NEW why, NEW because,
         r.state \in Waiting \cup Active \/ (stop /\ r.state = "paused")
  PROVE  Tame(FALSE, r, PausedRow(r, why, because), stop)
  <1> DEFINE s == PausedRow(r, why, because)
  <1>1. /\ s.state = "paused" /\ s.lease = NoLease /\ s.attempts = r.attempts
        /\ s.resume.state = IF r.state \in Active THEN "queued" ELSE r.state
    BY DEF PausedRow, Row, Resumable
  <1> HIDE DEF s
  <1>2. s.resume.state \in {"queued", "blocked", "paused"}
    BY <1>1 DEF Waiting
  <1>3. r.state \notin {"absent", "succeeded"}
    BY DEF Waiting, Active
  <1>4. RowFits(FALSE, s)
    BY <1>1, <1>2 DEF RowFits, Active
  <1>5. ~stop => Unnested(s)
    BY <1>1 DEF Unnested, Waiting, Active
  <1>6. ~stop /\ Needs(s) => Needs(r)
    BY <1>1 DEF Needs, Waiting, Active
  <1> QED
    BY <1>1, <1>3, <1>4, <1>5, <1>6 DEF Tame, s

LEMMA TameRows ==
  ASSUME NEW r \in Row, NEW gate \in BOOLEAN, NEW stop \in BOOLEAN
  PROVE  /\ Tame(gate, r, r, stop)
         /\ r.state \in Active => \A why : Tame(gate, r, RequeuedRow(r, why), stop)
         /\ r.state \notin Terminal \cup {"absent"} => Tame(gate, r, CanceledRow(r), stop)
         /\ r.state \in Waiting \cup {"paused"} => Tame(gate, r, SupersededRow(r), stop)
         /\ r.state = "running" => Tame(gate, r, RetriedRow(r), stop)
         /\ r.state = "running" => \A c \in RetriedFailures \cup FinalFailures :
              Tame(gate, r, ExhaustedRow(r, c), stop)
         /\ boot # 0 => Tame(gate, r, AgedRow(r), stop)
  <1>1. Tame(gate, r, r, stop)
    BY DEF Tame
  <1>2. ASSUME r.state \in Active, NEW why PROVE Tame(gate, r, RequeuedRow(r, why), stop)
    BY <1>2 DEF Tame, RequeuedRow, RowFits, Unnested, Needs, Active, GateStates, Row
  <1>3. ASSUME r.state \notin Terminal \cup {"absent"}
        PROVE  Tame(gate, r, CanceledRow(r), stop)
    BY <1>3 DEF Tame, CanceledRow, RowFits, Unnested, Needs, Active, GateStates, Row,
       Terminal, NoResume
  <1>4. ASSUME r.state \in Waiting \cup {"paused"}
        PROVE  Tame(gate, r, SupersededRow(r), stop)
    BY <1>4 DEF Tame, SupersededRow, RowFits, Unnested, Needs, Active, GateStates, Row,
       Waiting, NoResume
  <1>5. ASSUME r.state = "running" PROVE Tame(gate, r, RetriedRow(r), stop)
    <2> DEFINE s == RetriedRow(r)
    <2>1. /\ s.state = "queued" /\ s.lease = NoLease /\ s.resume = r.resume
          /\ s.attempts = r.attempts
      BY DEF RetriedRow, RequeuedRow, Row
    <2> HIDE DEF s
    <2> QED
      BY <1>5, <2>1 DEF Tame, RowFits, Unnested, Needs, Active, GateStates, s
  <1>6. ASSUME r.state = "running", NEW c \in RetriedFailures \cup FinalFailures
        PROVE  Tame(gate, r, ExhaustedRow(r, c), stop)
    <2> DEFINE s == ExhaustedRow(r, c)
    <2>1. /\ s.state \in {"failed", "canceled", "paused"} /\ s.lease = NoLease
          /\ s.resume = r.resume /\ s.attempts = r.attempts
      BY DEF ExhaustedRow, Exhausted, Row, RetriedFailures, FinalFailures
    <2> HIDE DEF s
    <2>2. RowFits(gate, r) => RowFits(gate, s)
      BY <1>6, <2>1 DEF RowFits, Active, GateStates
    <2> QED
      BY <1>6, <2>1, <2>2 DEF Tame, Unnested, Needs, Active, s
  <1>7. ASSUME boot # 0 PROVE Tame(gate, r, AgedRow(r), stop)
    <2> DEFINE s == AgedRow(r)
    <2>1. /\ s.state = r.state /\ s.resume = r.resume /\ s.attempts = r.attempts
          /\ s.lease.boot = r.lease.boot
      BY DEF AgedRow, Row
    <2>2. r.lease = NoLease => s.lease = NoLease
      BY <1>7 DEF AgedRow, Row, NoLease
    <2> HIDE DEF s
    <2>3. RowFits(gate, r) => RowFits(gate, s)
      BY <2>1, <2>2 DEF RowFits
    <2> QED
      BY <2>1, <2>3 DEF Tame, Unnested, Needs, s
  <1> QED
    BY <1>1, <1>2, <1>3, <1>4, <1>5, <1>6, <1>7

(***************************************************************************)
(* Sound: what the row of k may be in the tables (as, rows) a step is      *)
(* about to leave.  It fits; a success stays; a row that waits for its     *)
(* dependencies is in an unlocked scope; and a row that will run did so    *)
(* before or finds its dependencies succeeded.                             *)
(***************************************************************************)
Sound(as, rows, k) ==
  /\ Fits(as, rows, winner', k)
  /\ Exists(k) => as[k] = attr[k] /\ rows[k].state # "absent"
  /\ job[k].state = "succeeded" => rows[k].state = "succeeded"
  /\ rows[k].state = "blocked" => Unlocked(as, k)
  /\ (Unnested(job[k]) /\ ~storage'.active) =>
       /\ Unnested(rows[k])
       /\ Needs(rows[k]) => Needs(job[k]) \/ DependenciesSucceeded(as, rows, k)

NoneReady(as, rows) == \A k \in Job : ~Promotable(as, rows, k)

BlockedAreUnlocked == \A k \in Job : job[k].state = "blocked" => Unlocked(attr, k)

OrderInv ==
  /\ \A k \in Job : Fits(attr, job, winner, k)
  /\ BlockedAreUnlocked
  /\ NoReadyJobLeftBlocked

LEMMA DepsKept ==
  ASSUME NEW as \in [Job -> Attr], NEW rows, NEW rows2, NEW k \in Job,
         \A i \in Job : rows[i].state = "succeeded" => rows2[i].state = "succeeded",
         DependenciesSucceeded(as, rows, k)
  PROVE  DependenciesSucceeded(as, rows2, k)
  BY DEF DependenciesSucceeded, Attr

LEMMA GateIsBoolean ==
  ASSUME NEW as, NEW k
  PROVE  IsGate(as, k) \in BOOLEAN
  BY DEF IsGate

LEMMA SoundTame ==
  ASSUME NEW as \in [Job -> Attr], NEW rows, NEW rows2, NEW k \in Job,
         Sound(as, rows, k),
         \A i \in Job : Tame(IsGate(as, i), rows[i], rows2[i], storage'.active)
  PROVE  Sound(as, rows2, k)
  <1> DEFINE stop == storage'.active
  <1>1. Tame(IsGate(as, k), rows[k], rows2[k], stop)
    OBVIOUS
  <1>2. \A i \in Job : rows[i].state = "succeeded" => rows2[i].state = "succeeded"
    BY DEF Tame
  <1>3. DependenciesSucceeded(as, rows, k) => DependenciesSucceeded(as, rows2, k)
    BY <1>2, DepsKept
  <1> HIDE DEF stop
  <1>4. Fits(as, rows2, winner', k)
    BY <1>1 DEF Sound, Fits, Tame, WinnerFits
  <1>5. ASSUME Unnested(job[k]), ~stop
        PROVE  /\ Unnested(rows2[k])
               /\ Needs(rows2[k]) => Needs(job[k]) \/ DependenciesSucceeded(as, rows2, k)
    BY <1>1, <1>3, <1>5 DEF Sound, Tame, stop
  <1> QED
    BY <1>1, <1>4, <1>5 DEF Sound, Tame, stop

LEMMA NoneReadyTame ==
  ASSUME NEW as \in [Job -> Attr], NEW rows, NEW rows2, NEW stop, NoneReady(as, rows),
         \A i \in Job : Tame(IsGate(as, i), rows[i], rows2[i], stop)
  PROVE  NoneReady(as, rows2)
  <1> SUFFICES ASSUME NEW k \in Job, Promotable(as, rows2, k)
               PROVE  FALSE
    BY DEF NoneReady
  <1>1. \A i \in Job : rows2[i].state = "succeeded" => rows[i].state = "succeeded"
    BY DEF Tame
  <1>2. DependenciesSucceeded(as, rows, k)
    BY <1>1, DepsKept DEF Promotable
  <1>3. rows[k].state = "blocked"
    BY DEF Promotable, Tame
  <1> QED
    BY <1>2, <1>3 DEF Promotable, NoneReady

LEMMA PromotedSuccess ==
  ASSUME NEW as, NEW rows \in [Job -> Row], NEW k \in Job
  PROVE  /\ Promoted(as, rows)[k].state = "succeeded" <=> rows[k].state = "succeeded"
         /\ Promoted(as, rows)[k].state = "absent" <=> rows[k].state = "absent"
         /\ Promoted(as, rows)[k].state = "blocked" =>
              Promoted(as, rows)[k] = rows[k] /\ ~Promotable(as, rows, k)
         /\ Promotable(as, rows, k) => rows[k].state = "blocked"
         /\ ~Promotable(as, rows, k) => Promoted(as, rows)[k] = rows[k]
  <1>1. CASE Promotable(as, rows, k)
    <2>1. /\ rows[k].state = "blocked"
          /\ Promoted(as, rows)[k].state \in {"queued", "waiting_review"}
      BY <1>1 DEF Promotable, Promoted, Row
    <2> QED
      BY <1>1, <2>1
  <1>2. CASE ~Promotable(as, rows, k)
    BY <1>2 DEF Promoted
  <1> QED
    BY <1>1, <1>2

LEMMA PromotedNoneReady ==
  ASSUME NEW as \in [Job -> Attr], NEW rows \in [Job -> Row]
  PROVE  NoneReady(as, Promoted(as, rows))
  <1> DEFINE after == Promoted(as, rows)
  <1> SUFFICES ASSUME NEW k \in Job, Promotable(as, after, k)
               PROVE  FALSE
    BY DEF NoneReady
  <1>1. after[k].state = "blocked" /\ DependenciesSucceeded(as, after, k) /\ Unlocked(as, k)
    BY DEF Promotable
  <1>2. \A i \in Job : after[i].state = "succeeded" => rows[i].state = "succeeded"
    BY PromotedSuccess
  <1>3. after[k].state = "blocked" => rows[k].state = "blocked" /\ ~Promotable(as, rows, k)
    BY PromotedSuccess
  <1> HIDE DEF after
  <1>4. DependenciesSucceeded(as, rows, k)
    BY <1>1, <1>2, DepsKept
  <1> QED
    BY <1>1, <1>3, <1>4 DEF Promotable

LEMMA PromotedSound ==
  ASSUME NEW as \in [Job -> Attr], NEW rows \in [Job -> Row], NEW k \in Job,
         Sound(as, rows, k), NEW after, after = Promoted(as, rows)
  PROVE  Sound(as, after, k)
  <1>1. \A i \in Job : rows[i].state = "succeeded" => after[i].state = "succeeded"
    BY PromotedSuccess
  <1>2. DependenciesSucceeded(as, rows, k) => DependenciesSucceeded(as, after, k)
    BY <1>1, DepsKept
  <1>3. CASE Promotable(as, rows, k)
    <2> DEFINE to == IF IsGate(as, k) THEN "waiting_review" ELSE "queued"
    <2>1. /\ after[k] = [rows[k] EXCEPT !.state = to, !.reason = "none"]
          /\ rows[k] \in Row /\ rows[k].state = "blocked"
          /\ DependenciesSucceeded(as, rows, k)
      BY <1>3 DEF Promoted, Promotable
    <2>2. /\ after[k].state = to /\ after[k].lease = rows[k].lease
          /\ after[k].resume = rows[k].resume
      BY <2>1 DEF Row
    <2>3. Fits(as, after, winner', k)
      BY <2>1, <2>2 DEF Sound, Fits, RowFits, WinnerFits, Active, GateStates
    <2> QED
      BY <1>2, <2>1, <2>2, <2>3 DEF Sound, Unnested
  <1>4. CASE ~Promotable(as, rows, k)
    <2>1. after[k] = rows[k]
      BY <1>4, PromotedSuccess
    <2>2. Fits(as, after, winner', k)
      BY <2>1 DEF Sound, Fits
    <2> QED
      BY <1>2, <2>1, <2>2 DEF Sound
  <1> QED
    BY <1>3, <1>4

LEMMA UnchangedSound ==
  ASSUME OrderInv, NEW k \in Job, winner'[k] = winner[k]
  PROVE  Sound(attr, job, k)
  BY DEF OrderInv, BlockedAreUnlocked, Sound, Exists, Fits

(***************************************************************************)
(* New rows: an open incident may take a row in at birth, but it keeps in  *)
(* mind whether its dependencies have succeeded.                           *)
(***************************************************************************)
LEMMA NewRowIs ==
  ASSUME NEW as, NEW rows, NEW k \in Job, NEW priority \in Nat,
         NEW r, r = NewRow(as, rows, k, priority)
  PROVE  /\ r.state \in {"blocked", "queued", "waiting_review", "paused"}
         /\ RowFits(IsGate(as, k), r) /\ Unnested(r)
         /\ r.state = "blocked" => ~DependenciesSucceeded(as, rows, k)
         /\ Needs(r) => DependenciesSucceeded(as, rows, k)
         /\ r.state = "waiting_review" => IsGate(as, k)
  <1> DEFINE fresh == [NoRow EXCEPT !.priority = priority]
             to == IF IsGate(as, k) THEN "waiting_review" ELSE "queued"
  <1> PICK i : i = InitialRow(as, rows, k, priority)
    OBVIOUS
  <1>1. fresh \in Row /\ fresh.lease = NoLease /\ fresh.resume = NoResume
    BY NoRowType DEF NoRow, Row
  <1>2. to \in {"waiting_review", "queued"} /\ (to = "waiting_review" => IsGate(as, k))
    OBVIOUS
  <1>3. CASE DependenciesSucceeded(as, rows, k)
    <2>1. i = [fresh EXCEPT !.state = to]
      BY <1>3 DEF InitialRow
    <2> HIDE DEF fresh, to
    <2>2. /\ i \in Row /\ i.state = to /\ i.lease = NoLease /\ i.resume.state = "none"
          /\ i.resume = NoResume
      BY <1>1, <1>2, <2>1, StatesAre DEF Row, NoResume
    <2>3. CASE r = i
      <3>1. RowFits(IsGate(as, k), r)
        BY <1>2, <2>2, <2>3 DEF RowFits, Active, GateStates, to
      <3> QED
        BY <1>2, <1>3, <2>2, <2>3, <3>1 DEF Unnested
    <2>4. CASE r # i
      <3>1. ~IsGate(as, k) /\ \E why, because : r = PausedRow(i, why, because)
        BY <2>4 DEF NewRow
      <3>2. PICK why, because : r = PausedRow(i, why, because)
        BY <3>1
      <3>3. r.state = "paused" /\ r.lease = NoLease /\ r.resume.state = i.state
        BY <1>2, <2>2, <3>2 DEF PausedRow, Row, Resumable, Active
      <3>4. i.state = "queued"
        BY <2>2, <3>1 DEF to
      <3>5. RowFits(IsGate(as, k), r)
        BY <3>1, <3>3, <3>4 DEF RowFits, Active
      <3> QED
        BY <1>3, <3>1, <3>3, <3>4, <3>5 DEF Unnested
    <2> QED
      BY <2>3, <2>4
  <1>4. CASE ~DependenciesSucceeded(as, rows, k)
    <2>1. i = [fresh EXCEPT !.state = "blocked", !.reason = "dependency"]
      BY <1>4 DEF InitialRow
    <2> HIDE DEF fresh, to
    <2>2. i \in Row
      <3>1. "blocked" \in States /\ "dependency" \in Reasons
        BY StatesAre, ReasonsAre
      <3>2. [fresh EXCEPT !.state = "blocked", !.reason = "dependency"] \in Row
        BY <1>1, <3>1, WithState
      <3> QED
        BY <2>1, <3>2
    <2>3. i.state = "blocked" /\ i.lease = NoLease /\ i.resume = NoResume
      BY <1>1, <2>1 DEF Row
    <2>4. i.resume.state = "none"
      BY <2>3 DEF NoResume
    <2>5. CASE r = i
      BY <1>4, <2>3, <2>4, <2>5 DEF RowFits, Active, GateStates, Unnested, Needs
    <2>6. CASE r # i
      <3>1. ~IsGate(as, k) /\ \E why, because : r = PausedRow(i, why, because)
        BY <2>6 DEF NewRow
      <3>2. PICK why, because : r = PausedRow(i, why, because)
        BY <3>1
      <3>3. r.state = "paused" /\ r.lease = NoLease /\ r.resume.state = "blocked"
        BY <2>2, <2>3, <3>2 DEF PausedRow, Row, Resumable, Active
      <3>4. RowFits(IsGate(as, k), r)
        BY <3>1, <3>3 DEF RowFits, Active
      <3> QED
        BY <1>4, <3>3, <3>4 DEF Unnested, Needs, Active
    <2> QED
      BY <2>5, <2>6
  <1> QED
    BY <1>3, <1>4

LEMMA InsertedSound ==
  ASSUME TypeOK, OrderInv, NEW as \in [Job -> Attr],
         NEW new \in SUBSET {k \in Job : ~Exists(k)}, NEW priority \in [new -> Nat],
         \A k \in Job \ new : as[k] = attr[k],
         \A k \in new : Unlocked(as, k) /\ (IsGate(as, k) => as[k].lane = NoLane)
  PROVE  /\ \A k \in Job : winner'[k] = winner[k] =>
              Sound(as, Inserted(as, job, new, priority), k)
         /\ NoneReady(as, Inserted(as, job, new, priority))
  <1> DEFINE rows == Inserted(as, job, new, priority)
  <1>1. \A k \in new : rows[k] = NewRow(as, job, k, priority[k]) /\ job[k].state = "absent"
    BY DEF Inserted, Exists
  <1>2. \A k \in Job \ new : rows[k] = job[k]
    BY DEF Inserted
  <1> HIDE DEF rows
  <1>3. \A k \in new :
         /\ rows[k].state \in {"blocked", "queued", "waiting_review", "paused"}
         /\ RowFits(IsGate(as, k), rows[k]) /\ Unnested(rows[k])
         /\ rows[k].state = "blocked" => ~DependenciesSucceeded(as, job, k)
         /\ Needs(rows[k]) => DependenciesSucceeded(as, job, k)
    <2> TAKE k \in new
    <2>1. k \in Job /\ priority[k] \in Nat /\ rows[k] = NewRow(as, job, k, priority[k])
      BY <1>1
    <2> QED
      BY <2>1, NewRowIs, ZenonT(40)
  <1>4. \A k \in Job : job[k].state = "succeeded" <=> rows[k].state = "succeeded"
    BY <1>1, <1>2, <1>3
  <1>5. \A k \in Job : DependenciesSucceeded(as, job, k) <=> DependenciesSucceeded(as, rows, k)
    BY <1>4, DepsKept
  <1>6. ASSUME NEW k \in new, winner'[k] = winner[k] PROVE Sound(as, rows, k)
    <2>1. winner[k] = 0
      BY <1>1 DEF OrderInv, Fits, WinnerFits
    <2>2. Fits(as, rows, winner', k)
      BY <1>3, <1>6, <2>1 DEF Fits, WinnerFits
    <2> QED
      BY <1>1, <1>3, <1>5, <2>2 DEF Sound, Exists
  <1>7. ASSUME NEW k \in Job \ new, winner'[k] = winner[k] PROVE Sound(as, rows, k)
    <2>1. Fits(as, rows, winner', k)
      BY <1>2, <1>7 DEF OrderInv, Fits, IsGate, GateOf
    <2>2. job[k].state = "blocked" => Unlocked(as, k)
      BY DEF OrderInv, BlockedAreUnlocked, Unlocked, ScopeOf
    <2> QED
      BY <1>2, <2>1, <2>2 DEF Sound, Exists
  <1>8. ASSUME NEW k \in Job, Promotable(as, rows, k) PROVE FALSE
    <2>1. /\ rows[k].state = "blocked" /\ DependenciesSucceeded(as, job, k)
          /\ Unlocked(as, k)
      BY <1>5, <1>8 DEF Promotable
    <2>2. k \in Job \ new
      BY <1>3, <2>1
    <2>3. Promotable(attr, job, k)
      BY <1>2, <2>1, <2>2 DEF Promotable, DependenciesSucceeded, Unlocked, ScopeOf
    <2> QED
      BY <2>3 DEF OrderInv, NoReadyJobLeftBlocked
  <1> QED
    BY <1>6, <1>7, <1>8 DEF NoneReady, rows

(***************************************************************************)
(* Steps that create no row.                                               *)
(***************************************************************************)
Plain ==
  /\ \A k \in Job : Sound(attr', job', k)
  /\ NoReadyJobLeftBlocked'
  /\ \A k \in Job : ~Exists(k) => job'[k].state = "absent" /\ attr'[k] = attr[k]

LEMMA NoneReadyNext ==
  ASSUME lock' = lock, NoneReady(attr', job')
  PROVE  NoReadyJobLeftBlocked'
  BY DEF NoneReady, NoReadyJobLeftBlocked, Promotable, DependenciesSucceeded, Unlocked,
     LockOf, ScopeOf

LEMMA TamePlain ==
  ASSUME TypeOK, OrderInv, attr' = attr, winner' = winner,
         \A k \in Job : Tame(IsGate(attr, k), job[k], job'[k], storage'.active)
  PROVE  Plain
  <1>1. attr \in [Job -> Attr] /\ NoneReady(attr, job)
    BY DEF TypeOK, OrderInv, NoReadyJobLeftBlocked, NoneReady
  <1>2. \A k \in Job : Sound(attr', job', k)
    BY <1>1, UnchangedSound, SoundTame
  <1>3. ASSUME NEW k \in Job, Promotable(attr, job, k)' PROVE FALSE
    <2>1. /\ job'[k].state = "blocked"
          /\ \A d \in attr[k].deps : job'[d].state = "succeeded"
      BY <1>3 DEF Promotable, DependenciesSucceeded
    <2>2. job[k].state = "blocked"
      BY <2>1 DEF Tame
    <2>3. attr[k].deps \subseteq Job
      BY <1>1 DEF Attr
    <2>4. DependenciesSucceeded(attr, job, k)
      BY <2>1, <2>3 DEF DependenciesSucceeded, Tame
    <2>5. Unlocked(attr, k)
      BY <2>2 DEF OrderInv, BlockedAreUnlocked
    <2> QED
      BY <2>2, <2>4, <2>5, <1>1 DEF NoneReady, Promotable
  <1>4. \A k \in Job : ~Exists(k) => job'[k].state = "absent"
    BY DEF Exists, Tame
  <1> QED
    BY <1>2, <1>3, <1>4 DEF Plain, NoReadyJobLeftBlocked

LEMMA PromotedNext ==
  ASSUME attr' \in [Job -> Attr], lock' = lock, NEW rows \in [Job -> Row],
         \A k \in Job : Sound(attr', rows, k), job' = Promoted(attr', rows)
  PROVE  /\ \A k \in Job : Sound(attr', job', k)
         /\ NoReadyJobLeftBlocked'
         /\ \A k \in Job : job'[k].state = "absent" <=> rows[k].state = "absent"
  <1>1. \A k \in Job : Sound(attr', job', k)
    BY PromotedSound
  <1>2. NoneReady(attr', job')
    BY PromotedNoneReady
  <1>3. \A k \in Job : job'[k].state = "absent" <=> rows[k].state = "absent"
    BY PromotedSuccess
  <1> QED
    BY <1>1, <1>2, <1>3, NoneReadyNext

\* one row is changed tamely, everything else stays
LEMMA OneTame ==
  ASSUME TypeOK, OrderInv, attr' = attr, winner' = winner, NEW j \in Job, NEW r,
         job' = [job EXCEPT ![j] = r],
         Tame(IsGate(attr, j), job[j], r, storage'.active)
  PROVE  Plain
  <1>1. /\ job \in [Job -> Row] /\ storage'.active \in BOOLEAN \cup {storage'.active}
        /\ \A k \in Job : job'[k] = IF k = j THEN r ELSE job[k]
    BY DEF TypeOK
  <1>2. \A k \in Job : Tame(IsGate(attr, k), job[k], job'[k], storage'.active)
    BY <1>1 DEF Tame
  <1> QED
    BY <1>2, TamePlain

LEMMA ActiveIsNoGate ==
  ASSUME OrderInv, NEW j \in Job, job[j].state \in Active \cup {"paused", "queued"}
  PROVE  ~IsGate(attr, j)
  BY DEF OrderInv, Fits, RowFits, GateStates, Active

LEMMA TargetIsNoGate ==
  ASSUME OrderInv, NEW j \in Job, attr[j].lane \in Lane
  PROVE  ~IsGate(attr, j)
  BY LanesHaveProviders DEF OrderInv, Fits

LEMMA TameWrites ==
  ASSUME NEW r \in Row, NEW gate \in BOOLEAN, NEW stop \in BOOLEAN
  PROVE  /\ \A p : Tame(gate, r, [r EXCEPT !.priority = p], stop)
         /\ \A why : Tame(gate, r, [r EXCEPT !.reason = why], stop)
         /\ r.state = "claimed" => Tame(gate, r, [r EXCEPT !.state = "running"], stop)
         /\ r.state = "running" => Tame(gate, r, [r EXCEPT !.lease.ttl = LeaseTtl], stop)
         /\ boot \in Nat \ {0} /\ r.state = "queued" => Tame(gate, r, ClaimedRow(r), stop)
  <1>1. ASSUME NEW p PROVE Tame(gate, r, [r EXCEPT !.priority = p], stop)
    BY DEF Tame, RowFits, Unnested, Needs, Row
  <1>2. ASSUME NEW why PROVE Tame(gate, r, [r EXCEPT !.reason = why], stop)
    BY DEF Tame, RowFits, Unnested, Needs, Row
  <1>3. ASSUME r.state = "claimed" PROVE Tame(gate, r, [r EXCEPT !.state = "running"], stop)
    BY <1>3 DEF Tame, RowFits, Unnested, Needs, Row, Active, GateStates
  <1>4. ASSUME r.state = "running"
        PROVE  Tame(gate, r, [r EXCEPT !.lease.ttl = LeaseTtl], stop)
    <2> PICK s : s = [r EXCEPT !.lease.ttl = LeaseTtl]
      OBVIOUS
    <2>1. /\ s.state = r.state /\ s.resume = r.resume /\ s.attempts = r.attempts
          /\ s.lease.boot = r.lease.boot
      BY DEF Row
    <2>2. Tame(gate, r, s, stop)
      BY <1>4, <2>1 DEF Tame, RowFits, Unnested, Needs, Active, GateStates
    <2> QED
      BY <2>2
  <1>5. ASSUME boot \in Nat \ {0}, r.state = "queued" PROVE Tame(gate, r, ClaimedRow(r), stop)
    <2> PICK s : s = ClaimedRow(r)
      OBVIOUS
    <2>1. /\ s.state = "claimed" /\ s.resume = r.resume /\ s.attempts = r.attempts + 1
          /\ s.lease.boot = boot /\ r.attempts \in Nat
      BY DEF ClaimedRow, Row
    <2>2. s.attempts > 0 /\ s.lease.boot # 0
      BY <1>5, <2>1
    <2>3. Tame(gate, r, s, stop)
      BY <1>5, <2>1, <2>2 DEF Tame, RowFits, Unnested, Needs, Active, GateStates
    <2> QED
      BY <2>3
  <1> QED
    BY <1>1, <1>2, <1>3, <1>4, <1>5

LEMMA Typed ==
  ASSUME TypeOK, TypeOK', NEW j \in Job
  PROVE  /\ storage'.active \in BOOLEAN /\ IsGate(attr, j) \in BOOLEAN
         /\ attr \in [Job -> Attr] /\ attr' \in [Job -> Attr]
         /\ job[j] \in Row /\ job[j].state \in States
         /\ boot \in Nat \ {0} /\ boot # 0
  BY GateIsBoolean DEF TypeOK, Row

LEMMA ExecutionPlain ==
  ASSUME TypeOK, TypeOK', OrderInv, NEW j \in Job, NEW a,
         MarkRunning(j, a) \/ Heartbeat(j, a) \/ Abandon(j, a) \/ RequeueOwned(j, a)
  PROVE  Plain
  <1> DEFINE stop == storage'.active
  <1>1. /\ attr' = attr /\ winner' = winner /\ stop \in BOOLEAN
        /\ IsGate(attr, j) \in BOOLEAN /\ job[j] \in Row
    BY Typed DEF MarkRunning, Heartbeat, Abandon, RequeueOwned
  <1>2. CASE MarkRunning(j, a)
    <2>1. job[j].state = "claimed" /\ job' = [job EXCEPT ![j] = [job[j] EXCEPT !.state = "running"]]
      BY <1>2 DEF MarkRunning, CanMarkRunning, Owns
    <2>2. Tame(IsGate(attr, j), job[j], [job[j] EXCEPT !.state = "running"], stop)
      BY <1>1, <2>1, TameWrites
    <2> QED
      BY <1>1, <2>1, <2>2, OneTame
  <1>3. CASE Heartbeat(j, a)
    <2>1. /\ job[j].state = "running"
          /\ job' = [job EXCEPT ![j] = [job[j] EXCEPT !.lease.ttl = LeaseTtl]]
      BY <1>3 DEF Heartbeat, CanReport, Owns
    <2>2. Tame(IsGate(attr, j), job[j], [job[j] EXCEPT !.lease.ttl = LeaseTtl], stop)
      BY <1>1, <2>1, TameWrites
    <2> QED
      BY <1>1, <2>1, <2>2, OneTame
  <1>4. CASE Abandon(j, a)
    <2>1. job' = job
      BY <1>4 DEF Abandon
    <2>2. \A k \in Job : Tame(IsGate(attr, k), job[k], job[k], stop)
      BY <1>1, Typed, TameRows
    <2> QED
      BY <1>1, <2>1, <2>2, TamePlain
  <1>5. CASE RequeueOwned(j, a)
    <2>1. job[j].state \in Active /\ job' = [job EXCEPT ![j] = RequeuedRow(job[j], "shutdown")]
      BY <1>5 DEF RequeueOwned, Owns, Active
    <2>2. Tame(IsGate(attr, j), job[j], RequeuedRow(job[j], "shutdown"), stop)
      BY <1>1, <2>1, TameRows
    <2> QED
      BY <1>1, <2>1, <2>2, OneTame
  <1> QED
    BY <1>2, <1>3, <1>4, <1>5

LEMMA ClockPlain ==
  ASSUME TypeOK, TypeOK', OrderInv, Restart \/ Tick
  PROVE  Plain
  <1> DEFINE stop == storage'.active
  <1>1. attr' = attr /\ winner' = winner
    BY DEF Restart, Tick
  <1>2. ASSUME NEW k \in Job PROVE Tame(IsGate(attr, k), job[k], job'[k], stop)
    <2>1. /\ stop \in BOOLEAN /\ IsGate(attr, k) \in BOOLEAN /\ job[k] \in Row /\ boot # 0
      BY Typed
    <2>2. CASE Restart
      BY <2>1, <2>2, TameRows DEF Restart
    <2>3. CASE Tick
      BY <2>1, <2>3, TameRows DEF Tick
    <2> QED
      BY <2>2, <2>3
  <1> QED
    BY <1>1, <1>2, TamePlain

LEMMA ClaimPlain ==
  ASSUME TypeOK, TypeOK', OrderInv, NEW due
  PROVE  /\ \A j \in Job : ClaimNext(j, due) => Plain
         /\ Poll(due) => Plain
  <1> PICK rows : rows = Promoted(attr, job)
    OBVIOUS
  <1> DEFINE stop == storage'.active
  <1>1. /\ attr \in [Job -> Attr] /\ job \in [Job -> Row] /\ rows \in [Job -> Row]
        /\ stop \in BOOLEAN /\ boot \in Nat \ {0}
    BY PromotedType DEF TypeOK
  <1>2. NoneReady(attr, rows)
    BY <1>1, PromotedNoneReady
  <1>3. \A k \in Job : rows[k].state = "absent" <=> job[k].state = "absent"
    BY <1>1, PromotedSuccess
  <1>4. winner' = winner => \A k \in Job : Sound(attr, rows, k)
    BY <1>1, UnchangedSound, PromotedSound
  <1>5. ASSUME NEW j \in Job, ClaimNext(j, due) PROVE Plain
    <2>1. /\ attr' = attr /\ winner' = winner /\ lock' = lock
          /\ rows[j].state = "queued" /\ job' = [rows EXCEPT ![j] = ClaimedRow(rows[j])]
      BY <1>5 DEF ClaimNext, Eligible
    <2>2. Tame(IsGate(attr, j), rows[j], ClaimedRow(rows[j]), stop)
      BY <1>1, <2>1, GateIsBoolean, TameWrites
    <2>3. ASSUME NEW k \in Job PROVE Tame(IsGate(attr, k), rows[k], job'[k], stop)
      <3>1. CASE k = j
        BY <1>1, <2>1, <2>2, <3>1
      <3>2. CASE k # j
        BY <1>1, <2>1, <3>2, GateIsBoolean, TameRows
      <3> QED
        BY <3>1, <3>2
    <2>4. \A k \in Job : Sound(attr', job', k)
      BY <1>1, <1>4, <2>1, <2>3, SoundTame
    <2>5. NoneReady(attr', job')
      BY <1>1, <1>2, <2>1, <2>3, NoneReadyTame
    <2>6. \A k \in Job : ~Exists(k) => job'[k].state = "absent"
      BY <1>3, <2>3 DEF Tame, Exists
    <2> QED
      BY <2>1, <2>4, <2>5, <2>6, NoneReadyNext DEF Plain
  <1>6. ASSUME Poll(due) PROVE Plain
    <2>1. attr' = attr /\ winner' = winner /\ lock' = lock /\ job' = rows
      BY <1>6 DEF Poll
    <2> QED
      BY <1>2, <1>3, <1>4, <2>1, NoneReadyNext DEF Plain, Exists
  <1> QED
    BY <1>5, <1>6

LEMMA FailurePlain ==
  ASSUME TypeOK, TypeOK', OrderInv, NEW j \in Job, NEW a \in inflight[j], NEW c \in Failures,
         RecordFailure(j, a, c)
  PROVE  Plain
  <1> DEFINE stop == storage'.active
  <1>1. /\ attr' = attr /\ winner' = winner /\ stop \in BOOLEAN
        /\ IsGate(attr, j) \in BOOLEAN /\ job[j] \in Row
    BY Typed DEF RecordFailure, FailRetry, FailFinal, ActivateQuota, ActivateCredentials,
       ActivateStorage
  <1>2. job[j].state = "running"
    BY DEF RecordFailure, FailRetry, FailFinal, ActivateQuota, ActivateCredentials,
       ActivateStorage, CanReport, Owns
  <1>3. CASE FailRetry(j, a, c)
    <2>1. job' = [job EXCEPT ![j] = RetriedRow(job[j])]
      BY <1>3 DEF FailRetry
    <2>2. Tame(IsGate(attr, j), job[j], RetriedRow(job[j]), stop)
      BY <1>1, <1>2, TameRows
    <2> QED
      BY <1>1, <2>1, <2>2, OneTame
  <1>4. CASE FailFinal(j, a, c)
    <2>1. /\ job' = [job EXCEPT ![j] = ExhaustedRow(job[j], c)]
          /\ c \in RetriedFailures \cup FinalFailures
      BY <1>4 DEF FailFinal
    <2>2. Tame(IsGate(attr, j), job[j], ExhaustedRow(job[j], c), stop)
      BY <1>1, <1>2, <2>1, TameRows
    <2> QED
      BY <1>1, <2>1, <2>2, OneTame
  <1>5. ASSUME NEW lanes \in SUBSET Lane, NEW k \in WaitingIn(j, lanes)
        PROVE  k \in Job /\ ~IsGate(attr, k) /\ job[k].state \in Waiting \cup Active
    <2>1. CASE k = j
      BY <1>2, <2>1, ActiveIsNoGate DEF Active
    <2>2. CASE k # j
      BY <1>5, <2>2, TargetIsNoGate DEF WaitingIn
    <2> QED
      BY <2>1, <2>2
  <1>6. ASSUME NEW k \in Job, ~IsGate(attr, k), NEW why, NEW because,
               job[k].state \in Waiting \cup Active \/ (stop /\ job[k].state = "paused")
        PROVE  Tame(IsGate(attr, k), job[k], PausedRow(job[k], why, because), stop)
    <2>1. job[k] \in Row
      BY Typed
    <2>2. Tame(FALSE, job[k], PausedRow(job[k], why, because), stop)
      BY <1>1, <1>6, <2>1, TamePause
    <2>3. IsGate(attr, k) = FALSE
      BY <1>6, GateIsBoolean
    <2> QED
      BY <2>2, <2>3
  <1>7. ASSUME NEW k \in Job PROVE Tame(IsGate(attr, k), job[k], job[k], stop)
    BY Typed, TameRows
  <1>8. CASE ActivateQuota(j, a)
    <2>1. attr[j].lane \in Lane /\ \A k \in Job :
            job'[k] = IF k \in WaitingIn(j, {attr[j].lane})
                      THEN PausedRow(job[k], "quota", "none") ELSE job[k]
      BY <1>8 DEF ActivateQuota
    <2>2. \A k \in Job : Tame(IsGate(attr, k), job[k], job'[k], stop)
      BY <1>5, <1>6, <1>7, <2>1
    <2> QED
      BY <1>1, <2>2, TamePlain
  <1>9. CASE ActivateCredentials(j, a)
    <2> PICK lanes : lanes = {l \in Lane : ProviderOf[l] = ProviderOf[attr[j].lane]}
      OBVIOUS
    <2>1. lanes \in SUBSET Lane /\ \A k \in Job :
            job'[k] = IF k \in WaitingIn(j, lanes)
                      THEN PausedRow(job[k], "credentials", job[k].reason) ELSE job[k]
      BY <1>9 DEF ActivateCredentials
    <2>2. \A k \in Job : Tame(IsGate(attr, k), job[k], job'[k], stop)
      BY <1>5, <1>6, <1>7, <2>1
    <2> QED
      BY <1>1, <2>2, TamePlain
  <1>10. CASE ActivateStorage(j, a)
    <2>1. /\ stop = TRUE
          /\ \A k \in StoragePausable : ~IsGate(attr, k)
          /\ \A k \in Job : job'[k] =
               IF k \in StoragePausable
               THEN PausedRow(job[k], "storage",
                              IF job[k].state = "paused" THEN job[k].reason ELSE "none")
               ELSE job[k]
      BY <1>10 DEF ActivateStorage, NoGateIn
    <2>2. \A k \in StoragePausable :
            job[k].state \in Waiting \cup Active \/ job[k].state = "paused"
      <3> TAKE k \in StoragePausable
      <3>1. k \in Job
        BY DEF StoragePausable
      <3>2. job[k].state \in States
        BY <3>1, Typed
      <3> QED
        BY <3>2 DEF StoragePausable, States
    <2>3. \A k \in Job : Tame(IsGate(attr, k), job[k], job'[k], stop)
      BY <1>6, <1>7, <2>1, <2>2
    <2> QED
      BY <1>1, <2>3, TamePlain
  <1> QED
    BY <1>3, <1>4, <1>8, <1>9, <1>10 DEF RecordFailure

(***************************************************************************)
(* Steps that restore, wake or complete rows.                              *)
(***************************************************************************)
LEMMA RestorePlain ==
  ASSUME TypeOK, TypeOK', OrderInv, NEW S \in SUBSET {j \in Job : job[j].state = "paused"},
         Restore(S)
  PROVE  Plain
  <1> PICK rows : rows = Restored(S)
    OBVIOUS
  <1>1. /\ rows \in [Job -> Row] /\ attr' = attr /\ attr' \in [Job -> Attr]
        /\ winner' = winner /\ lock' = lock /\ job' = Promoted(attr', rows)
        /\ \A k \in S : Unlocked(attr, k)
    BY RestoredType DEF Restore, TypeOK
  <1>2. \A k \in Job : rows[k] = IF k \in S THEN RestoredRow(job[k]) ELSE job[k]
    BY DEF Restored
  <1>3. \A k \in Job : Sound(attr, job, k)
    BY <1>1, UnchangedSound
  <1>4. ASSUME NEW k \in S
        PROVE  /\ rows[k].state = IF job[k].resume.state = "none" THEN "queued"
                                  ELSE job[k].resume.state
               /\ rows[k].resume = NoResume /\ rows[k].lease = NoLease
               /\ rows[k].state \in {"queued", "blocked", "paused"}
               /\ ~IsGate(attr, k) /\ job[k].state = "paused" /\ winner[k] = 0
    <2>1. job[k] \in Row /\ job[k].state = "paused" /\ rows[k] = RestoredRow(job[k])
      BY <1>2 DEF TypeOK
    <2>2. ~IsGate(attr, k) /\ RowFits(IsGate(attr, k), job[k])
      BY <2>1, ActiveIsNoGate DEF OrderInv, Fits
    <2>3. winner[k] = 0
      BY <2>1 DEF OrderInv, Fits, WinnerFits
    <2>4. job[k].lease = NoLease /\ job[k].resume.state \in {"none", "queued", "blocked", "paused"}
      BY <2>1, <2>2 DEF RowFits, Active
    <2> QED
      BY <2>1, <2>2, <2>3, <2>4 DEF RestoredRow, Row
  <1>5. \A k \in Job : rows[k].state = "succeeded" <=> job[k].state = "succeeded"
    BY <1>2, <1>4
  <1>6. \A k \in Job : DependenciesSucceeded(attr, job, k) => DependenciesSucceeded(attr, rows, k)
    BY <1>1, <1>5, DepsKept
  <1>7. ASSUME NEW k \in S PROVE Sound(attr, rows, k)
    <2>1. Fits(attr, rows, winner', k)
      BY <1>1, <1>4 DEF Fits, RowFits, WinnerFits, Active, NoResume
    <2>2. Unnested(rows[k])
      BY <1>4 DEF Unnested, NoResume
    <2>3. Unnested(job[k]) /\ Needs(rows[k]) => Needs(job[k])
      BY <1>4 DEF Unnested, Needs, Active
    <2> QED
      BY <1>1, <1>4, <2>1, <2>2, <2>3 DEF Sound
  <1>8. ASSUME NEW k \in Job \ S PROVE Sound(attr, rows, k)
    <2>1. rows[k] = job[k]
      BY <1>2
    <2>2. Fits(attr, rows, winner', k)
      BY <1>3, <2>1 DEF Sound, Fits
    <2> QED
      BY <1>3, <1>6, <2>1, <2>2 DEF Sound
  <1>9. /\ \A k \in Job : Sound(attr', job', k)
        /\ NoReadyJobLeftBlocked'
    BY <1>1, <1>7, <1>8, PromotedNext
  <1>10. \A k \in Job : ~Exists(k) => job'[k].state = "absent"
    <2>1. \A k \in Job : job'[k].state = "absent" <=> rows[k].state = "absent"
      BY <1>1, PromotedSuccess
    <2> QED
      BY <1>2, <1>4, <2>1 DEF Exists
  <1> QED
    BY <1>1, <1>9, <1>10 DEF Plain

LEMMA RetryPlain ==
  ASSUME TypeOK, TypeOK', OrderInv, NEW j \in Job, Retry(j)
  PROVE  Plain
  <1> PICK ready \in BOOLEAN : ready <=> DependenciesSucceeded(attr, job, j)
    OBVIOUS
  <1>1. /\ attr' = attr /\ attr \in [Job -> Attr] /\ winner' = winner /\ lock' = lock
        /\ job \in [Job -> Row] /\ job[j].state = "paused" /\ Unlocked(attr, j)
    BY DEF Retry, TypeOK
  <1> PICK r : r = job'[j]
    OBVIOUS
  <1>2. \A k \in Job \ {j} : job'[k] = job[k]
    BY <1>1 DEF Retry
  <1>3. /\ r.state = IF ready THEN "queued" ELSE "blocked"
        /\ r.resume = NoResume /\ r.lease = NoLease
    BY <1>1 DEF Retry, ReadiedRow, Row
  <1>4. ~IsGate(attr, j)
    BY <1>1, ActiveIsNoGate
  <1>5. \A k \in Job : job'[k].state = "succeeded" <=> job[k].state = "succeeded"
    BY <1>1, <1>2, <1>3
  <1>6. \A k \in Job : DependenciesSucceeded(attr, job, k) <=> DependenciesSucceeded(attr, job', k)
    BY <1>1, <1>5, DepsKept
  <1>7. Sound(attr, job', j)
    <2>1. winner[j] = 0
      BY <1>1 DEF OrderInv, Fits, WinnerFits
    <2>2. Fits(attr, job', winner', j)
      BY <1>1, <1>3, <1>4, <2>1 DEF Fits, RowFits, WinnerFits, Active, NoResume
    <2>3. Unnested(job'[j])
      BY <1>3 DEF Unnested, NoResume
    <2>4. Needs(job'[j]) => DependenciesSucceeded(attr, job', j)
      BY <1>3, <1>6 DEF Needs, Active
    <2> QED
      BY <1>1, <1>3, <2>2, <2>3, <2>4 DEF Sound
  <1>8. ASSUME NEW k \in Job \ {j} PROVE Sound(attr, job', k)
    <2>1. Sound(attr, job, k)
      BY <1>1, UnchangedSound
    <2>2. Fits(attr, job', winner', k)
      BY <1>2, <2>1 DEF Sound, Fits
    <2> QED
      BY <1>2, <1>6, <2>1, <2>2 DEF Sound
  <1>9. NoneReady(attr, job')
    <2> SUFFICES ASSUME NEW k \in Job, Promotable(attr, job', k)
                 PROVE  FALSE
      BY DEF NoneReady
    <2>1. k # j
      BY <1>3, <1>6 DEF Promotable
    <2>2. Promotable(attr, job, k)
      BY <1>2, <1>6, <2>1 DEF Promotable
    <2> QED
      BY <2>2 DEF OrderInv, NoReadyJobLeftBlocked
  <1>10. \A k \in Job : ~Exists(k) => job'[k].state = "absent"
    BY <1>1, <1>2 DEF Exists
  <1> QED
    BY <1>1, <1>7, <1>8, <1>9, <1>10, NoneReadyNext DEF Plain

LEMMA CompleteGatePlain ==
  ASSUME TypeOK, TypeOK', OrderInv, NEW j \in Job, CompleteHumanGate(j)
  PROVE  Plain
  <1> PICK rows : rows = [job EXCEPT ![j] = SucceededRow(@)]
    OBVIOUS
  <1>1. /\ job \in [Job -> Row] /\ attr' = attr /\ attr' \in [Job -> Attr]
        /\ winner' = winner /\ lock' = lock /\ job' = Promoted(attr', rows)
        /\ IsGate(attr, j) /\ job[j].state = "waiting_review"
    BY DEF CompleteHumanGate, TypeOK
  <1>2. rows \in [Job -> Row]
    BY <1>1, SucceededRowType
  <1>3. \A k \in Job \ {j} : rows[k] = job[k]
    OBVIOUS
  <1>4. rows[j].state = "succeeded" /\ rows[j].lease = NoLease /\ rows[j].resume = job[j].resume
    BY <1>1 DEF SucceededRow, Row
  <1>5. \A k \in Job : job[k].state = "succeeded" => rows[k].state = "succeeded"
    BY <1>3, <1>4
  <1>6. \A k \in Job : DependenciesSucceeded(attr, job, k) => DependenciesSucceeded(attr, rows, k)
    BY <1>1, <1>5, DepsKept
  <1>7. Sound(attr, rows, j)
    <2>1. Fits(attr, rows, winner', j)
      BY <1>1, <1>4 DEF OrderInv, Fits, RowFits, WinnerFits, Active, GateStates
    <2>2. Unnested(job[j]) => Unnested(rows[j])
      BY <1>4 DEF Unnested
    <2>3. ~Needs(rows[j]) /\ rows[j].state # "blocked" /\ rows[j].state # "absent"
      BY <1>4 DEF Needs, Active
    <2> QED
      BY <1>1, <1>4, <2>1, <2>2, <2>3 DEF Sound
  <1>8. ASSUME NEW k \in Job \ {j} PROVE Sound(attr, rows, k)
    <2>1. Sound(attr, job, k)
      BY <1>1, UnchangedSound
    <2>2. Fits(attr, rows, winner', k)
      BY <1>3, <2>1 DEF Sound, Fits
    <2> QED
      BY <1>3, <1>6, <2>1, <2>2 DEF Sound
  <1>9. /\ \A k \in Job : Sound(attr', job', k)
        /\ NoReadyJobLeftBlocked'
        /\ \A k \in Job : job'[k].state = "absent" <=> rows[k].state = "absent"
    BY <1>1, <1>2, <1>7, <1>8, PromotedNext
  <1>10. \A k \in Job : ~Exists(k) => job'[k].state = "absent"
    BY <1>1, <1>3, <1>9 DEF Exists
  <1> QED
    BY <1>1, <1>9, <1>10 DEF Plain

LEMMA PausedByOperatorTame ==
  ASSUME TypeOK, TypeOK', OrderInv, NEW S \in SUBSET {k \in Job : job[k].state \in Waiting},
         NoGateIn(S), NEW k \in Job
  PROVE  Tame(IsGate(attr, k), job[k], PausedByOperator(S)[k], storage'.active)
  <1>1. job[k] \in Row /\ storage'.active \in BOOLEAN /\ IsGate(attr, k) \in BOOLEAN
    BY Typed
  <1>2. CASE k \in S
    <2>1. IsGate(attr, k) = FALSE /\ job[k].state \in Waiting
      BY <1>1, <1>2 DEF NoGateIn
    <2>2. Tame(FALSE, job[k], PausedRow(job[k], "operator", job[k].reason), storage'.active)
      BY <1>1, <2>1, TamePause
    <2> QED
      BY <1>2, <2>1, <2>2 DEF PausedByOperator
  <1>3. CASE k \notin S
    BY <1>1, <1>3, TameRows DEF PausedByOperator
  <1> QED
    BY <1>2, <1>3

LEMMA OperatorPlain ==
  ASSUME TypeOK, TypeOK', OrderInv, JobControl \/ Integrity \/ Reviewer
  PROVE  Plain
  <1> SUFFICES ASSUME NEW j \in Job,
                      \/ \E p \in Priorities : SetPriority(j, p)
                      \/ Pause(j) \/ Resume(j) \/ Retry(j) \/ Cancel(j)
                      \/ PauseForIntegrity(j) \/ ReleaseIntegrityPause(j)
                      \/ CancelOwnedHumanGate(j) \/ CompleteHumanGate(j)
               PROVE  Plain
    BY DEF JobControl, Integrity, Reviewer
  <1> DEFINE stop == storage'.active
  <1>1. stop \in BOOLEAN /\ IsGate(attr, j) \in BOOLEAN /\ job[j] \in Row
    BY Typed
  <1>2. ASSUME NEW r, Tame(IsGate(attr, j), job[j], r, stop), job' = [job EXCEPT ![j] = r],
               attr' = attr, winner' = winner
        PROVE  Plain
    BY <1>2, OneTame
  <1>3. ASSUME NEW p \in Priorities, SetPriority(j, p) PROVE Plain
    <2>1. Tame(IsGate(attr, j), job[j], [job[j] EXCEPT !.priority = p], stop)
      BY <1>1, TameWrites
    <2> QED
      BY <1>2, <1>3, <2>1 DEF SetPriority
  <1>4. CASE Pause(j)
    <2>1. /\ {j} \in SUBSET {k \in Job : job[k].state \in Waiting} /\ NoGateIn({j})
          /\ job' = PausedByOperator({j}) /\ attr' = attr /\ winner' = winner
      BY <1>4 DEF Pause
    <2> QED
      BY <2>1, PausedByOperatorTame, TamePlain
  <1>5. CASE Resume(j)
    BY <1>5, RestorePlain DEF Resume, PausedFor
  <1>6. CASE Retry(j)
    BY <1>6, RetryPlain
  <1>7. CASE Cancel(j)
    <2>1. Tame(IsGate(attr, j), job[j], CanceledRow(job[j]), stop)
      BY <1>1, <1>7, TameRows DEF Cancel
    <2> QED
      BY <1>2, <1>7, <2>1 DEF Cancel
  <1>8. CASE PauseForIntegrity(j)
    <2>1. IsGate(attr, j) = FALSE /\ job[j].state \in Waiting \cup Active
      BY <1>1, <1>8 DEF PauseForIntegrity, NoGateIn
    <2>2. Tame(FALSE, job[j], PausedRow(job[j], "asset_integrity", job[j].reason), stop)
      BY <1>1, <2>1, TamePause
    <2> QED
      BY <1>2, <1>8, <2>1, <2>2 DEF PauseForIntegrity
  <1>9. CASE ReleaseIntegrityPause(j)
    <2>1. Tame(IsGate(attr, j), job[j], [job[j] EXCEPT !.reason = "operator"], stop)
      BY <1>1, TameWrites
    <2> QED
      BY <1>2, <1>9, <2>1 DEF ReleaseIntegrityPause
  <1>10. CASE CancelOwnedHumanGate(j)
    <2>1. Tame(IsGate(attr, j), job[j], CanceledRow(job[j]), stop)
      BY <1>1, <1>10, TameRows DEF CancelOwnedHumanGate, Terminal
    <2> QED
      BY <1>2, <1>10, <2>1 DEF CancelOwnedHumanGate
  <1>11. CASE CompleteHumanGate(j)
    BY <1>11, CompleteGatePlain
  <1> QED
    BY <1>3, <1>4, <1>5, <1>6, <1>7, <1>8, <1>9, <1>10, <1>11

LEMMA RemediationPlain ==
  ASSUME TypeOK, TypeOK', OrderInv, ProjectControl \/ Remediation
  PROVE  Plain
  <1>1. ASSUME NEW s \in Scope, PauseProjectJobs(s) PROVE Plain
    <2> PICK S : S = {j \in JobsOf(s) : job[j].state \in Waiting}
      OBVIOUS
    <2>1. /\ S \in SUBSET {k \in Job : job[k].state \in Waiting} /\ NoGateIn(S)
          /\ job' = PausedByOperator(S) /\ attr' = attr /\ winner' = winner
      BY <1>1 DEF PauseProjectJobs, PauseProject, JobsOf
    <2> QED
      BY <2>1, PausedByOperatorTame, TamePlain
  <1>2. ASSUME NEW s \in Scope, ResumeProject(s) PROVE Plain
    BY <1>2, RestorePlain DEF ResumeProject, PausedFor
  <1>3. ASSUME NEW l \in Lane, ResumeQuota(l) PROVE Plain
    BY <1>3, RestorePlain DEF ResumeQuota, PausedFor
  <1>4. ASSUME NEW p \in Provider, ResumeCredentials(p) PROVE Plain
    BY <1>4, RestorePlain DEF ResumeCredentials, PausedFor
  <1>5. CASE ResumeStorage
    BY <1>5, RestorePlain DEF ResumeStorage, PausedFor
  <1> QED
    BY <1>1, <1>2, <1>3, <1>4, <1>5 DEF ProjectControl, Remediation

LEMMA StutterPlain ==
  ASSUME TypeOK, TypeOK', OrderInv, UNCHANGED <<attr, job, winner>>
  PROVE  Plain
  <1>1. \A k \in Job : Tame(IsGate(attr, k), job[k], job'[k], storage'.active)
    BY Typed, TameRows
  <1> QED
    BY <1>1, TamePlain

LEMMA ExportPlain ==
  ASSUME TypeOK, TypeOK', OrderInv, Export
  PROVE  Plain /\ BlockedAreUnlocked'
  <1>1. ASSUME NEW s \in Project, BeginExportDrain(s) PROVE Plain /\ BlockedAreUnlocked'
    <2> PICK S : S = {j \in JobsOf(s) : job[j].state \in Waiting}
      OBVIOUS
    <2>1. /\ S \in SUBSET {k \in Job : job[k].state \in Waiting} /\ NoGateIn(S)
          /\ job' = PausedByOperator(S) /\ attr' = attr /\ winner' = winner
          /\ \A t \in Project \ {s} : lock'[t] = lock[t]
      BY <1>1 DEF BeginExportDrain, PauseProject, JobsOf, TypeOK
    <2>2. \A k \in Job : Tame(IsGate(attr, k), job[k], job'[k], storage'.active)
      BY <2>1, PausedByOperatorTame
    <2>3. Plain
      BY <2>1, <2>2, TamePlain
    <2>4. ASSUME NEW k \in Job, job'[k].state = "blocked" PROVE Unlocked(attr, k)'
      <3>1. job[k].state = "blocked" /\ Unlocked(attr, k)
        BY <2>2, <2>4 DEF Tame, OrderInv, BlockedAreUnlocked
      <3>2. k \notin S
        <4>1. k \in S => job'[k] = PausedRow(job[k], "operator", job[k].reason)
          BY <2>1 DEF PausedByOperator
        <4>2. PausedRow(job[k], "operator", job[k].reason).state = "paused"
          BY Typed DEF PausedRow, Row
        <4> QED
          BY <2>4, <4>1, <4>2
      <3>3. ScopeOf(attr, k) # s
        BY <3>1, <3>2 DEF JobsOf, Exists, Waiting
      <3> QED
        BY <2>1, <3>1, <3>3 DEF Unlocked, LockOf, ScopeOf
    <2> QED
      BY <2>3, <2>4 DEF BlockedAreUnlocked
  <1>2. ASSUME NEW s \in Project, FreezeSnapshot(s) \/ ReleaseSnapshotLock(s)
        PROVE  Plain /\ BlockedAreUnlocked'
    <2>1. attr' = attr /\ job' = job /\ winner' = winner
      BY <1>2 DEF FreezeSnapshot, ReleaseSnapshotLock
    <2>2. Plain
      BY <2>1, StutterPlain
    <2>3. \A t \in Project : lock[t].phase = "none" => lock'[t].phase = "none"
      BY <1>2 DEF FreezeSnapshot, ReleaseSnapshotLock, NoLock, TypeOK
    <2>4. ASSUME NEW k \in Job, job'[k].state = "blocked" PROVE Unlocked(attr, k)'
      <3>1. Unlocked(attr, k)
        BY <2>1, <2>4 DEF OrderInv, BlockedAreUnlocked
      <3> QED
        BY <2>1, <2>3, <3>1 DEF Unlocked, LockOf, ScopeOf, NoLock
    <2> QED
      BY <2>2, <2>4 DEF BlockedAreUnlocked
  <1> QED
    BY <1>1, <1>2 DEF Export

(***************************************************************************)
(* Steps that insert rows.                                                 *)
(***************************************************************************)
\* k is inserted as planned: by its batch, or by the commit of the job it follows
Planned(k) ==
  /\ k \notin Spare /\ attr'[k].role = attr[k].role
  /\ \/ \E batch \in Batches : k \in batch /\ attr'[k].deps = Plan[k].deps
     \/ \E j \in Job :
          /\ k \in Plan[attr[j].role].follow /\ job'[j].state = "succeeded"
          /\ attr'[k].deps = {IF d = attr[j].role THEN j ELSE d : d \in Plan[k].deps}

\* k takes over from o, which ends
Succeeds(k, o) ==
  /\ job[o].state \in Waiting \cup {"paused"} /\ attr[o].lane \in Lane
  /\ attr'[k].role = attr[o].role
  /\ job'[o].state = "canceled" /\ job'[k].state # "absent"

Births ==
  \E heir : \A k \in Job : ~Exists(k) =>
    \/ job'[k].state = "absent" /\ attr'[k] = attr[k]
    \/ Planned(k)
    \/ \E o \in Job : heir[o] = k /\ Succeeds(k, o)

Orderly ==
  /\ \A k \in Job : Sound(attr', job', k)
  /\ NoReadyJobLeftBlocked'
  /\ Births

LEMMA NumberedAttrIs ==
  ASSUME attr \in [Job -> Attr], NEW new \in SUBSET Job, NEW depsOf, NEW k \in Job
  PROVE  /\ k \notin new => NumberedAttr(new, depsOf)[k] = attr[k]
         /\ NumberedAttr(new, depsOf)[k].role = attr[k].role
         /\ NumberedAttr(new, depsOf)[k].lane = attr[k].lane
         /\ k \in new => NumberedAttr(new, depsOf)[k].deps = depsOf[k]
  BY DEF NumberedAttr, Attr

LEMMA EnqueueOrderly ==
  ASSUME TypeOK, TypeOK', OrderInv, NEW batch \in Batches, Enqueue(batch)
  PROVE  Orderly
  <1> PICK new : new = Fresh(batch)
    OBVIOUS
  <1> PICK depsOf : depsOf = [j \in new |-> Plan[j].deps]
    OBVIOUS
  <1> PICK priority : priority = [j \in new |-> DefaultPriority]
    OBVIOUS
  <1>1. /\ attr' = NumberedAttr(new, depsOf)
        /\ job' = Inserted(attr', job, new, priority)
        /\ winner' = winner /\ lock' = lock
        /\ \A k \in new : Unlocked(attr', k)
    BY DEF Enqueue, Insertable
  <1>2. new \in SUBSET {k \in Job : ~Exists(k)} /\ priority \in [new -> Nat]
    BY PlanIsWellFormed, BoundsArePositive DEF Fresh
  <1>3. attr \in [Job -> Attr] /\ attr' \in [Job -> Attr]
    BY DEF TypeOK
  <1>4. /\ \A k \in Job \ new : attr'[k] = attr[k]
        /\ \A k \in new : attr'[k].role = attr[k].role /\ attr'[k].lane = attr[k].lane
    BY <1>1, <1>2, <1>3, NumberedAttrIs
  <1>5. \A k \in new : IsGate(attr', k) => attr'[k].lane = NoLane
    BY <1>2, <1>4 DEF OrderInv, Fits, IsGate, GateOf
  <1>6. /\ \A k \in Job : Sound(attr', job', k)
        /\ NoneReady(attr', job')
    BY <1>1, <1>2, <1>3, <1>4, <1>5, InsertedSound
  <1>7. \A k \in Job : ~Exists(k) =>
          (job'[k].state = "absent" /\ attr'[k] = attr[k]) \/ Planned(k)
    <2> TAKE k \in Job
    <2> HAVE ~Exists(k)
    <2>1. CASE k \in new
      <3>1. k \in batch /\ attr'[k].deps = Plan[k].deps
        BY <1>1, <1>2, <1>3, <2>1, NumberedAttrIs DEF Fresh
      <3> QED
        BY <1>4, <2>1, <3>1, PlanIsWellFormed DEF Planned
    <2>2. CASE k \notin new
      BY <1>1, <1>4, <2>2 DEF Inserted, Exists
    <2> QED
      BY <2>1, <2>2
  <1> QED
    BY <1>1, <1>6, <1>7, NoneReadyNext DEF Orderly, Births

LEMMA CommitWrites ==
  ASSUME TypeOK, TypeOK', NEW j \in Job, NEW a, Commit(j, a)
  PROVE  LET new == FollowUps(j)
             priority == [k \in new |-> job[j].priority]
             rows == Inserted(attr', job, new, priority)
         IN /\ attr' = FollowUpAttr(j)
            /\ job' = Promoted(attr', [rows EXCEPT ![j] = SucceededRow(@)])
            /\ winner' = [winner EXCEPT ![j] = a] /\ lock' = lock
            /\ \A k \in new : Unlocked(attr', k)
            /\ job[j].state = "running" /\ job[j].attempts = a
            /\ new \in SUBSET {k \in Job : ~Exists(k)} /\ j \notin new
            /\ priority \in [new -> Nat]
            /\ \A k \in Job \ new : attr'[k] = attr[k]
            /\ \A k \in new : attr'[k].role = attr[k].role /\ attr'[k].lane = attr[k].lane
            /\ \A k \in new : attr'[k].deps =
                 {IF d = attr[j].role THEN j ELSE d : d \in Plan[k].deps}
  <1> PICK new : new = FollowUps(j)
    OBVIOUS
  <1> PICK priority : priority = [k \in new |-> job[j].priority]
    OBVIOUS
  <1> PICK depsOf : depsOf =
        [k \in new |-> {IF d = attr[j].role THEN j ELSE d : d \in Plan[k].deps}]
    OBVIOUS
  <1>1. /\ attr' = FollowUpAttr(j) /\ attr' = NumberedAttr(new, depsOf)
        /\ winner' = [winner EXCEPT ![j] = a] /\ lock' = lock
        /\ job[j].state = "running" /\ job[j].attempts = a
        /\ \A k \in new : Unlocked(attr', k)
    BY DEF Commit, FollowUpAttr, CanCommit, CanReport, Owns, Insertable
  <1>2. job' = Promoted(attr', [Inserted(attr', job, new, priority) EXCEPT ![j] = SucceededRow(@)])
    BY DEF Commit
  <1>3. new \in SUBSET {k \in Job : ~Exists(k)}
    BY PlanIsWellFormed DEF FollowUps, Fresh, TypeOK, Attr
  <1>4. j \notin new
    BY <1>1, <1>3 DEF Exists
  <1>5. priority \in [new -> Nat]
    BY DEF TypeOK, Row
  <1>6. /\ \A k \in Job \ new : attr'[k] = attr[k]
        /\ \A k \in new : attr'[k].role = attr[k].role /\ attr'[k].lane = attr[k].lane
        /\ \A k \in new : attr'[k].deps = depsOf[k]
    BY <1>1, <1>3, NumberedAttrIs DEF TypeOK
  <1> QED
    BY <1>1, <1>2, <1>3, <1>4, <1>5, <1>6

LEMMA CommitOrderly ==
  ASSUME TypeOK, TypeOK', OrderInv, NEW j \in Job, NEW a, Commit(j, a)
  PROVE  Orderly
  <1> PICK new : new = FollowUps(j)
    OBVIOUS
  <1> PICK priority : priority = [k \in new |-> job[j].priority]
    OBVIOUS
  <1> PICK rows : rows = Inserted(attr', job, new, priority)
    OBVIOUS
  <1> PICK done : done = [rows EXCEPT ![j] = SucceededRow(@)]
    OBVIOUS
  <1>1. /\ job' = Promoted(attr', done)
        /\ winner' = [winner EXCEPT ![j] = a] /\ lock' = lock
        /\ \A k \in new : Unlocked(attr', k)
        /\ job[j].state = "running" /\ job[j].attempts = a
        /\ new \in SUBSET {k \in Job : ~Exists(k)} /\ j \notin new
        /\ priority \in [new -> Nat]
        /\ \A k \in Job \ new : attr'[k] = attr[k]
        /\ \A k \in new : attr'[k].role = attr[k].role /\ attr'[k].lane = attr[k].lane
        /\ \A k \in new : attr'[k].deps =
             {IF d = attr[j].role THEN j ELSE d : d \in Plan[k].deps}
    BY CommitWrites
  <1>2. attr \in [Job -> Attr] /\ attr' \in [Job -> Attr] /\ job \in [Job -> Row]
        /\ winner \in [Job -> Nat]
    BY DEF TypeOK
  <1>3. \A k \in new : IsGate(attr', k) => attr'[k].lane = NoLane
    BY <1>1 DEF OrderInv, Fits, IsGate, GateOf
  <1>4. \A k \in Job \ {j} : Sound(attr', rows, k)
    <2>1. \A k \in Job \ {j} : winner'[k] = winner[k]
      BY <1>1, <1>2
    <2> QED
      BY <1>1, <1>2, <1>3, <2>1, InsertedSound
  <1>5. rows \in [Job -> Row] /\ rows[j] = job[j]
    <2>1. rows[j] = job[j]
      BY <1>1 DEF Inserted
    <2> QED
      BY <1>1, <1>2, <2>1, InsertedType
  <1>6. /\ \A k \in Job \ {j} : done[k] = rows[k]
        /\ done[j] = SucceededRow(job[j]) /\ done \in [Job -> Row]
    BY <1>5, SucceededRowType
  <1>7. /\ done[j].state = "succeeded" /\ done[j].lease = NoLease
        /\ done[j].resume = job[j].resume /\ done[j].attempts = job[j].attempts
    <2>1. job[j] \in Row
      BY <1>2
    <2>2. /\ SucceededRow(job[j]).state = "succeeded" /\ SucceededRow(job[j]).lease = NoLease
          /\ SucceededRow(job[j]).resume = job[j].resume
          /\ SucceededRow(job[j]).attempts = job[j].attempts
      BY <2>1 DEF SucceededRow, Row
    <2> QED
      BY <1>6, <2>2
  <1>8. \A k \in Job : rows[k].state = "succeeded" => done[k].state = "succeeded"
    BY <1>6, <1>7
  <1>9. \A k \in Job : DependenciesSucceeded(attr', rows, k) => DependenciesSucceeded(attr', done, k)
    BY <1>2, <1>8, DepsKept
  <1>10. Sound(attr', done, j)
    <2>1. /\ RowFits(IsGate(attr, j), job[j]) /\ ~IsGate(attr, j) /\ attr'[j] = attr[j]
          /\ job[j].attempts > 0
      BY <1>1, ActiveIsNoGate DEF OrderInv, Fits, RowFits, Active
    <2>2. ~IsGate(attr', j)
      BY <2>1 DEF IsGate, GateOf
    <2>3. winner'[j] = done[j].attempts /\ winner'[j] > 0
      BY <1>1, <1>2, <1>7, <2>1
    <2>4. Fits(attr', done, winner', j)
      BY <1>1, <1>7, <2>1, <2>2, <2>3 DEF Fits, RowFits, WinnerFits, Active
    <2>5. ~Needs(done[j]) /\ (Unnested(job[j]) => Unnested(done[j]))
      BY <1>7 DEF Needs, Unnested, Active
    <2> QED
      BY <1>7, <2>1, <2>4, <2>5 DEF Sound
  <1>11. ASSUME NEW k \in Job \ {j} PROVE Sound(attr', done, k)
    <2>1. Sound(attr', rows, k) /\ done[k] = rows[k]
      BY <1>4, <1>6
    <2>2. Fits(attr', done, winner', k)
      BY <2>1 DEF Sound, Fits
    <2> QED
      BY <1>9, <2>1, <2>2 DEF Sound
  <1>12. \A k \in Job : Sound(attr', done, k)
    BY <1>10, <1>11
  <1>13. /\ \A k \in Job : Sound(attr', job', k)
         /\ NoReadyJobLeftBlocked'
         /\ \A k \in Job : job'[k].state = "absent" <=> done[k].state = "absent"
    BY <1>1, <1>2, <1>6, <1>12, PromotedNext
  <1>14. job'[j].state = "succeeded"
    <2>1. ~Promotable(attr', done, j)
      BY <1>7 DEF Promotable
    <2>2. Promoted(attr', done)[j] = done[j]
      BY <2>1 DEF Promoted
    <2> QED
      BY <1>1, <1>7, <2>2
  <1>15. \A k \in Job : ~Exists(k) =>
           (job'[k].state = "absent" /\ attr'[k] = attr[k]) \/ Planned(k)
    <2> TAKE k \in Job
    <2> HAVE ~Exists(k)
    <2>1. CASE k \in new
      <3>1. k \in Plan[attr[j].role].follow /\ attr[j].role \in Job
        BY <1>2, <2>1 DEF FollowUps, Fresh, Attr
      <3>2. k \notin Spare
        BY <3>1, PlanIsWellFormed
      <3>3. /\ attr'[k].role = attr[k].role
            /\ attr'[k].deps = {IF d = attr[j].role THEN j ELSE d : d \in Plan[k].deps}
        BY <1>1, <2>1
      <3> QED
        BY <1>14, <3>1, <3>2, <3>3 DEF Planned
    <2>2. CASE k \notin new
      <3>1. k # j
        BY <1>1 DEF Exists
      <3>2. done[k] = job[k]
        BY <1>6, <2>2, <3>1 DEF Inserted
      <3> QED
        BY <1>1, <1>13, <2>2, <3>2, ZenonT(40) DEF Exists
    <2> QED
      BY <2>1, <2>2
  <1> QED
    BY <1>13, <1>15 DEF Orderly, Births

LEMMA HeirAttrIs ==
  ASSUME TypeOK, NEW S \in SUBSET Job, NEW heir \in Heirs(S), NEW alternate \in Lane
  PROVE  LET new == {heir[j] : j \in S}
             as == HeirAttr(S, heir, alternate)
         IN /\ new \in SUBSET {k \in Spare : ~Exists(k)}
            /\ \A k \in Job \ new : as[k] = attr[k]
            /\ \A k \in new : \E o \in S :
                 heir[o] = k /\ as[k].role = attr[o].role /\ as[k].lane = alternate
  <1> DEFINE new == {heir[j] : j \in S}
             as == HeirAttr(S, heir, alternate)
             original == [k \in new |-> CHOOSE j \in S : heir[j] = k]
             depsOf == [k \in new |->
                          {IF d \in S THEN heir[d] ELSE d : d \in attr[original[k]].deps}]
             base == NumberedAttr(new, depsOf)
  <1>1. new \in SUBSET {k \in Spare : ~Exists(k)} /\ new \in SUBSET Job
    BY JobsAreNumbers DEF Heirs
  <1>2. as = [k \in Job |-> IF k \in new
                            THEN [base[k] EXCEPT !.role = attr[original[k]].role,
                                                 !.lane = alternate]
                            ELSE base[k]]
    BY DEF HeirAttr
  <1>3. \A k \in new : original[k] \in S /\ heir[original[k]] = k
    OBVIOUS
  <1>4. attr \in [Job -> Attr]
    BY DEF TypeOK
  <1> HIDE DEF original
  <1>5. \A k \in Job : k \notin new => base[k] = attr[k]
    BY <1>1, <1>4, NumberedAttrIs
  <1>6. ASSUME NEW k \in new
        PROVE  as[k].role = attr[original[k]].role /\ as[k].lane = alternate
    <2>1. base[k] = [attr[k] EXCEPT !.deps = depsOf[k], !.seq = Sequence(new, k)]
      BY <1>1 DEF NumberedAttr
    <2>2. attr[k] \in Attr
      BY <1>1, <1>4
    <2> PICK role : role = attr[original[k]].role
      OBVIOUS
    <2> PICK b : b = base[k]
      OBVIOUS
    <2>3. DOMAIN b = {"role", "lane", "deps", "seq"}
      BY <2>1, <2>2 DEF Attr
    <2>4. as[k] = [b EXCEPT !.role = role, !.lane = alternate]
      BY <1>1, <1>2
    <2> HIDE DEF base
    <2> QED
      BY <2>3, <2>4
  <1> QED
    BY <1>1, <1>2, <1>3, <1>5, <1>6

\* a successor stays as it was inserted, or is paused like the row it replaces
Disposed(r, s) ==
  s = r \/ (r.state # "paused" /\ \E why, because : s = PausedRow(r, why, because))

LEMMA HeirsOrderly ==
  ASSUME TypeOK, TypeOK', OrderInv,
         NEW S \in SUBSET {j \in Job : /\ job[j].state \in Waiting \cup {"paused"}
                                       /\ attr[j].lane \in Lane},
         NEW heir \in Heirs(S), NEW alternate \in Lane,
         NEW new, new = {heir[j] : j \in S},
         attr' = HeirAttr(S, heir, alternate), winner' = winner, lock' = lock,
         \A k \in new : Unlocked(attr', k),
         NEW rows, rows = Inserted(attr', job, new, HeirPriority(S, heir)),
         job' \in [Job -> Row],
         \A k \in S : job'[k] = SupersededRow(rows[k]),
         \A k \in Job \ (S \cup new) : job'[k] = rows[k],
         \A k \in new : Disposed(rows[k], job'[k])
  PROVE  Orderly
  <1> DEFINE stop == storage'.active
  <1> PICK as : as = attr'
    OBVIOUS
  <1>1. /\ as \in [Job -> Attr] /\ attr \in [Job -> Attr] /\ job \in [Job -> Row]
        /\ stop \in BOOLEAN
    BY DEF TypeOK
  <1>2. /\ new \in SUBSET {k \in Job : ~Exists(k)} /\ \A k \in Job \ new : as[k] = attr[k]
        /\ \A k \in new : \E o \in S : heir[o] = k /\ as[k].role = attr[o].role
    <2>1. LET n == {heir[j] : j \in S}
              a == HeirAttr(S, heir, alternate)
          IN /\ n \in SUBSET {k \in Spare : ~Exists(k)}
             /\ \A k \in Job \ n : a[k] = attr[k]
             /\ \A k \in n : \E p \in S :
                  heir[p] = k /\ a[k].role = attr[p].role /\ a[k].lane = alternate
      BY HeirAttrIs
    <2> QED
      BY <2>1, JobsAreNumbers
  <1>3. \A k \in new : ~IsGate(as, k)
    <2> TAKE k \in new
    <2> PICK o \in S : as[k].role = attr[o].role
      BY <1>2
    <2>1. ~IsGate(attr, o)
      BY TargetIsNoGate
    <2> QED
      BY <2>1 DEF IsGate, GateOf
  <1> PICK priority : priority = HeirPriority(S, heir)
    OBVIOUS
  <1>4. priority \in [new -> Nat]
    BY HeirsType
  <1>5. /\ \A k \in Job : Sound(as, rows, k)
        /\ NoneReady(as, rows)
    BY <1>1, <1>2, <1>3, <1>4, InsertedSound
  <1>6. rows \in [Job -> Row]
    BY <1>1, <1>2, <1>4, InsertedType
  <1>7. ASSUME NEW k \in Job PROVE Tame(IsGate(as, k), rows[k], job'[k], stop)
    <2>1. rows[k] \in Row /\ IsGate(as, k) \in BOOLEAN
      BY <1>6, GateIsBoolean
    <2>2. CASE k \in S
      <3>1. k \notin new
        BY <1>2, <2>2 DEF Exists, Waiting
      <3>2. rows[k] = job[k]
        BY <3>1 DEF Inserted
      <3> QED
        BY <1>1, <2>1, <2>2, <3>2, TameRows
    <2>3. CASE k \in new \ S
      <3>1. CASE job'[k] = rows[k]
        BY <1>1, <2>1, <3>1, TameRows
      <3>2. CASE job'[k] # rows[k]
        <4>1. PICK why, because : job'[k] = PausedRow(rows[k], why, because)
          BY <2>3, <3>2 DEF Disposed
        <4>2. rows[k].state # "paused" /\ IsGate(as, k) = FALSE
          BY <1>3, <2>1, <2>3, <3>2 DEF Disposed
        <4>3. rows[k] = NewRow(as, job, k, priority[k]) /\ priority[k] \in Nat
          BY <1>2, <1>4, <2>3 DEF Inserted
        <4> PICK p \in Nat : p = priority[k]
          BY <4>3
        <4> PICK r : r = NewRow(as, job, k, p)
          OBVIOUS
        <4>4. /\ r.state \in {"blocked", "queued", "waiting_review", "paused"}
              /\ r.state = "waiting_review" => IsGate(as, k)
          BY NewRowIs
        <4>5. rows[k].state \in Waiting
          BY <4>2, <4>3, <4>4 DEF Waiting
        <4>6. Tame(FALSE, rows[k], PausedRow(rows[k], why, because), stop)
          BY <1>1, <2>1, <4>5, TamePause
        <4> QED
          BY <4>1, <4>2, <4>6
      <3> QED
        BY <3>1, <3>2
    <2>4. CASE k \notin S \cup new
      BY <1>1, <2>1, <2>4, TameRows
    <2> QED
      BY <2>2, <2>3, <2>4
  <1>8. \A k \in Job : Sound(attr', job', k)
    BY <1>1, <1>5, <1>7, SoundTame
  <1>9. NoneReady(attr', job')
    BY <1>1, <1>5, <1>7, NoneReadyTame
  <1>10. \A k \in Job : ~Exists(k) =>
           \/ job'[k].state = "absent" /\ attr'[k] = attr[k]
           \/ \E o \in Job : heir[o] = k /\ Succeeds(k, o)
    <2> TAKE k \in Job
    <2> HAVE ~Exists(k)
    <2>1. CASE k \in new
      <3>1. PICK o \in S : heir[o] = k /\ as[k].role = attr[o].role
        BY <1>2, <2>1
      <3>2. rows[o] \in Row /\ job'[o] = SupersededRow(rows[o])
        BY <1>6
      <3>3. job'[o].state = "canceled"
        BY <3>2 DEF SupersededRow, Row
      <3> PICK p \in Nat : p = priority[k]
        BY <1>4, <2>1
      <3> PICK r : r = NewRow(as, job, k, p)
        OBVIOUS
      <3>4. r.state \in {"blocked", "queued", "waiting_review", "paused"}
        BY NewRowIs
      <3>5. rows[k] = r
        BY <2>1 DEF Inserted
      <3>6. job'[k].state # "absent"
        BY <1>7, <3>4, <3>5 DEF Tame
      <3> QED
        BY <3>1, <3>3, <3>6 DEF Succeeds
    <2>2. CASE k \notin new
      <3>1. k \notin S
        BY DEF Exists, Waiting
      <3>2. job'[k] = job[k]
        BY <2>2, <3>1 DEF Inserted
      <3> QED
        BY <1>2, <2>2, <3>2 DEF Exists
    <2> QED
      BY <2>1, <2>2
  <1> QED
    BY <1>8, <1>9, <1>10, NoneReadyNext DEF Orderly, Births


\* what a quota decision and a new target have in common: the rows of S end, and the
\* rows inserted for them, their heirs, may be paused like them
HeirStep(S, heir, alternate, new, rows) ==
  /\ S \in SUBSET {j \in Job : /\ job[j].state \in Waiting \cup {"paused"}
                               /\ attr[j].lane \in Lane}
  /\ heir \in Heirs(S) /\ new = {heir[j] : j \in S}
  /\ attr' = HeirAttr(S, heir, alternate) /\ winner' = winner /\ lock' = lock
  /\ \A k \in new : Unlocked(attr', k)
  /\ rows = Inserted(attr', job, new, HeirPriority(S, heir)) /\ job' \in [Job -> Row]
  /\ \A k \in S : job'[k] = SupersededRow(rows[k])
  /\ \A k \in Job \ (S \cup new) : job'[k] = rows[k]
  /\ \A k \in new : Disposed(rows[k], job'[k])

LEMMA HeirStepOrderly ==
  ASSUME TypeOK, TypeOK', OrderInv, NEW alternate \in Lane,
         \E S, heir, new, rows : HeirStep(S, heir, alternate, new, rows)
  PROVE  Orderly
  <1> PICK S, heir, new, rows : HeirStep(S, heir, alternate, new, rows)
    OBVIOUS
  <1>1. /\ S \in SUBSET {j \in Job : /\ job[j].state \in Waiting \cup {"paused"}
                                     /\ attr[j].lane \in Lane}
        /\ heir \in Heirs(S) /\ new = {heir[j] : j \in S}
        /\ attr' = HeirAttr(S, heir, alternate) /\ winner' = winner /\ lock' = lock
        /\ \A k \in new : Unlocked(attr', k)
        /\ rows = Inserted(attr', job, new, HeirPriority(S, heir)) /\ job' \in [Job -> Row]
        /\ \A k \in S : job'[k] = SupersededRow(rows[k])
        /\ \A k \in Job \ (S \cup new) : job'[k] = rows[k]
        /\ \A k \in new : Disposed(rows[k], job'[k])
    BY DEF HeirStep
  <1> QED
    BY <1>1, HeirsOrderly

LEMMA DecideContinueIs ==
  ASSUME TypeOK, TypeOK', NEW l \in Lane, NEW s \in Scope, NEW alternate \in Lane,
         DecideContinue(l, s, alternate)
  PROVE  \E S, heir, new, rows : HeirStep(S, heir, alternate, new, rows)
  <1> DEFINE S == {j \in quota[l].owned \cap PausedFor("quota") \cap JobsOf(s) :
                     attr[j].lane = l}
  <1>1. S \in SUBSET {j \in Job : /\ job[j].state \in Waiting \cup {"paused"}
                                  /\ attr[j].lane \in Lane}
    BY DEF PausedFor, JobsOf
  <1>2. PICK heir \in Heirs(S) :
          LET new == {heir[j] : j \in S}
              as == HeirAttr(S, heir, alternate)
              rows == Inserted(as, job, new, HeirPriority(S, heir))
          IN /\ Insertable(as, new)
             /\ attr' = as
             /\ job' = [j \in Job |-> IF j \in S THEN SupersededRow(rows[j]) ELSE rows[j]]
    BY DEF DecideContinue
  <1> HIDE DEF S
  <1> PICK new : new = {heir[j] : j \in S}
    OBVIOUS
  <1>3. attr' = HeirAttr(S, heir, alternate) /\ \A k \in new : Unlocked(attr', k)
    BY <1>2 DEF Insertable
  <1> PICK rows : rows = Inserted(attr', job, new, HeirPriority(S, heir))
    OBVIOUS
  <1>4. job' = [j \in Job |-> IF j \in S THEN SupersededRow(rows[j]) ELSE rows[j]]
    BY <1>2
  <1>5. new \in SUBSET {k \in Job : ~Exists(k)}
    <2>1. S \in SUBSET Job
      BY <1>1
    <2> QED
      BY <2>1, HeirsType
  <1>6. \A k \in new : k \notin S
    BY <1>1, <1>5 DEF Exists, Waiting
  <1>7. /\ \A k \in S : job'[k] = SupersededRow(rows[k])
        /\ \A k \in Job \ (S \cup new) : job'[k] = rows[k]
        /\ \A k \in new : Disposed(rows[k], job'[k])
    BY <1>1, <1>4, <1>5, <1>6 DEF Disposed
  <1>8. winner' = winner /\ lock' = lock /\ job' \in [Job -> Row]
    BY DEF DecideContinue, TypeOK
  <1>9. HeirStep(S, heir, alternate, new, rows)
    BY <1>1, <1>3, <1>7, <1>8 DEF HeirStep
  <1> QED
    BY <1>9

LEMMA RetargetIs ==
  ASSUME TypeOK, TypeOK', NEW alternate \in Lane, NEW available \in BOOLEAN,
         RetargetRemaining(alternate, available)
  PROVE  \E S, heir, new, rows : HeirStep(S, heir, alternate, new, rows)
  <1> DEFINE S == {j \in Job : /\ job[j].state \in Waiting \cup {"paused"}
                               /\ attr[j].lane \in Lane \ {alternate}
                               /\ OperationOf[attr[j].lane] = OperationOf[alternate]}
  <1>1. S \in SUBSET {j \in Job : /\ job[j].state \in Waiting \cup {"paused"}
                                  /\ attr[j].lane \in Lane}
    OBVIOUS
  <1>2. PICK heir \in Heirs(S) :
          LET new == {heir[j] : j \in S}
              as == HeirAttr(S, heir, alternate)
              rows == Inserted(as, job, new, HeirPriority(S, heir))
          IN /\ Insertable(as, new)
             /\ attr' = as
             /\ job' = [k \in Job |->
                  IF k \in S THEN SupersededRow(rows[k])
                  ELSE IF k \in new
                       THEN DisposedRow(job[CHOOSE j \in S : heir[j] = k], rows[k], available)
                       ELSE rows[k]]
    BY DEF RetargetRemaining
  <1> HIDE DEF S
  <1> PICK new : new = {heir[j] : j \in S}
    OBVIOUS
  <1>3. attr' = HeirAttr(S, heir, alternate) /\ \A k \in new : Unlocked(attr', k)
    BY <1>2 DEF Insertable
  <1> PICK rows : rows = Inserted(attr', job, new, HeirPriority(S, heir))
    OBVIOUS
  <1>4. job' = [k \in Job |->
                  IF k \in S THEN SupersededRow(rows[k])
                  ELSE IF k \in new
                       THEN DisposedRow(job[CHOOSE j \in S : heir[j] = k], rows[k], available)
                       ELSE rows[k]]
    BY <1>2
  <1>5. new \in SUBSET {k \in Job : ~Exists(k)}
    <2>1. S \in SUBSET Job
      BY <1>1
    <2> QED
      BY <2>1, HeirsType
  <1>6. \A k \in new : k \notin S
    BY <1>1, <1>5 DEF Exists, Waiting
  <1>7. /\ \A k \in S : job'[k] = SupersededRow(rows[k])
        /\ \A k \in Job \ (S \cup new) : job'[k] = rows[k]
    BY <1>1, <1>4, <1>5, <1>6
  <1>8. \A k \in new : Disposed(rows[k], job'[k])
    <2> TAKE k \in new
    <2> PICK original : original = job[CHOOSE j \in S : heir[j] = k]
      OBVIOUS
    <2>1. job'[k] = DisposedRow(original, rows[k], available)
      BY <1>4, <1>5, <1>6
    <2> QED
      BY <2>1 DEF DisposedRow, Disposed
  <1>9. winner' = winner /\ lock' = lock /\ job' \in [Job -> Row]
    BY DEF RetargetRemaining, TypeOK
  <1>10. HeirStep(S, heir, alternate, new, rows)
    BY <1>1, <1>3, <1>7, <1>8, <1>9 DEF HeirStep
  <1> QED
    BY <1>10

LEMMA PlainOrderly ==
  ASSUME Plain
  PROVE  Orderly
  BY DEF Plain, Orderly, Births

\* the steps that insert rows
Inserts ==
  \/ \E batch \in Batches : Enqueue(batch)
  \/ \E j \in Job : \E a : Commit(j, a)
  \/ \E alternate \in Lane : \E S, heir, new, rows : HeirStep(S, heir, alternate, new, rows)

LEMMA StepIs ==
  ASSUME TypeOK, TypeOK', OrderInv, [Next]_vars
  PROVE  Plain \/ Inserts
  <1>1. CASE Caller
    BY <1>1 DEF Caller, Inserts
  <1>2. CASE Worker
    <2>1. ASSUME NEW j \in Job, NEW due, ClaimNext(j, due) PROVE Plain
      BY <2>1, ClaimPlain
    <2>2. ASSUME NEW due, Poll(due) PROVE Plain
      BY <2>2, ClaimPlain
    <2>3. ASSUME NEW j \in Job, NEW a \in inflight[j],
                 MarkRunning(j, a) \/ Heartbeat(j, a) \/ Abandon(j, a)
          PROVE  Plain
      BY <2>3, ExecutionPlain
    <2>4. ASSUME NEW j \in Job, NEW a \in inflight[j], Commit(j, a) PROVE Inserts
      BY <2>4 DEF Inserts
    <2>5. ASSUME NEW j \in Job, NEW a \in inflight[j], NEW c \in Failures,
                 RecordFailure(j, a, c)
          PROVE  Plain
      BY <2>5, FailurePlain
    <2> QED
      BY <1>2, <2>1, <2>2, <2>3, <2>4, <2>5 DEF Worker
  <1>3. CASE Shutdown
    <2>1. ASSUME NEW j \in Job, NEW a \in inflight[j], RequeueOwned(j, a) PROVE Plain
      BY <2>1, ExecutionPlain
    <2> QED
      BY <1>3, <2>1, ClockPlain DEF Shutdown
  <1>4. CASE Tick
    BY <1>4, ClockPlain
  <1>5. CASE JobControl \/ Integrity \/ Reviewer
    BY <1>5, OperatorPlain
  <1>6. CASE ProjectControl \/ Remediation
    BY <1>6, RemediationPlain
  <1>7. CASE QuotaDecision
    <2>1. ASSUME NEW l \in Lane, NEW s \in Scope, DecideWait(l, s) PROVE Plain
      <3>1. UNCHANGED <<attr, job, winner>>
        BY <2>1 DEF DecideWait
      <3> QED
        BY <3>1, StutterPlain
    <2> QED
      BY <1>7, <2>1, DecideContinueIs DEF QuotaDecision, Inserts
  <1>8. CASE Settings
    BY <1>8, RetargetIs DEF Settings, Inserts
  <1>9. CASE Export
    BY <1>9, ExportPlain
  <1>10. CASE UNCHANGED vars
    <2>1. UNCHANGED <<attr, job, winner>>
      BY <1>10 DEF vars
    <2> QED
      BY <2>1, StutterPlain
  <1> QED
    BY <1>1, <1>2, <1>3, <1>4, <1>5, <1>6, <1>7, <1>8, <1>9, <1>10 DEF Next

LEMMA StepOrderly ==
  ASSUME TypeOK, TypeOK', OrderInv, [Next]_vars
  PROVE  Orderly
  BY StepIs, PlainOrderly, EnqueueOrderly, CommitOrderly, HeirStepOrderly DEF Inserts

LEMMA OrderInit ==
  ASSUME Init
  PROVE  OrderInv
  <1>1. \A k \in Job : job[k] = NoRow /\ winner[k] = 0 /\ attr[k].role = k
                       /\ attr[k].lane = Plan[k].lane
    BY DEF Init
  <1>2. /\ NoRow.state = "absent" /\ NoRow.lease = NoLease /\ NoRow.resume = NoResume
    BY DEF NoRow
  <1>3. \A k \in Job : Fits(attr, job, winner, k)
    BY <1>1, <1>2, PlanIsWellFormed
       DEF Fits, RowFits, WinnerFits, IsGate, GateOf, Active, GateStates, NoResume
  <1> QED
    BY <1>1, <1>2, <1>3 DEF OrderInv, BlockedAreUnlocked, NoReadyJobLeftBlocked, Promotable

LEMMA OrderStep ==
  ASSUME TypeOK, TypeOK', OrderInv, [Next]_vars
  PROVE  OrderInv'
  <1>1. Orderly
    BY StepOrderly
  <1>2. \A k \in Job : Fits(attr', job', winner', k)
    BY <1>1 DEF Orderly, Sound
  <1>3. CASE Export
    BY <1>1, <1>2, <1>3, ExportPlain DEF OrderInv, Orderly
  <1>4. CASE ~Export
    <2>1. lock' = lock
      BY <1>4, LockWrites
    <2>2. \A k \in Job : job'[k].state = "blocked" => Unlocked(attr', k)
      BY <1>1 DEF Orderly, Sound
    <2>3. BlockedAreUnlocked'
      BY <2>1, <2>2 DEF BlockedAreUnlocked, Unlocked, LockOf, ScopeOf
    <2> QED
      BY <1>1, <1>2, <2>3 DEF OrderInv, Orderly
  <1> QED
    BY <1>3, <1>4


\* The result of a job that succeeded is that of its newest claim, committed once.
THEOREM OneWinner == Spec => []SingleWinner
  <1> DEFINE Inv == OrderInv
  <1>1. Init => Inv
    BY OrderInit
  <1>2. ASSUME TypeOK, TypeOK', Inv, [Next]_vars PROVE Inv'
    BY <1>2, OrderStep
  <1>3. Inv => SingleWinner
    BY DEF OrderInv, Fits, WinnerFits, SingleWinner
  <1> QED
    BY <1>1, <1>2, <1>3, TypeCorrect, PTL DEF Spec

\* No unlocked job is left waiting for dependencies that have all succeeded.
THEOREM ReadyJobsWake == Spec => []NoReadyJobLeftBlocked
  <1> DEFINE Inv == OrderInv
  <1>1. Init => Inv
    BY OrderInit
  <1>2. ASSUME TypeOK, TypeOK', Inv, [Next]_vars PROVE Inv'
    BY <1>2, OrderStep
  <1>3. Inv => NoReadyJobLeftBlocked
    BY DEF OrderInv
  <1> QED
    BY <1>1, <1>2, <1>3, TypeCorrect, PTL DEF Spec

-----------------------------------------------------------------------------
(***************************************************************************)
(* Dependencies before the run.  A storage stop pauses what is paused      *)
(* already and forgets the state it would have come back to, so the result *)
(* is for executions that report no storage failure: then no pause is      *)
(* nested, and a row that is queued, runs, or comes back to the queue has  *)
(* dependencies that succeeded.                                            *)
(***************************************************************************)
RunInv ==
  /\ ~storage.active
  /\ \A k \in Job : /\ Unnested(job[k])
                    /\ Needs(job[k]) => DependenciesSucceeded(attr, job, k)

LEMMA RunStep ==
  ASSUME Failures \cap StorageFailures = {},
         TypeOK, TypeOK', OrderInv, RunInv, [Next]_vars
  PROVE  RunInv'
  <1>1. ~storage'.active
    BY StorageWrites DEF RunInv, NoStorage
  <1>2. ASSUME NEW k \in Job
        PROVE  /\ Unnested(job'[k])
               /\ Needs(job'[k]) => DependenciesSucceeded(attr', job', k)
    <2>1. Sound(attr', job', k)
      BY StepOrderly DEF Orderly
    <2>2. Unnested(job[k])
      BY DEF RunInv
    <2>3. ASSUME Needs(job[k]) PROVE DependenciesSucceeded(attr', job', k)
      <3>1. Exists(k)
        BY <2>3 DEF Needs, Exists, Active
      <3>2. attr'[k] = attr[k] /\ attr[k].deps \subseteq Job
        BY <2>1, <3>1 DEF Sound, TypeOK, Attr
      <3>3. DependenciesSucceeded(attr, job, k)
        BY <2>3 DEF RunInv
      <3>4. \A d \in Job : job[d].state = "succeeded" => job'[d].state = "succeeded"
        BY StepOrderly DEF Orderly, Sound
      <3> QED
        BY <3>2, <3>3, <3>4 DEF DependenciesSucceeded
    <2> QED
      BY <1>1, <2>1, <2>2, <2>3 DEF Sound
  <1>3. /\ \A k \in Job : Unnested(job'[k])
        /\ \A k \in Job : Needs(job'[k]) => DependenciesSucceeded(attr', job', k)
    BY <1>2
  <1> QED
    BY <1>1, <1>3 DEF RunInv, DependenciesSucceeded

\* Unless a disk fails, a job is claimed only after everything it depends on succeeded,
\* through every pause, restore, retry, recovery and change of target.
THEOREM DependenciesFirst ==
  ASSUME Failures \cap StorageFailures = {}
  PROVE  Spec => []DependenciesBeforeRun
  <1> DEFINE Inv == OrderInv /\ RunInv
  <1>1. Init => Inv
    <2>1. Init => RunInv
      BY DEF Init, RunInv, NoStorage, NoRow, NoResume, Unnested, Needs, Active
    <2> QED
      BY <2>1, OrderInit
  <1>2. ASSUME TypeOK, TypeOK', Inv, [Next]_vars PROVE Inv'
    BY <1>2, OrderStep, RunStep
  <1>3. Inv => DependenciesBeforeRun
    BY DEF RunInv, Needs, DependenciesBeforeRun
  <1> QED
    BY <1>1, <1>2, <1>3, TypeCorrect, PTL DEF Spec


-----------------------------------------------------------------------------
(***************************************************************************)
(* One row at a time.  A spare identifier stands in for the planned job of *)
(* its role, which has a row; no two rows of a role are alive.             *)
(***************************************************************************)
Live(k) == Exists(k) /\ job[k].state \notin {"canceled", "failed"}

RoleInv ==
  /\ \A k \in Job : ~Exists(k) => attr[k].role = k
  /\ \A k \in Job : Exists(k) => Exists(attr[k].role) /\ attr[k].role \notin Spare
  /\ \A j, k \in Job : Live(j) /\ Live(k) /\ attr[j].role = attr[k].role => j = k

LEMMA RoleStep ==
  ASSUME TypeOK, TypeOK', RoleInv, Orderly, TerminalStands
  PROVE  RoleInv'
  <1>1. PICK heir : \A k \in Job : ~Exists(k) =>
          \/ job'[k].state = "absent" /\ attr'[k] = attr[k]
          \/ Planned(k)
          \/ \E o \in Job : heir[o] = k /\ Succeeds(k, o)
    BY DEF Orderly, Births
  <1> DEFINE BornOf(k, o) == heir[o] = k /\ Succeeds(k, o)
  <1>2. \A k \in Job : attr[k].role \in Job /\ attr'[k].role \in Job
    BY DEF TypeOK, Attr
  <1>3. \A k \in Job : Exists(k) => attr'[k] = attr[k] /\ Exists(k)'
    BY DEF Orderly, Sound, Exists
  <1>4. ASSUME NEW k \in Job, Exists(k), Live(k)' PROVE Live(k)
    BY <1>4 DEF TerminalStands, Live, Exists, Terminal
  <1>5. ASSUME NEW k \in Job, NEW o \in Job, BornOf(k, o)
        PROVE  Live(o) /\ ~Live(o)' /\ Exists(o) /\ attr'[k].role = attr[o].role
    BY <1>5 DEF Succeeds, Live, Exists, Waiting
  <1>6. ASSUME NEW k \in Job, ~Exists(k), Exists(k)'
        PROVE  \/ Planned(k) /\ attr'[k].role = k /\ k \notin Spare
               \/ \E o \in Job : BornOf(k, o)
    <2>1. Planned(k) \/ \E o \in Job : BornOf(k, o)
      BY <1>1, <1>6 DEF Exists
    <2> QED
      BY <1>6, <2>1 DEF Planned, RoleInv
  <1> HIDE DEF BornOf
  <1>7. ASSUME NEW k \in Job, ~Exists(k)' PROVE attr'[k].role = k
    <2>1. ~Exists(k)
      BY <1>3, <1>7
    <2>2. attr'[k] = attr[k] \/ attr'[k].role = attr[k].role
      BY <1>1, <1>7, <2>1 DEF Planned, Succeeds, Exists
    <2> QED
      BY <2>1, <2>2 DEF RoleInv
  <1>8. ASSUME NEW k \in Job, Exists(k)'
        PROVE  Exists(attr[k].role)' /\ attr'[k].role \notin Spare
    <2>1. CASE Exists(k)
      BY <1>2, <1>3, <2>1 DEF RoleInv
    <2>2. CASE ~Exists(k)
      BY <1>2, <1>3, <1>5, <1>6, <1>8, <2>2 DEF RoleInv
    <2> QED
      BY <2>1, <2>2
  <1>9. ASSUME NEW j \in Job, NEW k \in Job, Live(j)', Live(k)', attr'[j].role = attr'[k].role
        PROVE  j = k
    <2>1. Exists(j)' /\ Exists(k)'
      BY <1>9 DEF Live
    <2>2. ASSUME NEW x \in Job, NEW y \in Job, Live(x)', Live(y)', attr'[x].role = attr'[y].role,
                 Exists(x), ~Exists(y)
          PROVE  FALSE
      <3>1. Live(x) /\ attr'[x] = attr[x] /\ Exists(attr[x].role)
        BY <1>3, <1>4, <2>2 DEF RoleInv
      <3>2. Exists(y)'
        BY <2>2 DEF Live
      <3>3. CASE attr'[y].role = y
        BY <2>2, <3>1, <3>3
      <3>4. ASSUME NEW o \in Job, BornOf(y, o) PROVE FALSE
        <4>1. o = x
          BY <1>5, <2>2, <3>1, <3>4 DEF RoleInv
        <4> QED
          BY <1>5, <2>2, <3>4, <4>1
      <3> QED
        BY <1>6, <2>2, <3>2, <3>3, <3>4
    <2>3. CASE Exists(j) /\ Exists(k)
      BY <1>3, <1>4, <1>9, <2>3 DEF RoleInv
    <2>4. CASE ~Exists(j) /\ ~Exists(k)
      <3>1. ASSUME NEW x \in Job, NEW y \in Job, attr'[x].role = attr'[y].role, ~Exists(y),
                   attr'[y].role = y, NEW o \in Job, BornOf(x, o)
            PROVE  FALSE
        BY <1>5, <3>1 DEF RoleInv
      <3>2. ASSUME NEW o \in Job, NEW p \in Job, BornOf(j, o), BornOf(k, p) PROVE j = k
        <4>1. o = p
          BY <1>5, <1>9, <3>2 DEF RoleInv
        <4> QED
          BY <3>2, <4>1 DEF BornOf
      <3> QED
        BY <1>6, <1>9, <2>1, <2>4, <3>1, <3>2
    <2> QED
      BY <1>9, <2>2, <2>3, <2>4
  <1> QED
    BY <1>7, <1>8, <1>9 DEF RoleInv

\* The work of a planned job is carried by one row at a time, however often quota
\* decisions and changes of the provider replace it.
THEOREM OneLiveRow == Spec => []OneLiveRowPerRole
  <1> DEFINE Inv == OrderInv /\ RoleInv
  <1>1. Init => Inv
    <2>1. Init => RoleInv
      BY DEF Init, RoleInv, Exists, NoRow, Live
    <2> QED
      BY <2>1, OrderInit
  <1>2. ASSUME TypeOK, TypeOK', Inv, [Next]_vars PROVE Inv'
    <2>1. Orderly /\ TerminalStands
      BY <1>2, StepOrderly, StepTerminal
    <2> QED
      BY <1>2, <2>1, OrderStep, RoleStep
  <1>3. Inv => OneLiveRowPerRole
    BY DEF RoleInv, Live, OneLiveRowPerRole
  <1> QED
    BY <1>1, <1>2, <1>3, TypeCorrect, PTL DEF Spec


-----------------------------------------------------------------------------
(***************************************************************************)
(* Storable rows.  A human gate finds what it depends on succeeded when it *)
(* is inserted (GatesAreReady), and success is final; so it is never left  *)
(* blocked, where the next pause of its project would fail as a whole.     *)
(***************************************************************************)
GateInv ==
  \A k \in Job : Exists(k) /\ IsGate(attr, k) => DependenciesSucceeded(attr, job, k)

LEMMA GateStep ==
  ASSUME TypeOK, TypeOK', OrderInv, RoleInv, GateInv, Orderly
  PROVE  GateInv'
  <1>1. PICK heir : \A k \in Job : ~Exists(k) =>
          \/ job'[k].state = "absent" /\ attr'[k] = attr[k]
          \/ Planned(k)
          \/ \E o \in Job : heir[o] = k /\ Succeeds(k, o)
    BY DEF Orderly, Births
  <1>2. /\ attr \in [Job -> Attr] /\ attr' \in [Job -> Attr]
        /\ \A k \in Job : attr[k].role \in Job /\ attr[k].deps \subseteq Job
    BY DEF TypeOK, Attr
  <1> SUFFICES ASSUME NEW k \in Job, job'[k].state # "absent", IsGate(attr', k)
               PROVE  DependenciesSucceeded(attr', job', k)
    BY DEF GateInv, Exists, IsGate, GateOf, DependenciesSucceeded
  <1>3. CASE Exists(k)
    <2>1. attr'[k] = attr[k] /\ \A d \in Job : job[d].state = "succeeded" => job'[d].state = "succeeded"
      BY <1>3 DEF Orderly, Sound
    <2>2. IsGate(attr, k)
      BY <2>1 DEF IsGate, GateOf
    <2>3. DependenciesSucceeded(attr, job, k)
      BY <1>3, <2>2 DEF GateInv
    <2> QED
      BY <1>2, <2>1, <2>3 DEF DependenciesSucceeded
  <1>4. CASE ~Exists(k) /\ Planned(k)
    <2>1. attr'[k].role = k /\ Plan[k].gate # "none"
      BY <1>4 DEF Planned, RoleInv, IsGate, GateOf
    <2>2. ASSUME NEW batch \in Batches, k \in batch, attr'[k].deps = Plan[k].deps
          PROVE  DependenciesSucceeded(attr', job', k)
      BY <2>1, <2>2, GatesAreReady DEF DependenciesSucceeded
    <2>3. ASSUME NEW j \in Job, k \in Plan[attr[j].role].follow, job'[j].state = "succeeded",
                 attr'[k].deps = {IF d = attr[j].role THEN j ELSE d : d \in Plan[k].deps}
          PROVE  DependenciesSucceeded(attr', job', k)
      <3>1. Plan[k].deps \subseteq {attr[j].role}
        BY <1>2, <2>1, <2>3, GatesAreReady
      <3>2. attr'[k].deps \subseteq {j}
        BY <2>3, <3>1
      <3> QED
        BY <2>3, <3>2 DEF DependenciesSucceeded
    <2> QED
      BY <1>4, <2>2, <2>3 DEF Planned
  <1>5. ASSUME NEW o \in Job, Succeeds(k, o) PROVE FALSE
    <2>1. ~IsGate(attr, o) /\ attr'[k].role = attr[o].role
      BY <1>5, TargetIsNoGate DEF Succeeds
    <2> QED
      BY <2>1 DEF IsGate, GateOf
  <1> QED
    BY <1>1, <1>3, <1>4, <1>5

\* No transaction leaves a row that the schema would refuse to write next: leases,
\* states to come back to and human gates stay with the states they belong to.
THEOREM RowsStayStorable == Spec => []RowsStorable
  <1> DEFINE Inv == OrderInv /\ RoleInv /\ GateInv
  <1>1. Init => Inv
    <2>1. Init => RoleInv /\ GateInv
      BY DEF Init, RoleInv, GateInv, Exists, NoRow, Live
    <2> QED
      BY <2>1, OrderInit
  <1>2. ASSUME TypeOK, TypeOK', Inv, [Next]_vars PROVE Inv'
    <2>1. Orderly /\ TerminalStands
      BY <1>2, StepOrderly, StepTerminal
    <2> QED
      BY <1>2, <2>1, OrderStep, RoleStep, GateStep
  <1>3. ASSUME TypeOK, Inv PROVE RowsStorable
    <2> SUFFICES ASSUME NEW j \in Job
                 PROVE  /\ job[j].lease # NoLease <=> job[j].state \in Active
                        /\ job[j].resume # NoResume => job[j].state = "paused"
                        /\ IsGate(attr, j) => job[j].state \in GateStates \ {"blocked"}
      BY DEF RowsStorable
    <2>1. RowFits(IsGate(attr, j), job[j])
      BY <1>3 DEF OrderInv, Fits
    <2>2. IsGate(attr, j) => job[j].state # "blocked"
      <3> SUFFICES ASSUME IsGate(attr, j), job[j].state = "blocked" PROVE FALSE
        OBVIOUS
      <3>1. Unlocked(attr, j) /\ DependenciesSucceeded(attr, job, j)
        BY <1>3 DEF OrderInv, BlockedAreUnlocked, GateInv, Exists
      <3> QED
        BY <1>3, <3>1 DEF OrderInv, NoReadyJobLeftBlocked, Promotable
    <2> QED
      BY <2>1, <2>2 DEF RowFits, NoLease
  <1> QED
    BY <1>1, <1>2, <1>3, TypeCorrect, PTL DEF Spec

-----------------------------------------------------------------------------
(***************************************************************************)
(* Incidents own what they pause.  Two things break it: to resume an       *)
(* incident while a storage stop holds some of its rows, and to move the   *)
(* remaining work to a new target while incidents hold rows.  Undisturbed  *)
(* rules out these two and nothing else: disks may fail, targets change,   *)
(* and incidents of all kinds open, take in rows, overlap and close.       *)
(***************************************************************************)
IncidentReasons == {"quota", "credentials", "storage"}

\* a storage stop holds some of these rows
StopHolds(S) == \E k \in S : job[k].state = "paused" /\ job[k].reason = "storage"

Undisturbed ==
  /\ \A l \in Lane : ResumeQuota(l) => ~StopHolds(quota[l].owned)
  /\ \A p \in Provider : ResumeCredentials(p) => ~StopHolds(cred[p].owned)
  /\ Settings => \A k \in Job : job[k].state = "paused" /\ job'[k] # job[k] =>
                     job[k].reason \notin IncidentReasons

\* the open incident that ends pauses for this reason owns row k
OwedTo(why, k) ==
  /\ why = "quota" =>
       /\ attr[k].lane \in Lane
       /\ quota[attr[k].lane].open /\ k \in quota[attr[k].lane].owned
  /\ why = "credentials" =>
       /\ attr[k].lane \in Lane
       /\ cred[ProviderOf[attr[k].lane]].open /\ k \in cred[ProviderOf[attr[k].lane]].owned
  /\ why = "storage" => storage.active /\ k \in storage.owned

(***************************************************************************)
(* A paused row is owned by the incident it is paused for; the reason it   *)
(* will come back with is an incident's only if a storage stop found it    *)
(* paused, and then that incident owns it too; and a row that waits or     *)
(* runs has not kept the reason of an incident.                            *)
(***************************************************************************)
OwnerFits(k) ==
  /\ job[k].state = "paused" => OwedTo(job[k].reason, k)
  /\ job[k].state \in Waiting \cup Active => job[k].reason \notin IncidentReasons
  /\ (job[k].state = "paused" /\ job[k].resume.reason \in IncidentReasons) =>
       /\ job[k].reason = "storage" /\ job[k].resume.reason # "storage"
       /\ job[k].resume.state = "paused" /\ OwedTo(job[k].resume.reason, k)
OwnerInv == \A k \in Job : OwnerFits(k)

\* no incident is concerned with such a row
Free(r) ==
  r.state \in Waiting \cup Active \cup {"paused"} =>
    r.reason \notin IncidentReasons /\ r.resume.reason \notin IncidentReasons
Alike(r, s) == s.state = r.state /\ s.reason = r.reason /\ s.resume = r.resume

\* incidents stay open and own no fewer rows
Grown ==
  /\ \A l \in Lane : quota[l].open => quota'[l].open /\ quota[l].owned \subseteq quota'[l].owned
  /\ \A p \in Provider : cred[p].open => cred'[p].open /\ cred[p].owned \subseteq cred'[p].owned
  /\ storage.active => storage'.active /\ storage.owned \subseteq storage'.owned

LEMMA OwedStays ==
  ASSUME Grown, NEW k \in Job, attr'[k] = attr[k], NEW why, OwedTo(why, k)
  PROVE  OwedTo(why, k)'
  BY LanesHaveProviders DEF Grown, OwedTo

LEMMA FreeFits ==
  ASSUME NEW k \in Job, Free(job'[k])
  PROVE  OwnerFits(k)'
  BY DEF Free, OwnerFits, OwedTo, IncidentReasons

LEMMA AlikeFits ==
  ASSUME Grown, NEW k \in Job, OwnerFits(k), Alike(job[k], job'[k]),
         Exists(k) => attr'[k] = attr[k]
  PROVE  OwnerFits(k)'
  <1> PICK r : r = job[k]
    OBVIOUS
  <1>1. /\ job'[k].state = r.state /\ job'[k].reason = r.reason /\ job'[k].resume = r.resume
    BY DEF Alike
  <1>2. r.state = "paused" => attr'[k] = attr[k]
    BY DEF Exists
  <1>3. r.state = "paused" => OwedTo(r.reason, k)'
    BY <1>2, OwedStays DEF OwnerFits
  <1>4. (r.state = "paused" /\ r.resume.reason \in IncidentReasons) => OwedTo(r.resume.reason, k)'
    BY <1>2, OwedStays DEF OwnerFits
  <1> QED
    BY <1>1, <1>3, <1>4 DEF OwnerFits, OwedTo

LEMMA StepFits ==
  ASSUME OwnerInv, Grown, \A k \in Job : Exists(k) => attr'[k] = attr[k],
         \A k \in Job : Free(job'[k]) \/ Alike(job[k], job'[k])
  PROVE  OwnerInv'
  <1>1. ASSUME NEW k \in Job PROVE OwnerFits(k)'
    BY <1>1, FreeFits, AlikeFits DEF OwnerInv
  <1> QED
    BY <1>1 DEF OwnerInv

\* a row that waits or runs may change as an execution or an operator changes it
LEMMA FreeRows ==
  ASSUME NEW r \in Row
  PROVE  /\ Alike(r, r) /\ Alike(r, AgedRow(r)) /\ \A p : Alike(r, [r EXCEPT !.priority = p])
         /\ Free(CanceledRow(r)) /\ Free(SucceededRow(r)) /\ Free(SupersededRow(r))
         /\ \A ready : Free(ReadiedRow(r, ready))
         /\ r.state = "running" => Alike(r, [r EXCEPT !.lease.ttl = LeaseTtl])
         /\ r.state = "claimed" /\ Free(r) => Free([r EXCEPT !.state = "running"])
         /\ r.state \in Active /\ Free(r) =>
              /\ \A why \in {"shutdown", "recovered"} : Free(RequeuedRow(r, why))
              /\ Free(RetriedRow(r))
              /\ \A c \in RetriedFailures \cup FinalFailures : Free(ExhaustedRow(r, c))
         /\ r.state \in Waiting \cup Active /\ Free(r) =>
              \A why \in {"operator", "asset_integrity"} : Free(PausedRow(r, why, r.reason))
         /\ r.state = "queued" /\ Free(r) => Free(ClaimedRow(r))
         /\ r.state = "paused" /\ r.resume.reason \notin IncidentReasons => Free(RestoredRow(r))
         /\ r.state = "paused" /\ Free(r) => Free([r EXCEPT !.reason = "operator"])
  <1>1. Alike(r, r) /\ \A p : Alike(r, [r EXCEPT !.priority = p])
    BY DEF Alike, Row
  <1>2. Alike(r, AgedRow(r))
    BY DEF Alike, AgedRow, Row
  <1>3. Free(CanceledRow(r)) /\ Free(SucceededRow(r)) /\ Free(SupersededRow(r))
    BY DEF CanceledRow, SucceededRow, SupersededRow, Free, Row, Waiting, Active
  <1>4. ASSUME NEW ready PROVE Free(ReadiedRow(r, ready))
    <2>1. /\ ReadiedRow(r, ready).reason \in {"none", "dependency"}
          /\ ReadiedRow(r, ready).resume.reason = "none"
      BY DEF ReadiedRow, Row, NoResume
    <2> QED
      BY <2>1 DEF Free, IncidentReasons
  <1>5. Alike(r, [r EXCEPT !.lease.ttl = LeaseTtl])
    BY DEF Alike, Row
  <1>6. ASSUME r.state = "claimed", Free(r) PROVE Free([r EXCEPT !.state = "running"])
    BY <1>6 DEF Free, Row, Active
  <1>7. ASSUME r.state \in Active, Free(r), NEW why \in {"shutdown", "recovered"}
        PROVE  Free(RequeuedRow(r, why))
    BY <1>7 DEF Free, RequeuedRow, Row, IncidentReasons
  <1>8. ASSUME r.state \in Active, Free(r) PROVE Free(RetriedRow(r))
    <2>1. RetriedRow(r).reason = "retry_delay" /\ RetriedRow(r).resume = r.resume
      BY DEF RetriedRow, RequeuedRow, Row
    <2> QED
      BY <1>8, <2>1 DEF Free, IncidentReasons
  <1>9. ASSUME r.state \in Active, Free(r), NEW c \in RetriedFailures \cup FinalFailures
        PROVE  Free(ExhaustedRow(r, c))
    <2>1. /\ ExhaustedRow(r, c).resume = r.resume
          /\ ExhaustedRow(r, c).reason = Exhausted(c).reason
      BY DEF ExhaustedRow, Row
    <2>2. Exhausted(c).reason \notin IncidentReasons
      BY DEF Exhausted, IncidentReasons, RetriedFailures, FinalFailures
    <2> QED
      BY <1>9, <2>1, <2>2 DEF Free
  <1>10. ASSUME r.state \in Waiting \cup Active, Free(r),
                NEW why \in {"operator", "asset_integrity"}
         PROVE  Free(PausedRow(r, why, r.reason))
    BY <1>10 DEF Free, PausedRow, Row, IncidentReasons
  <1>11. ASSUME r.state = "queued", Free(r) PROVE Free(ClaimedRow(r))
    <2>1. ClaimedRow(r).reason = "none" /\ ClaimedRow(r).resume = r.resume
      BY DEF ClaimedRow, Row
    <2> QED
      BY <1>11, <2>1 DEF Free, Waiting, IncidentReasons
  <1>12. ASSUME r.resume.reason \notin IncidentReasons PROVE Free(RestoredRow(r))
    BY <1>12 DEF Free, RestoredRow, Row, NoResume, IncidentReasons
  <1>13. ASSUME r.state = "paused", Free(r) PROVE Free([r EXCEPT !.reason = "operator"])
    BY <1>13 DEF Free, Row, IncidentReasons
  <1> QED
    BY <1>1, <1>2, <1>3, <1>4, <1>5, <1>6, <1>7, <1>8, <1>9, <1>10, <1>11, <1>12, <1>13

LEMMA WaitingIsFree ==
  ASSUME OrderInv, OwnerInv, NEW k \in Job, job[k].state \in Waiting \cup Active
  PROVE  Free(job[k])
  <1>1. job[k].resume = NoResume
    BY DEF OrderInv, Fits, RowFits, Waiting, Active
  <1> QED
    BY <1>1 DEF OwnerInv, OwnerFits, Free, NoResume, IncidentReasons

\* a pause that no storage stop made remembers no incident
LEMMA PausedIsPlain ==
  ASSUME OwnerInv, NEW k \in Job, job[k].state = "paused", job[k].reason # "storage"
  PROVE  job[k].resume.reason \notin IncidentReasons
  BY DEF OwnerInv, OwnerFits

LEMMA PromotedFree ==
  ASSUME NEW as, NEW rows \in [Job -> Row], NEW k \in Job,
         rows[k].state = "blocked" => Free(rows[k])
  PROVE  Promoted(as, rows)[k] = rows[k] \/ Free(Promoted(as, rows)[k])
  <1>1. CASE Promotable(as, rows, k)
    <2>1. rows[k] \in Row /\ rows[k].state = "blocked"
      BY <1>1 DEF Promotable
    <2>2. /\ Promoted(as, rows)[k].reason = "none"
          /\ Promoted(as, rows)[k].resume = rows[k].resume
      BY <1>1, <2>1 DEF Promoted, Row
    <2> QED
      BY <2>1, <2>2 DEF Free, Waiting, IncidentReasons
  <1>2. CASE ~Promotable(as, rows, k)
    BY <1>2 DEF Promoted
  <1> QED
    BY <1>1, <1>2

\* incidents take in the rows of new that are paused for them
TakenIn(rows, new) ==
  /\ \A l \in Lane :
       /\ quota[l].open => quota'[l].open
       /\ quota[l].owned \subseteq quota'[l].owned
       /\ \A k \in new : attr'[k].lane = l /\ rows[k].state = "paused" /\ rows[k].reason = "quota"
            => k \in quota'[l].owned
  /\ \A p \in Provider :
       /\ cred[p].open => cred'[p].open
       /\ cred[p].owned \subseteq cred'[p].owned
       /\ \A k \in new : (/\ attr'[k].lane \in Lane /\ ProviderOf[attr'[k].lane] = p
                          /\ rows[k].state = "paused" /\ rows[k].reason = "credentials")
            => k \in cred'[p].owned
  /\ storage' = storage

LEMMA IncidentsTakeIn ==
  ASSUME TypeOK, NEW rows, NEW new,
         \A l \in Lane : /\ quota'[l].open = QuotaWith(attr', rows, new)[l].open
                         /\ quota'[l].owned = QuotaWith(attr', rows, new)[l].owned,
         cred' = CredWith(attr', rows, new), storage' = storage
  PROVE  TakenIn(rows, new)
  <1> PICK as : as = attr'
    OBVIOUS
  <1>1. ASSUME NEW l \in Lane
        PROVE  /\ quota'[l].open = quota[l].open
               /\ quota'[l].owned = quota[l].owned \cup {k \in new :
                    as[k].lane = l /\ rows[k].state = "paused" /\ rows[k].reason = "quota"}
    <2> PICK q : q = quota[l]
      OBVIOUS
    <2> PICK taken : taken = {k \in new :
          as[k].lane = l /\ rows[k].state = "paused" /\ rows[k].reason = "quota"}
      OBVIOUS
    <2>1. QuotaWith(as, rows, new)[l] = [q EXCEPT !.owned = q.owned \cup taken]
      BY DEF QuotaWith
    <2>2. DOMAIN q = {"open", "owned", "decided"}
      BY DEF TypeOK
    <2> QED
      BY <2>1, <2>2
  <1>2. ASSUME NEW p \in Provider
        PROVE  /\ cred'[p].open = cred[p].open
               /\ cred'[p].owned = cred[p].owned \cup {k \in new :
                    /\ as[k].lane \in Lane /\ ProviderOf[as[k].lane] = p
                    /\ rows[k].state = "paused" /\ rows[k].reason = "credentials"}
    <2> PICK c : c = cred[p]
      OBVIOUS
    <2> PICK taken : taken = {k \in new :
          /\ as[k].lane \in Lane /\ ProviderOf[as[k].lane] = p
          /\ rows[k].state = "paused" /\ rows[k].reason = "credentials"}
      OBVIOUS
    <2>1. CredWith(as, rows, new)[p] = [c EXCEPT !.owned = c.owned \cup taken]
      BY DEF CredWith
    <2>2. DOMAIN c = {"open", "owned"}
      BY DEF TypeOK
    <2> QED
      BY <2>1, <2>2
  <1> QED
    BY <1>1, <1>2 DEF TakenIn

LEMMA TakenInGrows ==
  ASSUME NEW rows, NEW new, TakenIn(rows, new)
  PROVE  Grown
  BY DEF TakenIn, Grown

\* a new row is free, or paused for an incident that is open
LEMMA NewRowPaused ==
  ASSUME NEW as, NEW rows, NEW k \in Job, NEW priority \in Nat,
         NEW r, r = NewRow(as, rows, k, priority)
  PROVE  /\ r.resume.reason \notin IncidentReasons
         /\ \/ r.reason \notin IncidentReasons
            \/ r.reason = "credentials" /\ CredOpen(as, k) /\ r.state = "paused"
            \/ r.reason = "quota" /\ QuotaOpen(as, k) /\ r.state = "paused"
  <1> DEFINE fresh == [NoRow EXCEPT !.priority = priority]
  <1> PICK i : i = InitialRow(as, rows, k, priority)
    OBVIOUS
  <1>1. fresh \in Row /\ fresh.resume = NoResume /\ fresh.reason = "none"
    BY NoRowType DEF NoRow, Row
  <1>2. \/ i = [fresh EXCEPT !.state = "blocked", !.reason = "dependency"]
        \/ \E to \in {"waiting_review", "queued"} : i = [fresh EXCEPT !.state = to]
    BY DEF InitialRow
  <1> HIDE DEF fresh
  <1>3. /\ i.resume = NoResume /\ i.reason \in {"none", "dependency"}
        /\ DOMAIN i = {"state", "reason", "resume", "lease", "retry", "attempts", "autoRetry",
                       "priority"}
    <2>1. DOMAIN fresh = {"state", "reason", "resume", "lease", "retry", "attempts", "autoRetry",
                          "priority"}
      BY <1>1 DEF Row
    <2>2. CASE i = [fresh EXCEPT !.state = "blocked", !.reason = "dependency"]
      BY <1>1, <2>1, <2>2
    <2>3. ASSUME NEW to, i = [fresh EXCEPT !.state = to]
          PROVE  i.resume = NoResume /\ i.reason = "none" /\ DOMAIN i = DOMAIN fresh
      BY <1>1, <2>1, <2>3
    <2> QED
      BY <1>2, <2>1, <2>2, <2>3
  <1>4. CASE r = i
    <2>1. NoResume.reason = "none"
      BY DEF NoResume
    <2>2. r.resume.reason = "none" /\ r.reason \in {"none", "dependency"}
      BY <1>3, <1>4, <2>1
    <2> QED
      BY <2>2 DEF IncidentReasons
  <1>5. ASSUME NEW why, r = PausedRow(i, why, i.reason)
        PROVE  r.reason = why /\ r.state = "paused" /\ r.resume.reason \notin IncidentReasons
    <2> PICK reason : reason = i.reason
      OBVIOUS
    <2> PICK resume : resume = [state |-> Resumable(i.state), reason |-> reason]
      OBVIOUS
    <2>1. r = [i EXCEPT !.state = "paused", !.reason = why, !.lease = NoLease,
                        !.resume = resume]
      BY <1>5 DEF PausedRow
    <2>2. r.reason = why /\ r.state = "paused" /\ r.resume = resume
      BY <1>3, <2>1
    <2>3. resume.reason = reason /\ reason \in {"none", "dependency"}
      BY <1>3
    <2> QED
      BY <2>2, <2>3 DEF IncidentReasons
  <1> QED
    BY <1>4, <1>5 DEF NewRow

LEMMA NewRowFits ==
  ASSUME NEW rows, NEW new \in SUBSET Job, TakenIn(rows, new), NEW k \in new,
         NEW priority \in Nat, rows[k] = NewRow(attr', job, k, priority),
         job'[k] = rows[k]
  PROVE  OwnerFits(k)'
  <1> PICK r : r = rows[k]
    OBVIOUS
  <1> PICK as : as = attr'
    OBVIOUS
  <1>1. /\ r.resume.reason \notin IncidentReasons
        /\ \/ r.reason \notin IncidentReasons
           \/ r.reason = "credentials" /\ CredOpen(as, k) /\ r.state = "paused"
           \/ r.reason = "quota" /\ QuotaOpen(as, k) /\ r.state = "paused"
    BY NewRowPaused
  <1>2. CASE r.reason \notin IncidentReasons
    BY <1>1, <1>2, FreeFits DEF Free
  <1>3. CASE r.reason = "credentials" /\ CredOpen(as, k) /\ r.state = "paused"
    <2>1. /\ attr'[k].lane \in Lane /\ cred'[ProviderOf[attr'[k].lane]].open
          /\ k \in cred'[ProviderOf[attr'[k].lane]].owned
      BY <1>3, LanesHaveProviders DEF CredOpen, TakenIn
    <2> QED
      BY <1>1, <1>3, <2>1 DEF OwnerFits, OwedTo, Waiting, Active
  <1>4. CASE r.reason = "quota" /\ QuotaOpen(as, k) /\ r.state = "paused"
    <2>1. /\ attr'[k].lane \in Lane /\ quota'[attr'[k].lane].open
          /\ k \in quota'[attr'[k].lane].owned
      BY <1>4 DEF QuotaOpen, TakenIn
    <2> QED
      BY <1>1, <1>4, <2>1 DEF OwnerFits, OwedTo, Waiting, Active
  <1> QED
    BY <1>1, <1>2, <1>3, <1>4

(***************************************************************************)
(* Steps that leave the incidents as they are.                             *)
(***************************************************************************)
LEMMA QuietOwned ==
  ASSUME OwnerInv, attr' = attr, incidents' = incidents,
         \A k \in Job : Free(job'[k]) \/ Alike(job[k], job'[k])
  PROVE  OwnerInv'
  <1>1. Grown
    BY DEF Grown, incidents
  <1> QED
    BY <1>1, StepFits

LEMMA OneOwned ==
  ASSUME TypeOK, OwnerInv, NEW j \in Job, NEW r, job' = [job EXCEPT ![j] = r],
         attr' = attr, incidents' = incidents, Free(r) \/ Alike(job[j], r)
  PROVE  OwnerInv'
  <1>1. \A k \in Job : job'[k] = IF k = j THEN r ELSE job[k]
    BY DEF TypeOK
  <1>2. \A k \in Job : Free(job'[k]) \/ Alike(job[k], job'[k])
    BY <1>1 DEF Alike
  <1> QED
    BY <1>2, QuietOwned

LEMMA ExecutionOwned ==
  ASSUME TypeOK, OrderInv, OwnerInv, NEW j \in Job, NEW a,
         \/ MarkRunning(j, a) \/ Heartbeat(j, a) \/ RequeueOwned(j, a) \/ Abandon(j, a)
         \/ \E c : FailRetry(j, a, c) \/ FailFinal(j, a, c)
  PROVE  OwnerInv'
  <1>1. job[j] \in Row
    BY DEF TypeOK
  <1>2. job[j].state \in Active => Free(job[j])
    BY WaitingIsFree
  <1>3. CASE MarkRunning(j, a)
    <2>1. /\ job' = [job EXCEPT ![j].state = "running"] /\ job[j].state = "claimed"
          /\ attr' = attr /\ incidents' = incidents
      BY <1>3 DEF MarkRunning, CanMarkRunning, Owns
    <2>2. Free([job[j] EXCEPT !.state = "running"])
      BY <1>1, <1>2, <2>1, FreeRows DEF Active
    <2> QED
      BY <2>1, <2>2, OneOwned
  <1>4. CASE Heartbeat(j, a)
    <2>1. /\ job' = [job EXCEPT ![j].lease.ttl = LeaseTtl] /\ job[j].state = "running"
          /\ attr' = attr /\ incidents' = incidents
      BY <1>4 DEF Heartbeat, CanReport, Owns
    <2>2. Alike(job[j], [job[j] EXCEPT !.lease.ttl = LeaseTtl])
      BY <1>1, <2>1, FreeRows
    <2> QED
      BY <2>1, <2>2, OneOwned
  <1>5. CASE RequeueOwned(j, a)
    <2>1. /\ job' = [job EXCEPT ![j] = RequeuedRow(job[j], "shutdown")]
          /\ job[j].state \in Active /\ attr' = attr /\ incidents' = incidents
      BY <1>5 DEF RequeueOwned, Owns, Active
    <2>2. Free(RequeuedRow(job[j], "shutdown"))
      BY <1>1, <1>2, <2>1, FreeRows
    <2> QED
      BY <2>1, <2>2, OneOwned
  <1>6. CASE Abandon(j, a)
    <2>1. job' = job /\ attr' = attr /\ incidents' = incidents
      BY <1>6 DEF Abandon
    <2> QED
      BY <2>1, QuietOwned DEF Alike
  <1>7. ASSUME NEW c, FailRetry(j, a, c) PROVE OwnerInv'
    <2>1. /\ job' = [job EXCEPT ![j] = RetriedRow(job[j])]
          /\ job[j].state \in Active /\ attr' = attr /\ incidents' = incidents
      BY <1>7 DEF FailRetry, CanReport, Owns, Active
    <2>2. Free(RetriedRow(job[j]))
      BY <1>1, <1>2, <2>1, FreeRows
    <2> QED
      BY <2>1, <2>2, OneOwned
  <1>8. ASSUME NEW c, FailFinal(j, a, c) PROVE OwnerInv'
    <2>1. /\ job' = [job EXCEPT ![j] = ExhaustedRow(job[j], c)]
          /\ c \in RetriedFailures \cup FinalFailures
          /\ job[j].state \in Active /\ attr' = attr /\ incidents' = incidents
      BY <1>8 DEF FailFinal, CanReport, Owns, Active
    <2>2. Free(ExhaustedRow(job[j], c))
      BY <1>1, <1>2, <2>1, FreeRows
    <2> QED
      BY <2>1, <2>2, OneOwned
  <1> QED
    BY <1>3, <1>4, <1>5, <1>6, <1>7, <1>8

LEMMA ClockOwned ==
  ASSUME TypeOK, OrderInv, OwnerInv, Restart \/ Tick
  PROVE  OwnerInv'
  <1>1. attr' = attr /\ incidents' = incidents /\ \A k \in Job : job[k] \in Row
    BY DEF Restart, Tick, TypeOK
  <1>2. ASSUME Restart, NEW k \in Job PROVE Free(job'[k]) \/ Alike(job[k], job'[k])
    <2>1. CASE job[k].state \in Active /\ Unlocked(attr, k)
      <3>1. job'[k] = RequeuedRow(job[k], "recovered")
        BY <1>2, <2>1 DEF Restart
      <3> QED
        BY <1>1, <2>1, <3>1, WaitingIsFree, FreeRows
    <2>2. CASE ~(job[k].state \in Active /\ Unlocked(attr, k))
      BY <1>2, <2>2 DEF Restart, Alike
    <2> QED
      BY <2>1, <2>2
  <1>3. ASSUME Tick, NEW k \in Job PROVE Free(job'[k]) \/ Alike(job[k], job'[k])
    <2>1. job'[k] = AgedRow(job[k])
      BY <1>3 DEF Tick
    <2> QED
      BY <1>1, <2>1, FreeRows
  <1> QED
    BY <1>1, <1>2, <1>3, QuietOwned

LEMMA ClaimOwned ==
  ASSUME TypeOK, OrderInv, OwnerInv, NEW due, Poll(due) \/ \E j \in Job : ClaimNext(j, due)
  PROVE  OwnerInv'
  <1> PICK rows : rows = Promoted(attr, job)
    OBVIOUS
  <1>1. /\ attr' = attr /\ incidents' = incidents
        /\ job \in [Job -> Row] /\ rows \in [Job -> Row]
    BY PromotedType DEF Poll, ClaimNext, TypeOK
  <1>2. ASSUME NEW k \in Job PROVE rows[k] = job[k] \/ Free(rows[k])
    <2>1. job[k].state = "blocked" => Free(job[k])
      BY WaitingIsFree DEF Waiting
    <2> QED
      BY <1>1, <2>1, PromotedFree
  <1>3. CASE Poll(due)
    <2>1. job' = rows
      BY <1>3 DEF Poll
    <2> QED
      BY <1>1, <1>2, <2>1, QuietOwned DEF Alike
  <1>4. ASSUME NEW j \in Job, ClaimNext(j, due) PROVE OwnerInv'
    <2>1. job' = [rows EXCEPT ![j] = ClaimedRow(rows[j])] /\ rows[j].state = "queued"
      BY <1>4 DEF ClaimNext, Eligible
    <2>2. Free(rows[j])
      BY <1>2, <2>1, WaitingIsFree DEF Waiting
    <2>3. Free(ClaimedRow(rows[j]))
      BY <1>1, <2>1, <2>2, FreeRows
    <2>4. \A k \in Job : job'[k] = IF k = j THEN ClaimedRow(rows[k]) ELSE rows[k]
      BY <1>1, <2>1
    <2>5. \A k \in Job : Free(job'[k]) \/ Alike(job[k], job'[k])
      BY <1>2, <2>3, <2>4 DEF Alike
    <2> QED
      BY <1>1, <2>5, QuietOwned
  <1> QED
    BY <1>3, <1>4

\* restored rows that remember no incident are free
LEMMA RestoredFree ==
  ASSUME TypeOK, OrderInv, OwnerInv, NEW S, Restore(S),
         \A k \in S : /\ k \in Job /\ job[k].state = "paused"
                      /\ job[k].resume.reason \notin IncidentReasons,
         NEW k \in Job
  PROVE  (k \notin S /\ job'[k] = job[k]) \/ Free(job'[k])
  <1> PICK rows : rows = Restored(S)
    OBVIOUS
  <1>1. /\ S \in SUBSET Job /\ job \in [Job -> Row]
        /\ rows \in [Job -> Row] /\ job' = Promoted(attr, rows)
    BY RestoredType DEF Restore, TypeOK
  <1>2. CASE k \in S
    <2>1. rows[k] = RestoredRow(job[k]) /\ job[k] \in Row
      BY <1>1, <1>2 DEF Restored
    <2>2. Free(rows[k])
      BY <1>2, <2>1, FreeRows
    <2> QED
      BY <1>1, <2>2, PromotedFree
  <1>3. CASE k \notin S
    <2>1. rows[k] = job[k]
      BY <1>3 DEF Restored
    <2>2. rows[k].state = "blocked" => Free(rows[k])
      BY <2>1, WaitingIsFree DEF Waiting
    <2> QED
      BY <1>1, <1>3, <2>1, <2>2, PromotedFree
  <1> QED
    BY <1>2, <1>3

LEMMA PausedOwned ==
  ASSUME TypeOK, OrderInv, OwnerInv, NEW S,
         \A k \in S : k \in Job /\ job[k].state \in Waiting,
         job' = PausedByOperator(S), attr' = attr, incidents' = incidents
  PROVE  OwnerInv'
  <1>1. ASSUME NEW k \in Job PROVE Free(job'[k]) \/ Alike(job[k], job'[k])
    <2>1. job[k] \in Row
      BY DEF TypeOK
    <2>2. CASE k \in S
      <3>1. job'[k] = PausedRow(job[k], "operator", job[k].reason)
        BY <2>2 DEF PausedByOperator
      <3> QED
        BY <2>1, <2>2, <3>1, WaitingIsFree, FreeRows
    <2>3. CASE k \notin S
      BY <2>3 DEF PausedByOperator, Alike
    <2> QED
      BY <2>2, <2>3
  <1> QED
    BY <1>1, QuietOwned

LEMMA OperatorOwned ==
  ASSUME TypeOK, OrderInv, OwnerInv, JobControl \/ Integrity \/ Reviewer
  PROVE  OwnerInv'
  <1> SUFFICES ASSUME NEW j \in Job,
                      \/ \E p \in Priorities : SetPriority(j, p)
                      \/ Pause(j) \/ Resume(j) \/ Retry(j) \/ Cancel(j)
                      \/ PauseForIntegrity(j) \/ ReleaseIntegrityPause(j)
                      \/ CancelOwnedHumanGate(j) \/ CompleteHumanGate(j)
               PROVE  OwnerInv'
    BY DEF JobControl, Integrity, Reviewer
  <1>1. job[j] \in Row
    BY DEF TypeOK
  <1>2. ASSUME NEW r, job' = [job EXCEPT ![j] = r], attr' = attr, incidents' = incidents,
               Free(r) \/ Alike(job[j], r)
        PROVE  OwnerInv'
    BY <1>2, OneOwned
  <1>3. ASSUME NEW p \in Priorities, SetPriority(j, p) PROVE OwnerInv'
    <2>1. Alike(job[j], [job[j] EXCEPT !.priority = p])
      BY <1>1, FreeRows
    <2> QED
      BY <1>2, <1>3, <2>1 DEF SetPriority
  <1>4. CASE Pause(j)
    <2>1. /\ job[j].state \in Waiting /\ job' = PausedByOperator({j})
          /\ attr' = attr /\ incidents' = incidents
      BY <1>4 DEF Pause
    <2> QED
      BY <2>1, PausedOwned
  <1>5. CASE Resume(j)
    <2>1. /\ Restore({j}) /\ attr' = attr /\ incidents' = incidents
          /\ job[j].state = "paused" /\ job[j].reason = "operator"
      BY <1>5 DEF Resume, Restore, PausedFor, incidents
    <2>2. job[j].resume.reason \notin IncidentReasons
      BY <2>1, PausedIsPlain
    <2>3. \A k \in Job : job'[k] = job[k] \/ Free(job'[k])
      BY <2>1, <2>2, RestoredFree
    <2> QED
      BY <2>1, <2>3, QuietOwned DEF Alike
  <1>6. CASE Retry(j)
    <2>1. Free(ReadiedRow(job[j], DependenciesSucceeded(attr, job, j)))
      BY <1>1, FreeRows
    <2> QED
      BY <1>2, <1>6, <2>1 DEF Retry
  <1>7. CASE Cancel(j)
    BY <1>1, <1>2, <1>7, FreeRows DEF Cancel
  <1>8. CASE PauseForIntegrity(j)
    <2>1. job[j].state \in Waiting \cup Active
      BY <1>8 DEF PauseForIntegrity
    <2>2. Free(PausedRow(job[j], "asset_integrity", job[j].reason))
      BY <1>1, <2>1, WaitingIsFree, FreeRows
    <2> QED
      BY <1>2, <1>8, <2>2 DEF PauseForIntegrity
  <1>9. CASE ReleaseIntegrityPause(j)
    <2>1. job[j].state = "paused" /\ job[j].reason = "asset_integrity"
      BY <1>9 DEF ReleaseIntegrityPause
    <2>2. Free(job[j])
      BY <2>1, PausedIsPlain DEF Free, IncidentReasons
    <2>3. Free([job[j] EXCEPT !.reason = "operator"])
      BY <1>1, <2>1, <2>2, FreeRows
    <2> QED
      BY <1>2, <1>9, <2>3 DEF ReleaseIntegrityPause
  <1>10. CASE CancelOwnedHumanGate(j)
    BY <1>1, <1>2, <1>10, FreeRows DEF CancelOwnedHumanGate
  <1>11. CASE CompleteHumanGate(j)
    <2> PICK rows : rows = [job EXCEPT ![j] = SucceededRow(@)]
      OBVIOUS
    <2>1. /\ job' = Promoted(attr, rows) /\ attr' = attr /\ incidents' = incidents
          /\ job \in [Job -> Row] /\ rows \in [Job -> Row]
      BY <1>11, SucceededRowType DEF CompleteHumanGate, TypeOK
    <2>2. \A k \in Job : rows[k] = IF k = j THEN SucceededRow(job[k]) ELSE job[k]
      BY <2>1
    <2>3. ASSUME NEW k \in Job PROVE Free(job'[k]) \/ Alike(job[k], job'[k])
      <3>1. rows[k] = job[k] \/ Free(rows[k])
        BY <2>2, <1>1, FreeRows
      <3>2. rows[k].state = "blocked" => Free(rows[k])
        BY <3>1, WaitingIsFree DEF Waiting
      <3> QED
        BY <2>1, <3>1, <3>2, PromotedFree DEF Alike
    <2> QED
      BY <2>1, <2>3, QuietOwned
  <1> QED
    BY <1>3, <1>4, <1>5, <1>6, <1>7, <1>8, <1>9, <1>10, <1>11

LEMMA ProjectOwned ==
  ASSUME TypeOK, OrderInv, OwnerInv, ProjectControl \/ Export
  PROVE  OwnerInv'
  <1>1. ASSUME NEW s, PauseProjectJobs(s) \/ BeginExportDrain(s) PROVE OwnerInv'
    <2> PICK S : S = {j \in JobsOf(s) : job[j].state \in Waiting}
      OBVIOUS
    <2>1. job' = PausedByOperator(S) /\ attr' = attr /\ incidents' = incidents
      BY <1>1 DEF PauseProjectJobs, BeginExportDrain, PauseProject
    <2>2. \A k \in S : k \in Job /\ job[k].state \in Waiting
      BY DEF JobsOf
    <2> QED
      BY <2>1, <2>2, PausedOwned
  <1>2. ASSUME NEW s, ResumeProject(s) PROVE OwnerInv'
    <2> PICK S : S = JobsOf(s) \cap PausedFor("operator")
      OBVIOUS
    <2>1. Restore(S) /\ attr' = attr /\ incidents' = incidents
      BY <1>2 DEF ResumeProject, Restore
    <2>2. \A k \in S : k \in Job /\ job[k].state = "paused" /\ job[k].reason = "operator"
      BY DEF PausedFor
    <2>3. \A k \in S : job[k].resume.reason \notin IncidentReasons
      BY <2>2, PausedIsPlain
    <2>4. \A k \in Job : job'[k] = job[k] \/ Free(job'[k])
      BY <2>1, <2>2, <2>3, RestoredFree
    <2> QED
      BY <2>1, <2>4, QuietOwned DEF Alike
  <1>3. ASSUME NEW s, FreezeSnapshot(s) \/ ReleaseSnapshotLock(s) PROVE OwnerInv'
    <2>1. job' = job /\ attr' = attr /\ incidents' = incidents
      BY <1>3 DEF FreezeSnapshot, ReleaseSnapshotLock
    <2> QED
      BY <2>1, QuietOwned DEF Alike
  <1> QED
    BY <1>1, <1>2, <1>3 DEF ProjectControl, Export

(***************************************************************************)
(* Steps that open an incident or take in rows.                            *)
(***************************************************************************)
LEMMA PausedRowIs ==
  ASSUME NEW r \in Row, NEW why, NEW because, NEW s, s = PausedRow(r, why, because)
  PROVE  /\ s.state = "paused" /\ s.reason = why
         /\ s.resume.state = Resumable(r.state) /\ s.resume.reason = because
  BY DEF PausedRow, Row

\* a row that is paused for an incident which owns it then
LEMMA SweptFits ==
  ASSUME NEW k \in Job, job[k] \in Row, NEW why, NEW because,
         job'[k] = PausedRow(job[k], why, because),
         OwedTo(why, k)', because \notin IncidentReasons
  PROVE  OwnerFits(k)'
  <1> PICK s : s = job'[k]
    OBVIOUS
  <1>1. s.state = "paused" /\ s.reason = why /\ s.resume.reason = because
    BY PausedRowIs
  <1> QED
    BY <1>1 DEF OwnerFits, Waiting, Active

LEMMA FailureOwned ==
  ASSUME TypeOK, OrderInv, OwnerInv, NEW j \in Job, NEW a,
         ActivateQuota(j, a) \/ ActivateCredentials(j, a)
  PROVE  OwnerInv'
  <1>1. /\ attr' = attr /\ storage' = storage /\ attr[j].lane \in Lane
        /\ job[j].state = "running" /\ \A k \in Job : job[k] \in Row
    BY DEF ActivateQuota, ActivateCredentials, CanReport, Owns, TypeOK
  <1>2. CASE ActivateQuota(j, a)
    <2> PICK l \in Lane : l = attr[j].lane
      BY <1>1
    <2> PICK swept : swept = WaitingIn(j, {l})
      OBVIOUS
    <2>1. /\ \A k \in Job : job'[k] = IF k \in swept THEN PausedRow(job[k], "quota", "none")
                                                     ELSE job[k]
          /\ quota' = [quota EXCEPT ![l] = Opened(@, swept)] /\ cred' = cred
      BY <1>2 DEF ActivateQuota
    <2>2. /\ quota'[l].open /\ quota'[l].owned = quota[l].owned \cup swept
          /\ \A m \in Lane \ {l} : quota'[m] = quota[m]
      BY <2>1 DEF Opened, TypeOK
    <2>3. Grown
      BY <1>1, <2>1, <2>2 DEF Grown
    <2>4. ASSUME NEW k \in Job PROVE OwnerFits(k)'
      <3>1. CASE k \in swept
        <4>1. attr'[k].lane = l
          BY <1>1, <3>1 DEF WaitingIn
        <4>2. OwedTo("quota", k)'
          BY <2>2, <3>1, <4>1 DEF OwedTo
        <4>3. "none" \notin IncidentReasons
          BY DEF IncidentReasons
        <4> QED
          BY <1>1, <2>1, <3>1, <4>2, <4>3, SweptFits
      <3>2. CASE k \notin swept
        BY <1>1, <2>1, <2>3, <3>2, AlikeFits DEF OwnerInv, Alike
      <3> QED
        BY <3>1, <3>2
    <2> QED
      BY <2>4 DEF OwnerInv
  <1>3. CASE ActivateCredentials(j, a)
    <2> PICK p : p = ProviderOf[attr[j].lane]
      OBVIOUS
    <2> PICK swept : swept = WaitingIn(j, {l \in Lane : ProviderOf[l] = p})
      OBVIOUS
    <2>1. /\ \A k \in Job : job'[k] =
               IF k \in swept THEN PausedRow(job[k], "credentials", job[k].reason) ELSE job[k]
          /\ cred' = [cred EXCEPT ![p] = Opened(@, swept)] /\ quota' = quota
          /\ p \in Provider
      BY <1>1, <1>3, LanesHaveProviders DEF ActivateCredentials
    <2> PICK c : c = cred[p]
      OBVIOUS
    <2> PICK opened : opened = Opened(c, swept)
      OBVIOUS
    <2>5. cred \in [Provider -> [open: BOOLEAN, owned: SUBSET Job]]
      BY DEF TypeOK
    <2>6. opened.open /\ opened.owned = c.owned \cup swept
      BY <2>1, <2>5 DEF Opened
    <2>2. /\ cred'[p].open /\ cred'[p].owned = cred[p].owned \cup swept
          /\ \A m \in Provider \ {p} : cred'[m] = cred[m]
      BY <2>1, <2>5, <2>6
    <2>3. Grown
      BY <1>1, <2>1, <2>2 DEF Grown
    <2>4. ASSUME NEW k \in Job PROVE OwnerFits(k)'
      <3>1. CASE k \in swept
        <4>1. attr'[k].lane \in Lane /\ ProviderOf[attr'[k].lane] = p
          BY <1>1, <3>1 DEF WaitingIn
        <4>2. OwedTo("credentials", k)'
          BY <2>2, <3>1, <4>1 DEF OwedTo
        <4>3. job[k].state \in Waiting \cup Active
          BY <1>1, <3>1 DEF WaitingIn, Active
        <4>4. job[k].reason \notin IncidentReasons
          BY <4>3 DEF OwnerInv, OwnerFits
        <4> QED
          BY <1>1, <2>1, <3>1, <4>2, <4>4, SweptFits
      <3>2. CASE k \notin swept
        BY <1>1, <2>1, <2>3, <3>2, AlikeFits DEF OwnerInv, Alike
      <3> QED
        BY <3>1, <3>2
    <2> QED
      BY <2>4 DEF OwnerInv
  <1> QED
    BY <1>2, <1>3

LEMMA StorageOwned ==
  ASSUME TypeOK, OrderInv, OwnerInv, NEW j \in Job, NEW a, ActivateStorage(j, a)
  PROVE  OwnerInv'
  <1> PICK swept : swept = StoragePausable
    OBVIOUS
  <1>1. /\ attr' = attr /\ quota' = quota /\ cred' = cred
        /\ storage' = [active |-> TRUE,
                       owned |-> swept \cup (IF storage.active THEN storage.owned ELSE {})]
        /\ \A k \in Job : job'[k] =
             IF k \in swept
             THEN PausedRow(job[k], "storage",
                            IF job[k].state = "paused" THEN job[k].reason ELSE "none")
             ELSE job[k]
    BY DEF ActivateStorage
  <1>2. Grown
    BY <1>1 DEF Grown
  <1>3. storage'.active /\ swept \subseteq storage'.owned
    BY <1>1
  <1>4. ASSUME NEW k \in Job PROVE OwnerFits(k)'
    <2>1. job[k] \in Row
      BY DEF TypeOK
    <2>2. CASE k \in swept /\ job[k].state # "paused"
      <3>1. OwedTo("storage", k)'
        BY <1>3, <2>2 DEF OwedTo
      <3>2. "none" \notin IncidentReasons
        BY DEF IncidentReasons
      <3> QED
        BY <1>1, <2>1, <2>2, <3>1, <3>2, SweptFits
    <2>3. CASE k \in swept /\ job[k].state = "paused"
      <3> PICK why : why = job[k].reason
        OBVIOUS
      <3> PICK s : s = job'[k]
        OBVIOUS
      <3>1. s = PausedRow(job[k], "storage", why) /\ why # "storage"
        BY <1>1, <2>3 DEF StoragePausable
      <3>2. /\ s.state = "paused" /\ s.reason = "storage"
            /\ s.resume.state = "paused" /\ s.resume.reason = why
        BY <2>1, <2>3, <3>1, PausedRowIs DEF Resumable, Active
      <3>3. OwedTo(why, k)
        BY <2>3 DEF OwnerInv, OwnerFits
      <3>4. OwedTo(why, k)'
        BY <1>1, <1>2, <3>3, OwedStays
      <3>5. OwedTo("storage", k)'
        BY <1>3, <2>3 DEF OwedTo
      <3> QED
        BY <3>1, <3>2, <3>4, <3>5 DEF OwnerFits, Waiting, Active
    <2>4. CASE k \notin swept
      BY <1>1, <1>2, <2>4, AlikeFits DEF OwnerInv, Alike
    <2> QED
      BY <2>2, <2>3, <2>4
  <1> QED
    BY <1>4 DEF OwnerInv

LEMMA EnqueueOwned ==
  ASSUME TypeOK, TypeOK', OrderInv, OwnerInv, NEW batch \in Batches, Enqueue(batch)
  PROVE  OwnerInv'
  <1> PICK new : new = Fresh(batch)
    OBVIOUS
  <1> PICK priority : priority = [j \in new |-> DefaultPriority]
    OBVIOUS
  <1> PICK rows : rows = job'
    OBVIOUS
  <1>1. /\ rows = Inserted(attr', job, new, priority) /\ storage' = storage
        /\ quota' = QuotaWith(attr', rows, new) /\ cred' = CredWith(attr', rows, new)
    BY DEF Enqueue
  <1>2. new \in SUBSET Job /\ \A k \in new : ~Exists(k) /\ priority[k] \in Nat
    BY PlanIsWellFormed, BoundsArePositive DEF Fresh
  <1>3. TakenIn(rows, new)
    BY <1>1, IncidentsTakeIn
  <1>4. \A k \in Job : Exists(k) => attr'[k] = attr[k]
    BY EnqueueOrderly DEF Orderly, Sound
  <1>5. ASSUME NEW k \in Job PROVE OwnerFits(k)'
    <2>1. CASE k \in new
      <3>1. rows[k] = NewRow(attr', job, k, priority[k])
        BY <1>1, <2>1 DEF Inserted
      <3> QED
        BY <1>2, <1>3, <2>1, <3>1, NewRowFits
    <2>2. CASE k \notin new
      <3>1. job'[k] = job[k]
        BY <1>1, <2>2 DEF Inserted
      <3> QED
        BY <1>3, <1>4, <3>1, TakenInGrows, AlikeFits DEF OwnerInv, Alike
    <2> QED
      BY <2>1, <2>2
  <1> QED
    BY <1>5 DEF OwnerInv

\* the rows a commit leaves behind, once the incidents have taken in what it inserted
LEMMA CommittedFits ==
  ASSUME TypeOK, OrderInv, OwnerInv, NEW j \in Job, NEW new \in SUBSET Job,
         NEW rows \in [Job -> Row], NEW done,
         done = [rows EXCEPT ![j] = SucceededRow(rows[j])],
         job' = Promoted(attr', done), TakenIn(rows, new), j \notin new,
         NEW priority \in [new -> Nat], rows = Inserted(attr', job, new, priority),
         \A k \in Job : Exists(k) => attr'[k] = attr[k]
  PROVE  OwnerInv'
  <1>1. done \in [Job -> Row] /\ done[j] = SucceededRow(rows[j]) /\ rows[j] \in Row
        /\ \A k \in Job \ {j} : done[k] = rows[k]
    BY SucceededRowType
  <1>2. ASSUME NEW k \in Job, done[k].state = "blocked" => Free(done[k])
        PROVE  job'[k] = done[k] \/ Free(job'[k])
    <2> PICK as : as = attr'
      OBVIOUS
    <2>1. job'[k] = Promoted(as, done)[k]
      OBVIOUS
    <2>2. Promoted(as, done)[k] = done[k] \/ Free(Promoted(as, done)[k])
      BY <1>1, <1>2, PromotedFree
    <2> QED
      BY <2>1, <2>2
  <1>3. ASSUME NEW k \in Job PROVE OwnerFits(k)'
    <2>1. CASE k = j
      <3>1. Free(done[j])
        BY <1>1, FreeRows
      <3>2. Free(job'[j])
        BY <1>2, <2>1, <3>1
      <3> QED
        BY <2>1, <3>2, FreeFits
    <2>2. CASE k \in new
      <3>1. /\ rows[k] = NewRow(attr', job, k, priority[k]) /\ done[k] = rows[k]
            /\ priority[k] \in Nat
        BY <1>1, <2>2 DEF Inserted
      <3> PICK r : r = rows[k]
        OBVIOUS
      <3> PICK as : as = attr'
        OBVIOUS
      <3> PICK p : p = priority[k]
        OBVIOUS
      <3>2. r.resume.reason \notin IncidentReasons
            /\ (r.reason \notin IncidentReasons \/ r.state = "paused")
        <4>1. r = NewRow(as, job, k, p) /\ p \in Nat
          BY <3>1
        <4> QED
          BY <4>1, NewRowPaused
      <3>3. r.state = "blocked" => Free(r)
        BY <3>2 DEF Free
      <3>4. job'[k] = rows[k] \/ Free(job'[k])
        BY <1>2, <3>1, <3>3
      <3>5. CASE job'[k] = rows[k]
        BY <2>2, <3>1, <3>5, NewRowFits
      <3> QED
        BY <3>4, <3>5, FreeFits
    <2>3. CASE k # j /\ k \notin new
      <3>1. done[k] = job[k]
        BY <1>1, <2>3 DEF Inserted
      <3>2. done[k].state = "blocked" => Free(done[k])
        BY <3>1, WaitingIsFree DEF Waiting
      <3>3. job'[k] = job[k] \/ Free(job'[k])
        BY <1>2, <3>1, <3>2
      <3>4. CASE job'[k] = job[k]
        BY <3>4, TakenInGrows, AlikeFits DEF OwnerInv, Alike
      <3> QED
        BY <3>3, <3>4, FreeFits
    <2> QED
      BY <2>1, <2>2, <2>3
  <1> QED
    BY <1>3 DEF OwnerInv

LEMMA CommitOwned ==
  ASSUME TypeOK, TypeOK', OrderInv, OwnerInv, NEW j \in Job, NEW a, Commit(j, a)
  PROVE  OwnerInv'
  <1> PICK new : new = FollowUps(j)
    OBVIOUS
  <1> PICK priority : priority = [k \in new |-> job[j].priority]
    OBVIOUS
  <1> PICK rows : rows = Inserted(attr', job, new, priority)
    OBVIOUS
  <1>1. /\ job' = Promoted(attr', [rows EXCEPT ![j] = SucceededRow(@)])
        /\ attr' = FollowUpAttr(j)
        /\ new \in SUBSET {k \in Job : ~Exists(k)} /\ j \notin new
        /\ priority \in [new -> Nat]
    BY CommitWrites
  <1>2. /\ quota' = QuotaWith(attr', rows, new) /\ cred' = CredWith(attr', rows, new)
        /\ storage' = storage
    BY DEF Commit
  <1>3. TakenIn(rows, new)
    BY <1>2, IncidentsTakeIn
  <1>4. \A k \in Job : Exists(k) => attr'[k] = attr[k]
    BY CommitOrderly DEF Orderly, Sound
  <1>5. rows \in [Job -> Row] /\ new \in SUBSET Job
    <2> PICK as : as = attr'
      OBVIOUS
    <2>1. rows = Inserted(as, job, new, priority) /\ job \in [Job -> Row]
      BY DEF TypeOK
    <2> QED
      BY <1>1, <2>1, InsertedType
  <1> QED
    BY <1>1, <1>3, <1>4, <1>5, CommittedFits


(***************************************************************************)
(* The end of an incident.                                                 *)
(***************************************************************************)
\* a row that keeps its pause keeps its owners
LEMMA KeptFits ==
  ASSUME OwnerInv, NEW k \in Job, job'[k] = job[k],
         job[k].state = "paused" => OwedTo(job[k].reason, k)',
         (job[k].state = "paused" /\ job[k].resume.reason \in IncidentReasons) =>
            OwedTo(job[k].resume.reason, k)'
  PROVE  OwnerFits(k)'
  <1> PICK r : r = job[k]
    OBVIOUS
  <1> PICK s : s = job'[k]
    OBVIOUS
  <1>1. s = r /\ (r.state = "paused" => OwedTo(r.reason, k)')
        /\ (r.state = "paused" /\ r.resume.reason \in IncidentReasons =>
              OwedTo(r.resume.reason, k)')
    OBVIOUS
  <1>2. /\ r.state \in Waiting \cup Active => r.reason \notin IncidentReasons
        /\ (r.state = "paused" /\ r.resume.reason \in IncidentReasons) =>
             /\ r.reason = "storage" /\ r.resume.reason # "storage"
             /\ r.resume.state = "paused"
    BY DEF OwnerInv, OwnerFits
  <1> QED
    BY <1>1, <1>2 DEF OwnerFits

LEMMA ResumeQuotaOwned ==
  ASSUME TypeOK, OrderInv, OwnerInv, NEW l \in Lane, ResumeQuota(l),
         ~StopHolds(quota[l].owned)
  PROVE  OwnerInv'
  <1> PICK S : S = {j \in quota[l].owned \cap PausedFor("quota") : attr[j].lane = l}
    OBVIOUS
  <1>1. /\ Restore(S) /\ attr' = attr /\ cred' = cred /\ storage' = storage
        /\ \A m \in Lane \ {l} : quota'[m] = quota[m]
    BY DEF ResumeQuota, Restore, TypeOK
  <1>2. \A k \in S : /\ k \in Job /\ job[k].state = "paused"
                     /\ job[k].resume.reason \notin IncidentReasons
    BY PausedIsPlain DEF PausedFor
  <1>3. ASSUME NEW k \in Job, NEW why, OwedTo(why, k), why = "quota" => attr[k].lane # l
        PROVE  OwedTo(why, k)'
    BY <1>1, <1>3 DEF OwedTo
  <1>4. ASSUME NEW k \in Job, k \notin S, job'[k] = job[k] PROVE OwnerFits(k)'
    <2>1. ASSUME job[k].state = "paused" PROVE OwedTo(job[k].reason, k)'
      <3>1. OwedTo(job[k].reason, k)
        BY <2>1 DEF OwnerInv, OwnerFits
      <3>2. job[k].reason = "quota" => attr[k].lane # l
        BY <1>4, <2>1, <3>1 DEF OwedTo, PausedFor
      <3> QED
        BY <1>3, <1>4, <3>1, <3>2
    <2>2. ASSUME job[k].state = "paused", job[k].resume.reason \in IncidentReasons
          PROVE  OwedTo(job[k].resume.reason, k)'
      <3>1. OwedTo(job[k].resume.reason, k) /\ job[k].reason = "storage"
        BY <2>2 DEF OwnerInv, OwnerFits
      <3>2. job[k].resume.reason = "quota" => attr[k].lane # l
        BY <2>2, <3>1 DEF OwedTo, StopHolds
      <3> QED
        BY <1>3, <1>4, <3>1, <3>2
    <2> QED
      BY <1>4, <2>1, <2>2, KeptFits
  <1>5. ASSUME NEW k \in Job PROVE OwnerFits(k)'
    <2>1. (k \notin S /\ job'[k] = job[k]) \/ Free(job'[k])
      BY <1>1, <1>2, RestoredFree
    <2> QED
      BY <1>4, <2>1, FreeFits
  <1> QED
    BY <1>5 DEF OwnerInv

LEMMA ResumeCredentialsOwned ==
  ASSUME TypeOK, OrderInv, OwnerInv, NEW p \in Provider, ResumeCredentials(p),
         ~StopHolds(cred[p].owned)
  PROVE  OwnerInv'
  <1> PICK S : S = {j \in cred[p].owned \cap PausedFor("credentials") :
                      attr[j].lane \in Lane /\ ProviderOf[attr[j].lane] = p}
    OBVIOUS
  <1>1. /\ Restore(S) /\ attr' = attr /\ quota' = quota /\ storage' = storage
        /\ \A m \in Provider \ {p} : cred'[m] = cred[m]
    BY DEF ResumeCredentials, Restore, TypeOK
  <1>2. \A k \in S : /\ k \in Job /\ job[k].state = "paused"
                     /\ job[k].resume.reason \notin IncidentReasons
    BY PausedIsPlain DEF PausedFor
  <1>3. ASSUME NEW k \in Job, NEW why, OwedTo(why, k),
               why = "credentials" => ProviderOf[attr[k].lane] # p
        PROVE  OwedTo(why, k)'
    BY <1>1, <1>3, LanesHaveProviders DEF OwedTo
  <1>4. ASSUME NEW k \in Job, k \notin S, job'[k] = job[k] PROVE OwnerFits(k)'
    <2>1. ASSUME job[k].state = "paused" PROVE OwedTo(job[k].reason, k)'
      <3>1. OwedTo(job[k].reason, k)
        BY <2>1 DEF OwnerInv, OwnerFits
      <3>2. job[k].reason = "credentials" => ProviderOf[attr[k].lane] # p
        BY <1>4, <2>1, <3>1 DEF OwedTo, PausedFor
      <3> QED
        BY <1>3, <1>4, <3>1, <3>2
    <2>2. ASSUME job[k].state = "paused", job[k].resume.reason \in IncidentReasons
          PROVE  OwedTo(job[k].resume.reason, k)'
      <3>1. OwedTo(job[k].resume.reason, k) /\ job[k].reason = "storage"
        BY <2>2 DEF OwnerInv, OwnerFits
      <3>2. job[k].resume.reason = "credentials" => ProviderOf[attr[k].lane] # p
        BY <2>2, <3>1 DEF OwedTo, StopHolds
      <3> QED
        BY <1>3, <1>4, <3>1, <3>2
    <2> QED
      BY <1>4, <2>1, <2>2, KeptFits
  <1>5. ASSUME NEW k \in Job PROVE OwnerFits(k)'
    <2>1. (k \notin S /\ job'[k] = job[k]) \/ Free(job'[k])
      BY <1>1, <1>2, RestoredFree
    <2> QED
      BY <1>4, <2>1, FreeFits
  <1> QED
    BY <1>5 DEF OwnerInv

\* a row that comes back paused for the incident that had paused it before the stop
LEMMA PausedAgainFits ==
  ASSUME NEW k \in Job, NEW r \in Row, r.resume.state = "paused", NEW why, why = r.resume.reason,
         job'[k] = RestoredRow(r), OwedTo(why, k)'
  PROVE  OwnerFits(k)'
  <1> PICK s : s = RestoredRow(r)
    OBVIOUS
  <1>1. s.state = "paused" /\ s.reason = why /\ s.resume = NoResume
    BY DEF RestoredRow, Row
  <1>2. NoResume.reason = "none"
    BY DEF NoResume
  <1>3. s.resume.reason \notin IncidentReasons
    BY <1>1, <1>2 DEF IncidentReasons
  <1> QED
    BY <1>1, <1>3 DEF OwnerFits, Waiting, Active

LEMMA ResumeStorageOwned ==
  ASSUME TypeOK, OrderInv, OwnerInv, ResumeStorage
  PROVE  OwnerInv'
  <1> PICK S : S = storage.owned \cap PausedFor("storage")
    OBVIOUS
  <1> PICK rows : rows = Restored(S)
    OBVIOUS
  <1>1. /\ S \in SUBSET Job /\ job \in [Job -> Row] /\ rows \in [Job -> Row]
        /\ job' = Promoted(attr, rows) /\ attr' = attr /\ cred' = cred /\ quota' = quota
    BY RestoredType DEF ResumeStorage, Restore, TypeOK, PausedFor
  <1>2. ASSUME NEW k \in Job, NEW why, why # "storage", OwedTo(why, k)
        PROVE  OwedTo(why, k)'
    BY <1>1, <1>2 DEF OwedTo
  <1>3. ASSUME NEW k \in S PROVE OwnerFits(k)'
    <2>1. /\ rows[k] = RestoredRow(job[k]) /\ job[k] \in Row /\ k \in Job
          /\ job[k].state = "paused"
      BY <1>1, <1>3 DEF Restored, PausedFor
    <2>2. CASE job[k].resume.reason \notin IncidentReasons
      <3>1. Free(rows[k])
        BY <2>1, <2>2, FreeRows
      <3>2. Free(Promoted(attr, rows)[k])
        BY <1>1, <2>1, <3>1, PromotedFree
      <3> QED
        BY <1>1, <2>1, <3>2, FreeFits
    <2>3. CASE job[k].resume.reason \in IncidentReasons
      <3> PICK why : why = job[k].resume.reason
        OBVIOUS
      <3>1. why # "storage" /\ job[k].resume.state = "paused" /\ OwedTo(why, k)
        BY <2>1, <2>3 DEF OwnerInv, OwnerFits
      <3>2. rows[k].state = "paused"
        BY <2>1, <3>1 DEF RestoredRow, Row
      <3>4. ~Promotable(attr, rows, k)
        BY <3>2 DEF Promotable
      <3>5. Promoted(attr, rows)[k] = rows[k]
        BY <2>1, <3>4 DEF Promoted
      <3>3. job'[k] = rows[k]
        BY <1>1, <3>5
      <3> QED
        BY <1>2, <2>1, <3>1, <3>3, PausedAgainFits
    <2> QED
      BY <2>2, <2>3
  <1>4. ASSUME NEW k \in Job, k \notin S PROVE OwnerFits(k)'
    <2>1. rows[k] = job[k]
      BY <1>4 DEF Restored
    <2>2. rows[k].state = "blocked" => Free(rows[k])
      BY <2>1, WaitingIsFree DEF Waiting
    <2>3. job'[k] = job[k] \/ Free(job'[k])
      BY <1>1, <2>1, <2>2, PromotedFree
    <2>4. CASE job'[k] = job[k]
      <3>1. job[k].state = "paused" => job[k].reason # "storage" /\ OwedTo(job[k].reason, k)
        BY <1>4 DEF OwnerInv, OwnerFits, OwedTo, PausedFor
      <3>2. job[k].state = "paused" => job[k].resume.reason \notin IncidentReasons
        BY <3>1, PausedIsPlain
      <3> QED
        BY <1>2, <2>4, <3>1, <3>2, KeptFits
    <2> QED
      BY <2>3, <2>4, FreeFits
  <1> QED
    BY <1>3, <1>4 DEF OwnerInv


(***************************************************************************)
(* Successors on another target.                                           *)
(***************************************************************************)
LEMMA HeirsOwned ==
  ASSUME TypeOK, OwnerInv, NEW S \in SUBSET Job, NEW heir \in Heirs(S),
         NEW alternate \in Lane, NEW new, new = {heir[j] : j \in S},
         \A k \in new : k \notin S,
         \A k \in Job : Exists(k) => attr'[k] = attr[k],
         NEW rows, rows = Inserted(attr', job, new, HeirPriority(S, heir)), TakenIn(rows, new),
         \A k \in S : job'[k] = SupersededRow(rows[k]),
         \A k \in Job \ (S \cup new) : job'[k] = rows[k],
         \A k \in new : job'[k] = rows[k] \/ Free(job'[k])
  PROVE  OwnerInv'
  <1> PICK priority : priority = HeirPriority(S, heir)
    OBVIOUS
  <1>1. new \in SUBSET Job /\ priority \in [new -> Nat]
    BY HeirsType
  <1>2. ASSUME NEW k \in Job PROVE OwnerFits(k)'
    <2>1. CASE k \in S
      <3>1. rows[k] = job[k] /\ job[k] \in Row
        BY <2>1 DEF Inserted, TypeOK
      <3>2. Free(job'[k])
        BY <2>1, <3>1, FreeRows
      <3> QED
        BY <3>2, FreeFits
    <2>2. CASE k \in new
      <3>1. rows[k] = NewRow(attr', job, k, priority[k]) /\ priority[k] \in Nat
        BY <1>1, <2>2 DEF Inserted
      <3>2. CASE job'[k] = rows[k]
        BY <1>1, <2>2, <3>1, <3>2, NewRowFits
      <3> QED
        BY <2>2, <3>2, FreeFits
    <2>3. CASE k \notin S \cup new
      <3>1. job'[k] = job[k]
        BY <2>3 DEF Inserted
      <3> QED
        BY <3>1, TakenInGrows, AlikeFits DEF OwnerInv, Alike
    <2> QED
      BY <2>1, <2>2, <2>3
  <1> QED
    BY <1>2 DEF OwnerInv

LEMMA DecideContinueOwned ==
  ASSUME TypeOK, TypeOK', OrderInv, OwnerInv, NEW l \in Lane, NEW s \in Scope,
         NEW alternate \in Lane, DecideContinue(l, s, alternate)
  PROVE  OwnerInv'
  <1>0. storage' = storage
    BY DEF DecideContinue
  <1> DEFINE S == {j \in quota[l].owned \cap PausedFor("quota") \cap JobsOf(s) :
                     attr[j].lane = l}
  <1>1. S \in SUBSET {j \in Job : job[j].state = "paused"}
    BY DEF PausedFor, JobsOf
  <1>2. PICK heir \in Heirs(S) :
          LET new == {heir[j] : j \in S}
              as == HeirAttr(S, heir, alternate)
              rows == Inserted(as, job, new, HeirPriority(S, heir))
          IN /\ Insertable(as, new)
             /\ attr' = as
             /\ job' = [j \in Job |-> IF j \in S THEN SupersededRow(rows[j]) ELSE rows[j]]
             /\ quota' = [QuotaWith(as, rows, new) EXCEPT ![l].decided = @ \cup {s}]
             /\ cred' = CredWith(as, rows, new)
    BY ZenonT(60) DEF DecideContinue
  <1> HIDE DEF S
  <1> PICK new : new = {heir[j] : j \in S}
    OBVIOUS
  <1> PICK rows : rows = Inserted(attr', job, new, HeirPriority(S, heir))
    OBVIOUS
  <1>3. /\ job' = [j \in Job |-> IF j \in S THEN SupersededRow(rows[j]) ELSE rows[j]]
        /\ quota' = [QuotaWith(attr', rows, new) EXCEPT ![l].decided = @ \cup {s}]
        /\ cred' = CredWith(attr', rows, new)
    BY <1>2
  <1>4. S \in SUBSET Job /\ new \in SUBSET {k \in Job : ~Exists(k)}
    <2>1. S \in SUBSET Job
      BY <1>1
    <2> QED
      BY <2>1, HeirsType
  <1>5. \A k \in new : k \notin S
    BY <1>1, <1>4 DEF Exists
  <1>6. ASSUME NEW m \in Lane
        PROVE  /\ quota'[m].open = QuotaWith(attr', rows, new)[m].open
               /\ quota'[m].owned = QuotaWith(attr', rows, new)[m].owned
    <2> PICK q : q = QuotaWith(attr', rows, new)
      OBVIOUS
    <2>1. quota' = [q EXCEPT ![l].decided = @ \cup {s}] /\ DOMAIN q = Lane
      BY <1>3 DEF QuotaWith
    <2> QED
      BY <2>1
  <1>7. TakenIn(rows, new)
    <2>1. cred' = CredWith(attr', rows, new)
      BY <1>3
    <2> QED
      BY <1>0, <1>6, <2>1, IncidentsTakeIn
  <1>8. \A k \in Job : Exists(k) => attr'[k] = attr[k]
    BY DecideContinueIs, HeirStepOrderly DEF Orderly, Sound
  <1>9. /\ \A k \in S : job'[k] = SupersededRow(rows[k])
        /\ \A k \in Job \ (S \cup new) : job'[k] = rows[k]
        /\ \A k \in new : job'[k] = rows[k]
    BY <1>3, <1>4, <1>5
  <1> QED
    BY <1>4, <1>5, <1>7, <1>8, <1>9, HeirsOwned

\* the rows that move are paused for no incident, so neither are their successors
LEMMA RetargetOwned ==
  ASSUME TypeOK, TypeOK', OrderInv, OwnerInv, NEW alternate \in Lane, NEW available \in BOOLEAN,
         RetargetRemaining(alternate, available),
         \A k \in Job : job[k].state = "paused" /\ job'[k] # job[k] =>
           job[k].reason \notin IncidentReasons
  PROVE  OwnerInv'
  <1>0. storage' = storage
    <2>1. UNCHANGED <<inflight, storage, lock, boot, winner>>
      BY Zenon DEF RetargetRemaining
    <2> QED
      BY <2>1
  <1> DEFINE S == {j \in Job : /\ job[j].state \in Waiting \cup {"paused"}
                               /\ attr[j].lane \in Lane \ {alternate}
                               /\ OperationOf[attr[j].lane] = OperationOf[alternate]}
  <1>1. S \in SUBSET {j \in Job : job[j].state \in Waiting \cup {"paused"}}
    OBVIOUS
  <1>2. PICK heir \in Heirs(S) :
          LET new == {heir[j] : j \in S}
              as == HeirAttr(S, heir, alternate)
              rows == Inserted(as, job, new, HeirPriority(S, heir))
          IN /\ Insertable(as, new)
             /\ attr' = as
             /\ job' = [k \in Job |->
                  IF k \in S THEN SupersededRow(rows[k])
                  ELSE IF k \in new
                       THEN DisposedRow(job[CHOOSE j \in S : heir[j] = k], rows[k], available)
                       ELSE rows[k]]
             /\ quota' = QuotaWith(as, rows, new)
             /\ cred' = CredWith(as, rows, new)
    BY ZenonT(60) DEF RetargetRemaining
  <1> HIDE DEF S
  <1> PICK new : new = {heir[j] : j \in S}
    OBVIOUS
  <1> PICK priority : priority = HeirPriority(S, heir)
    OBVIOUS
  <1> PICK rows : rows = Inserted(attr', job, new, priority)
    OBVIOUS
  <1>3. /\ job' = [k \in Job |->
                  IF k \in S THEN SupersededRow(rows[k])
                  ELSE IF k \in new
                       THEN DisposedRow(job[CHOOSE j \in S : heir[j] = k], rows[k], available)
                       ELSE rows[k]]
        /\ quota' = QuotaWith(attr', rows, new) /\ cred' = CredWith(attr', rows, new)
    BY <1>2
  <1>4. S \in SUBSET Job /\ new \in SUBSET {k \in Job : ~Exists(k)} /\ priority \in [new -> Nat]
    <2>1. S \in SUBSET Job
      BY <1>1
    <2> QED
      BY <2>1, HeirsType
  <1>5. \A k \in new : k \notin S
    BY <1>1, <1>4 DEF Exists, Waiting
  <1>6. TakenIn(rows, new)
    BY <1>0, <1>3, IncidentsTakeIn
  <1>7. \A k \in Job : Exists(k) => attr'[k] = attr[k]
    BY RetargetIs, HeirStepOrderly DEF Orderly, Sound
  <1>8. /\ \A k \in S : job'[k] = SupersededRow(rows[k])
        /\ \A k \in Job \ (S \cup new) : job'[k] = rows[k]
    BY <1>3, <1>4, <1>5
  <1>9. ASSUME NEW k \in new PROVE job'[k] = rows[k] \/ Free(job'[k])
    <2> PICK o : o = CHOOSE j \in S : heir[j] = k
      OBVIOUS
    <2> PICK original : original = job[o]
      OBVIOUS
    <2>1. o \in S /\ k \in Job
      BY <1>4
    <2>2. job'[k] = DisposedRow(original, rows[k], available)
      BY <1>3, <1>5, <2>1
    <2>3. original.state = "paused" => original.reason \notin IncidentReasons
      <3>1. rows[o] = job[o] /\ job[o] \in Row
        BY <1>4, <1>5, <2>1 DEF Inserted, TypeOK
      <3>3. SupersededRow(original).state = "canceled"
        BY <3>1 DEF SupersededRow, Row
      <3>2. job'[o].state = "canceled"
        BY <1>8, <2>1, <3>1, <3>3
      <3> QED
        BY <1>4, <2>1, <3>2
    <2> PICK r : r = rows[k]
      OBVIOUS
    <2>4. ASSUME NEW why, why \notin IncidentReasons, r.state # "paused",
                 job'[k] = PausedRow(r, why, r.reason)
          PROVE  Free(job'[k])
      <3> PICK as : as = attr'
        OBVIOUS
      <3> PICK p : p = priority[k]
        OBVIOUS
      <3>1. r = NewRow(as, job, k, p) /\ p \in Nat
        BY <1>4, <2>1 DEF Inserted
      <3>2. r.reason \notin IncidentReasons
        BY <2>1, <2>4, <3>1, NewRowPaused
      <3>3. r \in Row
        BY <2>1, <3>1, NewRowType
      <3> PICK s : s = PausedRow(r, why, r.reason)
        OBVIOUS
      <3>4. s.reason = why /\ s.resume.reason = r.reason
        BY <3>3, PausedRowIs
      <3> QED
        BY <2>4, <3>2, <3>4 DEF Free
    <2>5. "provider_unavailable" \notin IncidentReasons
      BY DEF IncidentReasons
    <2> QED
      BY <2>2, <2>3, <2>4, <2>5 DEF DisposedRow
  <1> QED
    BY <1>4, <1>5, <1>6, <1>7, <1>8, <1>9, HeirsOwned


LEMMA RemediationOwned ==
  ASSUME TypeOK, OrderInv, OwnerInv, Undisturbed, Remediation
  PROVE  OwnerInv'
  <1>1. ASSUME NEW l \in Lane, ResumeQuota(l) PROVE OwnerInv'
    <2>1. ~StopHolds(quota[l].owned)
      BY <1>1 DEF Undisturbed
    <2> QED
      BY <1>1, <2>1, ResumeQuotaOwned
  <1>2. ASSUME NEW p \in Provider, ResumeCredentials(p) PROVE OwnerInv'
    <2>1. ~StopHolds(cred[p].owned)
      BY <1>2 DEF Undisturbed
    <2> QED
      BY <1>2, <2>1, ResumeCredentialsOwned
  <1>3. CASE ResumeStorage
    BY <1>3, ResumeStorageOwned
  <1> QED
    BY <1>1, <1>2, <1>3 DEF Remediation

LEMMA SettingsOwned ==
  ASSUME TypeOK, TypeOK', OrderInv, OwnerInv, Undisturbed, Settings
  PROVE  OwnerInv'
  <1>1. \A k \in Job : job[k].state = "paused" /\ job'[k] # job[k] =>
          job[k].reason \notin IncidentReasons
    BY DEF Undisturbed
  <1>2. PICK alternate \in Lane, available \in BOOLEAN : RetargetRemaining(alternate, available)
    BY DEF Settings
  <1> QED
    BY <1>1, <1>2, RetargetOwned

\* an execution's report, whatever it says
LEMMA ReportOwned ==
  ASSUME TypeOK, OrderInv, OwnerInv, NEW j \in Job, NEW a, NEW c, RecordFailure(j, a, c)
  PROVE  OwnerInv'
  <1>1. CASE FailRetry(j, a, c) \/ FailFinal(j, a, c)
    BY <1>1, ExecutionOwned
  <1>2. CASE ActivateQuota(j, a) \/ ActivateCredentials(j, a)
    BY <1>2, FailureOwned
  <1>3. CASE ActivateStorage(j, a)
    BY <1>3, StorageOwned
  <1> QED
    BY <1>1, <1>2, <1>3 DEF RecordFailure

LEMMA OwnerStep ==
  ASSUME TypeOK, TypeOK', OrderInv, OwnerInv, [Next]_vars, [Undisturbed]_vars
  PROVE  OwnerInv'
  <1>1. CASE UNCHANGED vars
    <2>1. attr' = attr /\ incidents' = incidents /\ \A k \in Job : job'[k] = job[k]
      BY <1>1 DEF vars, incidents
    <2> QED
      BY <2>1, QuietOwned DEF Alike
  <1>2. CASE Caller
    BY <1>2, EnqueueOwned DEF Caller
  <1>3. CASE Worker
    <2>1. ASSUME NEW due, Poll(due) \/ \E j \in Job : ClaimNext(j, due) PROVE OwnerInv'
      BY <2>1, ClaimOwned
    <2>2. ASSUME NEW j \in Job, NEW a \in inflight[j],
                 MarkRunning(j, a) \/ Heartbeat(j, a) \/ Abandon(j, a)
          PROVE  OwnerInv'
      BY <2>2, ExecutionOwned
    <2>3. ASSUME NEW j \in Job, NEW a \in inflight[j], Commit(j, a) PROVE OwnerInv'
      BY <2>3, CommitOwned
    <2>4. ASSUME NEW j \in Job, NEW a \in inflight[j], NEW c \in Failures,
                 RecordFailure(j, a, c)
          PROVE  OwnerInv'
      BY <2>4, ReportOwned
    <2> QED
      BY <1>3, <2>1, <2>2, <2>3, <2>4 DEF Worker
  <1>4. CASE Shutdown \/ Tick
    <2>1. ASSUME NEW j \in Job, NEW a \in inflight[j], RequeueOwned(j, a) PROVE OwnerInv'
      BY <2>1, ExecutionOwned
    <2> QED
      BY <1>4, <2>1, ClockOwned DEF Shutdown
  <1>5. CASE JobControl \/ Integrity \/ Reviewer
    BY <1>5, OperatorOwned
  <1>6. CASE ProjectControl \/ Export
    BY <1>6, ProjectOwned
  <1>7. CASE Remediation /\ Undisturbed
    BY <1>7, RemediationOwned
  <1>8. CASE QuotaDecision
    <2>1. ASSUME NEW l \in Lane, NEW s \in Scope, DecideWait(l, s) PROVE OwnerInv'
      <3>1. /\ attr' = attr /\ job' = job /\ cred' = cred /\ storage' = storage
            /\ quota' = [quota EXCEPT ![l].decided = @ \cup {s}]
        BY <2>1 DEF DecideWait
      <3>2. \A m \in Lane : quota'[m].open = quota[m].open /\ quota'[m].owned = quota[m].owned
        BY <3>1 DEF TypeOK
      <3>3. Grown
        BY <3>1, <3>2 DEF Grown
      <3> QED
        BY <3>1, <3>3, StepFits DEF Alike
    <2> QED
      BY <1>8, <2>1, DecideContinueOwned DEF QuotaDecision
  <1>9. CASE Settings /\ Undisturbed
    BY <1>9, SettingsOwned
  <1>10. Undisturbed \/ UNCHANGED vars
    OBVIOUS
  <1> QED
    BY <1>1, <1>2, <1>3, <1>4, <1>5, <1>6, <1>7, <1>8, <1>9, <1>10 DEF Next

LEMMA OwnerInit ==
  ASSUME Init
  PROVE  OwnerInv
  <1>1. \A k \in Job : job[k].state = "absent"
    BY DEF Init, NoRow
  <1> QED
    BY <1>1 DEF OwnerInv, OwnerFits, Waiting, Active

(***************************************************************************)
(* Whatever else happens: as long as no incident is resumed while a        *)
(* storage stop holds rows of its own, and no change of Settings moves     *)
(* rows that an incident paused, every paused row is owned by the open     *)
(* incident it is paused for, so that ending the incident wakes it.        *)
(***************************************************************************)
THEOREM IncidentsOwnTheirPauses == Spec /\ [][Undisturbed]_vars => []IncidentOwnership
  <1> DEFINE Inv == OrderInv /\ OwnerInv
  <1>1. Init => Inv
    BY OrderInit, OwnerInit
  <1>2. ASSUME TypeOK, TypeOK', Inv, [Next]_vars, [Undisturbed]_vars PROVE Inv'
    <2>1. OrderInv'
      BY <1>2, OrderStep
    <2>2. OwnerInv'
      BY <1>2, OwnerStep
    <2> QED
      BY <2>1, <2>2
  <1>3. Inv => IncidentOwnership
    BY DEF OwnerInv, OwnerFits, OwedTo, IncidentOwnership
  <1> QED
    <2> HIDE DEF Inv
    <2> QED
      BY <1>1, <1>2, <1>3, TypeCorrect, PTL DEF Spec


-----------------------------------------------------------------------------
(***************************************************************************)
(* The ledger.  A row is in one of five conditions: absent, in hand, open, *)
(* succeeded, or over.  Keeps says that a step leaves a row in its         *)
(* condition, Eases that it may also take it out of hand.                  *)
(***************************************************************************)
OpenStates == States \ (Active \cup Over \cup {"succeeded", "absent"})

Eases(r, s) ==
  /\ s.state \in Active => r.state \in Active
  /\ s.state \in Over <=> r.state \in Over
  /\ s.state = "succeeded" <=> r.state = "succeeded"
  /\ s.state = "absent" <=> r.state = "absent"
Keeps(r, s) == Eases(r, s) /\ Eases(s, r)

RolesOf(T) == {attr[k].role : k \in T}

LEMMA Conditions ==
  /\ Active \cap (Over \cup {"succeeded", "absent"}) = {}
  /\ Over \cap {"succeeded", "absent"} = {}
  /\ OpenStates = Waiting \cup {"paused", "waiting_review"}
  /\ States \ {"absent"} = Active \cup Over \cup OpenStates \cup {"succeeded"}
  /\ States \ (Over \cup {"absent"}) = Active \cup OpenStates \cup {"succeeded"}
  BY DEF Active, Over, OpenStates, States, Terminal, Waiting

(***************************************************************************)
(* What a step does to the ledger when it inserts the planned rows N and   *)
(* otherwise changes the condition of no rows but those of T, which were   *)
(* open or in hand.  The other rows of their roles are over.               *)
(***************************************************************************)
Moves(N, T) ==
  /\ N \subseteq {k \in Job : ~Exists(k)} /\ T \subseteq Job
  /\ \A k \in Job : attr'[k].role = attr[k].role
  /\ \A k \in N : job'[k].state \in OpenStates
  /\ \A k \in T : job[k].state \in OpenStates \cup Active /\ job'[k].state # "absent"
  /\ \A k \in Job \ (N \cup T) : Keeps(job[k], job'[k])

LEMMA MovedRoles ==
  ASSUME TypeOK, TypeOK', RoleInv, NEW N, NEW T, Moves(N, T)
  PROVE  /\ Carried(States \ {"absent"})' = Carried(States \ {"absent"}) \cup N
         /\ N \cap Carried(States \ {"absent"}) = {}
         /\ \A k \in T : attr[k].role \in Carried(States \ {"absent"})
         /\ RolesOf(T) \subseteq Carried(OpenStates \cup Active)
  <1>1. \A k \in Job : /\ job[k].state \in States /\ job'[k].state \in States
                       /\ attr[k].role \in Job /\ attr'[k].role = attr[k].role
    BY DEF TypeOK, Row, Attr, Moves
  <1>2. \A k \in N : k \in Job /\ ~Exists(k) /\ attr[k].role = k /\ Exists(k)'
    BY Conditions DEF Moves, RoleInv, Exists
  <1>3. \A k \in Job : Exists(k) => Exists(attr[k].role) /\ Exists(k)'
    BY DEF Moves, RoleInv, Exists, Keeps, Eases
  <1>4. \A k \in Job \ N : Exists(k)' => Exists(k)
    BY Conditions DEF Moves, Exists, Keeps, Eases
  <1>5. \A w \in Job : /\ w \in Carried(States \ {"absent"}) <=>
                            \E k \in Job : attr[k].role = w /\ Exists(k)
                       /\ w \in Carried(States \ {"absent"})' <=>
                            \E k \in Job : attr'[k].role = w /\ Exists(k)'
    BY <1>1 DEF Carried, Exists
  <1>6. Carried(States \ {"absent"}) \subseteq Job /\ Carried(States \ {"absent"})' \subseteq Job
    BY DEF Carried
  <1>7. ASSUME NEW w \in Job
        PROVE  w \in Carried(States \ {"absent"})' <=>
                 w \in Carried(States \ {"absent"}) \/ w \in N
    <2>1. ASSUME NEW k \in Job, attr'[k].role = w, Exists(k)'
          PROVE  w \in Carried(States \ {"absent"}) \/ w \in N
      <3>1. CASE k \in N
        BY <1>1, <1>2, <2>1, <3>1
      <3>2. CASE k \notin N
        BY <1>1, <1>4, <1>5, <2>1, <3>2
      <3> QED
        BY <3>1, <3>2
    <2>2. ASSUME NEW k \in Job, attr[k].role = w, Exists(k)
          PROVE  w \in Carried(States \ {"absent"})'
      BY <1>1, <1>3, <1>5, <2>2
    <2>3. ASSUME w \in N PROVE w \in Carried(States \ {"absent"})'
      <3>1. attr'[w].role = w /\ Exists(w)'
        BY <1>1, <1>2, <2>3
      <3> QED
        BY <1>5, <3>1
    <2> QED
      BY <1>5, <2>1, <2>2, <2>3
  <1>8. ASSUME NEW w \in N PROVE w \notin Carried(States \ {"absent"})
    <2>1. ASSUME NEW k \in Job, attr[k].role = w, Exists(k) PROVE FALSE
      BY <1>2, <1>3, <2>1
    <2> QED
      BY <1>2, <1>5, <2>1
  <1>9. ASSUME NEW k \in T
        PROVE  attr[k].role \in Carried(States \ {"absent"}) /\ attr[k].role \in Carried(OpenStates \cup Active)
    BY <1>1, <1>9, Conditions DEF Moves, Carried
  <1>10. N \subseteq Job
    BY <1>2
  <1> QED
    BY <1>6, <1>7, <1>8, <1>9, <1>10 DEF RolesOf


LiveStates == States \ (Over \cup {"absent"})

CarriedNext(states) ==
  {w \in Job : \E j \in Job : attr'[j].role = w /\ job'[j].state \in states}

NewIn(N, states) == {k \in N : job'[k].state \in states}

LEMMA MovedInto ==
  ASSUME TypeOK, TypeOK', RoleInv, NEW N, NEW T, Moves(N, T),
         NEW C, C \in {Active, {"succeeded"}, LiveStates}
  PROVE  /\ (\A k \in T : job'[k].state \in C) => CarriedNext(C) = Carried(C) \cup RolesOf(T) \cup NewIn(N, C)
         /\ (\A k \in T : job'[k].state \notin C) => CarriedNext(C) = (Carried(C) \ RolesOf(T)) \cup NewIn(N, C)
  <1> DEFINE B == NewIn(N, C)
  <1>1. \A k \in Job : /\ job[k].state \in States /\ job'[k].state \in States
                       /\ attr[k].role \in Job /\ attr'[k].role = attr[k].role
    BY DEF TypeOK, Row, Attr, Moves
  <1>2. C \subseteq LiveStates
    BY Conditions DEF LiveStates
  <1>3. \A k \in Job \ (N \cup T) : job'[k].state \in C <=> job[k].state \in C
    BY <1>1 DEF Moves, Keeps, Eases, LiveStates
  <1>4. \A k \in N : k \in Job /\ attr'[k].role = k /\ job[k].state \notin C
    BY <1>1, <1>2 DEF Moves, RoleInv, Exists, LiveStates
  <1>11. B = {k \in N : job'[k].state \in C}
    BY DEF NewIn
  <1> HIDE DEF B
  <1>5. \A k \in T : k \in Job /\ Live(k) /\ attr[k].role \in RolesOf(T)
    BY Conditions DEF Moves, Live, Exists, RolesOf, Over
  <1>6. \A k \in Job : job[k].state \in C => Live(k)
    BY <1>2 DEF Live, Exists, LiveStates, Over
  <1>7. \A w \in Job : /\ w \in Carried(C) <=> \E k \in Job : attr[k].role = w /\ job[k].state \in C
                       /\ w \in CarriedNext(C) <=> \E k \in Job : attr'[k].role = w /\ job'[k].state \in C
    BY DEF Carried, CarriedNext
  <1>8. Carried(C) \subseteq Job /\ CarriedNext(C) \subseteq Job /\ RolesOf(T) \subseteq Job /\ B \subseteq Job
    <2>1. RolesOf(T) \subseteq Job
      BY <1>1, <1>5 DEF RolesOf
    <2>2. B \subseteq Job
      BY <1>4, <1>11
    <2> QED
      BY <2>1, <2>2 DEF Carried, CarriedNext
  <1>9. ASSUME \A k \in T : job'[k].state \in C, NEW w \in Job
        PROVE  w \in CarriedNext(C) <=> w \in Carried(C) \cup RolesOf(T) \cup B
    <2>1. ASSUME NEW k \in Job, attr'[k].role = w, job'[k].state \in C
          PROVE  w \in Carried(C) \cup RolesOf(T) \cup B
      <3>1. CASE k \in N
        BY <1>4, <1>11, <2>1, <3>1
      <3>2. CASE k \in T
        BY <1>1, <1>5, <2>1, <3>2
      <3>3. CASE k \notin N \cup T
        BY <1>1, <1>3, <1>7, <2>1, <3>3
      <3> QED
        BY <3>1, <3>2, <3>3
    <2>2. ASSUME NEW k \in Job, attr[k].role = w, job[k].state \in C PROVE w \in CarriedNext(C)
      <3>1. job'[k].state \in C
        BY <1>3, <1>4, <1>9, <2>2
      <3> QED
        BY <1>1, <1>7, <2>2, <3>1
    <2>3. ASSUME w \in RolesOf(T) PROVE w \in CarriedNext(C)
      <3>1. PICK k \in T : attr[k].role = w
        BY <2>3 DEF RolesOf
      <3> QED
        BY <1>1, <1>5, <1>7, <1>9, <3>1
    <2>4. ASSUME w \in B PROVE w \in CarriedNext(C)
      BY <1>4, <1>7, <1>11, <2>4
    <2> QED
      BY <1>7, <2>1, <2>2, <2>3, <2>4
  <1>10. ASSUME \A k \in T : job'[k].state \notin C, NEW w \in Job
         PROVE  w \in CarriedNext(C) <=> w \in (Carried(C) \ RolesOf(T)) \cup B
    <2>1. ASSUME NEW k \in Job, attr'[k].role = w, job'[k].state \in C
          PROVE  w \in (Carried(C) \ RolesOf(T)) \cup B
      <3>1. CASE k \in N
        BY <1>4, <1>11, <2>1, <3>1
      <3>2. CASE k \notin N
        <4>1. k \notin T /\ job[k].state \in C /\ attr[k].role = w
          BY <1>1, <1>3, <1>10, <2>1, <3>2
        <4>2. ASSUME w \in RolesOf(T) PROVE FALSE
          <5>1. PICK i \in T : attr[i].role = w
            BY <4>2 DEF RolesOf
          <5>2. i = k
            BY <1>5, <1>6, <4>1, <5>1 DEF RoleInv
          <5> QED
            BY <4>1, <5>2
        <4> QED
          BY <1>7, <4>1, <4>2
      <3> QED
        BY <3>1, <3>2
    <2>2. ASSUME NEW k \in Job, attr[k].role = w, job[k].state \in C, w \notin RolesOf(T)
          PROVE  w \in CarriedNext(C)
      <3>1. k \notin N \cup T
        BY <1>4, <1>5, <2>2
      <3> QED
        BY <1>1, <1>3, <1>7, <2>2, <3>1
    <2>3. ASSUME w \in B PROVE w \in CarriedNext(C)
      BY <1>4, <1>7, <1>11, <2>3
    <2> QED
      BY <1>7, <2>1, <2>2, <2>3
  <1> QED
    BY <1>8, <1>9, <1>10 DEF B


PlannedWork == Carried(States \ {"absent"})
HeldWork == Carried(Active)
DoneWork == Carried({"succeeded"})
DroppedWork == Carried(Over) \ Carried(LiveStates)

LEMMA DroppedIs == DroppedWork = PlannedWork \ Carried(LiveStates)
  <1>1. States \ {"absent"} = Over \cup LiveStates
    BY DEF States, Over, LiveStates, Terminal, Active, Waiting
  <1> QED
    BY <1>1 DEF DroppedWork, PlannedWork, Carried

Effects(N, T) ==
  /\ PlannedWork' = PlannedWork \cup N /\ N \cap PlannedWork = {}
  /\ (\A k \in T : job'[k].state \notin Active) => HeldWork' = HeldWork \ RolesOf(T)
  /\ (\A k \in T : job'[k].state \in Active) => HeldWork' = HeldWork \cup RolesOf(T)
  /\ (\A k \in T : job'[k].state # "succeeded") => DoneWork' = DoneWork
  /\ (\A k \in T : job'[k].state = "succeeded") => DoneWork' = DoneWork \cup RolesOf(T)
  /\ (\A k \in T : job'[k].state \notin Over) => DroppedWork' = DroppedWork
  /\ (\A k \in T : job'[k].state \in Over) => DroppedWork' = DroppedWork \cup RolesOf(T)
  /\ RolesOf(T) \subseteq PlannedWork
  /\ RolesOf(T) \cap (DoneWork \cup DroppedWork) = {}

LEMMA MovedWork ==
  ASSUME TypeOK, TypeOK', RoleInv, NEW N, NEW T, Moves(N, T)
  PROVE  Effects(N, T)
  <1> DEFINE Alive == Carried(LiveStates)
  <1>1. /\ PlannedWork' = PlannedWork \cup N /\ N \cap PlannedWork = {}
        /\ RolesOf(T) \subseteq PlannedWork
    <2>1. PlannedWork' = PlannedWork \cup N
      BY MovedRoles DEF PlannedWork
    <2>2. N \cap PlannedWork = {}
      BY MovedRoles DEF PlannedWork
    <2>3. \A k \in T : attr[k].role \in PlannedWork
      BY MovedRoles DEF PlannedWork
    <2> QED
      BY <2>1, <2>2, <2>3 DEF RolesOf
  <1>2. \A k \in N : job'[k].state \notin Active \cup Over \cup {"succeeded"} /\ job'[k].state \in LiveStates
    BY Conditions DEF Moves, OpenStates, LiveStates
  <1>3. /\ (\A k \in T : job'[k].state \notin Active) => HeldWork' = HeldWork \ RolesOf(T)
        /\ (\A k \in T : job'[k].state \in Active) => HeldWork' = HeldWork \cup RolesOf(T)
    <2>1. PICK C : C = Active
      OBVIOUS
    <2>2. C \in {Active, {"succeeded"}, LiveStates}
      BY <2>1
    <2>5. NewIn(N, C) = {}
      BY <1>2, <2>1 DEF NewIn
    <2>3. /\ (\A k \in T : job'[k].state \in C) => CarriedNext(C) = Carried(C) \cup RolesOf(T) \cup NewIn(N, C)
          /\ (\A k \in T : job'[k].state \notin C) => CarriedNext(C) = (Carried(C) \ RolesOf(T)) \cup NewIn(N, C)
      BY <2>2, MovedInto
    <2>4. Carried(C) = HeldWork /\ CarriedNext(C) = HeldWork'
      BY <2>1 DEF HeldWork, Carried, CarriedNext
    <2> QED
      BY <2>1, <2>3, <2>4, <2>5
  <1>4. /\ (\A k \in T : job'[k].state # "succeeded") => DoneWork' = DoneWork \ RolesOf(T)
        /\ (\A k \in T : job'[k].state = "succeeded") => DoneWork' = DoneWork \cup RolesOf(T)
    <2>1. PICK C : C = {"succeeded"}
      OBVIOUS
    <2>2. C \in {Active, {"succeeded"}, LiveStates}
      BY <2>1
    <2>5. NewIn(N, C) = {}
      BY <1>2, <2>1 DEF NewIn
    <2>3. /\ (\A k \in T : job'[k].state \in C) => CarriedNext(C) = Carried(C) \cup RolesOf(T) \cup NewIn(N, C)
          /\ (\A k \in T : job'[k].state \notin C) => CarriedNext(C) = (Carried(C) \ RolesOf(T)) \cup NewIn(N, C)
      BY <2>2, MovedInto
    <2>4. Carried(C) = DoneWork /\ CarriedNext(C) = DoneWork'
      BY <2>1 DEF DoneWork, Carried, CarriedNext
    <2> QED
      BY <2>1, <2>3, <2>4, <2>5
  <1>5. /\ (\A k \in T : job'[k].state \in LiveStates) => Alive' = Alive \cup RolesOf(T) \cup N
        /\ (\A k \in T : job'[k].state \notin LiveStates) => Alive' = (Alive \ RolesOf(T)) \cup N
    <2>1. PICK C : C = LiveStates
      OBVIOUS
    <2>2. C \in {Active, {"succeeded"}, LiveStates}
      BY <2>1
    <2>5. NewIn(N, C) = N
      BY <1>2, <2>1 DEF NewIn
    <2>3. /\ (\A k \in T : job'[k].state \in C) => CarriedNext(C) = Carried(C) \cup RolesOf(T) \cup NewIn(N, C)
          /\ (\A k \in T : job'[k].state \notin C) => CarriedNext(C) = (Carried(C) \ RolesOf(T)) \cup NewIn(N, C)
      BY <2>2, MovedInto
    <2>4. Carried(C) = Alive /\ CarriedNext(C) = Alive'
      BY <2>1 DEF Carried, CarriedNext
    <2> QED
      BY <2>1, <2>3, <2>4, <2>5
  <1>6. \A k \in T : job'[k].state \in Over <=> job'[k].state \notin LiveStates
    BY DEF Moves, TypeOK, Row, LiveStates
  <1>7. RolesOf(T) \subseteq Alive /\ RolesOf(T) \cap DoneWork = {}
    <2>1. \A k \in T : /\ k \in Job /\ attr[k].role \in Job
                       /\ job[k].state \in LiveStates /\ job[k].state # "succeeded" /\ Live(k)
      <3> SUFFICES ASSUME NEW k \in T
                   PROVE  /\ k \in Job /\ attr[k].role \in Job
                          /\ job[k].state \in LiveStates /\ job[k].state # "succeeded" /\ Live(k)
        OBVIOUS
      <3>1. k \in Job /\ job[k].state \in OpenStates \cup Active
        BY DEF Moves
      <3> QED
        <4>1. attr[k].role \in Job /\ job[k].state \in States
          BY <3>1 DEF TypeOK, Attr, Row
        <4>2. job[k].state \notin Over \cup {"absent", "succeeded"}
          BY <3>1, Conditions DEF OpenStates
        <4> QED
          BY <3>1, <4>1, <4>2 DEF LiveStates, Live, Exists, Over
    <2>2. ASSUME NEW w \in RolesOf(T) PROVE w \in Alive /\ w \notin DoneWork
      <3>1. PICK k \in T : w = attr[k].role
        BY <2>2 DEF RolesOf
      <3>2. ASSUME NEW i \in Job, attr[i].role = w, job[i].state = "succeeded" PROVE FALSE
        <4>1. Live(i)
          BY <3>2 DEF Live, Exists
        <4>2. i = k
          BY <2>1, <3>1, <3>2, <4>1 DEF RoleInv
        <4> QED
          BY <2>1, <3>2, <4>2
      <3>3. w \in Alive
        BY <2>1, <3>1 DEF Carried
      <3> QED
        BY <3>2, <3>3 DEF DoneWork, Carried
    <2> QED
      BY <2>2
  <1>8. DroppedWork = PlannedWork \ Alive /\ DroppedWork' = PlannedWork' \ Alive'
    <2>1. DroppedWork = PlannedWork \ Alive
      BY DroppedIs
    <2>2. DroppedWork' = PlannedWork' \ Alive'
      <3>1. (DroppedWork = PlannedWork \ Alive)'
        BY DroppedIs, PTL
      <3> QED
        BY <3>1
    <2> QED
      BY <2>1, <2>2
  <1>9. Alive \subseteq PlannedWork
    BY DEF Carried, PlannedWork, LiveStates
  <1> HIDE DEF Alive
  <1>10. (\A k \in T : job'[k].state \notin Over) => DroppedWork' = DroppedWork
    BY <1>1, <1>5, <1>6, <1>7, <1>8
  <1>11. (\A k \in T : job'[k].state \in Over) => DroppedWork' = DroppedWork \cup RolesOf(T)
    BY <1>1, <1>5, <1>6, <1>7, <1>8
  <1> QED
    BY <1>1, <1>3, <1>4, <1>7, <1>8, <1>10, <1>11 DEF Effects


(***************************************************************************)
(* The steps of the ledger, from the rows whose condition changes.         *)
(***************************************************************************)
Still == lock' = lock /\ storage'.active = storage.active

LEMMA LedgerTerms ==
  /\ Ledger!New({}) /\ \A w \in Job : Ledger!Free(w) <=> LockOf(Plan[w].scope).phase = "none"
  /\ \A w \in Job : Ledger!Frozen(w) <=> LockOf(Plan[w].scope).phase = "snapshot"
  /\ Ledger!Open = PlannedWork \ (HeldWork \cup DoneWork \cup DroppedWork)
  <1>1. NoLock.phase = "none"
    BY DEF NoLock
  <1>2. \A w \in Job : Ledger!Free(w) <=> LockOf(Plan[w].scope).phase = "none"
    BY <1>1 DEF Ledger!Free, LockOf
  <1>3. \A w \in Job : Ledger!Frozen(w) <=> LockOf(Plan[w].scope).phase = "snapshot"
    BY <1>1 DEF Ledger!Frozen, LockOf
  <1>4. Ledger!Open = PlannedWork \ (HeldWork \cup DoneWork \cup DroppedWork)
    BY DEF Ledger!Open, PlannedWork, HeldWork, DoneWork, DroppedWork, LiveStates
  <1>5. Ledger!New({})
    BY DEF Ledger!New
  <1> QED
    BY <1>2, <1>3, <1>4, <1>5

\* no condition changes
LEMMA NoMove ==
  ASSUME TypeOK, TypeOK', RoleInv, attr' = attr,
         \A k \in Job : Keeps(job[k], job'[k])
  PROVE  UNCHANGED <<PlannedWork, HeldWork, DoneWork, DroppedWork>>
  <1>1. Moves({}, {})
    BY DEF Moves
  <1>2. RolesOf({}) = {}
    BY DEF RolesOf
  <1>3. Effects({}, {})
    BY <1>1, MovedWork
  <1> QED
    BY <1>2, <1>3 DEF Effects

LEMMA ReturnStep ==
  ASSUME TypeOK, TypeOK', RoleInv, attr' = attr, Still,
         \A k \in Job : Eases(job[k], job'[k])
  PROVE  \E S \in SUBSET Job : Ledger!Return(S)
  <1> DEFINE T == {k \in Job : job[k].state \in Active /\ job'[k].state \notin Active}
             S == RolesOf(T)
  <1>1. \A k \in T : job'[k].state \in OpenStates
    BY Conditions DEF Eases, TypeOK, Row, OpenStates
  <1>2. Moves({}, T)
    BY <1>1, Conditions DEF Moves, Eases, Keeps, OpenStates
  <1>3. S \in SUBSET Job
    BY DEF RolesOf, TypeOK, Attr
  <1>4. S \subseteq HeldWork
    BY DEF RolesOf, HeldWork, Carried, TypeOK, Attr
  <1> HIDE DEF T
  <1>5. HeldWork' = HeldWork \ S /\ UNCHANGED <<PlannedWork, DoneWork, DroppedWork>>
    <2>1. \A k \in T : job'[k].state \notin Active \cup Over \cup {"succeeded"}
      BY <1>1 DEF OpenStates
    <2>2. Effects({}, T)
      BY <1>2, MovedWork
    <2> QED
      BY <2>1, <2>2 DEF Effects
  <1> HIDE DEF S
  <1>6. Ledger!Return(S)
    BY <1>4, <1>5 DEF Ledger!Return, Still, PlannedWork, HeldWork, DoneWork, DroppedWork, LiveStates
  <1> QED
    BY <1>3, <1>6

\* one row is given up
LEMMA GiveUpStep ==
  ASSUME TypeOK, TypeOK', RoleInv, attr' = attr, Still, NEW j \in Job,
         job[j].state \in OpenStates \cup Active, job'[j].state \in Over,
         \A k \in Job \ {j} : job'[k] = job[k]
  PROVE  \E w \in Job : Ledger!GiveUp(w)
  <1> DEFINE w == attr[j].role
  <1> PICK T : T = {j}
    OBVIOUS
  <1>1. Moves({}, T)
    BY Conditions DEF Moves, Keeps, Eases
  <1>2. RolesOf(T) = {w} /\ w \in Job
    BY DEF RolesOf, TypeOK, Attr
  <1>3. \A k \in T : job'[k].state \in Over /\ job'[k].state \notin Active \cup {"succeeded"}
    BY Conditions
  <1>4. /\ HeldWork' = HeldWork \ {w} /\ DroppedWork' = DroppedWork \cup {w}
        /\ PlannedWork' = PlannedWork /\ DoneWork' = DoneWork
        /\ w \in PlannedWork \ (DoneWork \cup DroppedWork)
    <2>1. Effects({}, T)
      BY <1>1, MovedWork
    <2> QED
      BY <1>2, <1>3, <2>1 DEF Effects
  <1>5. w \in Ledger!Open \cup HeldWork
    BY <1>4, LedgerTerms
  <1> HIDE DEF w
  <1>6. Ledger!GiveUp(w)
    BY <1>4, <1>5 DEF Ledger!GiveUp, Still, PlannedWork, HeldWork, DoneWork, DroppedWork, LiveStates
  <1> QED
    BY <1>2, <1>6


\* an open row is the only one that carries its work
LEMMA OpenRow ==
  ASSUME TypeOK, RoleInv, NEW j \in Job, job[j].state \in OpenStates
  PROVE  /\ attr[j].role \in Job
         /\ attr[j].role \in PlannedWork \ (HeldWork \cup DoneWork \cup DroppedWork)
  <1> DEFINE w == attr[j].role
  <1>1. w \in Job /\ job[j].state \in LiveStates /\ job[j].state \notin Active \cup {"succeeded"}
    BY Conditions DEF TypeOK, Attr, LiveStates, OpenStates
  <1>2. ASSUME NEW i \in Job, attr[i].role = w, job[i].state \in Active \cup {"succeeded"}
        PROVE  FALSE
    <2>1. Live(i) /\ Live(j)
      BY <1>1, <1>2 DEF Live, Exists, Active, LiveStates, Over
    <2>2. i = j
      BY <1>2, <2>1 DEF RoleInv
    <2> QED
      BY <1>1, <1>2, <2>2
  <1>3. w \notin HeldWork \cup DoneWork
    BY <1>2 DEF HeldWork, DoneWork, Carried
  <1>4. w \in Carried(LiveStates) /\ w \in PlannedWork
    BY <1>1 DEF Carried, PlannedWork, LiveStates
  <1> QED
    BY <1>1, <1>3, <1>4 DEF DroppedWork

LEMMA GrantStep ==
  ASSUME TypeOK, TypeOK', RoleInv, attr' = attr, Still, NEW j \in Job,
         job[j].state \in OpenStates, job'[j].state \in Active,
         \A k \in Job \ {j} : Keeps(job[k], job'[k]),
         ~IsGate(attr, j), Unlocked(attr, j), ~storage.active
  PROVE  \E w \in Job : Ledger!Grant(w)
  <1> DEFINE w == attr[j].role
  <1> PICK T : T = {j}
    OBVIOUS
  <1>1. Moves({}, T)
    BY Conditions DEF Moves
  <1>2. RolesOf(T) = {w} /\ w \in Job
    BY DEF RolesOf, TypeOK, Attr
  <1>3. \A k \in T : job'[k].state \in Active /\ job'[k].state \notin Over \cup {"succeeded"}
    BY Conditions
  <1>4. HeldWork' = HeldWork \cup {w} /\ UNCHANGED <<PlannedWork, DoneWork, DroppedWork>>
    <2>1. Effects({}, T)
      BY <1>1, MovedWork
    <2> QED
      BY <1>2, <1>3, <2>1 DEF Effects
  <1>5. /\ w \in Ledger!Open /\ w \notin {v \in Job : Plan[v].gate # "none"}
        /\ Ledger!Free(w) /\ ~storage.active
    <2>1. w \in Ledger!Open
      BY OpenRow, LedgerTerms
    <2>2. Ledger!Free(w)
      BY <1>2, LedgerTerms DEF Unlocked, ScopeOf
    <2> QED
      BY <2>1, <2>2 DEF IsGate, GateOf
  <1> HIDE DEF w
  <1>6. Ledger!Grant(w)
    BY <1>4, <1>5 DEF Ledger!Grant, Still, PlannedWork, HeldWork, DoneWork, DroppedWork, LiveStates
  <1> QED
    BY <1>2, <1>6

LEMMA DecideStep ==
  ASSUME TypeOK, TypeOK', RoleInv, attr' = attr, Still, NEW j \in Job,
         job[j].state \in OpenStates, job'[j].state = "succeeded",
         \A k \in Job \ {j} : Keeps(job[k], job'[k]),
         IsGate(attr, j), Unlocked(attr, j)
  PROVE  \E w \in Job : Ledger!Decide(w)
  <1> DEFINE w == attr[j].role
  <1> PICK T : T = {j}
    OBVIOUS
  <1>1. Moves({}, T)
    BY Conditions DEF Moves
  <1>2. RolesOf(T) = {w} /\ w \in Job
    BY DEF RolesOf, TypeOK, Attr
  <1>3. \A k \in T : job'[k].state = "succeeded" /\ job'[k].state \notin Over \cup Active
    BY Conditions
  <1>4. w \in PlannedWork \ (HeldWork \cup DoneWork \cup DroppedWork)
    BY OpenRow
  <1>5. DoneWork' = DoneWork \cup {w} /\ UNCHANGED <<PlannedWork, HeldWork, DroppedWork>>
    <2>1. Effects({}, T)
      BY <1>1, MovedWork
    <2>2. HeldWork' = HeldWork \ {w}
      BY <1>2, <1>3, <2>1 DEF Effects
    <2> QED
      BY <1>2, <1>3, <1>4, <2>1, <2>2 DEF Effects
  <1>6. w \in Ledger!Open \cap {v \in Job : Plan[v].gate # "none"} /\ Ledger!Free(w)
    <2>1. w \in Ledger!Open
      BY <1>4, LedgerTerms
    <2>2. Ledger!Free(w)
      BY <1>2, LedgerTerms DEF Unlocked, ScopeOf
    <2> QED
      BY <1>2, <2>1, <2>2 DEF IsGate, GateOf
  <1> HIDE DEF w
  <1>7. Ledger!Decide(w)
    BY <1>5, <1>6 DEF Ledger!Decide, Still, PlannedWork, HeldWork, DoneWork, DroppedWork, LiveStates
  <1> QED
    BY <1>2, <1>7


LEMMA NewIs ==
  ASSUME NEW N \in SUBSET Job, N \cap PlannedWork = {},
         \A k \in N : attr[k].role = k /\ Unlocked(attr, k)
  PROVE  Ledger!New(N)
  <1>1. \A k \in N : Ledger!Free(k)
    BY LedgerTerms DEF Unlocked, ScopeOf
  <1> QED
    BY <1>1 DEF Ledger!New, PlannedWork

LEMMA AdmitStep ==
  ASSUME TypeOK, TypeOK', RoleInv, Still, NEW N, Moves(N, {}),
         \A k \in N : Unlocked(attr, k)
  PROVE  \E S \in SUBSET Job : Ledger!Admit(S)
  <1>1. RolesOf({}) = {} /\ Effects(N, {})
    BY MovedWork DEF RolesOf
  <1>2. N \in SUBSET Job /\ \A k \in N : attr[k].role = k
    BY DEF Moves, RoleInv
  <1>3. PlannedWork' = PlannedWork \cup N /\ UNCHANGED <<HeldWork, DoneWork, DroppedWork>>
    BY <1>1 DEF Effects
  <1>4. Ledger!New(N)
    BY <1>1, <1>2, NewIs DEF Effects
  <1>5. Ledger!Admit(N)
    BY <1>3, <1>4 DEF Ledger!Admit, Still, PlannedWork, HeldWork, DoneWork, DroppedWork, LiveStates
  <1> QED
    BY <1>2, <1>5

LEMMA AcceptStep ==
  ASSUME TypeOK, TypeOK', RoleInv, Still, NEW N, NEW j \in Job,
         NEW T, T = {j}, Moves(N, T), job[j].state \in Active, job'[j].state = "succeeded",
         LockOf(ScopeOf(attr, j)).phase # "snapshot", \A k \in N : Unlocked(attr, k)
  PROVE  \E S \in SUBSET Job : \E w \in Job : Ledger!Accept(w, S)
  <1> DEFINE w == attr[j].role
  <1>1. RolesOf(T) = {w} /\ w \in Job
    BY DEF RolesOf, TypeOK, Attr
  <1>2. N \in SUBSET Job /\ \A k \in N : attr[k].role = k
    BY DEF Moves, RoleInv
  <1>3. \A k \in T : job'[k].state = "succeeded" /\ job'[k].state \notin Over \cup Active
    BY Conditions
  <1>4. Effects(N, T)
    BY MovedWork
  <1>5. /\ HeldWork' = HeldWork \ {w} /\ DoneWork' = DoneWork \cup {w}
        /\ PlannedWork' = PlannedWork \cup N /\ DroppedWork' = DroppedWork
    BY <1>1, <1>3, <1>4 DEF Effects
  <1>6. Ledger!New(N)
    BY <1>2, <1>4, NewIs DEF Effects
  <1>7. w \in HeldWork /\ ~Ledger!Frozen(w)
    <2>1. w \in HeldWork
      BY <1>1 DEF HeldWork, Carried
    <2>2. ~Ledger!Frozen(w)
      BY <1>1, LedgerTerms DEF ScopeOf
    <2> QED
      BY <2>1, <2>2
  <1> HIDE DEF w
  <1>8. Ledger!Accept(w, N)
    BY <1>5, <1>6, <1>7
       DEF Ledger!Accept, Still, PlannedWork, HeldWork, DoneWork, DroppedWork, LiveStates
  <1> QED
    BY <1>1, <1>2, <1>8

\* the rows of S hand their roles over to new rows
LEMMA SuccessionKeeps ==
  ASSUME TypeOK, TypeOK', NEW S \in SUBSET Job, NEW heir,
         \A o \in S : /\ heir[o] \in Job /\ ~Exists(heir[o])
                      /\ attr'[heir[o]].role = attr[o].role /\ attr'[o] = attr[o]
                      /\ job[o].state \in OpenStates /\ job'[o].state \in Over
                      /\ job'[heir[o]].state \in OpenStates,
         \A k \in Job \ S : (\A o \in S : heir[o] # k) =>
           attr'[k] = attr[k] /\ Keeps(job[k], job'[k])
  PROVE  UNCHANGED <<PlannedWork, HeldWork, DoneWork, DroppedWork>>
  <1>1. \A k \in Job : job[k].state \in States /\ job'[k].state \in States
    BY DEF TypeOK, Row
  <1>2. ASSUME NEW C, C \in {Active, {"succeeded"}}
        PROVE  CarriedNext(C) = Carried(C)
    <2>1. C \cap (OpenStates \cup Over \cup {"absent"}) = {}
      <3>1. Active \cap (OpenStates \cup Over \cup {"absent"}) = {}
        BY Conditions DEF OpenStates
      <3>2. "succeeded" \notin OpenStates \cup Over \cup {"absent"}
        BY Conditions DEF OpenStates
      <3> QED
        BY <1>2, <3>1, <3>2
    <2>2. \A k \in Job : /\ job'[k].state \in C <=> job[k].state \in C
                         /\ job[k].state \in C => attr'[k] = attr[k]
      <3> SUFFICES ASSUME NEW k \in Job
                   PROVE  /\ job'[k].state \in C <=> job[k].state \in C
                          /\ job[k].state \in C => attr'[k] = attr[k]
        OBVIOUS
      <3>1. CASE k \in S
        BY <2>1, <3>1
      <3>2. ASSUME NEW o \in S, heir[o] = k PROVE job'[k].state \notin C /\ job[k].state \notin C
        BY <2>1, <3>2 DEF Exists
      <3>3. CASE k \notin S /\ \A o \in S : heir[o] # k
        BY <1>2, <3>3 DEF Keeps, Eases
      <3> QED
        BY <3>1, <3>2, <3>3
    <2> QED
      BY <2>2 DEF CarriedNext, Carried
  <1>3. ASSUME NEW C, C \in {LiveStates, States \ {"absent"}}
        PROVE  CarriedNext(C) = Carried(C)
    <2>1. ASSUME NEW k \in Job, job[k].state \in C
          PROVE  \E i \in Job : attr'[i].role = attr[k].role /\ job'[i].state \in C
      <3>1. CASE k \in S
        BY <1>1, <1>3, <3>1, Conditions DEF LiveStates
      <3>2. CASE k \notin S /\ \A o \in S : heir[o] # k
        BY <1>1, <1>3, <2>1, <3>2 DEF Keeps, Eases, LiveStates
      <3>3. ASSUME NEW o \in S, heir[o] = k PROVE FALSE
        BY <1>3, <2>1, <3>3 DEF Exists, LiveStates
      <3> QED
        BY <3>1, <3>2, <3>3
    <2>2. ASSUME NEW k \in Job, job'[k].state \in C
          PROVE  \E i \in Job : attr[i].role = attr'[k].role /\ job[i].state \in C
      <3>1. CASE k \in S
        BY <1>1, <1>3, <3>1, Conditions DEF LiveStates
      <3>2. CASE k \notin S /\ \A o \in S : heir[o] # k
        BY <1>1, <1>3, <2>2, <3>2 DEF Keeps, Eases, LiveStates
      <3>3. ASSUME NEW o \in S, heir[o] = k
            PROVE  attr[o].role = attr'[k].role /\ job[o].state \in C
        BY <1>1, <1>3, <3>3, Conditions DEF LiveStates
      <3> QED
        BY <3>1, <3>2, <3>3
    <2> QED
      BY <2>1, <2>2 DEF CarriedNext, Carried
  <1>4. /\ HeldWork' = CarriedNext(Active) /\ DoneWork' = CarriedNext({"succeeded"})
        /\ PlannedWork' = CarriedNext(States \ {"absent"})
        /\ Carried(LiveStates)' = CarriedNext(LiveStates)
    BY DEF HeldWork, DoneWork, PlannedWork, Carried, CarriedNext
  <1>5. HeldWork' = HeldWork /\ DoneWork' = DoneWork /\ PlannedWork' = PlannedWork
        /\ Carried(LiveStates)' = Carried(LiveStates)
    <2>1. CarriedNext(Active) = Carried(Active) /\ CarriedNext({"succeeded"}) = Carried({"succeeded"})
      BY <1>2
    <2>2. /\ CarriedNext(LiveStates) = Carried(LiveStates)
          /\ CarriedNext(States \ {"absent"}) = Carried(States \ {"absent"})
      BY <1>3
    <2> QED
      BY <1>4, <2>1, <2>2 DEF HeldWork, DoneWork, PlannedWork
  <1>6. DroppedWork = PlannedWork \ Carried(LiveStates)
    BY DroppedIs
  <1>7. (DroppedWork = PlannedWork \ Carried(LiveStates))'
    BY DroppedIs, PTL
  <1> QED
    BY <1>5, <1>6, <1>7

(***************************************************************************)
(* createdSequence numbers the rows: no two rows share a number, and every *)
(* number is at most the number of rows.  Heirs are handed out in the      *)
(* order of these numbers, so that no two superseded rows share an heir.   *)
(***************************************************************************)
Rows == {k \in Job : Exists(k)}
SeqInv ==
  /\ \A k \in Rows : attr[k].seq <= Cardinality(Rows)
  /\ \A j, k \in Rows : attr[j].seq = attr[k].seq => j = k

Numbered(new) ==
  /\ new \in SUBSET {k \in Job : ~Exists(k)}
  /\ Rows' = Rows \cup new
  /\ \A k \in Rows : attr'[k] = attr[k]
  /\ \A k \in new : attr'[k].seq = Sequence(new, k)

LEMMA SequenceIs ==
  ASSUME NEW new \in SUBSET {k \in Job : ~Exists(k)}, NEW j \in new
  PROVE  /\ Cardinality(Rows) \in Nat /\ Sequence(new, j) \in Nat
         /\ Sequence(new, j) > Cardinality(Rows)
         /\ Sequence(new, j) <= Cardinality(Rows \cup new)
         /\ \A k \in new : j < k => Sequence(new, j) < Sequence(new, k)
  <1> DEFINE Upto(k) == {i \in new : i <= k}
  <1>1. IsFiniteSet(Rows) /\ IsFiniteSet(new) /\ \A k : IsFiniteSet(Upto(k))
    <2>1. Rows \subseteq Job /\ new \subseteq Job /\ \A k : Upto(k) \subseteq Job
      BY DEF Rows
    <2> QED
      BY <2>1, JobsAreNumbers, FS_Subset
  <1>2. /\ Cardinality(Rows) \in Nat /\ Cardinality(new) \in Nat
        /\ \A k : Cardinality(Upto(k)) \in Nat
    BY <1>1, FS_CardinalityType
  <1>3. \A k : Sequence(new, k) = Cardinality(Rows) + Cardinality(Upto(k))
    BY DEF Sequence, Rows
  <1>4. Cardinality(Upto(j)) # 0
    <2>1. j \in Upto(j)
      BY JobsAreNumbers
    <2> QED
      BY <1>1, <2>1, FS_EmptySet
  <1>5. Cardinality(Upto(j)) <= Cardinality(new)
    <2>1. Upto(j) \subseteq new
      OBVIOUS
    <2> QED
      BY <1>1, <2>1, FS_Subset
  <1>6. Cardinality(Rows \cup new) = Cardinality(Rows) + Cardinality(new)
    <2>1. Rows \cap new = {}
      BY DEF Rows
    <2> QED
      BY <1>1, <1>2, <2>1, FS_Union, FS_EmptySet
  <1>7. ASSUME NEW k \in new, j < k
        PROVE  Cardinality(Upto(j)) < Cardinality(Upto(k))
    <2>1. Upto(j) \subseteq Upto(k) /\ k \in Upto(k) /\ k \notin Upto(j)
      <3>1. j \in Nat /\ k \in Nat /\ new \subseteq Nat
        BY JobsAreNumbers
      <3>2. k <= k /\ ~(k <= j) /\ \A i \in Nat : i <= j => i <= k
        BY <1>7, <3>1
      <3> QED
        BY <3>1, <3>2
    <2>2. Upto(j) # Upto(k)
      BY <2>1
    <2> HIDE DEF Upto
    <2>3. /\ Cardinality(Upto(j)) <= Cardinality(Upto(k))
          /\ Cardinality(Upto(j)) = Cardinality(Upto(k)) => Upto(j) = Upto(k)
      BY <1>1, <2>1, FS_Subset
    <2> QED
      BY <1>2, <2>2, <2>3
  <1> HIDE DEF Upto
  <1> QED
    BY <1>2, <1>3, <1>4, <1>5, <1>6, <1>7

LEMMA SeqStep ==
  ASSUME TypeOK, SeqInv, NEW new, Numbered(new)
  PROVE  SeqInv'
  <1>1. /\ new \in SUBSET {k \in Job : ~Exists(k)} /\ Rows' = Rows \cup new
        /\ \A k \in Rows : attr'[k] = attr[k]
        /\ \A k \in new : attr'[k].seq = Sequence(new, k)
    BY DEF Numbered
  <1>2. /\ \A k \in Rows : attr[k].seq \in Nat /\ attr[k].seq <= Cardinality(Rows)
        /\ \A j, k \in Rows : attr[j].seq = attr[k].seq => j = k
    BY DEF SeqInv, TypeOK, Attr, Rows
  <1>3. ASSUME NEW j \in new
        PROVE  /\ Cardinality(Rows) \in Nat /\ attr'[j].seq \in Nat
               /\ attr'[j].seq > Cardinality(Rows) /\ attr'[j].seq <= Cardinality(Rows')
               /\ \A k \in new : j < k => attr'[j].seq < attr'[k].seq
    BY <1>1, SequenceIs
  <1>4. Cardinality(Rows) \in Nat /\ Cardinality(Rows') \in Nat
        /\ Cardinality(Rows) <= Cardinality(Rows')
    <2>1. Rows \subseteq Job /\ Rows' \subseteq Job /\ Rows \subseteq Rows'
      BY <1>1 DEF Rows
    <2>2. IsFiniteSet(Rows')
      BY <2>1, JobsAreNumbers, FS_Subset
    <2> QED
      BY <2>1, <2>2, FS_Subset, FS_CardinalityType
  <1>5. ASSUME NEW k \in Rows' PROVE attr'[k].seq <= Cardinality(Rows')
    <2>1. CASE k \in Rows
      <3>1. attr'[k].seq \in Nat /\ attr'[k].seq <= Cardinality(Rows)
        BY <1>1, <1>2, <2>1
      <3> QED
        BY <1>4, <3>1
    <2>2. CASE k \in new
      BY <1>3, <2>2
    <2> QED
      BY <1>1, <2>1, <2>2
  <1>6. ASSUME NEW j \in Rows', NEW k \in Rows', attr'[j].seq = attr'[k].seq PROVE j = k
    <2>1. CASE j \in Rows /\ k \in Rows
      BY <1>1, <1>2, <1>6, <2>1
    <2>2. CASE j \in new /\ k \in new
      <3>1. j \in Nat /\ k \in Nat
        BY <1>1, <2>2, JobsAreNumbers
      <3>2. attr'[j].seq \in Nat /\ attr'[k].seq \in Nat
        BY <1>3, <2>2
      <3>3. ~(j < k) /\ ~(k < j)
        BY <1>3, <1>6, <2>2, <3>2
      <3> QED
        BY <3>1, <3>3
    <2>3. ASSUME NEW x \in Rows, NEW y \in new, attr'[x].seq = attr'[y].seq PROVE FALSE
      BY <1>1, <1>2, <1>3, <1>4, <2>3
    <2> QED
      BY <1>1, <1>6, <2>1, <2>2, <2>3
  <1> QED
    BY <1>5, <1>6 DEF SeqInv

Renumbered(a, d, q) == [a EXCEPT !.deps = d, !.seq = q]

LEMMA RenumberedIs ==
  ASSUME NEW a \in Attr, NEW d, NEW q
  PROVE  Renumbered(a, d, q).seq = q
  BY DEF Attr, Renumbered

LEMMA NumberedAttrSeq ==
  ASSUME attr \in [Job -> Attr], NEW new \in SUBSET Job, NEW depsOf, NEW k \in new
  PROVE  NumberedAttr(new, depsOf)[k].seq = Sequence(new, k)
  <1>1. NumberedAttr(new, depsOf)[k] = Renumbered(attr[k], depsOf[k], Sequence(new, k))
    BY Zenon DEF NumberedAttr, Renumbered
  <1>2. attr[k] \in Attr
    OBVIOUS
  <1> QED
    BY <1>1, <1>2, RenumberedIs

LEMMA PromotedKeeps ==
  ASSUME NEW as, NEW rows \in [Job -> Row], NEW k \in Job
  PROVE  Keeps(rows[k], Promoted(as, rows)[k])
  <1>1. CASE Promotable(as, rows, k)
    <2>1. rows[k].state = "blocked"
      BY <1>1 DEF Promotable
    <2>2. Promoted(as, rows)[k].state \in {"waiting_review", "queued"}
      BY <1>1 DEF Promoted, Row
    <2> QED
      BY <2>1, <2>2 DEF Keeps, Eases, Active, Over
  <1>2. CASE ~Promotable(as, rows, k)
    BY <1>2 DEF Promoted, Keeps, Eases
  <1> QED
    BY <1>1, <1>2

LEMMA PlainNumbered ==
  ASSUME TypeOK, Plain
  PROVE  Numbered({})
  <1>1. \A k \in Job : Exists(k) => attr'[k] = attr[k] /\ job'[k].state # "absent"
    BY DEF Plain, Sound
  <1>2. \A k \in Job : ~Exists(k) => job'[k].state = "absent"
    BY DEF Plain
  <1>3. Rows' = Rows
    BY <1>1, <1>2 DEF Rows, Exists
  <1> QED
    BY <1>1, <1>3 DEF Numbered, Rows

\* a new row is open
LEMMA InsertedIs ==
  ASSUME NEW as, NEW rows, NEW new \in SUBSET Job, NEW priority \in [new -> Nat], NEW k \in new
  PROVE  Inserted(as, rows, new, priority)[k].state \in OpenStates
  <1> PICK p \in Nat : p = priority[k]
    OBVIOUS
  <1> PICK r : r = NewRow(as, rows, k, p)
    OBVIOUS
  <1>1. r.state \in {"blocked", "queued", "waiting_review", "paused"}
    BY NewRowIs
  <1>2. Inserted(as, rows, new, priority)[k] = r
    BY DEF Inserted
  <1> QED
    BY <1>1, <1>2, Conditions DEF Waiting

LEMMA EnqueueNumbered ==
  ASSUME TypeOK, TypeOK', NEW batch \in Batches, Enqueue(batch)
  PROVE  \E new : /\ Numbered(new) /\ \A k \in new : Unlocked(attr, k)
                  /\ \A k \in Job : attr'[k].role = attr[k].role
                  /\ \A k \in new : job'[k].state \in OpenStates
                  /\ \A k \in Job \ new : job'[k] = job[k]
  <1> PICK new : new = Fresh(batch)
    OBVIOUS
  <1> PICK depsOf : depsOf = [j \in new |-> Plan[j].deps]
    OBVIOUS
  <1> PICK priority : priority = [j \in new |-> DefaultPriority]
    OBVIOUS
  <1>1. /\ attr' = NumberedAttr(new, depsOf)
        /\ job' = Inserted(attr', job, new, priority)
        /\ \A k \in new : Unlocked(attr', k)
    BY DEF Enqueue, Insertable
  <1>2. new \in SUBSET {k \in Job : ~Exists(k)} /\ priority \in [new -> Nat]
    BY PlanIsWellFormed, BoundsArePositive DEF Fresh
  <1>3. attr \in [Job -> Attr] /\ new \in SUBSET Job
    BY <1>2 DEF TypeOK
  <1>4. /\ \A k \in Job \ new : attr'[k] = attr[k]
        /\ \A k \in Job : attr'[k].role = attr[k].role
        /\ \A k \in new : attr'[k].seq = Sequence(new, k)
    BY <1>1, <1>3, NumberedAttrIs, NumberedAttrSeq
  <1>5. \A k \in new : job'[k].state \in OpenStates
    BY <1>1, <1>2, <1>3, InsertedIs
  <1>6. \A k \in Job \ new : job'[k] = job[k]
    BY <1>1 DEF Inserted
  <1>7. Rows' = Rows \cup new
    BY <1>2, <1>5, <1>6, Conditions DEF Rows, Exists, OpenStates
  <1>8. Numbered(new)
    BY <1>2, <1>4, <1>7 DEF Numbered, Rows
  <1>9. \A k \in new : Unlocked(attr, k)
    BY <1>1, <1>3, <1>4 DEF Unlocked, ScopeOf
  <1> QED
    BY <1>4, <1>5, <1>6, <1>8, <1>9

LEMMA CommitNumbered ==
  ASSUME TypeOK, TypeOK', NEW j \in Job, NEW a, Commit(j, a)
  PROVE  \E new : /\ Numbered(new) /\ \A k \in new : Unlocked(attr, k)
                  /\ \A k \in Job : attr'[k].role = attr[k].role
                  /\ \A k \in new : job'[k].state \in OpenStates
                  /\ \A k \in Job \ (new \cup {j}) : Keeps(job[k], job'[k])
                  /\ job[j].state = "running" /\ job'[j].state = "succeeded"
  <1> PICK new : new = FollowUps(j)
    OBVIOUS
  <1> PICK priority : priority = [k \in new |-> job[j].priority]
    OBVIOUS
  <1> PICK rows : rows = Inserted(attr', job, new, priority)
    OBVIOUS
  <1> PICK done : done = [rows EXCEPT ![j] = SucceededRow(@)]
    OBVIOUS
  <1>1. /\ attr' = FollowUpAttr(j) /\ job' = Promoted(attr', done)
        /\ \A k \in new : Unlocked(attr', k)
        /\ job[j].state = "running"
        /\ new \in SUBSET {k \in Job : ~Exists(k)} /\ j \notin new
        /\ priority \in [new -> Nat]
        /\ \A k \in Job \ new : attr'[k] = attr[k]
        /\ \A k \in new : attr'[k].role = attr[k].role
    BY CommitWrites
  <1>2. attr \in [Job -> Attr] /\ job \in [Job -> Row] /\ new \in SUBSET Job
    BY <1>1 DEF TypeOK
  <1>3. \A k \in new : attr'[k].seq = Sequence(new, k)
    BY <1>1, <1>2, NumberedAttrSeq DEF FollowUpAttr
  <1>4. rows \in [Job -> Row] /\ rows[j] = job[j]
    <2>1. rows[j] = job[j]
      BY <1>1 DEF Inserted
    <2> QED
      BY <1>1, <1>2, <2>1, InsertedType
  <1>5. /\ \A k \in Job \ {j} : done[k] = rows[k]
        /\ done[j].state = "succeeded" /\ done \in [Job -> Row]
    <2>1. SucceededRow(job[j]).state = "succeeded" /\ SucceededRow(job[j]) \in Row
      BY <1>2, SucceededRowType DEF SucceededRow, Row
    <2> QED
      BY <1>4, <2>1
  <1>6. \A k \in new : done[k].state \in OpenStates
    BY <1>1, <1>2, <1>5, InsertedIs
  <1>7. \A k \in Job \ (new \cup {j}) : done[k] = job[k]
    BY <1>5 DEF Inserted
  <1>8. \A k \in Job : Keeps(done[k], job'[k])
    BY <1>1, <1>5, PromotedKeeps
  <1>9. /\ \A k \in new : job'[k].state \in OpenStates
        /\ job'[j].state = "succeeded"
        /\ \A k \in Job \ (new \cup {j}) : Keeps(job[k], job'[k])
    <2>1. \A k \in Job : job'[k].state \in States
      BY DEF TypeOK, Row
    <2>2. \A k \in new : job'[k].state \in OpenStates
      BY <1>2, <1>6, <1>8, <2>1 DEF Keeps, Eases, OpenStates
    <2>3. job'[j].state = "succeeded"
      BY <1>5, <1>8 DEF Keeps, Eases
    <2>4. \A k \in Job \ (new \cup {j}) : Keeps(job[k], job'[k])
      BY <1>7, <1>8
    <2> QED
      BY <2>2, <2>3, <2>4
  <1>10. Rows' = Rows \cup new
    <2>1. \A k \in Job : job'[k].state # "absent" <=> job[k].state # "absent" \/ k \in new
      <3> TAKE k \in Job
      <3>1. CASE k \in new
        BY <1>9, <3>1 DEF OpenStates
      <3>2. CASE k = j
        BY <1>1, <1>9, <3>2
      <3>3. CASE k \in Job \ (new \cup {j})
        BY <1>9, <3>3 DEF Keeps, Eases
      <3> QED
        BY <3>1, <3>2, <3>3
    <2> QED
      BY <1>1, <2>1 DEF Rows, Exists
  <1>11. Numbered(new)
    BY <1>1, <1>3, <1>10 DEF Numbered, Rows
  <1>12. \A k \in new : Unlocked(attr, k)
    BY <1>1, <1>2 DEF Unlocked, ScopeOf
  <1> QED
    BY <1>1, <1>9, <1>11, <1>12

LEMMA HeirAttrSeq ==
  ASSUME TypeOK, NEW S \in SUBSET Job, NEW heir \in Heirs(S), NEW alternate
  PROVE  LET new == {heir[j] : j \in S}
         IN \A k \in new : HeirAttr(S, heir, alternate)[k].seq = Sequence(new, k)
  <1> DEFINE new == {heir[j] : j \in S}
  <1> SUFFICES ASSUME NEW k \in new
               PROVE  HeirAttr(S, heir, alternate)[k].seq = Sequence(new, k)
    OBVIOUS
  <1> DEFINE original == [i \in new |-> CHOOSE j \in S : heir[j] = i]
             depsOf == [i \in new |->
                          {IF d \in S THEN heir[d] ELSE d : d \in attr[original[i]].deps}]
             base == NumberedAttr(new, depsOf)
  <1>1. new \in SUBSET Job /\ attr \in [Job -> Attr]
    <2>1. \A j \in S : heir[j] \in Job
      BY JobsAreNumbers DEF Heirs
    <2> QED
      BY <2>1 DEF TypeOK
  <1>2. HeirAttr(S, heir, alternate) =
          [i \in Job |-> IF i \in new
                         THEN [base[i] EXCEPT !.role = attr[original[i]].role,
                                              !.lane = alternate]
                         ELSE base[i]]
    BY DEF HeirAttr
  <1> HIDE DEF original
  <1>3. base[k].seq = Sequence(new, k)
    BY <1>1, NumberedAttrSeq
  <1>4. base[k] = [attr[k] EXCEPT !.deps = depsOf[k], !.seq = Sequence(new, k)] /\ attr[k] \in Attr
    BY <1>1 DEF NumberedAttr
  <1> PICK role : role = attr[original[k]].role
    OBVIOUS
  <1> PICK b : b = base[k]
    OBVIOUS
  <1>5. DOMAIN b = {"role", "lane", "deps", "seq"}
    BY <1>4 DEF Attr
  <1>6. HeirAttr(S, heir, alternate)[k] = [b EXCEPT !.role = role, !.lane = alternate]
    BY <1>1, <1>2
  <1> HIDE DEF base
  <1>7. [b EXCEPT !.role = role, !.lane = alternate].seq = b.seq
    BY <1>5
  <1> QED
    BY <1>3, <1>6, <1>7

\* what a step that replaces rows by their heirs comes to
Replaced(S, heir, new) ==
  /\ S \in SUBSET Job /\ heir \in Heirs(S) /\ new = {heir[o] : o \in S} /\ Numbered(new)
  /\ \A o \in S : /\ attr'[o] = attr[o]
                  /\ job[o].state \in OpenStates /\ job'[o].state \in Over
  /\ \A k \in new : /\ job'[k].state \in OpenStates
                    /\ \E o \in S : heir[o] = k /\ attr'[k].role = attr[o].role
  /\ \A k \in Job \ (S \cup new) : attr'[k] = attr[k] /\ job'[k] = job[k]

LEMMA HeirStepReplaces ==
  ASSUME TypeOK, TypeOK', NEW alternate \in Lane,
         \E S, heir, new, rows : HeirStep(S, heir, alternate, new, rows)
  PROVE  \E S, heir, new : Replaced(S, heir, new)
  <1> PICK S, heir, new, rows : HeirStep(S, heir, alternate, new, rows)
    OBVIOUS
  <1>1. /\ S \in SUBSET Job /\ \A j \in S : job[j].state \in Waiting \cup {"paused"}
        /\ heir \in Heirs(S) /\ new = {heir[j] : j \in S}
        /\ attr' = HeirAttr(S, heir, alternate)
        /\ rows = Inserted(attr', job, new, HeirPriority(S, heir)) /\ job' \in [Job -> Row]
        /\ \A k \in S : job'[k] = SupersededRow(rows[k])
        /\ \A k \in Job \ (S \cup new) : job'[k] = rows[k]
        /\ \A k \in new : Disposed(rows[k], job'[k])
    BY DEF HeirStep
  <1>2. /\ new \in SUBSET {k \in Job : ~Exists(k)} /\ \A k \in Job \ new : attr'[k] = attr[k]
        /\ \A k \in new : \E o \in S : heir[o] = k /\ attr'[k].role = attr[o].role
    <2>1. LET n == {heir[j] : j \in S}
              a == HeirAttr(S, heir, alternate)
          IN /\ n \in SUBSET {k \in Spare : ~Exists(k)}
             /\ \A k \in Job \ n : a[k] = attr[k]
             /\ \A k \in n : \E p \in S :
                  heir[p] = k /\ a[k].role = attr[p].role /\ a[k].lane = alternate
      BY <1>1, HeirAttrIs
    <2> QED
      BY <1>1, <2>1, JobsAreNumbers
  <1>3. ASSUME NEW k \in new PROVE attr'[k].seq = Sequence(new, k)
    <2>1. LET n == {heir[j] : j \in S}
          IN \A i \in n : HeirAttr(S, heir, alternate)[i].seq = Sequence(n, i)
      BY <1>1, HeirAttrSeq
    <2> QED
      BY <1>1, <2>1
  <1> PICK priority : priority = HeirPriority(S, heir)
    OBVIOUS
  <1>4. priority \in [new -> Nat]
    BY <1>1, HeirsType
  <1>5. S \cap new = {} /\ \A k \in Job \ new : rows[k] = job[k]
    BY <1>1, <1>2 DEF Inserted, Exists, Waiting
  <1>6. \A k \in new : job'[k].state \in OpenStates
    <2> TAKE k \in new
    <2>1. rows[k].state \in OpenStates
      BY <1>1, <1>2, <1>4, InsertedIs
    <2>2. rows[k] \in Row
      <3>1. job \in [Job -> Row] /\ new \in SUBSET Job
        BY <1>2 DEF TypeOK
      <3>2. rows \in [Job -> Row]
        BY <1>1, <1>4, <3>1, InsertedType
      <3> QED
        BY <3>1, <3>2
    <2>3. ASSUME NEW why, NEW because, job'[k] = PausedRow(rows[k], why, because)
          PROVE  job'[k].state \in OpenStates
      BY <2>2, <2>3, Conditions DEF PausedRow, Row
    <2>4. Disposed(rows[k], job'[k])
      BY <1>1
    <2> QED
      BY <2>1, <2>3, <2>4 DEF Disposed
  <1>7. ASSUME NEW o \in S
        PROVE  attr'[o] = attr[o] /\ job[o].state \in OpenStates /\ job'[o].state \in Over
    <2>1. job'[o] = SupersededRow(job[o]) /\ job[o] \in Row
      BY <1>1, <1>5 DEF TypeOK
    <2>2. job'[o].state = "canceled"
      BY <2>1 DEF SupersededRow, Row
    <2> QED
      BY <1>1, <1>2, <1>5, <2>2, Conditions DEF Over
  <1>8. \A k \in Job \ (S \cup new) : attr'[k] = attr[k] /\ job'[k] = job[k]
    BY <1>1, <1>2, <1>5
  <1>9. Rows' = Rows \cup new
    <2>1. \A k \in Job : job'[k].state # "absent" <=> job[k].state # "absent" \/ k \in new
      <3> TAKE k \in Job
      <3>1. CASE k \in new
        BY <1>6, <3>1 DEF OpenStates
      <3>2. CASE k \in S
        BY <1>7, <3>2 DEF OpenStates, Over
      <3>3. CASE k \in Job \ (S \cup new)
        BY <1>8, <3>3
      <3> QED
        BY <3>1, <3>2, <3>3
    <2> QED
      BY <1>2, <2>1 DEF Rows, Exists
  <1>10. Numbered(new)
    BY <1>2, <1>3, <1>9 DEF Numbered, Rows
  <1> QED
    BY <1>1, <1>2, <1>6, <1>7, <1>8, <1>10 DEF Replaced

\* heirs are handed out in the order of the numbers, so work keeps one carrier
LEMMA ReplacedKeeps ==
  ASSUME TypeOK, TypeOK', SeqInv, \E S, heir, new : Replaced(S, heir, new)
  PROVE  UNCHANGED <<PlannedWork, HeldWork, DoneWork, DroppedWork>>
  <1> PICK S, heir, new : Replaced(S, heir, new)
    OBVIOUS
  <1>1. /\ S \in SUBSET Job /\ heir \in Heirs(S) /\ new = {heir[o] : o \in S} /\ Numbered(new)
        /\ \A o \in S : /\ attr'[o] = attr[o]
                        /\ job[o].state \in OpenStates /\ job'[o].state \in Over
        /\ \A k \in new : /\ job'[k].state \in OpenStates
                          /\ \E o \in S : heir[o] = k /\ attr'[k].role = attr[o].role
        /\ \A k \in Job \ (S \cup new) : attr'[k] = attr[k] /\ job'[k] = job[k]
    BY DEF Replaced
  <1>2. \A o \in S : heir[o] \in Job /\ ~Exists(heir[o]) /\ heir[o] \in new
    BY <1>1 DEF Numbered
  <1>3. ASSUME NEW o \in S, NEW p \in S, heir[o] = heir[p] PROVE o = p
    <2>1. o \in Rows /\ p \in Rows
      BY <1>1 DEF Rows, Exists, OpenStates
    <2>2. attr[o].seq \in Nat /\ attr[p].seq \in Nat /\ heir[o] \in Nat /\ heir[p] \in Nat
      BY <1>1, <1>2, JobsAreNumbers DEF TypeOK, Attr
    <2>3. /\ attr[o].seq < attr[p].seq => heir[o] < heir[p]
          /\ attr[p].seq < attr[o].seq => heir[p] < heir[o]
      BY <1>1 DEF Heirs
    <2>4. attr[o].seq = attr[p].seq
      BY <1>3, <2>2, <2>3
    <2> QED
      BY <2>1, <2>4 DEF SeqInv
  <1>4. \A o \in S : /\ heir[o] \in Job /\ ~Exists(heir[o])
                     /\ attr'[heir[o]].role = attr[o].role /\ attr'[o] = attr[o]
                     /\ job[o].state \in OpenStates /\ job'[o].state \in Over
                     /\ job'[heir[o]].state \in OpenStates
    <2> TAKE o \in S
    <2>1. PICK p \in S : heir[p] = heir[o] /\ attr'[heir[o]].role = attr[p].role
      BY <1>1, <1>2
    <2>2. p = o
      BY <1>3, <2>1
    <2> QED
      BY <1>1, <1>2, <2>1, <2>2
  <1>5. \A k \in Job \ S : (\A o \in S : heir[o] # k) =>
          attr'[k] = attr[k] /\ Keeps(job[k], job'[k])
    <2>1. \A k \in Job \ S : (\A o \in S : heir[o] # k) => k \notin new
      BY <1>1
    <2> QED
      BY <1>1, <2>1 DEF Keeps, Eases
  <1> QED
    BY <1>1, <1>4, <1>5, SuccessionKeeps

LEMMA SeqNext ==
  ASSUME TypeOK, TypeOK', OrderInv, SeqInv, [Next]_vars
  PROVE  SeqInv'
  <1>1. CASE Plain
    BY <1>1, PlainNumbered, SeqStep
  <1>2. ASSUME NEW batch \in Batches, Enqueue(batch) PROVE SeqInv'
    BY <1>2, EnqueueNumbered, SeqStep
  <1>3. ASSUME NEW j \in Job, NEW a, Commit(j, a) PROVE SeqInv'
    BY <1>3, CommitNumbered, SeqStep
  <1>4. ASSUME NEW alternate \in Lane, NEW S, NEW heir, NEW new, NEW rows,
               HeirStep(S, heir, alternate, new, rows)
        PROVE  SeqInv'
    <2>1. \E T, h, n : Replaced(T, h, n)
      BY <1>4, HeirStepReplaces
    <2> QED
      BY <2>1, SeqStep DEF Replaced
  <1> QED
    BY <1>1, <1>2, <1>3, <1>4, StepIs DEF Inserts

(***************************************************************************)
(* What a drain captured are attempts of rows, and human gates have none:  *)
(* a gate is completed in an open scope only.                              *)
(***************************************************************************)
CapturedInv ==
  \A s \in Project : \A c \in lock[s].captured : Exists(c[1]) /\ ~IsGate(attr, c[1])

LEMMA CapturedStep ==
  ASSUME TypeOK, TypeOK', OrderInv, CapturedInv, [Next]_vars
  PROVE  CapturedInv'
  <1>1. \A k \in Job : Exists(k) => attr'[k] = attr[k] /\ Exists(k)'
    BY StepOrderly DEF Orderly, Sound, Exists
  <1> SUFFICES ASSUME NEW s \in Project, NEW c \in lock'[s].captured
               PROVE  Exists(c[1]) /\ ~IsGate(attr, c[1]) /\ c[1] \in Job
    BY <1>1 DEF CapturedInv, Exists, IsGate, GateOf
  <1>2. c[1] \in Job
    <2>1. c \in Job \X Nat
      BY DEF TypeOK
    <2> QED
      BY <2>1
  <1>3. CASE c \in lock[s].captured
    BY <1>2, <1>3 DEF CapturedInv
  <1>4. ASSUME NEW t \in Project, BeginExportDrain(t), c \notin lock[s].captured
        PROVE  Exists(c[1]) /\ ~IsGate(attr, c[1])
    <2>1. \E k \in JobsOf(t) : job[k].state \in Active /\ c = <<k, job[k].attempts>>
      BY <1>4 DEF BeginExportDrain, TypeOK
    <2>2. c[1] \in JobsOf(t) /\ job[c[1]].state \in Active
      BY <2>1
    <2> QED
      BY <1>2, <2>2, ActiveIsNoGate DEF JobsOf
  <1>5. ASSUME NEW t \in Project, FreezeSnapshot(t) \/ ReleaseSnapshotLock(t)
        PROVE  c \in lock[s].captured
    <2>1. lock \in [Project -> [phase : {"none", "draining", "snapshot"},
                               captured : SUBSET (Job \X Nat)]]
      BY DEF TypeOK
    <2>2. lock'[s].captured \subseteq lock[s].captured
      <3>1. CASE FreezeSnapshot(t)
        BY <2>1, <3>1 DEF FreezeSnapshot
      <3>2. CASE ReleaseSnapshotLock(t)
        BY <2>1, <3>2 DEF ReleaseSnapshotLock, NoLock
      <3> QED
        BY <1>5, <3>1, <3>2
    <2> QED
      BY <2>2
  <1> QED
    BY <1>2, <1>3, <1>4, <1>5, LockWrites DEF Export

(***************************************************************************)
(* The transactions that end no work.                                      *)
(***************************************************************************)
NoneFinishes == \A k \in Job : job'[k].state \in Terminal => job[k].state \in Terminal

LEMMA UnfinishedStep ==
  ASSUME TypeOK, TypeOK', RoleInv, Plain, Calm(Job), NoneFinishes, attr' = attr, Still
  PROVE  \E S \in SUBSET Job : Ledger!Return(S)
  <1> SUFFICES ASSUME NEW k \in Job PROVE Eases(job[k], job'[k])
    BY ReturnStep
  <1>1. Quiet(job[k], job'[k])
    BY DEF Calm
  <1>2. job[k].state = "absent" <=> job'[k].state = "absent"
    BY DEF Plain, Sound, Exists
  <1> QED
    BY <1>1, <1>2 DEF NoneFinishes, Quiet, Eases, Over, Terminal

LEMMA UnfinishedRows ==
  ASSUME NEW r \in Row
  PROVE  /\ \A why, because : PausedRow(r, why, because).state \notin Terminal
         /\ \A why : RequeuedRow(r, why).state \notin Terminal
         /\ RetriedRow(r).state \notin Terminal
         /\ \A ready : ReadiedRow(r, ready).state \notin Terminal
         /\ AgedRow(r).state = r.state
         /\ \A gate : RowFits(gate, r) => RestoredRow(r).state \notin Terminal
  <1>1. AgedRow(r).state = r.state
    BY DEF AgedRow, Row
  <1>2. ASSUME NEW gate, RowFits(gate, r) PROVE RestoredRow(r).state \notin Terminal
    BY <1>2 DEF RowFits, RestoredRow, Row, Terminal
  <1> QED
    BY <1>1, <1>2 DEF PausedRow, RequeuedRow, RetriedRow, ReadiedRow, Row, Terminal

LEMMA RestoreUnfinished ==
  ASSUME TypeOK, OrderInv, NEW S \in SUBSET {k \in Job : job[k].state = "paused"}, Restore(S)
  PROVE  NoneFinishes /\ \A k \in Job : job[k].state \in Active => job'[k] = job[k]
  <1> PICK rows : rows = Restored(S)
    OBVIOUS
  <1>1. /\ job' = Promoted(attr, rows) /\ rows \in [Job -> Row] /\ job \in [Job -> Row]
        /\ \A k \in Job : RowFits(IsGate(attr, k), job[k])
    BY RestoredType DEF Restore, TypeOK, OrderInv, Fits
  <1>2. ASSUME NEW k \in Job, job'[k].state \in Terminal PROVE job[k].state \in Terminal
    <2>1. Keeps(rows[k], job'[k])
      BY <1>1, PromotedKeeps
    <2>2. rows[k].state \in Terminal
      BY <1>2, <2>1 DEF Keeps, Eases, Terminal, Over
    <2>3. k \notin S
      BY <1>1, <2>2, UnfinishedRows DEF Restored
    <2> QED
      BY <2>2, <2>3 DEF Restored
  <1>3. ASSUME NEW k \in Job, job[k].state \in Active PROVE job'[k] = job[k]
    <2>1. rows[k] = job[k]
      BY <1>3 DEF Restored, Active
    <2> QED
      BY <1>1, <1>3, <2>1 DEF Promoted, Promotable, Active
  <1> QED
    BY <1>2, <1>3 DEF NoneFinishes

LEMMA OneUnfinished ==
  ASSUME TypeOK, NEW j \in Job, NEW r, job' = [job EXCEPT ![j] = r],
         r.state \in Terminal => r.state = job[j].state
  PROVE  NoneFinishes
  <1>1. \A k \in Job : job'[k] = IF k = j THEN r ELSE job[k]
    BY DEF TypeOK
  <1> QED
    BY <1>1 DEF NoneFinishes

LEMMA ExecutionUnfinished ==
  ASSUME TypeOK, NEW j \in Job, NEW a,
         \/ MarkRunning(j, a) \/ Heartbeat(j, a) \/ Abandon(j, a) \/ RequeueOwned(j, a)
         \/ \E c : FailRetry(j, a, c)
  PROVE  NoneFinishes /\ attr' = attr /\ Still
  <1>1. attr' = attr /\ Still
    BY DEF MarkRunning, Heartbeat, Abandon, RequeueOwned, FailRetry, incidents, Still
  <1>2. job[j] \in Row
    BY DEF TypeOK
  <1>3. CASE MarkRunning(j, a)
    <2>1. job' = [job EXCEPT ![j] = [job[j] EXCEPT !.state = "running"]]
      BY <1>3 DEF MarkRunning
    <2>2. [job[j] EXCEPT !.state = "running"].state = "running"
      BY <1>2 DEF Row
    <2> QED
      BY <1>1, <2>1, <2>2, OneUnfinished DEF Terminal
  <1>4. CASE Heartbeat(j, a)
    <2>1. job' = [job EXCEPT ![j] = [job[j] EXCEPT !.lease.ttl = LeaseTtl]]
      BY <1>4 DEF Heartbeat
    <2>2. [job[j] EXCEPT !.lease.ttl = LeaseTtl].state = job[j].state
      BY <1>2 DEF Row
    <2> QED
      BY <1>1, <2>1, <2>2, OneUnfinished
  <1>5. CASE Abandon(j, a)
    BY <1>1, <1>5 DEF Abandon, NoneFinishes
  <1>6. CASE RequeueOwned(j, a)
    <2>1. job' = [job EXCEPT ![j] = RequeuedRow(job[j], "shutdown")]
      BY <1>6 DEF RequeueOwned
    <2> QED
      BY <1>1, <1>2, <2>1, UnfinishedRows, OneUnfinished
  <1>7. CASE \E c : FailRetry(j, a, c)
    <2>1. job' = [job EXCEPT ![j] = RetriedRow(job[j])]
      BY <1>7 DEF FailRetry
    <2> QED
      BY <1>1, <1>2, <2>1, UnfinishedRows, OneUnfinished
  <1> QED
    BY <1>3, <1>4, <1>5, <1>6, <1>7

LEMMA TimeUnfinished ==
  ASSUME TypeOK, Restart \/ Tick \/ \E due : Poll(due)
  PROVE  NoneFinishes /\ attr' = attr /\ Still
  <1>1. attr' = attr /\ Still
    BY DEF Restart, Tick, Poll, incidents, Still
  <1>2. job \in [Job -> Row]
    BY DEF TypeOK
  <1>3. CASE Restart
    BY <1>1, <1>2, <1>3, UnfinishedRows DEF Restart, NoneFinishes
  <1>4. CASE Tick
    BY <1>1, <1>2, <1>4, UnfinishedRows DEF Tick, NoneFinishes
  <1>5. CASE \E due : Poll(due)
    <2>1. job' = Promoted(attr, job)
      BY <1>5 DEF Poll
    <2>2. \A k \in Job : Keeps(job[k], job'[k])
      BY <1>2, <2>1, PromotedKeeps
    <2> QED
      BY <1>1, <2>2 DEF NoneFinishes, Keeps, Eases, Terminal, Over
  <1> QED
    BY <1>3, <1>4, <1>5

\* transactions that pause some rows and leave the others alone
LEMMA PausesUnfinished ==
  ASSUME TypeOK, NEW S,
         \A k \in Job \ S : job'[k] = job[k],
         \A k \in S : \E why, because : job'[k] = PausedRow(job[k], why, because)
  PROVE  NoneFinishes
  <1> SUFFICES ASSUME NEW k \in Job, k \in S PROVE job'[k].state \notin Terminal
    BY DEF NoneFinishes
  <1>1. job[k] \in Row
    BY DEF TypeOK
  <1> QED
    BY <1>1, UnfinishedRows

LEMMA SweepUnfinished ==
  ASSUME TypeOK, NEW j \in Job, NEW a,
         ActivateQuota(j, a) \/ ActivateCredentials(j, a) \/ ActivateStorage(j, a)
  PROVE  NoneFinishes /\ attr' = attr
  <1>1. attr' = attr
    BY DEF ActivateQuota, ActivateCredentials, ActivateStorage
  <1>2. CASE ActivateQuota(j, a)
    <2> PICK S : S = WaitingIn(j, {attr[j].lane})
      OBVIOUS
    <2>1. job' = [k \in Job |-> IF k \in S THEN PausedRow(job[k], "quota", "none") ELSE job[k]]
      BY <1>2 DEF ActivateQuota
    <2>2. S \subseteq Job
      BY DEF WaitingIn
    <2> QED
      BY <1>1, <2>1, <2>2, PausesUnfinished
  <1>3. CASE ActivateCredentials(j, a)
    <2> PICK S : S = WaitingIn(j, {l \in Lane : ProviderOf[l] = ProviderOf[attr[j].lane]})
      OBVIOUS
    <2>1. job' = [k \in Job |-> IF k \in S THEN PausedRow(job[k], "credentials", job[k].reason)
                                           ELSE job[k]]
      BY <1>3 DEF ActivateCredentials
    <2>2. S \subseteq Job
      BY DEF WaitingIn
    <2> QED
      BY <1>1, <2>1, <2>2, PausesUnfinished
  <1>4. CASE ActivateStorage(j, a)
    <2> PICK S : S = StoragePausable
      OBVIOUS
    <2>1. job' = [k \in Job |->
            IF k \in S
            THEN PausedRow(job[k], "storage",
                           IF job[k].state = "paused" THEN job[k].reason ELSE "none")
            ELSE job[k]]
      BY <1>4 DEF ActivateStorage
    <2>2. S \subseteq Job
      BY DEF StoragePausable
    <2> QED
      BY <1>1, <2>1, <2>2, PausesUnfinished
  <1> QED
    BY <1>2, <1>3, <1>4

LEMMA PausedByOperatorUnfinished ==
  ASSUME TypeOK, NEW S \in SUBSET Job, job' = PausedByOperator(S)
  PROVE  NoneFinishes
  BY PausesUnfinished DEF PausedByOperator

(***************************************************************************)
(* Every transaction is a step of the ledger or hidden from it.            *)
(***************************************************************************)
LedgerStep == Ledger!Next \/ UNCHANGED Ledger!vars

LEMMA ClaimLedger ==
  ASSUME TypeOK, TypeOK', OrderInv, RoleInv, NEW j \in Job, NEW due, ClaimNext(j, due)
  PROVE  LedgerStep
  <1> PICK rows : rows = Promoted(attr, job)
    OBVIOUS
  <1>1. /\ job \in [Job -> Row] /\ rows \in [Job -> Row]
        /\ job' = [rows EXCEPT ![j] = ClaimedRow(rows[j])]
        /\ attr' = attr /\ ~storage.active /\ Still
    BY PromotedType DEF ClaimNext, TypeOK, incidents, Still
  <1>2. rows[j].state = "queued" /\ Unlocked(attr, j)
    BY DEF ClaimNext, Eligible
  <1>3. job[j].state \in Waiting /\ ~IsGate(attr, j)
    <2>1. CASE Promotable(attr, job, j)
      BY <1>1, <1>2, <2>1 DEF Promoted, Promotable, Waiting, Row
    <2>2. CASE ~Promotable(attr, job, j)
      <3>1. job[j].state = "queued"
        BY <1>2, <2>2 DEF Promoted
      <3> QED
        BY <3>1, ActiveIsNoGate DEF Waiting
    <2> QED
      BY <2>1, <2>2
  <1>4. job'[j].state \in Active
    <2>1. ClaimedRow(rows[j]).state = "claimed"
      BY <1>1 DEF ClaimedRow, Row
    <2> QED
      BY <1>1, <2>1 DEF Active
  <1>5. \A k \in Job \ {j} : Keeps(job[k], job'[k])
    <2>1. \A k \in Job : Keeps(job[k], rows[k])
      BY <1>1, PromotedKeeps
    <2> QED
      BY <1>1, <2>1
  <1>6. job[j].state \in OpenStates
    BY <1>3, Conditions
  <1>7. \E w \in Job : Ledger!Grant(w)
    BY <1>1, <1>2, <1>3, <1>4, <1>5, <1>6, GrantStep
  <1> QED
    BY <1>7 DEF LedgerStep, Ledger!Next

LEMMA CommitLedger ==
  ASSUME TypeOK, TypeOK', RoleInv, NEW j \in Job, NEW a, Commit(j, a)
  PROVE  LedgerStep
  <1> PICK new :
        /\ Numbered(new) /\ \A k \in new : Unlocked(attr, k)
        /\ \A k \in Job : attr'[k].role = attr[k].role
        /\ \A k \in new : job'[k].state \in OpenStates
        /\ \A k \in Job \ (new \cup {j}) : Keeps(job[k], job'[k])
        /\ job[j].state = "running" /\ job'[j].state = "succeeded"
    BY CommitNumbered
  <1> PICK T : T = {j}
    OBVIOUS
  <1>1. Still /\ MayFinish(j)
    BY DEF Commit, CanCommit, CanReport, Still
  <1>2. LockOf(ScopeOf(attr, j)).phase # "snapshot"
    BY <1>1 DEF MayFinish, Unlocked
  <1>3. job[j].state \in Active
    BY DEF Active
  <1>4. Moves(new, T)
    BY <1>3 DEF Moves, Numbered
  <1>5. \E S \in SUBSET Job : \E w \in Job : Ledger!Accept(w, S)
    BY <1>1, <1>2, <1>3, <1>4, AcceptStep
  <1> QED
    BY <1>5 DEF LedgerStep, Ledger!Next

LEMMA EnqueueLedger ==
  ASSUME TypeOK, TypeOK', RoleInv, NEW batch \in Batches, Enqueue(batch)
  PROVE  LedgerStep
  <1> PICK new :
        /\ Numbered(new) /\ \A k \in new : Unlocked(attr, k)
        /\ \A k \in Job : attr'[k].role = attr[k].role
        /\ \A k \in new : job'[k].state \in OpenStates
        /\ \A k \in Job \ new : job'[k] = job[k]
    BY EnqueueNumbered
  <1>1. Still
    BY DEF Enqueue, Still
  <1>2. Moves(new, {})
    BY DEF Moves, Numbered, Keeps, Eases
  <1>3. \E S \in SUBSET Job : Ledger!Admit(S)
    BY <1>1, <1>2, AdmitStep
  <1> QED
    BY <1>3 DEF LedgerStep, Ledger!Next

\* transactions that at most take work out of hands
LEMMA UnfinishedLedger ==
  ASSUME TypeOK, TypeOK', RoleInv, Plain, Calm(Job), NoneFinishes, attr' = attr, Still
  PROVE  LedgerStep
  BY UnfinishedStep DEF LedgerStep, Ledger!Next

LEMMA GivenUpLedger ==
  ASSUME TypeOK, TypeOK', RoleInv, NEW j \in Job, NEW r, attr' = attr, Still,
         job' = [job EXCEPT ![j] = r], r.state \in Over,
         job[j].state \notin Terminal \cup {"absent"}
  PROVE  LedgerStep
  <1>1. job \in [Job -> Row] /\ job[j].state \in States
    BY DEF TypeOK, Row
  <1>2. job[j].state \in OpenStates \cup Active /\ job'[j].state \in Over
    BY <1>1 DEF OpenStates, Over, Terminal
  <1>3. \A k \in Job \ {j} : job'[k] = job[k]
    BY <1>1
  <1>4. \E w \in Job : Ledger!GiveUp(w)
    BY <1>2, <1>3, GiveUpStep
  <1> QED
    BY <1>4 DEF LedgerStep, Ledger!Next

LEMMA StopLedger ==
  ASSUME TypeOK, TypeOK', RoleInv, Plain, Calm(Job), NEW j \in Job, NEW a, ActivateStorage(j, a)
  PROVE  LedgerStep
  <1>1. /\ NoneFinishes /\ attr' = attr /\ lock' = lock /\ storage'.active = TRUE
    BY SweepUnfinished DEF ActivateStorage
  <1>2. \A k \in Job : job'[k].state \notin Active
    <2> TAKE k \in Job
    <2>1. job[k] \in Row
      BY DEF TypeOK
    <2>2. CASE k \in StoragePausable
      <3> PICK because : because = IF job[k].state = "paused" THEN job[k].reason ELSE "none"
        OBVIOUS
      <3>1. job'[k] = PausedRow(job[k], "storage", because)
        BY <2>2 DEF ActivateStorage
      <3>2. PausedRow(job[k], "storage", because).state = "paused"
        BY <2>1 DEF PausedRow, Row
      <3> QED
        BY <3>1, <3>2 DEF Active
    <2>3. CASE k \notin StoragePausable
      BY <2>3 DEF ActivateStorage, StoragePausable, Active, Terminal
    <2> QED
      BY <2>2, <2>3
  <1>3. HeldWork' = {}
    BY <1>2 DEF HeldWork, Carried
  <1>4. UNCHANGED <<PlannedWork, DoneWork, DroppedWork>>
    <2> DEFINE T == {k \in Job : job[k].state \in Active}
    <2>1. \A k \in Job : Eases(job[k], job'[k])
      <3> TAKE k \in Job
      <3>1. Quiet(job[k], job'[k])
        BY DEF Calm
      <3>2. job[k].state = "absent" <=> job'[k].state = "absent"
        BY DEF Plain, Sound, Exists
      <3> QED
        BY <1>1, <3>1, <3>2 DEF NoneFinishes, Quiet, Eases, Over, Terminal
    <2>2. \A k \in T : job'[k].state \in OpenStates
      BY <1>2, <2>1, Conditions DEF Eases, TypeOK, Row, OpenStates
    <2>3. Moves({}, T)
      BY <1>1, <2>1, <2>2, <1>2 DEF Moves, Keeps, Eases, OpenStates
    <2>4. \A k \in T : job'[k].state \notin Active \cup Over \cup {"succeeded"}
      BY <2>2 DEF OpenStates
    <2> HIDE DEF T
    <2>5. Effects({}, T)
      BY <2>3, MovedWork
    <2> QED
      BY <2>4, <2>5 DEF Effects
  <1>5. Ledger!Stop
    BY <1>1, <1>3, <1>4
       DEF Ledger!Stop, PlannedWork, HeldWork, DoneWork, DroppedWork, LiveStates
  <1> QED
    BY <1>5 DEF LedgerStep, Ledger!Next

LEMMA FailureLedger ==
  ASSUME TypeOK, TypeOK', OrderInv, RoleInv, NEW j \in Job, NEW a \in inflight[j],
         NEW c \in Failures, RecordFailure(j, a, c)
  PROVE  LedgerStep
  <1>1. Plain /\ Calm(Job)
    BY FailurePlain, RecordFailureCalm
  <1>2. CASE FailRetry(j, a, c)
    BY <1>1, <1>2, ExecutionUnfinished, UnfinishedLedger
  <1>3. CASE FailFinal(j, a, c)
    <2> PICK r : r = ExhaustedRow(job[j], c)
      OBVIOUS
    <2>1. /\ job' = [job EXCEPT ![j] = r] /\ attr' = attr /\ Still
          /\ job[j] \in Row /\ job[j].state = "running"
          /\ c \in RetriedFailures \cup FinalFailures
      BY <1>3 DEF FailFinal, CanReport, Owns, incidents, Still, TypeOK
    <2>2. r.state \in {"failed", "canceled", "paused"}
      BY <2>1 DEF ExhaustedRow, Exhausted, Row, RetriedFailures, FinalFailures
    <2>3. CASE r.state = "paused"
      <3>1. NoneFinishes
        BY <2>1, <2>3, OneUnfinished DEF Terminal
      <3> QED
        BY <1>1, <2>1, <3>1, UnfinishedLedger
    <2>4. CASE r.state \in Over
      <3>1. job[j].state \notin Terminal \cup {"absent"}
        BY <2>1 DEF Terminal
      <3> QED
        BY <2>1, <2>4, <3>1, GivenUpLedger
    <2> QED
      BY <2>2, <2>3, <2>4 DEF Over
  <1>4. CASE ActivateQuota(j, a) \/ ActivateCredentials(j, a)
    <2>1. Still
      BY <1>4 DEF ActivateQuota, ActivateCredentials, Still
    <2> QED
      BY <1>1, <1>4, <2>1, SweepUnfinished, UnfinishedLedger
  <1>5. CASE ActivateStorage(j, a)
    BY <1>1, <1>5, StopLedger
  <1> QED
    BY <1>2, <1>3, <1>4, <1>5 DEF RecordFailure

LEMMA OperatorLedger ==
  ASSUME TypeOK, TypeOK', OrderInv, RoleInv, CapturedInv, JobControl \/ Integrity \/ Reviewer
  PROVE  LedgerStep
  <1>1. Plain /\ Calm(Job)
    BY OperatorPlain, OperatorCalm
  <1>2. job \in [Job -> Row]
    BY DEF TypeOK
  <1>3. ASSUME NEW j \in Job, NEW p, SetPriority(j, p) PROVE LedgerStep
    <2>1. /\ job' = [job EXCEPT ![j] = [job[j] EXCEPT !.priority = p]] /\ attr' = attr /\ Still
      BY <1>3 DEF SetPriority, incidents, Still
    <2>2. [job[j] EXCEPT !.priority = p].state = job[j].state
      BY <1>2 DEF Row
    <2>3. NoneFinishes
      BY <2>1, <2>2, OneUnfinished
    <2> QED
      BY <1>1, <2>1, <2>3, UnfinishedLedger
  <1>4. ASSUME NEW j \in Job, Pause(j) PROVE LedgerStep
    <2>1. job' = PausedByOperator({j}) /\ attr' = attr /\ Still
      BY <1>4 DEF Pause, incidents, Still
    <2>2. NoneFinishes
      BY <2>1, PausedByOperatorUnfinished
    <2> QED
      BY <1>1, <2>1, <2>2, UnfinishedLedger
  <1>5. ASSUME NEW j \in Job, Resume(j) PROVE LedgerStep
    <2>1. {j} \in SUBSET {k \in Job : job[k].state = "paused"} /\ Restore({j})
      BY <1>5 DEF Resume, PausedFor
    <2>2. attr' = attr /\ Still
      BY <1>5 DEF Resume, Restore, incidents, Still
    <2>3. NoneFinishes
      BY <2>1, RestoreUnfinished
    <2> QED
      BY <1>1, <2>2, <2>3, UnfinishedLedger
  <1>6. ASSUME NEW j \in Job, Retry(j) PROVE LedgerStep
    <2> PICK ready : ready = DependenciesSucceeded(attr, job, j)
      OBVIOUS
    <2>1. job' = [job EXCEPT ![j] = ReadiedRow(job[j], ready)] /\ attr' = attr /\ Still
      BY <1>6 DEF Retry, incidents, Still
    <2>2. NoneFinishes
      BY <1>2, <2>1, UnfinishedRows, OneUnfinished
    <2> QED
      BY <1>1, <2>1, <2>2, UnfinishedLedger
  <1>7. ASSUME NEW j \in Job, Cancel(j) \/ CancelOwnedHumanGate(j) PROVE LedgerStep
    <2>1. /\ job' = [job EXCEPT ![j] = CanceledRow(job[j])] /\ attr' = attr /\ Still
          /\ job[j].state \notin Terminal \cup {"absent"}
      BY <1>7 DEF Cancel, CancelOwnedHumanGate, incidents, Still, Terminal
    <2>2. CanceledRow(job[j]).state \in Over
      BY <1>2 DEF CanceledRow, Row, Over
    <2> QED
      BY <2>1, <2>2, GivenUpLedger
  <1>8. ASSUME NEW j \in Job, PauseForIntegrity(j) PROVE LedgerStep
    <2>1. /\ job' = [job EXCEPT ![j] = PausedRow(job[j], "asset_integrity", job[j].reason)]
          /\ attr' = attr /\ Still
      BY <1>8 DEF PauseForIntegrity, incidents, Still
    <2>2. NoneFinishes
      BY <1>2, <2>1, UnfinishedRows, OneUnfinished
    <2> QED
      BY <1>1, <2>1, <2>2, UnfinishedLedger
  <1>9. ASSUME NEW j \in Job, ReleaseIntegrityPause(j) PROVE LedgerStep
    <2>1. /\ job' = [job EXCEPT ![j] = [job[j] EXCEPT !.reason = "operator"]]
          /\ attr' = attr /\ Still
      BY <1>9 DEF ReleaseIntegrityPause, incidents, Still
    <2>2. [job[j] EXCEPT !.reason = "operator"].state = job[j].state
      BY <1>2 DEF Row
    <2>3. NoneFinishes
      BY <2>1, <2>2, OneUnfinished
    <2> QED
      BY <1>1, <2>1, <2>3, UnfinishedLedger
  <1>10. ASSUME NEW j \in Job, CompleteHumanGate(j) PROVE LedgerStep
    <2> PICK rows : rows = [job EXCEPT ![j] = SucceededRow(job[j])]
      OBVIOUS
    <2>1. /\ job' = Promoted(attr, rows) /\ attr' = attr /\ Still
          /\ IsGate(attr, j) /\ job[j].state = "waiting_review" /\ MayFinish(j)
      BY <1>10 DEF CompleteHumanGate, incidents, Still
    <2>2. rows[j].state = "succeeded" /\ rows \in [Job -> Row]
      BY <1>2, SucceededRowType DEF SucceededRow, Row
    <2>3. \A k \in Job : Keeps(rows[k], job'[k])
      BY <2>1, <2>2, PromotedKeeps
    <2>4. job'[j].state = "succeeded" /\ \A k \in Job \ {j} : Keeps(job[k], job'[k])
      BY <2>2, <2>3 DEF Keeps, Eases
    <2>5. Unlocked(attr, j)
      <3>1. ASSUME ScopeOf(attr, j) \in Project,
                   <<j, job[j].attempts>> \in lock[ScopeOf(attr, j)].captured
            PROVE  FALSE
        <4> PICK c : c = <<j, job[j].attempts>>
          OBVIOUS
        <4>1. ~IsGate(attr, c[1])
          BY <3>1 DEF CapturedInv
        <4> QED
          BY <2>1, <4>1
      <3>2. NoLock.captured = {}
        BY DEF NoLock
      <3> QED
        BY <2>1, <3>1, <3>2 DEF MayFinish, LockOf
    <2>6. job[j].state \in OpenStates
      BY <2>1, Conditions
    <2>7. \E w \in Job : Ledger!Decide(w)
      BY <2>1, <2>4, <2>5, <2>6, DecideStep
    <2> QED
      BY <2>7 DEF LedgerStep, Ledger!Next
  <1> QED
    BY <1>3, <1>4, <1>5, <1>6, <1>7, <1>8, <1>9, <1>10 DEF JobControl, Integrity, Reviewer

\* transactions that leave all work where it is
LEMMA KeptWork ==
  ASSUME TypeOK, TypeOK', RoleInv, Plain, Calm(Job), NoneFinishes, attr' = attr,
         \A k \in Job : job[k].state \in Active => job'[k] = job[k]
  PROVE  UNCHANGED <<PlannedWork, HeldWork, DoneWork, DroppedWork>>
  <1> SUFFICES ASSUME NEW k \in Job PROVE Keeps(job[k], job'[k])
    BY NoMove
  <1>1. Quiet(job[k], job'[k])
    BY DEF Calm
  <1>2. job[k].state = "absent" <=> job'[k].state = "absent"
    BY DEF Plain, Sound, Exists
  <1> QED
    BY <1>1, <1>2 DEF NoneFinishes, Quiet, Eases, Keeps, Over, Terminal

LEMMA RemediationLedger ==
  ASSUME TypeOK, TypeOK', OrderInv, RoleInv, ProjectControl \/ Remediation
  PROVE  LedgerStep
  <1>1. Plain /\ Calm(Job)
    BY RemediationPlain, RemediationCalm
  <1>2. ASSUME NEW S, S \in SUBSET {k \in Job : job[k].state = "paused"}, Restore(S)
        PROVE  /\ attr' = attr /\ lock' = lock /\ NoneFinishes
               /\ \A k \in Job : job[k].state \in Active => job'[k] = job[k]
    BY <1>2, RestoreUnfinished DEF Restore
  <1>3. ASSUME NEW s \in Scope, PauseProjectJobs(s) PROVE LedgerStep
    <2> PICK S : S = {j \in JobsOf(s) : job[j].state \in Waiting}
      OBVIOUS
    <2>1. job' = PausedByOperator(S) /\ attr' = attr /\ Still
      BY <1>3 DEF PauseProjectJobs, PauseProject, incidents, Still
    <2>2. NoneFinishes
      BY <2>1, PausedByOperatorUnfinished DEF JobsOf
    <2> QED
      BY <1>1, <2>1, <2>2, UnfinishedLedger
  <1>4. ASSUME NEW s \in Scope, ResumeProject(s) PROVE LedgerStep
    <2> PICK S : S = JobsOf(s) \cap PausedFor("operator")
      OBVIOUS
    <2>1. S \in SUBSET {k \in Job : job[k].state = "paused"} /\ Restore(S)
          /\ storage' = storage
      BY <1>4 DEF ResumeProject, PausedFor, incidents
    <2> QED
      BY <1>1, <1>2, <2>1, UnfinishedLedger DEF Still
  <1>5. ASSUME NEW l \in Lane, ResumeQuota(l) PROVE LedgerStep
    <2> PICK S : S = {j \in quota[l].owned \cap PausedFor("quota") : attr[j].lane = l}
      OBVIOUS
    <2>1. S \in SUBSET {k \in Job : job[k].state = "paused"} /\ Restore(S)
          /\ storage' = storage
      BY <1>5 DEF ResumeQuota, PausedFor
    <2> QED
      BY <1>1, <1>2, <2>1, UnfinishedLedger DEF Still
  <1>6. ASSUME NEW p \in Provider, ResumeCredentials(p) PROVE LedgerStep
    <2> PICK S : S = {j \in cred[p].owned \cap PausedFor("credentials") :
                        attr[j].lane \in Lane /\ ProviderOf[attr[j].lane] = p}
      OBVIOUS
    <2>1. S \in SUBSET {k \in Job : job[k].state = "paused"} /\ Restore(S)
          /\ storage' = storage
      BY <1>6 DEF ResumeCredentials, PausedFor
    <2> QED
      BY <1>1, <1>2, <2>1, UnfinishedLedger DEF Still
  <1>7. CASE ResumeStorage
    <2> PICK S : S = storage.owned \cap PausedFor("storage")
      OBVIOUS
    <2>1. /\ S \in SUBSET {k \in Job : job[k].state = "paused"} /\ Restore(S)
          /\ storage.active /\ storage'.active = FALSE
      BY <1>7 DEF ResumeStorage, PausedFor, NoStorage
    <2>2. /\ attr' = attr /\ lock' = lock /\ NoneFinishes
          /\ \A k \in Job : job[k].state \in Active => job'[k] = job[k]
      BY <1>2, <2>1
    <2>3. UNCHANGED <<PlannedWork, HeldWork, DoneWork, DroppedWork>>
      BY <1>1, <2>2, KeptWork
    <2>4. Ledger!Resume
      BY <2>1, <2>2, <2>3
         DEF Ledger!Resume, Ledger!work, PlannedWork, HeldWork, DoneWork, DroppedWork, LiveStates
    <2> QED
      BY <2>4 DEF LedgerStep, Ledger!Next
  <1> QED
    BY <1>3, <1>4, <1>5, <1>6, <1>7 DEF ProjectControl, Remediation

LEMMA ExportLedger ==
  ASSUME TypeOK, TypeOK', OrderInv, RoleInv, NEW s \in Project,
         BeginExportDrain(s) \/ FreezeSnapshot(s) \/ ReleaseSnapshotLock(s)
  PROVE  LedgerStep
  <1>1. Plain /\ Calm(Job)
    BY ExportPlain, ExportCalm DEF Export
  <1>2. attr' = attr /\ storage' = storage /\ lock \in [Project -> [phase: {"none", "draining", "snapshot"},
                           captured: SUBSET (Job \X Nat)]]
    BY DEF BeginExportDrain, FreezeSnapshot, ReleaseSnapshotLock, incidents, TypeOK
  <1>3. NoneFinishes /\ \A k \in Job : job[k].state \in Active => job'[k] = job[k]
    <2>1. CASE BeginExportDrain(s)
      <3> PICK S : S = {j \in JobsOf(s) : job[j].state \in Waiting}
        OBVIOUS
      <3>1. job' = PausedByOperator(S) /\ S \in SUBSET Job
        BY <2>1 DEF BeginExportDrain, PauseProject, JobsOf
      <3>2. \A k \in Job : job[k].state \in Active => job'[k] = job[k]
        BY <3>1 DEF PausedByOperator, Active, Waiting
      <3> QED
        BY <3>1, <3>2, PausedByOperatorUnfinished
    <2>2. CASE FreezeSnapshot(s) \/ ReleaseSnapshotLock(s)
      BY <2>2 DEF FreezeSnapshot, ReleaseSnapshotLock, NoneFinishes
    <2> QED
      BY <2>1, <2>2
  <1>4. UNCHANGED <<PlannedWork, HeldWork, DoneWork, DroppedWork>>
    BY <1>1, <1>2, <1>3, KeptWork
  <1> DEFINE now == [t \in Project |-> lock[t].phase]
             next(p) == [t \in Project |-> lock'[t].phase] = [now EXCEPT ![s] = p]
  <1>5. CASE BeginExportDrain(s)
    <2>1. lock[s].phase = "none" /\ next("draining")
      BY <1>2, <1>5 DEF BeginExportDrain
    <2>2. Ledger!Drain(s)
      BY <1>2, <1>4, <2>1
         DEF Ledger!Drain, Ledger!work, PlannedWork, HeldWork, DoneWork, DroppedWork, LiveStates
    <2> QED
      BY <2>2 DEF LedgerStep, Ledger!Next
  <1>6. CASE FreezeSnapshot(s)
    <2>1. lock[s].phase = "draining" /\ next("snapshot")
      BY <1>2, <1>6 DEF FreezeSnapshot
    <2>2. ASSUME NEW w \in HeldWork PROVE Plan[w].scope # s /\ w \in Job
      <3>1. PICK k \in Job : attr[k].role = w /\ job[k].state \in Active
        BY <2>2 DEF HeldWork, Carried
      <3>2. k \notin JobsOf(s)
        BY <1>6, <3>1 DEF FreezeSnapshot
      <3> QED
        BY <3>1, <3>2 DEF JobsOf, ScopeOf, Exists, Active, TypeOK, Attr
    <2>3. \A w \in HeldWork : [v \in Job |-> Plan[v].scope][w] # s
      BY <2>2
    <2>4. Ledger!Freeze(s)
      BY <1>2, <1>4, <2>1, <2>3
         DEF Ledger!Freeze, Ledger!work, PlannedWork, HeldWork, DoneWork, DroppedWork, LiveStates
    <2> QED
      BY <2>4 DEF LedgerStep, Ledger!Next
  <1>7. CASE ReleaseSnapshotLock(s)
    <2>1. lock[s].phase = "snapshot" /\ next("none")
      BY <1>2, <1>7 DEF ReleaseSnapshotLock, NoLock
    <2>2. Ledger!Release(s)
      BY <1>2, <1>4, <2>1
         DEF Ledger!Release, Ledger!work, PlannedWork, HeldWork, DoneWork, DroppedWork, LiveStates
    <2> QED
      BY <2>2 DEF LedgerStep, Ledger!Next
  <1> QED
    BY <1>5, <1>6, <1>7

LEMMA HiddenLedger ==
  ASSUME UNCHANGED <<PlannedWork, HeldWork, DoneWork, DroppedWork>>,
         UNCHANGED <<storage, lock>>
  PROVE  LedgerStep
  <1>1. UNCHANGED Ledger!vars
    BY DEF Ledger!vars, PlannedWork, HeldWork, DoneWork, DroppedWork, LiveStates
  <1> QED
    BY <1>1 DEF LedgerStep

LEMMA StepLedger ==
  ASSUME TypeOK, TypeOK', OrderInv, RoleInv, SeqInv, CapturedInv, [Next]_vars
  PROVE  LedgerStep
  <1>1. CASE Caller
    BY <1>1, EnqueueLedger DEF Caller
  <1>2. CASE Worker
    <2>1. ASSUME NEW j \in Job, NEW due, ClaimNext(j, due) PROVE LedgerStep
      BY <2>1, ClaimLedger
    <2>2. ASSUME NEW due, Poll(due) PROVE LedgerStep
      <3>1. NoneFinishes /\ attr' = attr /\ Still
        BY <2>2, TimeUnfinished
      <3>2. Plain /\ Calm(Job)
        BY <2>2, ClaimPlain, ClaimSteps
      <3> QED
        BY <3>1, <3>2, UnfinishedLedger
    <2>3. ASSUME NEW j \in Job, NEW a \in inflight[j],
                 MarkRunning(j, a) \/ Heartbeat(j, a) \/ Abandon(j, a)
          PROVE  LedgerStep
      <3>1. NoneFinishes /\ attr' = attr /\ Still
        BY <2>3, ExecutionUnfinished
      <3>2. Plain /\ Calm(Job)
        BY <2>3, ExecutionPlain, ExecutionCalm
      <3> QED
        BY <3>1, <3>2, UnfinishedLedger
    <2>4. ASSUME NEW j \in Job, NEW a \in inflight[j], Commit(j, a) PROVE LedgerStep
      BY <2>4, CommitLedger
    <2>5. ASSUME NEW j \in Job, NEW a \in inflight[j], NEW c \in Failures,
                 RecordFailure(j, a, c)
          PROVE  LedgerStep
      BY <2>5, FailureLedger
    <2> QED
      BY <1>2, <2>1, <2>2, <2>3, <2>4, <2>5 DEF Worker
  <1>3. CASE Shutdown
    <2>1. ASSUME NEW j \in Job, NEW a \in inflight[j], RequeueOwned(j, a) PROVE LedgerStep
      <3>1. NoneFinishes /\ attr' = attr /\ Still
        BY <2>1, ExecutionUnfinished
      <3>2. Plain /\ Calm(Job)
        BY <2>1, ExecutionPlain, ExecutionCalm
      <3> QED
        BY <3>1, <3>2, UnfinishedLedger
    <2>2. CASE Restart
      BY <2>2, TimeUnfinished, ClockPlain, ClockCalm, UnfinishedLedger
    <2> QED
      BY <1>3, <2>1, <2>2 DEF Shutdown
  <1>4. CASE Tick
    BY <1>4, TimeUnfinished, ClockPlain, ClockCalm, UnfinishedLedger
  <1>5. CASE JobControl \/ Integrity \/ Reviewer
    BY <1>5, OperatorLedger
  <1>6. CASE ProjectControl \/ Remediation
    BY <1>6, RemediationLedger
  <1>7. ASSUME NEW alternate \in Lane, storage' = storage, lock' = lock,
               \E S, heir, new, rows : HeirStep(S, heir, alternate, new, rows)
        PROVE  LedgerStep
    BY <1>7, HeirStepReplaces, ReplacedKeeps, HiddenLedger
  <1>8. CASE QuotaDecision
    <2>1. ASSUME NEW l \in Lane, NEW s \in Scope, DecideWait(l, s) PROVE LedgerStep
      BY <2>1, HiddenLedger DEF DecideWait, PlannedWork, HeldWork, DoneWork, DroppedWork, Carried
    <2>2. ASSUME NEW l \in Lane, NEW s \in Scope, NEW alternate \in Lane,
                 DecideContinue(l, s, alternate)
          PROVE  LedgerStep
      <3>1. storage' = storage /\ lock' = lock
        BY <1>8, DecisionWrites
      <3> QED
        BY <1>7, <2>2, <3>1, DecideContinueIs
    <2> QED
      BY <1>8, <2>1, <2>2 DEF QuotaDecision
  <1>9. CASE Settings
    <2>1. storage' = storage /\ lock' = lock
      BY <1>9, DecisionWrites
    <2> QED
      BY <1>7, <1>9, <2>1, RetargetIs DEF Settings
  <1>10. CASE Export
    BY <1>10, ExportLedger DEF Export
  <1>11. CASE UNCHANGED vars
    BY <1>11, HiddenLedger DEF vars, PlannedWork, HeldWork, DoneWork, DroppedWork, Carried
  <1> QED
    BY <1>1, <1>2, <1>3, <1>4, <1>5, <1>6, <1>8, <1>9, <1>10, <1>11 DEF Next

LEMMA InitLedger ==
  ASSUME Init
  PROVE  Ledger!Init
  <1>1. \A k \in Job : job[k].state = "absent"
    BY DEF Init, NoRow
  <1>2. /\ Carried(States \ {"absent"}) = {} /\ Carried(Active) = {}
        /\ Carried({"succeeded"}) = {} /\ Carried(Over) = {}
    BY <1>1 DEF Carried, Active, Over
  <1>3. storage.active = FALSE
    BY DEF Init, NoStorage
  <1>4. [s \in Project |-> lock[s].phase] = [s \in Project |-> "none"]
    BY DEF Init, NoLock
  <1> QED
    BY <1>2, <1>3, <1>4 DEF Ledger!Init

(***************************************************************************)
(* The scheduler implements WorkLedger.  Whoever interleaves, planned work *)
(* is admitted once, is in one pair of hands at a time, ends once, is not  *)
(* lost or finished by being moved to other targets, is out of all hands   *)
(* while a disk fails, and is not handed out in a scope that is copied.    *)
(***************************************************************************)
THEOREM LedgerIsKept == Spec => ImplementsLedger
  <1> DEFINE Inv == OrderInv /\ RoleInv /\ SeqInv /\ CapturedInv
  <1>1. Init => Inv
    <2> SUFFICES ASSUME Init PROVE Inv
      OBVIOUS
    <2>1. RoleInv /\ SeqInv
      BY DEF Init, RoleInv, SeqInv, Rows, Exists, NoRow, Live
    <2>2. CapturedInv
      BY DEF Init, CapturedInv, NoLock
    <2> QED
      BY <2>1, <2>2, OrderInit
  <1>2. ASSUME TypeOK, TypeOK', Inv, [Next]_vars PROVE Inv'
    <2>1. Orderly /\ TerminalStands
      BY <1>2, StepOrderly, StepTerminal
    <2> QED
      BY <1>2, <2>1, OrderStep, RoleStep, SeqNext, CapturedStep
  <1>3. ASSUME TypeOK, TypeOK', Inv, [Next]_vars PROVE [Ledger!Next]_(Ledger!vars)
    BY <1>3, StepLedger DEF LedgerStep
  <1>4. Init => Ledger!Init
    BY InitLedger
  <1> QED
    <2> HIDE DEF Inv
    <2> QED
      BY <1>1, <1>2, <1>3, <1>4, TypeCorrect, PTL DEF Spec, ImplementsLedger, Ledger!Spec


=============================================================================
