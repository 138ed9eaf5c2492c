--------------------------- MODULE WorkerPoolProofs ---------------------------
(***************************************************************************)
(* While the pool accepts work no claim is left without an execution, and  *)
(* no result is left over without one that will settle it, for every       *)
(* number of jobs, workers, attempts, boots and outages.                   *)
(*                                                                         *)
(* The invariant does without the status of the runtime: whatever aborts   *)
(* or drops executions without settling their rows first closes the pool   *)
(* for good, and only a restart, which puts every claim back, opens it     *)
(* again.  An attempt whose fence was lost never owns the row again,       *)
(* because a row is only claimed with a new attempt.                       *)
(***************************************************************************)
EXTENDS WorkerPool, TLAPS

Watched ==
  accepting => \A j \in Job : row[j].state \in Claimed => <<j, row[j].attempt>> \in Inflight

\* attempts are counted: none exists beyond those that were claimed
AttemptsAreCounted == \A x \in Execution : phase[x] # "none" => x[2] <= row[x[1]].attempt

\* a fence that was lost stays lost
LostStaysLost == \A x \in Execution : phase[x] = "unowned" => ~Owned(x)

\* only a paused row has a reason to be paused
ReasonsFit == \A j \in Job : row[j].state # "paused" => row[j].reason = "none"

Inv == TypeOK /\ ReasonsFit /\ Watched /\ AttemptsAreCounted /\ LostStaysLost

Row == [state : {"queued", "claimed", "running", "paused", "succeeded", "failed"},
        reason : {"none", "storage", "asset_integrity"},
        under : {"none", "asset_integrity"}, attempt : 0..MaxAttempt]

LEMMA BoundsType == MaxAttempt \in Nat \ {0} /\ MaxBoot \in Nat \ {0} /\ MaxOutage \in Nat
  BY PoolAssumption

LEMMA ExecutionType ==
  ASSUME NEW x \in Execution
  PROVE  x[1] \in Job /\ x[2] \in 1..MaxAttempt /\ x = <<x[1], x[2]>>
  BY BoundsType DEF Execution, Attempt

LEMMA FiledAreExecutions == \A map : Filed(map) \subseteq Execution
  BY DEF Filed

-----------------------------------------------------------------------------
(***************************************************************************)
(* What the scheduler writes keeps the attempts and makes no new claim.    *)
(***************************************************************************)
Fits(r) == r \in Row /\ (r.state # "paused" => r.reason = "none")
MayBecome(old, new) ==
  /\ Fits(new) /\ new.attempt = old.attempt
  /\ new.state \in Claimed => old.state \in Claimed

LEMMA RowWrites ==
  ASSUME NEW r, Fits(r)
  PROVE  /\ MayBecome(r, r)
         /\ r.state \in Claimed => /\ MayBecome(r, RetriedRow(r)) /\ RetriedRow(r).state \notin Claimed
                                   /\ MayBecome(r, FailedRow(r)) /\ FailedRow(r).state \notin Claimed
         /\ MayBecome(r, StoppedRow(r)) /\ StoppedRow(r).state \notin Claimed
         /\ MayBecome(r, RestoredRow(r))
  BY DEF Row, Fits, MayBecome, RetriedRow, FailedRow, StoppedRow, RestoredRow, StoragePausable, Claimed

\* an execution may end unless it is the one that the claim of its row is watched by
Leaves(x) == accepting' => ~(row'[x[1]].state \in Claimed /\ row'[x[1]].attempt = x[2])

(***************************************************************************)
(* A step that writes rows and moves one execution keeps the invariant if  *)
(* that execution stays in flight or leaves no claim behind.               *)
(***************************************************************************)
LEMMA MoveKeeps ==
  ASSUME Inv, NEW x \in Execution, NEW p \in Phases,
         phase[x] # "none", phase' = [phase EXCEPT ![x] = p],
         row' \in [Job -> Row], \A j \in Job : MayBecome(row[j], row'[j]),
         accepting' => accepting,
         p \in Awaiting \/ Leaves(x),
         p = "unowned" => ~Owned(x),
         TypeOK'
  PROVE  Inv'
  <1>1. ReasonsFit'
    BY DEF ReasonsFit, MayBecome, Fits
  <1>2. ASSUME NEW y \in Execution PROVE Owned(y)' => Owned(y)
    BY <1>2, ExecutionType DEF Owned, MayBecome
  <1>3. Watched'
    <2> SUFFICES ASSUME accepting', NEW j \in Job, row'[j].state \in Claimed
                 PROVE  <<j, row'[j].attempt>> \in Inflight'
      BY DEF Watched
    <2>1. row[j].state \in Claimed /\ row'[j].attempt = row[j].attempt
      BY DEF MayBecome
    <2> DEFINE y == <<j, row[j].attempt>>
    <2>2. y \in Inflight /\ y \in Execution
      BY <2>1 DEF Inv, Watched, Inflight
    <2>3. CASE y = x
      <3>1. ~Leaves(x)
        BY <2>1, <2>3 DEF Leaves
      <3> QED
        BY <2>1, <2>3, <3>1 DEF Inflight, Inv, TypeOK
    <2>4. CASE y # x
      BY <2>1, <2>2, <2>4 DEF Inflight, Inv, TypeOK
    <2> QED
      BY <2>3, <2>4
  <1>4. AttemptsAreCounted'
    BY ExecutionType DEF Inv, AttemptsAreCounted, MayBecome, TypeOK
  <1>5. LostStaysLost'
    BY <1>2 DEF Inv, LostStaysLost, TypeOK
  <1> QED
    BY <1>1, <1>3, <1>4, <1>5 DEF Inv

\* a step that moves no execution
LEMMA RowsKeep ==
  ASSUME Inv, phase' = phase, row' \in [Job -> Row],
         \A j \in Job : MayBecome(row[j], row'[j]),
         accepting' => accepting, TypeOK'
  PROVE  Inv'
  <1>1. ReasonsFit'
    BY DEF ReasonsFit, MayBecome, Fits
  <1>2. ASSUME NEW y \in Execution PROVE Owned(y)' => Owned(y)
    BY <1>2, ExecutionType DEF Owned, MayBecome
  <1>3. Watched'
    BY DEF Inv, Watched, MayBecome, Inflight
  <1>4. AttemptsAreCounted'
    BY ExecutionType DEF Inv, AttemptsAreCounted, MayBecome
  <1>5. LostStaysLost'
    BY <1>2 DEF Inv, LostStaysLost
  <1> QED
    BY <1>1, <1>3, <1>4, <1>5 DEF Inv

LEMMA RowsFit == ASSUME Inv, NEW j \in Job PROVE Fits(row[j]) /\ MayBecome(row[j], row[j])
  BY DEF Inv, TypeOK, ReasonsFit, Fits, Row, MayBecome

-----------------------------------------------------------------------------
(***************************************************************************)
(* Failures: the row is given up, or the pool is closed, or the fence was  *)
(* lost before.                                                            *)
(***************************************************************************)
RowsFollow ==
  /\ row' \in [Job -> Row] /\ \A j \in Job : MayBecome(row[j], row'[j])

LEMMA FailureKeeps ==
  ASSUME Inv, NEW x \in Execution, NEW category, RecordFailure(x, category)
  PROVE  /\ RowsFollow /\ Leaves(x) /\ (accepting' => accepting)
         /\ storage' \in BOOLEAN /\ aborted' \subseteq Execution
         /\ accepting' \in BOOLEAN /\ status' \in {"stopped", "running", "halted"}
         /\ stopping' = stopping
  <1>1. /\ \A j \in Job : Fits(row[j]) /\ MayBecome(row[j], row[j])
        /\ x[1] \in Job /\ aborted \cup Filed(active) \subseteq Execution
        /\ row \in [Job -> Row]
    BY RowsFit, ExecutionType, FiledAreExecutions DEF Inv, TypeOK, Row
  <1>2. CASE Halts /\ UNCHANGED rows
    BY <1>1, <1>2 DEF Halts, rows, RowsFollow, Leaves, Inv, TypeOK
  <1>3. CASE ~Owned(x) /\ UNCHANGED <<rows, aborted, pool>>
    BY <1>1, <1>3 DEF rows, pool, RowsFollow, Leaves, Inv, TypeOK, Owned
  <1>4. CASE RecordDisk(x)
    BY <1>1, <1>4, RowWrites DEF RecordDisk, pool, RowsFollow, Leaves, Inv, TypeOK, MayBecome, Fits
  <1>5. ASSUME Owned(x), NEW next \in {FailedRow(row[x[1]]), RetriedRow(row[x[1]])},
               RecordRow(x, next)
        PROVE  /\ RowsFollow /\ Leaves(x) /\ UNCHANGED <<storage, aborted, pool>>
    <2>1. MayBecome(row[x[1]], next) /\ next.state \notin Claimed
      BY <1>1, <1>5, RowWrites DEF Owned
    <2> QED
      BY <1>1, <1>5, <2>1 DEF RecordRow, RowsFollow, Leaves, MayBecome, Fits
  <1>6. CASE \E next \in {FailedRow(row[x[1]]), RetriedRow(row[x[1]])} : Owned(x) /\ RecordRow(x, next)
    BY <1>5, <1>6 DEF pool, Inv, TypeOK
  <1>7. \/ Halts /\ UNCHANGED rows
        \/ ~Owned(x) /\ UNCHANGED <<rows, aborted, pool>>
        \/ RecordDisk(x)
        \/ Owned(x) /\ (RecordRow(x, FailedRow(row[x[1]])) \/ RecordRow(x, RetriedRow(row[x[1]])))
    BY DEF RecordFailure
  <1> QED
    BY <1>2, <1>3, <1>4, <1>6, <1>7

LEMMA EndsType ==
  ASSUME Inv, NEW x \in Execution, NEW p \in Phases, Ends(x, p)
  PROVE  /\ phase' \in [Execution -> Phases] /\ phase' = [phase EXCEPT ![x] = p]
         /\ active' \in [Job -> 0..MaxAttempt]
  <1>1. x[1] \in Job /\ 0 \in 0..MaxAttempt
    BY BoundsType, ExecutionType
  <1>2. phase' = [phase EXCEPT ![x] = p] /\ active' = [active EXCEPT ![x[1]] = 0]
    BY DEF Ends, EntryRemoved
  <1>3. active \in [Job -> 0..MaxAttempt] /\ phase \in [Execution -> Phases]
    BY DEF Inv, TypeOK
  <1> QED
    BY <1>1, <1>2, <1>3

-----------------------------------------------------------------------------
(***************************************************************************)
(* Every step keeps the invariant.                                         *)
(***************************************************************************)
LEMMA ClaimKeeps ==
  ASSUME Inv, NEW j \in Job, RunOne(j) \/ RunOneCut(j)
  PROVE  Inv'
  <1> DEFINE a == row[j].attempt + 1
             x == <<j, a>>
  <1>1. /\ row[j] \in Row /\ row \in [Job -> Row] /\ a \in 1..MaxAttempt
        /\ row[j].state = "queued" /\ row[j].reason = "none"
    BY BoundsType DEF RunOne, RunOneCut, MayClaim, Inv, TypeOK, Row, ReasonsFit
  <1>2. x \in Execution /\ phase[x] = "none"
    BY <1>1, BoundsType DEF Execution, Attempt, Inv, AttemptsAreCounted, Row
  <1>3. ASSUME NEW state \in {"running", "claimed"},
               row' = [row EXCEPT ![j].state = state, ![j].attempt = a]
        PROVE  /\ row' \in [Job -> Row] /\ ReasonsFit'
               /\ row'[j].attempt = a
               /\ \A k \in Job \ {j} : row'[k] = row[k]
    BY <1>1, <1>3 DEF Row, ReasonsFit, Inv
  <1>4. \A y \in Execution : y[1] # j => y[1] \in Job \ {j}
    BY ExecutionType
  <1>5. \A y \in Execution : y[1] = j => y = <<j, y[2]>> /\ y[2] \in 1..MaxAttempt
    BY ExecutionType
  <1>6. CASE RunOne(j)
    <2>1. /\ row' = [row EXCEPT ![j].state = "running", ![j].attempt = a]
          /\ phase' = [phase EXCEPT ![x] = "preparing"] /\ active' = [active EXCEPT ![j] = a]
          /\ UNCHANGED <<storage, aborted, output, pool, world>> /\ accepting
      BY <1>6 DEF RunOne, MayClaim
    <2>2. /\ row' \in [Job -> Row] /\ ReasonsFit' /\ row'[j].attempt = a
          /\ \A k \in Job \ {j} : row'[k] = row[k]
      BY <1>3, <2>1
    <2> HIDE DEF a
    <2>3. TypeOK'
      BY <1>1, <1>2, <2>1, <2>2 DEF Inv, TypeOK, Row, Phases, Awaiting, pool, world
    <2>4. Watched'
      BY <1>1, <1>2, <2>1, <2>2 DEF Inv, Watched, Inflight, Awaiting, TypeOK, pool
    <2>5. AttemptsAreCounted'
      BY <1>1, <1>2, <1>4, <1>5, <2>1, <2>2, BoundsType DEF Inv, AttemptsAreCounted, TypeOK, a, Row
    <2>6. LostStaysLost'
      BY <1>1, <1>2, <1>4, <1>5, <2>1, <2>2 DEF Inv, LostStaysLost, Owned, TypeOK
    <2> QED
      BY <2>2, <2>3, <2>4, <2>5, <2>6 DEF Inv
  <1>7. CASE RunOneCut(j)
    <2>1. /\ row' = [row EXCEPT ![j].state = "claimed", ![j].attempt = a]
          /\ Halts /\ database' = FALSE /\ outages' = outages + 1 /\ outages < MaxOutage
          /\ UNCHANGED <<storage, phase, output, active, boot>>
      BY <1>7 DEF RunOneCut, MayClaim
    <2>2. /\ row' \in [Job -> Row] /\ ReasonsFit' /\ row'[j].attempt = a
          /\ \A k \in Job \ {j} : row'[k] = row[k]
      BY <1>3, <2>1
    <2> HIDE DEF a
    <2>3. TypeOK'
      <3>1. outages' \in 0..MaxOutage
        BY <2>1, BoundsType DEF Inv, TypeOK
      <3>2. aborted' \subseteq Execution
        BY <2>1, FiledAreExecutions DEF Halts, Inv, TypeOK
      <3> QED
        BY <2>1, <2>2, <3>1, <3>2 DEF Inv, TypeOK, Row, Halts
    <2>4. Watched'
      BY <2>1 DEF Watched, Halts
    <2>5. AttemptsAreCounted'
      BY <1>1, <1>4, <1>5, <2>1, <2>2, BoundsType DEF Inv, AttemptsAreCounted, TypeOK, a, Row
    <2>6. LostStaysLost'
      <3> SUFFICES ASSUME NEW y \in Execution, phase[y] = "unowned" PROVE ~Owned(y)'
        BY <2>1 DEF LostStaysLost
      <3>1. CASE y[1] = j
        <4>1. y[2] # a
          BY <1>2, <1>5, <3>1
        <4> QED
          BY <2>2, <3>1, <4>1 DEF Owned
      <3>2. CASE y[1] # j
        BY <1>4, <2>2, <3>2 DEF Owned, Inv, LostStaysLost
      <3> QED
        BY <3>1, <3>2
    <2> QED
      BY <2>2, <2>3, <2>4, <2>5, <2>6 DEF Inv
  <1> QED
    BY <1>6, <1>7

LEMMA StepKeeps ==
  ASSUME Inv, NEW x \in Execution, Step(x)
  PROVE  Inv'
  <1>1. /\ row \in [Job -> Row] /\ \A j \in Job : MayBecome(row[j], row[j])
        /\ phase \in [Execution -> Phases]
    BY RowsFit DEF Inv, TypeOK, Row
  <1>2. CASE Prepared(x) \/ Returns(x) \/ Reject(x) \/ LateReturn(x) \/ LateDiscarded(x)
    <2> PICK p \in Phases :
           /\ phase[x] # "none" /\ phase' = [phase EXCEPT ![x] = p]
           /\ p \in Awaiting \/ phase[x] \notin Awaiting
           /\ p = "unowned" => ~Owned(x)
      BY <1>2 DEF Prepared, Returns, Reject, LateReturn, LateDiscarded, Rejection, Phases, Awaiting,
                  Discarding
    <2>1. UNCHANGED <<rows, aborted, active, pool, world>>
      BY <1>2 DEF Prepared, Returns, Reject, LateReturn, LateDiscarded
    <2>2. output' \in [Execution -> {"none", "made", "committed", "discarded"}]
      BY <1>2 DEF Prepared, Returns, Reject, LateReturn, LateDiscarded, Inv, TypeOK
    <2>3. TypeOK'
      BY <2>1, <2>2 DEF Inv, TypeOK, rows, pool, world
    <2>4. p \in Awaiting \/ Leaves(x)
      BY <2>1, ExecutionType DEF Leaves, Inv, Watched, Inflight, rows, pool
    <2> QED
      BY <1>1, <2>1, <2>3, <2>4, MoveKeeps DEF rows, pool
  <1>3. CASE Commit(x)
    <2>1. /\ row' = [row EXCEPT ![x[1]].state = "succeeded"]
          /\ output' = [output EXCEPT ![x] = "committed"] /\ phase[x] = "returned"
          /\ Ends(x, "ended") /\ Owned(x)
          /\ UNCHANGED <<storage, aborted, pool, world>>
      BY <1>3 DEF Commit
    <2>2. RowsFollow /\ Leaves(x)
      BY <1>1, <2>1, ExecutionType DEF RowsFollow, Leaves, MayBecome, Fits, Row, Claimed, Owned, Inv, ReasonsFit
    <2>3. /\ phase' \in [Execution -> Phases] /\ phase' = [phase EXCEPT ![x] = "ended"]
          /\ active' \in [Job -> 0..MaxAttempt]
      BY <2>1, EndsType DEF Phases
    <2>4. TypeOK'
      BY <2>1, <2>2, <2>3 DEF Inv, TypeOK, RowsFollow, Row, pool, world
    <2> QED
      BY <2>1, <2>2, <2>3, <2>4, MoveKeeps DEF RowsFollow, Phases, pool
  <1>4. ASSUME NEW p \in {"late", "ended"}, NEW category, RecordFailure(x, category), Ends(x, p),
               phase[x] # "none", output' \in [Execution -> {"none", "made", "committed", "discarded"}],
               UNCHANGED world
        PROVE  Inv'
    <2>1. /\ RowsFollow /\ Leaves(x) /\ (accepting' => accepting)
          /\ storage' \in BOOLEAN /\ aborted' \subseteq Execution
          /\ accepting' \in BOOLEAN /\ status' \in {"stopped", "running", "halted"}
          /\ stopping' = stopping
      BY <1>4, FailureKeeps
    <2>2. /\ phase' \in [Execution -> Phases] /\ phase' = [phase EXCEPT ![x] = p]
          /\ active' \in [Job -> 0..MaxAttempt]
      BY <1>4, EndsType DEF Phases
    <2>3. TypeOK'
      BY <1>4, <2>1, <2>2 DEF Inv, TypeOK, RowsFollow, Row, world
    <2> QED
      BY <1>4, <2>1, <2>2, <2>3, MoveKeeps DEF RowsFollow, Phases
  <1>5. CASE GivesUp(x)
    <2>1. output' \in [Execution -> {"none", "made", "committed", "discarded"}]
      BY <1>5 DEF GivesUp, Inv, TypeOK
    <2> QED
      BY <1>4, <1>5, <2>1 DEF GivesUp
  <1>6. CASE \E category \in Categories : Fails(x, category)
    <2>1. output' \in [Execution -> {"none", "made", "committed", "discarded"}]
      BY <1>6 DEF Fails, Inv, TypeOK
    <2> QED
      BY <1>4, <1>6, <2>1 DEF Fails
  <1>7. CASE Discarded(x)
    <2>1. /\ output' \in [Execution -> {"none", "made", "committed", "discarded"}]
          /\ phase[x] \in Discarding /\ Ends(x, "ended") /\ UNCHANGED world
      BY <1>7 DEF Discarded, Inv, TypeOK
    <2>2. CASE ~Dropped(x)
      BY <1>4, <1>7, <2>1, <2>2 DEF Discarded, Discarding
    <2>3. CASE Dropped(x)
      <3>1. UNCHANGED <<rows, aborted, pool>>
        BY <1>7, <2>3 DEF Discarded
      <3>2. Leaves(x)
        BY <2>3, <3>1 DEF Dropped, Leaves, rows, pool, Inv, LostStaysLost, Owned
      <3>3. /\ phase' \in [Execution -> Phases] /\ phase' = [phase EXCEPT ![x] = "ended"]
            /\ active' \in [Job -> 0..MaxAttempt]
        BY <2>1, EndsType DEF Phases
      <3>4. TypeOK'
        BY <2>1, <3>1, <3>3 DEF Inv, TypeOK, rows, pool, world
      <3> QED
        BY <1>1, <2>1, <3>1, <3>2, <3>3, <3>4, MoveKeeps DEF rows, pool, Phases, Discarding
    <2> QED
      BY <2>2, <2>3
  <1>8. CASE Timeout(x) \/ Heartbeat(x)
    <2>1. /\ UNCHANGED <<rows, phase, output, active, pool, world>> /\ aborted' \subseteq Execution
      BY <1>8 DEF Timeout, Heartbeat, Inv, TypeOK
    <2>2. TypeOK'
      BY <2>1 DEF Inv, TypeOK, rows, pool, world
    <2> QED
      BY <1>1, <2>1, <2>2, RowsKeep DEF rows, pool
  <1> QED
    BY <1>2, <1>3, <1>5, <1>6, <1>7, <1>8 DEF Step, Settles

\* a new process: nothing is claimed and nothing runs
LEMMA RestartKeeps ==
  ASSUME Inv, Restart
  PROVE  Inv'
  <1>1. \A j \in Job : row'[j] \in Row /\ row'[j].state \notin Claimed
                       /\ row'[j].attempt = row[j].attempt
                       /\ (row'[j].state # "paused" => row'[j].reason = "none")
    BY RowsFit, RowWrites DEF Restart, MayBecome, Fits
  <1>2. TypeOK'
    <2>1. boot' \in 1..MaxBoot /\ 0 \in 0..MaxAttempt
      BY BoundsType DEF Restart, Inv, TypeOK
    <2>2. row' \in [Job -> Row]
      BY <1>1 DEF Restart
    <2>3. phase' \in [Execution -> Phases]
      BY DEF Restart, Phases
    <2>4. output' \in [Execution -> {"none", "made", "committed", "discarded"}]
      BY DEF Restart, Inv, TypeOK
    <2> QED
      BY <2>1, <2>2, <2>3, <2>4 DEF Restart, Inv, TypeOK, Row
  <1>3. ReasonsFit' /\ Watched' /\ LostStaysLost'
    BY <1>1, ExecutionType DEF Restart, ReasonsFit, Watched, LostStaysLost, Owned
  <1>4. AttemptsAreCounted'
    BY <1>1, ExecutionType DEF Restart, Inv, AttemptsAreCounted
  <1> QED
    BY <1>2, <1>3, <1>4 DEF Inv

LEMMA OthersKeep ==
  ASSUME Inv,
         \/ NoticeOutage \/ Start \/ Stop \/ Stopped \/ ResumeStorage
         \/ DatabaseFails \/ DatabaseReturns \/ \E j \in Job : PauseForIntegrity(j) \/ Retry(j)
  PROVE  Inv'
  <1>1. /\ row \in [Job -> Row] /\ \A j \in Job : Fits(row[j]) /\ MayBecome(row[j], row[j])
    BY RowsFit DEF Inv, TypeOK, Row
  <1>2. CASE NoticeOutage \/ Start \/ Stopped \/ DatabaseFails \/ DatabaseReturns
    <2>1. row' = row /\ phase' = phase /\ (accepting' => accepting)
      BY <1>2 DEF NoticeOutage, Start, Stopped, DatabaseFails, DatabaseReturns, Halts, rows, executions, pool, world
    <2>2. TypeOK'
      <3>1. CASE NoticeOutage
        BY <3>1, FiledAreExecutions DEF NoticeOutage, Halts, rows, world, Inv, TypeOK
      <3>2. CASE Start \/ Stopped
        BY <3>2 DEF Start, Stopped, rows, executions, world, Inv, TypeOK
      <3>3. CASE DatabaseFails
        <4>1. outages' \in 0..MaxOutage
          BY <3>3, BoundsType DEF DatabaseFails, Inv, TypeOK
        <4> QED
          BY <3>3, <4>1 DEF DatabaseFails, rows, executions, pool, Inv, TypeOK
      <3>4. CASE DatabaseReturns
        BY <3>4 DEF DatabaseReturns, rows, executions, pool, Inv, TypeOK
      <3> QED
        BY <1>2, <3>1, <3>2, <3>3, <3>4
    <2> QED
      BY <1>1, <2>1, <2>2, RowsKeep
  <1>3. CASE Stop
    <2>1. RowsFollow /\ phase' = phase /\ ~accepting'
      <3>1. ASSUME NEW j \in Job, Requeued(j) PROVE row[j].state \in Claimed
        BY <3>1 DEF Requeued, Owned
      <3>2. ASSUME NEW j \in Job PROVE MayBecome(row[j], row'[j])
        BY <1>1, <1>3, <3>1, RowWrites DEF Stop
      <3> QED
        BY <1>3, <3>2 DEF Stop, RowsFollow, MayBecome, Fits
    <2>2. TypeOK'
      BY <1>3, <2>1, FiledAreExecutions DEF Stop, Inv, TypeOK, RowsFollow, Row, world
    <2> QED
      BY <2>1, <2>2, RowsKeep DEF RowsFollow
  <1>4. CASE ResumeStorage \/ \E j \in Job : PauseForIntegrity(j) \/ Retry(j)
    <2>1. RowsFollow
      <3>1. CASE ResumeStorage
        BY <1>1, <3>1, RowWrites DEF ResumeStorage, RowsFollow, MayBecome, Fits
      <3>2. ASSUME NEW j \in Job, PauseForIntegrity(j) \/ Retry(j)
            PROVE  RowsFollow
        BY <1>1, <3>2 DEF PauseForIntegrity, Retry, RowsFollow, MayBecome, Fits, Row, Claimed
      <3> QED
        BY <1>4, <3>1, <3>2
    <2>2. UNCHANGED <<executions, pool, world>> /\ storage' \in BOOLEAN
      BY <1>4 DEF ResumeStorage, PauseForIntegrity, Retry, Inv, TypeOK
    <2>3. TypeOK'
      BY <2>1, <2>2 DEF Inv, TypeOK, RowsFollow, Row, executions, pool, world
    <2> QED
      BY <2>1, <2>2, <2>3, RowsKeep DEF RowsFollow, executions, pool
  <1> QED
    BY <1>2, <1>3, <1>4

LEMMA InitInv == Init => Inv
  <1> SUFFICES ASSUME Init PROVE Inv
    OBVIOUS
  <1>1. TypeOK
    <2>1. 0 \in 0..MaxAttempt /\ 0 \in 0..MaxOutage /\ 1 \in 1..MaxBoot
      BY BoundsType
    <2> QED
      BY <2>1 DEF Init, TypeOK, Phases
  <1>2. ReasonsFit /\ Watched /\ AttemptsAreCounted /\ LostStaysLost
    BY DEF Init, ReasonsFit, Watched, AttemptsAreCounted, LostStaysLost, Claimed
  <1> QED
    BY <1>1, <1>2 DEF Inv

LEMMA NextInv == Inv /\ [Next]_vars => Inv'
  <1> SUFFICES ASSUME Inv, [Next]_vars PROVE Inv'
    OBVIOUS
  <1>1. CASE UNCHANGED vars
    <2>1. UNCHANGED <<rows, executions, pool, world>>
      BY <1>1 DEF vars
    <2> QED
      BY <2>1 DEF rows, executions, pool, world, Inv, TypeOK, ReasonsFit, Watched,
                  AttemptsAreCounted, LostStaysLost, Owned, Inflight
  <1> QED
    BY <1>1, ClaimKeeps, StepKeeps, RestartKeeps, OthersKeep DEF Next

LEMMA InvAlways == Spec => []Inv
  BY InitInv, NextInv, PTL DEF Spec

(***************************************************************************)
(* While the pool accepts work, every claim that the database shows has an *)
(* execution in flight that will report it: whatever fails, is refused,    *)
(* times out or comes late, the row does not stay claimed on its own.      *)
(***************************************************************************)
THEOREM ClaimsStayWatched == Spec => []ClaimsAreWatched
  <1>1. Inv => ClaimsAreWatched
    BY DEF Inv, Watched, ClaimsAreWatched
  <1> QED
    BY <1>1, InvAlways, PTL


-----------------------------------------------------------------------------
(***************************************************************************)
(* What becomes of results.  An execution has one to settle exactly while  *)
(* it is in a phase that commits or discards, also after it was given up   *)
(* and returned late; when it has ended nothing is left over.              *)
(***************************************************************************)
Settling == {"returned", "late_discarding"} \cup Discarding
ResultsAreHeld ==
  \A x \in Execution :
    /\ output[x] = "made" <=> phase[x] \in Settling
    /\ phase[x] \notin Settling \cup {"ended"} => output[x] = "none"

(***************************************************************************)
(* A succeeded job has the result of one execution, that of its newest     *)
(* claim, and no other result of it is committed.                          *)
(***************************************************************************)
OneResult ==
  \A x \in Execution :
    output[x] = "committed" <=> row[x[1]].state = "succeeded" /\ row[x[1]].attempt = x[2]

ResultInv == ResultsAreHeld /\ OneResult

\* no row becomes succeeded, and none that is changes
RowsStand ==
  \A j \in Job :
    /\ row'[j].state = "succeeded" <=> row[j].state = "succeeded"
    /\ row[j].state = "succeeded" => row'[j].attempt = row[j].attempt
CommittedStay == \A x \in Execution : output'[x] = "committed" <=> output[x] = "committed"

LEMMA StandingRows ==
  ASSUME Inv, OneResult, RowsStand, CommittedStay
  PROVE  OneResult'
  BY ExecutionType DEF OneResult, RowsStand, CommittedStay

LEMMA SucceededWrites ==
  ASSUME Inv, NEW j \in Job
  PROVE  /\ RetriedRow(row[j]).state # "succeeded" /\ FailedRow(row[j]).state # "succeeded"
         /\ StoppedRow(row[j]).state = "succeeded" <=> row[j].state = "succeeded"
         /\ RestoredRow(row[j]).state = "succeeded" <=> row[j].state = "succeeded"
         /\ StoppedRow(row[j]).attempt = row[j].attempt
         /\ RestoredRow(row[j]).attempt = row[j].attempt
  <1>1. row[j] \in Row /\ (row[j].state # "paused" => row[j].reason = "none")
    BY DEF Inv, TypeOK, Row, ReasonsFit
  <1> QED
    BY <1>1 DEF Row, RetriedRow, FailedRow, StoppedRow, RestoredRow, StoragePausable, Claimed

LEMMA FailureStands ==
  ASSUME Inv, NEW x \in Execution, NEW category, RecordFailure(x, category)
  PROVE  RowsStand
  <1>1. x[1] \in Job /\ row \in [Job -> Row]
    BY ExecutionType DEF Inv, TypeOK, Row
  <1>2. CASE UNCHANGED rows
    BY <1>2 DEF rows, RowsStand
  <1>3. CASE RecordDisk(x)
    BY <1>3, SucceededWrites DEF RecordDisk, RowsStand
  <1>4. ASSUME Owned(x), NEW next \in {FailedRow(row[x[1]]), RetriedRow(row[x[1]])},
               RecordRow(x, next)
        PROVE  RowsStand
    <2>1. row[x[1]].state # "succeeded" /\ next.state # "succeeded"
      BY <1>1, <1>4, SucceededWrites DEF Owned, Claimed
    <2>2. \A j \in Job : row'[j] = IF j = x[1] THEN next ELSE row[j]
      BY <1>1, <1>4 DEF RecordRow
    <2> QED
      BY <2>1, <2>2 DEF RowsStand
  <1>5. \/ UNCHANGED rows
        \/ RecordDisk(x)
        \/ Owned(x) /\ (RecordRow(x, FailedRow(row[x[1]])) \/ RecordRow(x, RetriedRow(row[x[1]])))
    BY DEF RecordFailure, rows
  <1> QED
    BY <1>2, <1>3, <1>4, <1>5

\* one execution moves on, its result with it
LEMMA MoveHolds ==
  ASSUME Inv, ResultsAreHeld, NEW x \in Execution, NEW p, NEW o,
         phase' = [phase EXCEPT ![x] = p], output' = [output EXCEPT ![x] = o],
         o = "made" <=> p \in Settling,
         p \notin Settling \cup {"ended"} => o = "none"
  PROVE  ResultsAreHeld'
  BY DEF ResultsAreHeld, Inv, TypeOK

LEMMA StepSettles ==
  ASSUME Inv, ResultInv, NEW x \in Execution, Step(x)
  PROVE  ResultInv'
  <1>1. /\ ResultsAreHeld /\ OneResult /\ x[1] \in Job /\ row \in [Job -> Row]
        /\ output \in [Execution -> {"none", "made", "committed", "discarded"}]
        /\ phase \in [Execution -> Phases]
        /\ output[x] = "made" <=> phase[x] \in Settling
        /\ phase[x] \notin Settling \cup {"ended"} => output[x] = "none"
    BY ExecutionType DEF ResultInv, ResultsAreHeld, Inv, TypeOK, Row
  <1>2. output = [output EXCEPT ![x] = output[x]]
    BY <1>1
  <1>3. CASE Prepared(x) \/ Reject(x)
    <2>1. /\ RowsStand /\ output' = output
          /\ \E p : /\ phase' = [phase EXCEPT ![x] = p]
                    /\ p \in Settling <=> phase[x] \in Settling
                    /\ p # "ended" /\ phase[x] # "ended"
      BY <1>3 DEF Prepared, Reject, Rejection, Settling, Discarding, RowsStand, rows
    <2>2. ResultsAreHeld'
      BY <1>1, <1>2, <2>1, MoveHolds
    <2> QED
      BY <1>1, <2>1, <2>2, StandingRows DEF ResultInv, CommittedStay
  <1>4. CASE Returns(x) \/ LateReturn(x)
    <2>1. /\ RowsStand /\ output' = [output EXCEPT ![x] = "made"] /\ output[x] = "none"
          /\ \E p \in Settling : phase' = [phase EXCEPT ![x] = p]
      BY <1>1, <1>4 DEF Returns, LateReturn, Settling, Discarding, RowsStand, rows
    <2>2. ResultsAreHeld'
      BY <1>1, <2>1, MoveHolds
    <2> QED
      BY <1>1, <2>1, <2>2, StandingRows DEF ResultInv, CommittedStay
  <1>5. CASE LateDiscarded(x)
    <2>1. /\ RowsStand /\ output' = [output EXCEPT ![x] = "discarded"] /\ output[x] = "made"
          /\ phase' = [phase EXCEPT ![x] = "ended"]
      BY <1>1, <1>5 DEF LateDiscarded, Settling, RowsStand, rows
    <2>2. ResultsAreHeld'
      BY <1>1, <2>1, MoveHolds DEF Settling, Discarding
    <2> QED
      BY <1>1, <2>1, <2>2, StandingRows DEF ResultInv, CommittedStay
  <1>6. CASE Commit(x)
    <2>1. /\ row' = [row EXCEPT ![x[1]].state = "succeeded"] /\ Owned(x)
          /\ output' = [output EXCEPT ![x] = "committed"] /\ phase' = [phase EXCEPT ![x] = "ended"]
      BY <1>6 DEF Commit, Ends
    <2>2. ResultsAreHeld'
      BY <1>1, <2>1, MoveHolds DEF Settling, Discarding
    <2>3. ASSUME NEW y \in Execution
          PROVE  output'[y] = "committed" <=>
                   row'[y[1]].state = "succeeded" /\ row'[y[1]].attempt = y[2]
      <3>1. row[x[1]].attempt = x[2] /\ row[x[1]].state # "succeeded"
        BY <2>1 DEF Owned, Claimed
      <3>2. row'[x[1]].state = "succeeded" /\ row'[x[1]].attempt = x[2]
        BY <1>1, <2>1, <3>1 DEF Row
      <3>3. CASE y[1] = x[1]
        <4>1. y = x <=> y[2] = x[2]
          BY <3>3, ExecutionType
        <4>2. output[y] # "committed"
          BY <1>1, <3>1, <3>3 DEF OneResult
        <4> QED
          BY <1>1, <2>1, <3>2, <3>3, <4>1, <4>2
      <3>4. CASE y[1] # x[1]
        BY <1>1, <2>1, <3>4, ExecutionType DEF OneResult
      <3> QED
        BY <3>3, <3>4
    <2> QED
      BY <2>2, <2>3 DEF ResultInv, OneResult
  <1>7. CASE \E category \in Categories : Fails(x, category)
    <2>1. RowsStand
      BY <1>7, FailureStands DEF Fails
    <2>2. /\ output' = output /\ phase' = [phase EXCEPT ![x] = "ended"] /\ output[x] = "none"
      BY <1>1, <1>7 DEF Fails, Ends, Settling, Discarding
    <2>3. ResultsAreHeld'
      BY <1>1, <1>2, <2>2, MoveHolds DEF Settling, Discarding
    <2> QED
      BY <1>1, <2>1, <2>2, <2>3, StandingRows DEF ResultInv, CommittedStay
  <1>8. CASE GivesUp(x)
    <2>1. RowsStand
      BY <1>8, FailureStands DEF GivesUp
    <2>2. output' = output /\ output[x] = "none"
      BY <1>1, <1>8 DEF GivesUp, Settling, Discarding
    <2> PICK p : p \in {"late", "ended"} /\ phase' = [phase EXCEPT ![x] = p]
      BY <1>8 DEF GivesUp, Ends
    <2>4. p \notin Settling
      BY DEF Settling, Discarding
    <2>3. ResultsAreHeld'
      BY <1>1, <1>2, <2>2, <2>4, MoveHolds
    <2> QED
      BY <1>1, <2>1, <2>2, <2>3, StandingRows DEF ResultInv, CommittedStay
  <1>9. CASE Discarded(x)
    <2>1. RowsStand
      BY <1>9, FailureStands DEF Discarded, rows, RowsStand
    <2>2. /\ output' = [output EXCEPT ![x] = "discarded"] /\ output[x] = "made"
          /\ phase' = [phase EXCEPT ![x] = "ended"]
      BY <1>1, <1>9 DEF Discarded, Ends, Settling
    <2>3. ResultsAreHeld'
      BY <1>1, <2>2, MoveHolds DEF Settling, Discarding
    <2> QED
      BY <1>1, <2>1, <2>2, <2>3, StandingRows DEF ResultInv, CommittedStay
  <1>10. CASE Timeout(x) \/ Heartbeat(x)
    <2>1. UNCHANGED <<row, phase, output>>
      BY <1>10 DEF Timeout, Heartbeat, rows
    <2> QED
      BY <1>1, <2>1 DEF ResultInv, ResultsAreHeld, OneResult
  <1> QED
    BY <1>3, <1>4, <1>5, <1>6, <1>7, <1>8, <1>9, <1>10 DEF Step, Settles


LEMMA ClaimSettles ==
  ASSUME Inv, ResultInv, NEW j \in Job, RunOne(j) \/ RunOneCut(j)
  PROVE  ResultInv'
  <1> DEFINE a == row[j].attempt + 1
             x == <<j, a>>
  <1>1. /\ row[j] \in Row /\ row \in [Job -> Row] /\ a \in 1..MaxAttempt
        /\ row[j].state = "queued" /\ output' = output
        /\ phase \in [Execution -> Phases]
    BY BoundsType DEF RunOne, RunOneCut, MayClaim, Inv, TypeOK, Row
  <1>2. x \in Execution /\ phase[x] = "none"
    BY <1>1, BoundsType DEF Execution, Attempt, Inv, AttemptsAreCounted, Row
  <1>3. row'[j].state # "succeeded" /\ \A k \in Job \ {j} : row'[k] = row[k]
    <2>1. \E state \in {"running", "claimed"} :
            row' = [row EXCEPT ![j].state = state, ![j].attempt = a]
      BY DEF RunOne, RunOneCut
    <2> HIDE DEF a
    <2>2. ASSUME NEW state \in {"running", "claimed"},
                 row' = [row EXCEPT ![j].state = state, ![j].attempt = a]
          PROVE  row'[j].state = state /\ \A k \in Job \ {j} : row'[k] = row[k]
      BY <1>1, <2>2 DEF Row
    <2> QED
      BY <2>1, <2>2
  <1>4. OneResult'
    BY <1>1, <1>3, StandingRows DEF ResultInv, RowsStand, CommittedStay
  <1>5. phase' = phase \/ phase' = [phase EXCEPT ![x] = "preparing"]
    BY DEF RunOne, RunOneCut
  <1>6. output[x] = "none"
    BY <1>2 DEF ResultInv, ResultsAreHeld, Settling, Discarding
  <1>7. "preparing" \notin Settling
    BY DEF Settling, Discarding
  <1> HIDE DEF x
  <1>8. ResultsAreHeld'
    <2>1. CASE phase' = phase
      BY <1>1, <2>1 DEF ResultInv, ResultsAreHeld
    <2>2. CASE phase' = [phase EXCEPT ![x] = "preparing"]
      <3>1. output' = [output EXCEPT ![x] = "none"]
        BY <1>1, <1>2, <1>6 DEF Inv, TypeOK
      <3> QED
        BY <1>2, <1>7, <2>2, <3>1, MoveHolds DEF ResultInv
    <2> QED
      BY <1>5, <2>1, <2>2
  <1> QED
    BY <1>4, <1>8 DEF ResultInv

\* with the process its results are gone: only what was committed or discarded stays
LEMMA RestartSettles ==
  ASSUME Inv, ResultInv, Restart
  PROVE  ResultInv'
  <1>1. row \in [Job -> Row]
    BY DEF Inv, TypeOK, Row
  <1>2. RowsStand
    BY <1>1, SucceededWrites DEF Restart, RowsStand, Claimed
  <1>3. CommittedStay
    BY DEF Restart, CommittedStay
  <1>4. OneResult'
    BY <1>2, <1>3, StandingRows DEF ResultInv
  <1>5. \A x \in Execution :
          /\ phase'[x] \in {"none", "ended"} /\ output'[x] # "made"
          /\ phase'[x] = "none" => output'[x] = "none"
    BY DEF Restart, ResultInv, ResultsAreHeld, Settling, Discarding
  <1>6. ResultsAreHeld'
    BY <1>5 DEF ResultsAreHeld, Settling, Discarding
  <1> QED
    BY <1>4, <1>6 DEF ResultInv

LEMMA OthersSettle ==
  ASSUME Inv, ResultInv,
         \/ NoticeOutage \/ Start \/ Stop \/ Stopped \/ ResumeStorage
         \/ DatabaseFails \/ DatabaseReturns \/ \E j \in Job : PauseForIntegrity(j) \/ Retry(j)
  PROVE  ResultInv'
  <1>1. row \in [Job -> Row]
    BY DEF Inv, TypeOK, Row
  <1>2. phase' = phase /\ output' = output
    BY DEF NoticeOutage, Start, Stop, Stopped, ResumeStorage, DatabaseFails, DatabaseReturns,
           PauseForIntegrity, Retry, executions
  <1>3. RowsStand
    <2>1. CASE NoticeOutage \/ Start \/ Stopped \/ DatabaseFails \/ DatabaseReturns
      BY <2>1 DEF NoticeOutage, Start, Stopped, DatabaseFails, DatabaseReturns, rows, RowsStand
    <2>2. CASE Stop
      <3>1. \A j \in Job : Requeued(j) => row[j].state # "succeeded"
        BY DEF Requeued, Owned, Claimed
      <3> QED
        BY <1>1, <2>2, <3>1, SucceededWrites DEF Stop, RowsStand
    <2>3. CASE ResumeStorage
      BY <1>1, <2>3, SucceededWrites DEF ResumeStorage, RowsStand
    <2>4. ASSUME NEW j \in Job, PauseForIntegrity(j) \/ Retry(j) PROVE RowsStand
      <3>1. /\ row[j].state # "succeeded" /\ row'[j].state # "succeeded"
            /\ \A k \in Job \ {j} : row'[k] = row[k]
        BY <1>1, <2>4 DEF PauseForIntegrity, Retry, Claimed, Row
      <3> QED
        BY <3>1 DEF RowsStand
    <2> QED
      BY <2>1, <2>2, <2>3, <2>4
  <1>4. OneResult'
    BY <1>2, <1>3, StandingRows DEF ResultInv, CommittedStay
  <1> QED
    BY <1>2, <1>4 DEF ResultInv, ResultsAreHeld

(***************************************************************************)
(* Whenever an execution is given up, refused, cut off or late, its result *)
(* is either committed, and then the job has succeeded with it and with no *)
(* other, or it is still in the hands of an execution that will commit or  *)
(* discard it: an execution that has ended leaves no result behind.        *)
(***************************************************************************)
THEOREM ResultsAreAnsweredFor == Spec => [](ResultsAreHeld /\ OneResult)
  <1>1. Init => ResultInv
    <2> SUFFICES ASSUME Init PROVE ResultInv
      OBVIOUS
    <2> QED
      BY ExecutionType DEF Init, ResultInv, ResultsAreHeld, OneResult, Settling, Discarding
  <1>2. ASSUME Inv, ResultInv, [Next]_vars PROVE ResultInv'
    <2>1. CASE UNCHANGED vars
      BY <1>2, <2>1
         DEF vars, rows, executions, ResultInv, ResultsAreHeld, OneResult
    <2> QED
      BY <1>2, <2>1, StepSettles, ClaimSettles, RestartSettles, OthersSettle DEF Next
  <1>3. ResultInv <=> ResultsAreHeld /\ OneResult
    BY DEF ResultInv
  <1> QED
    BY <1>1, <1>2, <1>3, InvAlways, PTL DEF Spec

=============================================================================
