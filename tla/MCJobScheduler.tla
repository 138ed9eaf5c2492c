--------------------------- MODULE MCJobScheduler ---------------------------
(***************************************************************************)
(* Small instances of JobScheduler for TLC: plans of a few jobs, and       *)
(* specifications that let only some callers act, so that each run can     *)
(* afford the depth its question needs.  Every such specification is Spec  *)
(* with fewer callers: its behaviours are behaviours of Spec.              *)
(***************************************************************************)
EXTENDS JobScheduler

(***************************************************************************)
(* Lanes "text" and "image" belong to provider "codex"; "alt" is the text  *)
(* lane of provider "gemini", the alternate a quota decision may choose.   *)
(***************************************************************************)
MCProviderOf == [l \in Lane |-> IF l = "alt" THEN "gemini" ELSE "codex"]
MCOperationOf == [l \in Lane |-> IF l = "image" THEN "image" ELSE "text"]

In(scope, lane, deps) ==
  [scope |-> scope, lane |-> lane, gate |-> "none", deps |-> deps, follow |-> {}]
Unplanned == In("book", NoLane, {})
PlanOf(rows) == [j \in Job |-> IF j \in DOMAIN rows THEN rows[j] ELSE Unplanned]

Gate(kind, deps) ==
  [scope |-> "book", lane |-> NoLane, gate |-> kind, deps |-> deps, follow |-> {}]
Then(row, follow) == [row EXCEPT !.follow = follow]

\* a job, one of another scope that competes for its lane, and one that needs the first
PairPlan == PlanOf(<<In("book", "text", {}), In("studio", "text", {}), In("book", "text", {1})>>)
PairBatches == {{1, 3}, {2}}

\* a job whose commit opens a review and plans the work after it, which the owner
\* reviews in turn
ReviewPlan == PlanOf(<<Then(In("book", NoLane, {}), {2, 3}),
  Gate("review", {1}), Then(In("book", NoLane, {2}), {4}), Gate("owner", {3})>>)
ReviewBatches == {{1}}

\* two independent jobs of a lane
WholePlan == PlanOf(<<In("book", "text", {}), In("book", "text", {})>>)
WholeBatches == {{1}, {2}}

\* two jobs of a lane, one on the provider's other lane; 2 needs 1
LanesPlan == PlanOf(<<In("book", "text", {}), In("book", "text", {1}), In("book", "image", {})>>)
LanesBatches == {{1, 2}, {3}}

-----------------------------------------------------------------------------
ControlNext == Caller \/ Worker \/ Shutdown \/ JobControl \/ Integrity \/ Reviewer \/ ProjectControl
ControlSpec == Init /\ [][ControlNext]_vars

IncidentNext ==
  \/ Caller \/ Worker \/ Remediation \/ QuotaDecision
  \/ \E j \in Job : Pause(j) \/ Resume(j)
IncidentSpec == Init /\ [][IncidentNext]_vars

(***************************************************************************)
(* The heartbeat interval is shorter than the lease (validateOptions):     *)
(* unless the event loop stalls, no lease of a live execution runs out.    *)
(* Restart takes nothing back under a lock, so a drain that lost its       *)
(* process never ends: the process dies outside of exports here.           *)
(***************************************************************************)
TimelyTick ==
  /\ Tick
  /\ \A j \in Job : \A a \in inflight[j] :
       job[j].lease.boot = boot /\ job[j].attempts = a => job[j].lease.ttl > 1
TimelyRestart == Restart /\ \A s \in Project : lock[s] = NoLock
TimelyNext == Caller \/ Worker \/ TimelyRestart \/ TimelyTick \/ Export
TimelySpec == Init /\ [][TimelyNext]_vars /\ Fairness /\ WF_vars(TimelyTick)

=============================================================================
