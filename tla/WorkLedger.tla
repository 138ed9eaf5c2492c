----------------------------- MODULE WorkLedger -----------------------------
(***************************************************************************)
(* What the scheduler promises about planned work, whatever rows, leases,  *)
(* attempts, incidents and replacements it takes to keep the promise: work *)
(* is admitted once, is in one pair of hands at a time, and ends once, by  *)
(* a result or by being dropped.  A failing disk takes all work out of     *)
(* all hands, and a scope that is drained for a copy hands nothing out.    *)
(***************************************************************************)
CONSTANTS
  Work,         \* what callers plan
  Human,        \* the work that a person decides, which nobody holds
  Home,         \* the scope of each work
  Lockable      \* scopes that can be drained and frozen

VARIABLES
  planned,      \* work that was admitted
  held,         \* work an execution has in its hands
  done,         \* work whose result was accepted
  dropped,      \* work that was given up
  stopped,      \* a failing disk stopped everything
  phase         \* how far a lockable scope is in being copied
vars == <<planned, held, done, dropped, stopped, phase>>
work == <<planned, held, done, dropped>>

Init ==
  /\ planned = {} /\ held = {} /\ done = {} /\ dropped = {}
  /\ stopped = FALSE
  /\ phase = [s \in Lockable |-> "none"]

Free(w) == Home[w] \in Lockable => phase[Home[w]] = "none"
Frozen(w) == Home[w] \in Lockable /\ phase[Home[w]] = "snapshot"
Open == planned \ (held \cup done \cup dropped)
New(S) == S \cap planned = {} /\ \A w \in S : Free(w)
-----------------------------------------------------------------------------
Admit(S) ==
  /\ New(S)
  /\ planned' = planned \cup S
  /\ UNCHANGED <<held, done, dropped, stopped, phase>>

Grant(w) ==
  /\ w \in Open \ Human /\ ~stopped /\ Free(w)
  /\ held' = held \cup {w}
  /\ UNCHANGED <<planned, done, dropped, stopped, phase>>

\* retried, paused, requeued at a shutdown, recovered after a crash
Return(S) ==
  /\ S \subseteq held
  /\ held' = held \ S
  /\ UNCHANGED <<planned, done, dropped, stopped, phase>>

\* the result and the work that follows from it are taken in together
Accept(w, S) ==
  /\ w \in held /\ ~Frozen(w) /\ New(S)
  /\ held' = held \ {w} /\ done' = done \cup {w} /\ planned' = planned \cup S
  /\ UNCHANGED <<dropped, stopped, phase>>

Decide(w) ==
  /\ w \in Open \cap Human /\ Free(w)
  /\ done' = done \cup {w}
  /\ UNCHANGED <<planned, held, dropped, stopped, phase>>

GiveUp(w) ==
  /\ w \in Open \cup held
  /\ held' = held \ {w} /\ dropped' = dropped \cup {w}
  /\ UNCHANGED <<planned, done, stopped, phase>>

Stop ==
  /\ held' = {} /\ stopped' = TRUE
  /\ UNCHANGED <<planned, done, dropped, phase>>

Resume ==
  /\ stopped /\ stopped' = FALSE
  /\ UNCHANGED <<work, phase>>
-----------------------------------------------------------------------------
Drain(s) ==
  /\ phase[s] = "none" /\ phase' = [phase EXCEPT ![s] = "draining"]
  /\ UNCHANGED <<work, stopped>>

Freeze(s) ==
  /\ phase[s] = "draining" /\ phase' = [phase EXCEPT ![s] = "snapshot"]
  /\ \A w \in held : Home[w] # s
  /\ UNCHANGED <<work, stopped>>

Release(s) ==
  /\ phase[s] = "snapshot" /\ phase' = [phase EXCEPT ![s] = "none"]
  /\ UNCHANGED <<work, stopped>>

Next ==
  \/ Stop \/ Resume
  \/ \E S \in SUBSET Work : Admit(S) \/ Return(S) \/ \E w \in Work : Accept(w, S)
  \/ \E w \in Work : Grant(w) \/ Decide(w) \/ GiveUp(w)
  \/ \E s \in Lockable : Drain(s) \/ Freeze(s) \/ Release(s)
Spec == Init /\ [][Next]_vars
=============================================================================
