--------------------------- MODULE CallLifecycle -----------------------------
(***************************************************************************)
(* What run_job_pump promises its caller about the agent() calls of a run, *)
(* without its queues: every call is made once, in order, is worked on by  *)
(* at most Concurrency workers at a time out of a budget of MaxAgents, and *)
(* is answered at most once; a run ends well only when every call made has *)
(* been answered; a decided run is never changed again.  A run that fails  *)
(* while it begins or answers a call may lose that one, and no other.      *)
(***************************************************************************)
EXTENDS Integers, FiniteSets

CONSTANTS Calls, Concurrency, MaxAgents

VARIABLES
    call,      \* the stage of every call
    started,   \* how many calls were handed to a worker
    run        \* the verdict on the run

callVars == <<call, started, run>>

Ids == 0 .. Calls - 1
Stages == {"new", "waiting", "working", "answered", "lost"}
At(stage) == {n \in Ids : call[n] = stage}

LifecycleTypeOK ==
    /\ call \in [Ids -> Stages]
    /\ started \in 0 .. MaxAgents
    /\ run \in {"open", "ok", "failed"}

LifecycleInit ==
    /\ call = [n \in Ids |-> "new"]
    /\ started = 0
    /\ run = "open"

\* A program calls agent().
Make(n) ==
    /\ run = "open"
    /\ call[n] = "new"
    /\ \A m \in Ids : m < n => call[m] # "new"
    /\ call' = [call EXCEPT ![n] = "waiting"]
    /\ UNCHANGED <<started, run>>

\* A worker is given the call; the budget and the workers are limited.
Begin(n) ==
    /\ run = "open"
    /\ call[n] = "waiting"
    /\ Cardinality(At("working")) < Concurrency
    /\ started < MaxAgents
    /\ call' = [call EXCEPT ![n] = "working"]
    /\ started' = started + 1
    /\ run' = run

\* The program's promise is settled, after the work or without any (a cached
\* result, a refusal).
Answer(n) ==
    /\ run = "open"
    /\ call[n] \in {"waiting", "working"}
    /\ call' = [call EXCEPT ![n] = "answered"]
    /\ UNCHANGED <<started, run>>

EndWell ==
    /\ run = "open"
    /\ At("waiting") \cup At("working") = {}
    /\ run' = "ok"
    /\ UNCHANGED <<call, started>>

EndBadly ==
    /\ run = "open"
    /\ run' = "failed"
    /\ UNCHANGED <<call, started>>

\* The run fails in the middle of the beginning or the answer of a call.
LoseOne(n) ==
    /\ run = "open"
    /\ run' = "failed"
    /\ call[n] \in {"waiting", "working"}
    /\ call' = [call EXCEPT ![n] = "lost"]
    /\ \/ started' = started
       \/ /\ call[n] = "waiting"
          /\ started < MaxAgents
          /\ started' = started + 1

LifecycleNext ==
    \/ \E n \in Ids : Make(n) \/ Begin(n) \/ Answer(n) \/ LoseOne(n)
    \/ EndWell
    \/ EndBadly

LifecycleSpec == LifecycleInit /\ [][LifecycleNext]_callVars
=============================================================================
