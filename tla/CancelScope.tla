----------------------------- MODULE CancelScope -----------------------------
(***************************************************************************)
(* What CodexExecutor promises its callers, without its lock, its list and *)
(* its signals: a call starts at most one codex process, is answered only  *)
(* when that process is gone, and is told that it was cancelled only when  *)
(* somebody asked for that; from the request on no process is started, and *)
(* cancel_all() returns when none is left.                                 *)
(***************************************************************************)
CONSTANT Agents      \* the calls of run()

VARIABLES
    stage,     \* how far each call is
    answer,    \* what it was told
    scope      \* whether cancel_all() was called, and has returned

scopeVars == <<stage, answer, scope>>

CancelScopeInit ==
    /\ stage = [a \in Agents |-> "idle"]
    /\ answer = [a \in Agents |-> "none"]
    /\ scope = "open"

Move(a, from, to) == stage[a] = from /\ stage' = [stage EXCEPT ![a] = to]

Enter(a) == Move(a, "idle", "called") /\ UNCHANGED <<answer, scope>>

Start(a) ==
    /\ scope = "open"
    /\ Move(a, "called", "running")
    /\ UNCHANGED <<answer, scope>>

\* The process exits, is killed by its call's timeout, or by cancel_all().
Stop(a) == Move(a, "running", "stopped") /\ UNCHANGED <<answer, scope>>

\* A call without a process is told that it failed, or that it was cancelled.
Refuse(a, how) ==
    /\ how = "failed" \/ (how = "cancelled" /\ scope # "open")
    /\ Move(a, "called", "answered")
    /\ answer' = [answer EXCEPT ![a] = how]
    /\ scope' = scope

Tell(a, how) ==
    /\ how = "cancelled" => scope # "open"
    /\ Move(a, "stopped", "answered")
    /\ answer' = [answer EXCEPT ![a] = how]
    /\ scope' = scope

RequestCancel == scope = "open" /\ scope' = "requested" /\ UNCHANGED <<stage, answer>>

BecomeQuiet ==
    /\ scope = "requested"
    /\ \A a \in Agents : stage[a] # "running"
    /\ scope' = "quiet"
    /\ UNCHANGED <<stage, answer>>

CancelScopeNext ==
    \/ \E a \in Agents :
          \/ Enter(a) \/ Start(a) \/ Stop(a)
          \/ \E how \in {"ok", "failed", "cancelled", "timeout"} : Refuse(a, how) \/ Tell(a, how)
    \/ RequestCancel
    \/ BecomeQuiet

CancelScopeSpec == CancelScopeInit /\ [][CancelScopeNext]_scopeVars
=============================================================================
