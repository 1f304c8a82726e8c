------------------------------ MODULE Executor -------------------------------
(***************************************************************************)
(* CodexExecutor (executor.py): the threads that call run(), each with one *)
(* codex process, and the thread that calls cancel_all() (the pump's main  *)
(* thread, through on_cancel).  Processes exit when they like, may ignore  *)
(* SIGTERM and may have started helpers of their own in their group.       *)
(*                                                                         *)
(* A wait with a timeout may always expire while the process is alive: no  *)
(* clock is modelled.  A section under _lock is one step.                  *)
(***************************************************************************)
EXTENDS Integers, FiniteSets

CONSTANTS Agents,      \* the calls of run()
          Platforms    \* the platforms considered

ASSUME PlatformsAssumption == Platforms \subseteq {"posix", "nt"}

VARIABLES
    platform,    \* os.name
    pc,          \* place of each run() call
    leader,      \* the codex process of the call
    helper,      \* what that process started in its group
    termed,      \* processes a SIGTERM was sent to
    code,        \* return code of an exited process
    timed_out, result,
    _active, _cancelled,
    cpc,         \* place of cancel_all()
    targets,     \* the snapshot's processes not yet reached by cancel_all()
    target       \* the process cancel_all() is terminating

callVars == <<pc, timed_out, result, _active>>
processVars == <<leader, helper, termed, code>>
cancelVars == <<_cancelled, cpc, targets, target>>
vars == <<platform, callVars, processVars, cancelVars>>

NoAgent == "no agent"
RunPlaces == {"idle", "start", "spawn", "wait", "term", "grace", "reap", "discard",
              "decide", "done"}
CancelPlaces == {"idle", "flagged", "next", "term", "grace", "done"}

TypeOK ==
    /\ platform \in Platforms
    /\ pc \in [Agents -> RunPlaces]
    /\ leader \in [Agents -> {"none", "alive", "exited"}]
    /\ helper \in [Agents -> {"none", "alive", "gone"}]
    /\ termed \in SUBSET Agents
    /\ code \in [Agents -> {"none", "zero", "nonzero"}]
    /\ \A a \in Agents : code[a] = "none" <=> leader[a] # "exited"
    /\ timed_out \in SUBSET Agents
    /\ result \in [Agents -> {"none", "ok", "failed", "cancelled", "timeout"}]
    /\ _active \in SUBSET Agents
    /\ _cancelled \in BOOLEAN
    /\ cpc \in CancelPlaces
    /\ targets \in SUBSET Agents
    /\ target \in Agents \cup {NoAgent}

Init ==
    /\ platform \in Platforms
    /\ pc = [a \in Agents |-> "idle"]
    /\ leader = [a \in Agents |-> "none"]
    /\ helper = [a \in Agents |-> "none"]
    /\ termed = {}
    /\ code = [a \in Agents |-> "none"]
    /\ timed_out = {}
    /\ result = [a \in Agents |-> "none"]
    /\ _active = {}
    /\ _cancelled = FALSE
    /\ cpc = "idle"
    /\ targets = {}
    /\ target = NoAgent

Goto(a, place) == pc' = [pc EXCEPT ![a] = place]

Return(a, how) ==
    /\ Goto(a, "done")
    /\ result' = [result EXCEPT ![a] = how]

-----------------------------------------------------------------------------
(* What the operating system and the codex processes do.                   *)

\* A process exits by itself or because of the SIGTERM it got; it may as well
\* ignore the signal, or handle it and exit with any code.
LeaderExits(a) ==
    /\ leader[a] = "alive"
    /\ leader' = [leader EXCEPT ![a] = "exited"]
    /\ \E c \in {"zero", "nonzero"} : code' = [code EXCEPT ![a] = c]
    /\ UNCHANGED <<platform, callVars, helper, termed, cancelVars>>

HelperStarts(a) ==
    /\ leader[a] = "alive"
    /\ helper[a] = "none"
    /\ helper' = [helper EXCEPT ![a] = "alive"]
    /\ UNCHANGED <<platform, callVars, leader, termed, code, cancelVars>>

HelperExits(a) ==
    /\ helper[a] = "alive"
    /\ helper' = [helper EXCEPT ![a] = "gone"]
    /\ UNCHANGED <<platform, callVars, leader, termed, code, cancelVars>>

\* SIGTERM to the group, on POSIX: what it does is left to LeaderExits.
Terminate(a) ==
    /\ termed' = termed \cup {a}
    /\ UNCHANGED <<leader, helper, code>>

\* Mutation: the exit of a killed process is not collected.
KillTreeUnreaped(a) ==
    /\ leader' = [leader EXCEPT ![a] = "exited"]
    /\ helper' = IF helper[a] = "alive" THEN [helper EXCEPT ![a] = "gone"] ELSE helper
    /\ UNCHANGED <<code, termed>>

\* SIGKILL to the group (POSIX); taskkill /T /F of the tree (Windows).
KillTree(a) ==
    /\ leader' = [leader EXCEPT ![a] = "exited"]
    /\ code' = IF leader[a] = "alive" THEN [code EXCEPT ![a] = "nonzero"] ELSE code
    /\ helper' = IF helper[a] = "alive" THEN [helper EXCEPT ![a] = "gone"] ELSE helper
    /\ termed' = termed

\* The first half of _terminate_process_tree, for a process that is alive.
FirstSignal(a) == IF platform = "nt" THEN KillTree(a) ELSE Terminate(a)

-----------------------------------------------------------------------------
(* run().                                                                  *)

Submit(a) ==
    /\ pc[a] = "idle"
    /\ Goto(a, "start")
    /\ UNCHANGED <<platform, timed_out, result, _active, processVars, cancelVars>>

EnterRun(a) ==
    /\ pc[a] = "start"
    /\ IF _cancelled THEN Return(a, "cancelled") ELSE Goto(a, "spawn") /\ result' = result
    /\ UNCHANGED <<platform, timed_out, _active, processVars, cancelVars>>

\* The log files of the slot cannot be opened.
OpenFails(a) ==
    /\ pc[a] = "spawn"
    /\ Return(a, "failed")
    /\ UNCHANGED <<platform, timed_out, _active, processVars, cancelVars>>

\* _spawn, under _lock: the flag is read again, and a process that could be
\* started is registered before the lock is released.
SpawnRefused(a) ==
    /\ pc[a] = "spawn"
    /\ _cancelled
    /\ Return(a, "cancelled")
    /\ UNCHANGED <<platform, timed_out, _active, processVars, cancelVars>>

SpawnFails(a) ==
    /\ pc[a] = "spawn"
    /\ ~_cancelled
    /\ Return(a, "failed")
    /\ UNCHANGED <<platform, timed_out, _active, processVars, cancelVars>>

\* Mutation: _spawn does not read the flag again.
SpawnUnchecked(a) ==
    /\ pc[a] = "spawn"
    /\ Goto(a, "wait")
    /\ leader' = [leader EXCEPT ![a] = "alive"]
    /\ _active' = _active \cup {a}
    /\ UNCHANGED <<platform, timed_out, result, helper, termed, code, cancelVars>>

Spawn(a) ==
    /\ pc[a] = "spawn"
    /\ ~_cancelled
    /\ Goto(a, "wait")
    /\ leader' = [leader EXCEPT ![a] = "alive"]
    /\ _active' = _active \cup {a}
    /\ UNCHANGED <<platform, timed_out, result, helper, termed, code, cancelVars>>

WaitReturns(a) ==
    /\ pc[a] \in {"wait", "grace", "reap"}
    /\ leader[a] = "exited"
    /\ Goto(a, "discard")
    /\ UNCHANGED <<platform, timed_out, result, _active, processVars, cancelVars>>

\* Mutation: a timeout is reported without terminating the process.
WaitAbandoned(a) ==
    /\ pc[a] = "wait"
    /\ leader[a] = "alive"
    /\ timed_out' = timed_out \cup {a}
    /\ Goto(a, "discard")
    /\ UNCHANGED <<platform, result, _active, processVars, cancelVars>>

WaitExpires(a) ==
    /\ pc[a] = "wait"
    /\ leader[a] = "alive"
    /\ timed_out' = timed_out \cup {a}
    /\ Goto(a, "term")
    /\ UNCHANGED <<platform, result, _active, processVars, cancelVars>>

\* _terminate_process_tree by the call itself: poll and signal, wait for the
\* leader, and when the grace period expires kill.
TermOwn(a) ==
    /\ pc[a] = "term"
    /\ IF leader[a] = "exited"
       THEN Goto(a, "reap") /\ UNCHANGED processVars
       ELSE Goto(a, "grace") /\ FirstSignal(a)
    /\ UNCHANGED <<platform, timed_out, result, _active, cancelVars>>

\* Mutation: the grace period ends without the SIGKILL.
GraceOwnExpiresMeekly(a) ==
    /\ pc[a] = "grace"
    /\ leader[a] = "alive"
    /\ Goto(a, "reap")
    /\ UNCHANGED <<platform, timed_out, result, _active, processVars, cancelVars>>

GraceOwnExpires(a) ==
    /\ pc[a] = "grace"
    /\ leader[a] = "alive"
    /\ Goto(a, "reap")
    /\ KillTree(a)
    /\ UNCHANGED <<platform, timed_out, result, _active, cancelVars>>

Discard(a) ==
    /\ pc[a] = "discard"
    /\ _active' = _active \ {a}
    /\ Goto(a, "decide")
    /\ UNCHANGED <<platform, timed_out, result, processVars, cancelVars>>

\* A zero exit is a success only when last.txt is there and decodes.
Decide(a) ==
    /\ pc[a] = "decide"
    /\ \E how \in (IF a \in timed_out THEN {"timeout"}
                   ELSE IF code[a] = "zero" THEN {"ok", "failed"}
                   ELSE IF _cancelled THEN {"cancelled"} ELSE {"failed"}) : Return(a, how)
    /\ UNCHANGED <<platform, timed_out, _active, processVars, cancelVars>>

-----------------------------------------------------------------------------
(* cancel_all().                                                           *)

CancelSetsFlag ==
    /\ cpc = "idle"
    /\ cpc' = "flagged"
    /\ _cancelled' = TRUE
    /\ UNCHANGED <<platform, callVars, processVars, targets, target>>

CancelSnapshots ==
    /\ cpc = "flagged"
    /\ cpc' = "next"
    /\ targets' = _active
    /\ UNCHANGED <<platform, callVars, processVars, _cancelled, target>>

\* Mutation: the process just picked is not taken off the list.
CancelPicksAgain(a) ==
    /\ cpc = "next"
    /\ a \in targets
    /\ target' = a
    /\ cpc' = "term"
    /\ UNCHANGED <<platform, callVars, processVars, _cancelled, targets>>

CancelPicks(a) ==
    /\ cpc = "next"
    /\ a \in targets
    /\ targets' = targets \ {a}
    /\ target' = a
    /\ cpc' = "term"
    /\ UNCHANGED <<platform, callVars, processVars, _cancelled>>

CancelSignals(a) ==
    /\ cpc = "term"
    /\ target = a
    /\ IF leader[a] = "exited"
       THEN cpc' = "next" /\ target' = NoAgent /\ UNCHANGED processVars
       ELSE cpc' = "grace" /\ target' = target /\ FirstSignal(a)
    /\ UNCHANGED <<platform, callVars, _cancelled, targets>>

CancelGraceEnds(a) ==
    /\ cpc = "grace"
    /\ target = a
    /\ IF leader[a] = "exited" THEN UNCHANGED processVars ELSE KillTree(a)
    /\ cpc' = "next"
    /\ target' = NoAgent
    /\ UNCHANGED <<platform, callVars, _cancelled, targets>>

CancelReturns ==
    /\ cpc = "next"
    /\ targets = {}
    /\ cpc' = "done"
    /\ UNCHANGED <<platform, callVars, processVars, _cancelled, targets, target>>

-----------------------------------------------------------------------------
RunStep(a) ==
    \/ EnterRun(a) \/ OpenFails(a) \/ SpawnRefused(a) \/ SpawnFails(a) \/ Spawn(a)
    \/ WaitReturns(a) \/ WaitExpires(a)
    \/ TermOwn(a) \/ GraceOwnExpires(a) \/ Discard(a) \/ Decide(a)

CancelStep ==
    \/ CancelSnapshots \/ CancelReturns
    \/ \E a \in Agents : CancelPicks(a) \/ CancelSignals(a) \/ CancelGraceEnds(a)

ProcessStep(a) == LeaderExits(a) \/ HelperStarts(a) \/ HelperExits(a)

Terminated ==
    /\ \A a \in Agents : pc[a] = "done" /\ helper[a] # "alive"
    /\ cpc = "done"
    /\ UNCHANGED vars

Next ==
    \/ \E a \in Agents : Submit(a) \/ RunStep(a) \/ ProcessStep(a)
    \/ CancelSetsFlag \/ CancelStep
    \/ Terminated

\* The threads are scheduled; what the processes do is up to them.
Fairness == WF_vars(CancelStep) /\ \A a \in Agents : WF_vars(RunStep(a))

Spec == Init /\ [][Next]_vars /\ Fairness

-----------------------------------------------------------------------------
(* Properties.                                                             *)

\* No process escapes cancel_all(): from the moment it has copied _active, each
\* codex process still alive is one it is about to terminate, and none is left
\* when it returns, whatever run() calls were half way through _spawn.
NoneEscapesCancel ==
    cpc \in {"next", "term", "grace", "done"} =>
        {a \in Agents : leader[a] = "alive"} \subseteq targets \cup {target}

\* run() answers in bounded time whatever codex does: a process that neither
\* exits nor heeds SIGTERM is killed by its own timeout.
RunsReturn == \A a \in Agents : pc[a] = "start" ~> pc[a] = "done"

\* cancel_all() returns although it waits for each process in turn.
CancelEnds == cpc = "flagged" ~> cpc = "done"

-----------------------------------------------------------------------------
(* The executor implements the promise of CancelScope.                     *)

callStage ==
    [a \in Agents |->
        IF leader[a] = "alive" THEN "running"
        ELSE IF pc[a] = "idle" THEN "idle"
        ELSE IF pc[a] \in {"start", "spawn"} THEN "called"
        ELSE IF pc[a] = "done" THEN "answered" ELSE "stopped"]

cancelScope == IF cpc = "done" THEN "quiet" ELSE IF _cancelled THEN "requested" ELSE "open"

Scope == INSTANCE CancelScope WITH stage <- callStage, answer <- result, scope <- cancelScope

\* Every step of a thread or a process is a step of CancelScope, or changes nothing
\* in it: whatever the timeouts, the signals and cancel_all() do to each other, a call
\* is answered only when its process is gone and for a reason there was, and
\* cancel_all() returns to a scope without processes that stays without.
ImplementsCancelScope == Scope!CancelScopeSpec
=============================================================================
