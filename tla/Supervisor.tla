----------------------------- MODULE Supervisor ------------------------------
(***************************************************************************)
(* supervise_workflow (supervisor.py) and the runtime process it watches:  *)
(* the result pipe, the deadline, Ctrl+C, and who is still alive when the  *)
(* supervisor returns.  The runtime is run_workflow reduced to what can be *)
(* seen from outside: it starts codex processes (each in a session of its  *)
(* own on POSIX, executor.py:180), ends after they have, records           *)
(* run.finished, sends its result and exits, or dies at any moment.        *)
(***************************************************************************)
EXTENDS Integers, FiniteSets

CONSTANTS Agents,      \* the codex processes of the run
          Platforms    \* the platforms considered

ASSUME PlatformsAssumption == Platforms \subseteq {"posix", "nt"}

VARIABLES
    platform,
    spc,         \* place of the supervisor
    outcome,     \* what supervise_workflow returned or raised
    payload,     \* the result it received
    expired,     \* the deadline has passed
    runtime,     \* what the runtime process is doing
    verdict,     \* how run_workflow ended in it
    session,     \* setsid has been called: the process leads its own group
    code,        \* exit code of the runtime process
    journal,     \* the run.finished record
    agents,      \* the codex processes
    pipe         \* a result sent and not received

supervisorVars == <<spc, outcome, payload, expired>>
runtimeVars == <<runtime, verdict, session, code, journal, agents, pipe>>
vars == <<platform, supervisorVars, runtimeVars>>

TypeOK ==
    /\ platform \in Platforms
    /\ spc \in {"check", "poll", "alive", "repoll", "stop", "grace", "join", "judge", "done"}
    /\ outcome \in {"none", "timeout", "interrupted", "closed", "no-result", "success",
                    "failed", "bad-exit", "twice"}
    /\ outcome # "none" => spc \in {"stop", "grace", "done"}
    /\ payload \in {"none", "ok", "failed"}
    /\ expired \in BOOLEAN
    /\ runtime \in {"spawned", "working", "ended", "sent", "closed", "exited"}
    /\ verdict \in {"none", "ok", "failed"}
    /\ session \in BOOLEAN
    /\ code \in {"none", "zero", "killed", "crashed"}
    /\ journal \in {"none", "ok", "failed"}
    /\ agents \in [Agents -> {"none", "alive", "gone"}]
    /\ pipe \in {"none", "ok", "failed"}

Init ==
    /\ platform \in Platforms
    /\ spc = "check"
    /\ outcome = "none"
    /\ payload = "none"
    /\ expired = FALSE
    /\ runtime = "spawned"
    /\ verdict = "none"
    /\ session = FALSE
    /\ code = "none"
    /\ journal = "none"
    /\ agents = [a \in Agents |-> "none"]
    /\ pipe = "none"

AnyAgentAlive == \E a \in Agents : agents[a] = "alive"
AllAgentsGone == [a \in Agents |-> IF agents[a] = "alive" THEN "gone" ELSE agents[a]]
IsAlive == runtime # "exited"

\* poll() is true when a result is there and also at the end of the pipe, when
\* its only writer has closed it.
EndOfPipe == pipe = "none" /\ runtime \in {"closed", "exited"}

-----------------------------------------------------------------------------
(* The runtime process (_child_entry and run_workflow).                    *)

StartSession ==
    /\ runtime = "spawned"
    /\ runtime' = "working"
    /\ session' = (platform = "posix")
    /\ UNCHANGED <<platform, supervisorVars, verdict, code, journal, agents, pipe>>

StartAgent(a) ==
    /\ runtime = "working"
    /\ agents[a] = "none"
    /\ agents' = [agents EXCEPT ![a] = "alive"]
    /\ UNCHANGED <<platform, supervisorVars, runtime, verdict, session, code, journal, pipe>>

EndAgent(a) ==
    /\ agents[a] = "alive"
    /\ agents' = [agents EXCEPT ![a] = "gone"]
    /\ UNCHANGED <<platform, supervisorVars, runtime, verdict, session, code, journal, pipe>>

\* run_workflow returns: the pool has been joined, run.finished is written.
ScriptSucceeds ==
    /\ runtime = "working"
    /\ ~AnyAgentAlive
    /\ runtime' = "ended"
    /\ verdict' = "ok"
    /\ journal' = "ok"
    /\ UNCHANGED <<platform, supervisorVars, session, code, agents, pipe>>

\* A handled failure: cancel_all, join, run.finished with ok false.
ScriptFails ==
    /\ runtime = "working"
    /\ agents' = AllAgentsGone
    /\ runtime' = "ended"
    /\ verdict' = "failed"
    /\ journal' = "failed"
    /\ UNCHANGED <<platform, supervisorVars, session, code, pipe>>

SendResult ==
    /\ runtime = "ended"
    /\ runtime' = "sent"
    /\ pipe' = verdict
    /\ UNCHANGED <<platform, supervisorVars, verdict, session, code, journal, agents>>

CloseSender ==
    /\ runtime = "sent"
    /\ runtime' = "closed"
    /\ UNCHANGED <<platform, supervisorVars, verdict, session, code, journal, agents, pipe>>

ExitProcess ==
    /\ runtime = "closed"
    /\ runtime' = "exited"
    /\ code' = "zero"
    /\ UNCHANGED <<platform, supervisorVars, verdict, session, journal, agents, pipe>>

\* The process dies by itself (a crash of the embedded engine, the OOM killer).
Crash ==
    /\ IsAlive
    /\ runtime' = "exited"
    /\ code' = "crashed"
    /\ UNCHANGED <<platform, supervisorVars, verdict, session, journal, agents, pipe>>

-----------------------------------------------------------------------------
(* The supervisor.                                                         *)

Goto(place) == spc' = place /\ UNCHANGED <<platform, outcome, payload, expired, runtimeVars>>

Raise(what) ==
    /\ spc' = "done"
    /\ outcome' = what
    /\ UNCHANGED <<platform, payload, expired, runtimeVars>>

DeadlinePasses ==
    /\ spc # "done"
    /\ ~expired
    /\ expired' = TRUE
    /\ UNCHANGED <<platform, spc, outcome, payload, runtimeVars>>

\* Mutation: the loop never looks at the clock.
CheckNothing == spc = "check" /\ Goto("poll")

CheckDeadline ==
    /\ spc = "check"
    /\ ~expired
    /\ Goto("poll")

DeadlineExpired ==
    /\ spc = "check"
    /\ expired
    /\ spc' = "stop"
    /\ outcome' = "timeout"
    /\ UNCHANGED <<platform, payload, expired, runtimeVars>>

Receive ==
    /\ spc = "poll"
    /\ pipe # "none"
    /\ payload' = pipe
    /\ pipe' = "none"
    /\ spc' = "join"
    /\ UNCHANGED <<platform, outcome, expired, runtime, verdict, session, code, journal, agents>>

ReceiveEnd ==
    /\ spc = "poll"
    /\ EndOfPipe
    /\ Raise("closed")

PollEmpty ==
    /\ spc = "poll"
    /\ pipe = "none" /\ ~EndOfPipe
    /\ Goto("alive")

StillAlive == spc = "alive" /\ IsAlive /\ Goto("check")

\* Mutation: a dead process has no result, without looking into the pipe again.
FoundDeadNoRepoll ==
    /\ spc = "alive"
    /\ ~IsAlive
    /\ Raise("no-result")

FoundDead ==
    /\ spc = "alive"
    /\ ~IsAlive
    /\ Goto("repoll")

\* poll() after the death: a result or the end of the pipe is read by the next
\* turn of the loop.  (The end of the pipe of a dead process is always seen, so
\* the branch that reports an exit without a result is not taken.)
Repoll ==
    /\ spc = "repoll"
    /\ pipe # "none" \/ EndOfPipe
    /\ Goto("check")

\* Ctrl+C while the supervisor waits.  The runtime gets it too when it shares
\* the terminal's process group: on Windows, and on POSIX before setsid.
Interrupt ==
    /\ spc \in {"check", "poll", "alive", "repoll"}
    /\ spc' = "stop"
    /\ outcome' = "interrupted"
    /\ \/ UNCHANGED runtimeVars
       \/ /\ ~session
          /\ runtime \in {"spawned", "working"}
          /\ runtime' = "ended"
          /\ verdict' = "failed"
          /\ agents' = AllAgentsGone
          /\ UNCHANGED <<session, code, journal, pipe>>
    /\ UNCHANGED <<platform, payload, expired>>

\* Mutation: after the tree has been stopped the verdict is formed as usual.
StoppedJudges == spc' = "judge"

\* _stop_process_tree raises nothing: its caller's outcome stands.
Stopped == spc' = (IF outcome = "none" THEN "judge" ELSE "done")

\* The first signal.  SIGTERM reaches the process group of the runtime, which
\* exists after setsid, and kills it: Python leaves SIGTERM at its default.
\* Codex processes are in groups of their own.  taskkill /T takes the tree.
StopTree ==
    /\ spc = "stop"
    /\ IF ~IsAlive THEN Stopped /\ UNCHANGED runtimeVars
       ELSE IF platform = "posix" /\ ~session THEN spc' = "grace" /\ UNCHANGED runtimeVars
       ELSE /\ Stopped
            /\ runtime' = "exited"
            /\ code' = "killed"
            /\ agents' = IF platform = "nt" THEN AllAgentsGone ELSE agents
            /\ UNCHANGED <<verdict, session, journal, pipe>>
    /\ UNCHANGED <<platform, outcome, payload, expired>>

\* Mutation: the grace period is not followed by a kill.
GraceOverMeekly ==
    /\ spc = "grace"
    /\ Stopped
    /\ UNCHANGED <<platform, outcome, payload, expired, runtimeVars>>

\* The process had no group of its own yet; it is killed when the grace is over.
GraceOver ==
    /\ spc = "grace"
    /\ Stopped
    /\ runtime' = "exited"
    /\ code' = IF IsAlive THEN "killed" ELSE code
    /\ UNCHANGED <<platform, outcome, payload, expired, verdict, session, journal, agents, pipe>>

JoinReturns == spc = "join" /\ ~IsAlive /\ Goto("judge")

JoinExpires == spc = "join" /\ IsAlive /\ Goto("stop")

\* Ctrl+C again, while the tree is being stopped for the deadline: the except
\* clause stops it from the start.
InterruptStop ==
    /\ spc \in {"stop", "grace"}
    /\ outcome = "timeout"
    /\ spc' = "stop"
    /\ outcome' = "interrupted"
    /\ UNCHANGED <<platform, payload, expired, runtimeVars>>

\* Ctrl+C in the except clause or after the try statement leaves
\* supervise_workflow at once.
InterruptLate ==
    /\ \/ spc \in {"join", "judge"}
       \/ spc \in {"stop", "grace"} /\ outcome \in {"none", "interrupted"}
    /\ Raise(IF outcome = "interrupted" THEN "twice" ELSE "interrupted")

\* Mutation: the exit code is not looked at.
JudgePayloadOnly == spc = "judge" /\ Raise(IF payload = "ok" THEN "success" ELSE "failed")

Judge ==
    /\ spc = "judge"
    /\ Raise(IF payload # "ok" THEN "failed"
             ELSE IF code # "zero" THEN "bad-exit" ELSE "success")

-----------------------------------------------------------------------------
RuntimeStep ==
    \/ StartSession
    \/ \E a \in Agents : StartAgent(a) \/ EndAgent(a)
    \/ ScriptSucceeds \/ ScriptFails
    \/ SendResult \/ CloseSender \/ ExitProcess \/ Crash

SupervisorStep ==
    \/ CheckDeadline \/ DeadlineExpired
    \/ Receive \/ ReceiveEnd \/ PollEmpty
    \/ StillAlive \/ FoundDead \/ Repoll
    \/ StopTree \/ GraceOver
    \/ JoinReturns \/ JoinExpires \/ Judge

Terminated == spc = "done" /\ UNCHANGED vars

Next ==
    \/ RuntimeStep
    \/ SupervisorStep
    \/ Interrupt \/ InterruptStop \/ InterruptLate
    \/ DeadlinePasses
    \/ Terminated

\* The supervisor is scheduled and time passes; the runtime may stay in a
\* synchronous loop for ever.
Spec == Init /\ [][Next]_vars /\ WF_vars(SupervisorStep) /\ WF_vars(DeadlinePasses)

-----------------------------------------------------------------------------
(* Properties.                                                             *)

\* supervise_workflow returns a RunResult only for a run whose journal ends
\* with run.finished ok, whose process exited with code zero and which left no
\* codex process behind.
SuccessIsReal ==
    outcome = "success" =>
        journal = "ok" /\ runtime = "exited" /\ code = "zero" /\ ~AnyAgentAlive

\* When the supervisor has returned, no workflow code is executing any more:
\* the runtime is dead, or past its result and about to exit.  (Ctrl+C pressed
\* again while the first one is being handled gives this up.)
NoRuntimeLeft ==
    spc = "done" /\ outcome # "twice" => runtime \in {"exited", "sent", "closed"}

\* A result that was sent is never reported as missing, whatever the order of
\* poll, the exit of the process and is_alive.
ResultNotMissed ==
    outcome \in {"closed", "no-result"} => runtime = "exited" /\ pipe = "none"
                                           /\ payload = "none"

\* The supervisor returns whatever the runtime does, by its deadline at worst.
Returns == <>(spc = "done")

\* supervisor.py:4, "On timeout or interruption the supervisor terminates the
\* whole runtime process tree": no codex process is alive then.
TreeGone == spc = "done" /\ outcome \in {"timeout", "interrupted"} => ~AnyAgentAlive
=============================================================================
