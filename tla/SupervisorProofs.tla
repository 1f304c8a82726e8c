-------------------------- MODULE SupervisorProofs ---------------------------
(***************************************************************************)
(* Proofs about the supervisor, for every set of codex processes: its      *)
(* types, and that what it returns is true of the runtime it watched.      *)
(***************************************************************************)
EXTENDS Supervisor, TLAPS

Looking == {"check", "poll", "alive", "repoll"}

\* The life of the runtime process: its verdict, its exit code and its codex
\* processes follow from how far it has come.
RuntimeInOrder ==
    /\ runtime \in {"spawned", "working"} => verdict = "none"
    /\ runtime \in {"ended", "sent", "closed"} => verdict # "none"
    /\ code = "none" <=> IsAlive
    /\ runtime \in {"ended", "sent", "closed"} \/ code = "zero" => ~AnyAgentAlive

\* One result is sent, after the verdict it carries was recorded; it is in the pipe
\* or has been received.
OneResult ==
    /\ verdict = "ok" => journal = "ok"
    /\ pipe # "none" => pipe = verdict
    /\ payload # "none" => payload = verdict
    /\ runtime \in {"spawned", "working", "ended"} => pipe = "none" /\ payload = "none"
    /\ runtime \in {"sent", "closed"} => pipe # "none" \/ payload # "none"

\* The supervisor looks for a result until it has one, and takes the way to its
\* verdict only with one.
ResultDecides ==
    /\ spc \in Looking => payload = "none"
    /\ spc \in {"join", "judge"} => payload # "none"
    /\ spc \in {"stop", "grace"} /\ outcome = "none" => payload # "none"

SupervisorInv ==
    /\ TypeOK
    /\ RuntimeInOrder /\ OneResult /\ ResultDecides
    /\ SuccessIsReal /\ NoRuntimeLeft /\ ResultNotMissed

-----------------------------------------------------------------------------
(* One lemma for each kind of step.                                        *)

LEMMA SupervisorInit == Init => SupervisorInv
  BY DEF Init, SupervisorInv, TypeOK, RuntimeInOrder, OneResult, ResultDecides, Looking, IsAlive,
         AnyAgentAlive, SuccessIsReal, NoRuntimeLeft, ResultNotMissed

\* All codex processes are gone at once.
LEMMA AgentsGone ==
    ASSUME TypeOK
    PROVE  /\ AllAgentsGone \in [Agents -> {"none", "alive", "gone"}]
           /\ \A a \in Agents : AllAgentsGone[a] # "alive"
  BY DEF TypeOK, AllAgentsGone

\* What one codex process does; none is started after the verdict.
LEMMA AgentSteps ==
    ASSUME SupervisorInv, NEW a \in Agents, StartAgent(a) \/ EndAgent(a)
    PROVE  SupervisorInv'
<1>1. TypeOK'
  BY DEF StartAgent, EndAgent, supervisorVars, SupervisorInv, TypeOK
<1>2. /\ UNCHANGED <<supervisorVars, runtime, verdict, session, code, journal, pipe>>
      /\ runtime = "working" \/ (AnyAgentAlive' => AnyAgentAlive)
  BY DEF StartAgent, EndAgent, AnyAgentAlive, SupervisorInv, TypeOK
<1>3. code = "zero" => runtime # "working"
  BY DEF SupervisorInv, RuntimeInOrder, IsAlive
<1>4. RuntimeInOrder' /\ OneResult' /\ ResultDecides'
  BY <1>2, <1>3 DEF supervisorVars, SupervisorInv, RuntimeInOrder, OneResult, ResultDecides, IsAlive
<1>5. SuccessIsReal' /\ NoRuntimeLeft' /\ ResultNotMissed'
  BY <1>2, <1>3
  DEF supervisorVars, SupervisorInv, RuntimeInOrder, SuccessIsReal, NoRuntimeLeft, ResultNotMissed
<1>6. QED
  BY <1>1, <1>4, <1>5 DEF SupervisorInv

\* The runtime process on its way to its end.
LEMMA RuntimeSteps ==
    ASSUME SupervisorInv,
           \/ StartSession \/ ScriptSucceeds \/ ScriptFails
           \/ SendResult \/ CloseSender \/ ExitProcess \/ Crash
    PROVE  SupervisorInv'
<1>1. TypeOK'
  BY AgentsGone
  DEF StartSession, ScriptSucceeds, ScriptFails, SendResult, CloseSender, ExitProcess, Crash,
      supervisorVars, SupervisorInv, TypeOK
<1>2. RuntimeInOrder'
  BY AgentsGone
  DEF StartSession, ScriptSucceeds, ScriptFails, SendResult, CloseSender, ExitProcess, Crash,
      SupervisorInv, RuntimeInOrder, IsAlive, AnyAgentAlive
<1>3. OneResult' /\ ResultDecides'
  BY DEF StartSession, ScriptSucceeds, ScriptFails, SendResult, CloseSender, ExitProcess, Crash,
         supervisorVars, SupervisorInv, RuntimeInOrder, OneResult, ResultDecides, IsAlive
\* A supervisor that has returned has left nothing for the runtime to undo.
<1>4. SuccessIsReal' /\ NoRuntimeLeft' /\ ResultNotMissed'
  BY DEF StartSession, ScriptSucceeds, ScriptFails, SendResult, CloseSender, ExitProcess, Crash,
         supervisorVars, SupervisorInv, TypeOK, IsAlive, SuccessIsReal, NoRuntimeLeft,
         ResultNotMissed
<1>5. QED
  BY <1>1, <1>2, <1>3, <1>4 DEF SupervisorInv

\* The loop that looks for a result.
LEMMA LookingSteps ==
    ASSUME SupervisorInv,
           \/ CheckDeadline \/ DeadlineExpired \/ Receive \/ ReceiveEnd \/ PollEmpty
           \/ StillAlive \/ FoundDead \/ Repoll \/ DeadlinePasses
    PROVE  SupervisorInv'
<1> USE DEF CheckDeadline, DeadlineExpired, Receive, ReceiveEnd, PollEmpty, StillAlive, FoundDead,
            Repoll, DeadlinePasses, Goto, Raise, runtimeVars
<1>1. TypeOK'
  BY DEF SupervisorInv, TypeOK
<1>2. RuntimeInOrder'
  BY DEF SupervisorInv, RuntimeInOrder, IsAlive, AnyAgentAlive
<1>3. OneResult' /\ ResultDecides'
  BY DEF SupervisorInv, TypeOK, OneResult, ResultDecides, Looking
\* The end of the pipe is seen while payload is "none": the runtime has exited
\* without a result.
<1>4. SuccessIsReal' /\ NoRuntimeLeft' /\ ResultNotMissed'
  BY DEF SupervisorInv, TypeOK, OneResult, ResultDecides, Looking, EndOfPipe, IsAlive,
         AnyAgentAlive, SuccessIsReal, NoRuntimeLeft, ResultNotMissed
<1>5. QED
  BY <1>1, <1>2, <1>3, <1>4 DEF SupervisorInv

\* The tree is stopped, the process joined, the verdict formed.
LEMMA StoppingSteps ==
    ASSUME SupervisorInv, StopTree \/ GraceOver \/ JoinReturns \/ JoinExpires \/ Judge
    PROVE  SupervisorInv'
<1> USE DEF StopTree, GraceOver, JoinReturns, JoinExpires, Judge, Stopped, Goto, Raise, runtimeVars
<1>1. TypeOK'
  BY AgentsGone DEF SupervisorInv, TypeOK
<1>2. RuntimeInOrder'
  BY AgentsGone DEF SupervisorInv, TypeOK, RuntimeInOrder, IsAlive, AnyAgentAlive
<1>3. OneResult' /\ ResultDecides'
  BY DEF SupervisorInv, TypeOK, OneResult, ResultDecides, Looking
<1>4. SuccessIsReal' /\ NoRuntimeLeft' /\ ResultNotMissed'
  BY DEF SupervisorInv, TypeOK, RuntimeInOrder, OneResult, ResultDecides, IsAlive, AnyAgentAlive,
         SuccessIsReal, NoRuntimeLeft, ResultNotMissed
<1>5. QED
  BY <1>1, <1>2, <1>3, <1>4 DEF SupervisorInv

\* Ctrl+C at any moment.
LEMMA InterruptSteps ==
    ASSUME SupervisorInv, Interrupt \/ InterruptStop \/ InterruptLate
    PROVE  SupervisorInv'
<1> USE DEF Interrupt, InterruptStop, InterruptLate, Raise, runtimeVars
<1>1. TypeOK'
  BY AgentsGone DEF SupervisorInv, TypeOK
<1>2. RuntimeInOrder'
  BY AgentsGone DEF SupervisorInv, TypeOK, RuntimeInOrder, IsAlive, AnyAgentAlive
<1>3. OneResult' /\ ResultDecides'
  BY DEF SupervisorInv, TypeOK, RuntimeInOrder, OneResult, ResultDecides, Looking
<1>4. SuccessIsReal' /\ NoRuntimeLeft' /\ ResultNotMissed'
  BY DEF SupervisorInv, TypeOK, RuntimeInOrder, OneResult, ResultDecides, IsAlive, AnyAgentAlive,
         SuccessIsReal, NoRuntimeLeft, ResultNotMissed
<1>5. QED
  BY <1>1, <1>2, <1>3, <1>4 DEF SupervisorInv

LEMMA SupervisorStepInv == SupervisorInv /\ [Next]_vars => SupervisorInv'
<1> SUFFICES ASSUME SupervisorInv, [Next]_vars
             PROVE  SupervisorInv'
  OBVIOUS
<1>1. CASE UNCHANGED vars
  BY <1>1
  DEF vars, supervisorVars, runtimeVars, SupervisorInv, TypeOK, RuntimeInOrder, OneResult,
      ResultDecides, IsAlive, AnyAgentAlive, SuccessIsReal, NoRuntimeLeft, ResultNotMissed
<1>2. CASE Terminated
  BY <1>1, <1>2 DEF Terminated
<1>3. QED
  BY <1>1, <1>2, AgentSteps, RuntimeSteps, LookingSteps, StoppingSteps, InterruptSteps
  DEF Next, RuntimeStep, SupervisorStep

-----------------------------------------------------------------------------
(* The theorems.                                                           *)

LEMMA SupervisorAlways == Spec => []SupervisorInv
  BY SupervisorInit, SupervisorStepInv, PTL DEF Spec

\* The supervisor and the runtime it watches are well typed.
THEOREM SupervisorTypeCorrect == Spec => []TypeOK
<1>1. SupervisorInv => TypeOK
  BY DEF SupervisorInv
<1>2. QED
  BY <1>1, SupervisorAlways, PTL

\* A success is reported only for a run that recorded one, exited with zero and has
\* no codex process left.
THEOREM SuccessIsAlwaysReal == Spec => []SuccessIsReal
<1>1. SupervisorInv => SuccessIsReal
  BY DEF SupervisorInv
<1>2. QED
  BY <1>1, SupervisorAlways, PTL

\* When supervise_workflow has returned no workflow code is executing, unless
\* Ctrl+C was pressed twice.
THEOREM NoRuntimeEverLeft == Spec => []NoRuntimeLeft
<1>1. SupervisorInv => NoRuntimeLeft
  BY DEF SupervisorInv
<1>2. QED
  BY <1>1, SupervisorAlways, PTL

\* A result that was sent is never reported as missing.
THEOREM ResultIsNeverMissed == Spec => []ResultNotMissed
<1>1. SupervisorInv => ResultNotMissed
  BY DEF SupervisorInv
<1>2. QED
  BY <1>1, SupervisorAlways, PTL
=============================================================================
