--------------------------- MODULE ExecutorProofs ----------------------------
(***************************************************************************)
(* Proofs about the executor, for every set of run() calls: the types, and *)
(* that neither run() nor cancel_all() loses a codex process, and that the *)
(* executor implements CancelScope.                                        *)
(***************************************************************************)
EXTENDS Executor, TLAPS

Alive == {a \in Agents : leader[a] = "alive"}

\* A process that is alive is in _active, and run() never returns, nor forgets
\* its process, before that process has exited.
AliveIsTracked ==
    \A a \in Agents :
        leader[a] = "alive" => a \in _active /\ pc[a] \in {"wait", "term", "grace", "reap"}

\* A call has no process before _spawn has started one, and whatever is in _active
\* or in the hands of cancel_all() has been started.
Started ==
    \A a \in Agents :
        /\ pc[a] \in {"idle", "start", "spawn"} => leader[a] = "none"
        /\ pc[a] \in {"wait", "term", "grace", "reap", "discard", "decide"} => leader[a] # "none"
        /\ a \in _active \cup targets => leader[a] # "none"
        /\ cpc \in {"term", "grace"} /\ target = a => leader[a] # "none"

\* The flag is set before anything is copied: _spawn starts no more processes.
FlagSetFirst == cpc # "idle" => _cancelled

\* NoneEscapesCancel with the process in hand only where there is one.
Pursued ==
    /\ cpc \in {"next", "done"} => Alive \subseteq targets
    /\ cpc \in {"term", "grace"} => Alive \subseteq targets \cup {target}
    /\ cpc = "done" => targets = {}

ExecutorInv == TypeOK /\ AliveIsTracked /\ Started /\ FlagSetFirst /\ Pursued

-----------------------------------------------------------------------------
(* One lemma for each kind of step.                                        *)

LEMMA ExecutorInit == Init => ExecutorInv
  BY DEF Init, ExecutorInv, TypeOK, AliveIsTracked, Started, FlagSetFirst, Pursued, Alive,
         RunPlaces, CancelPlaces

LEMMA ProcessSteps ==
    ASSUME ExecutorInv, NEW a \in Agents, ProcessStep(a)
    PROVE  ExecutorInv'
<1> USE DEF callVars, cancelVars
<1>1. CASE LeaderExits(a)
  <2>1. TypeOK'
    BY <1>1 DEF LeaderExits, ExecutorInv, TypeOK
  <2>2. AliveIsTracked' /\ Started'
    BY <1>1 DEF LeaderExits, ExecutorInv, TypeOK, AliveIsTracked, Started
  <2>3. FlagSetFirst' /\ Pursued'
    BY <1>1 DEF LeaderExits, ExecutorInv, TypeOK, FlagSetFirst, Pursued, Alive
  <2>4. QED
    BY <2>1, <2>2, <2>3 DEF ExecutorInv
<1>2. CASE HelperStarts(a) \/ HelperExits(a)
  <2>1. TypeOK'
    BY <1>2 DEF HelperStarts, HelperExits, ExecutorInv, TypeOK
  <2>2. UNCHANGED <<leader, pc, _active, targets, target, cpc, _cancelled>>
    BY <1>2 DEF HelperStarts, HelperExits
  <2>3. QED
    BY <2>1, <2>2
    DEF ExecutorInv, AliveIsTracked, Started, FlagSetFirst, Pursued, Alive
<1>3. QED
  BY <1>1, <1>2 DEF ProcessStep

\* What the two signals do to the processes: no other process is touched, the one
\* that is killed has exited, and none becomes alive.
LEMMA KillTreeEnds ==
    ASSUME TypeOK, NEW a \in Agents, leader[a] # "none", KillTree(a)
    PROVE  /\ leader' = [leader EXCEPT ![a] = "exited"]
           /\ leader' \in [Agents -> {"none", "alive", "exited"}]
           /\ helper' \in [Agents -> {"none", "alive", "gone"}]
           /\ code' \in [Agents -> {"none", "zero", "nonzero"}]
           /\ \A b \in Agents : code'[b] = "none" <=> leader'[b] # "exited"
           /\ termed' \in SUBSET Agents
  BY DEF KillTree, TypeOK

LEMMA FirstSignalEnds ==
    ASSUME TypeOK, NEW a \in Agents, leader[a] # "none", FirstSignal(a)
    PROVE  /\ leader' \in {leader, [leader EXCEPT ![a] = "exited"]}
           /\ leader' \in [Agents -> {"none", "alive", "exited"}]
           /\ helper' \in [Agents -> {"none", "alive", "gone"}]
           /\ code' \in [Agents -> {"none", "zero", "nonzero"}]
           /\ \A b \in Agents : code'[b] = "none" <=> leader'[b] # "exited"
           /\ termed' \in SUBSET Agents
<1>1. CASE platform = "nt"
  BY <1>1, KillTreeEnds DEF FirstSignal
<1>2. CASE platform # "nt"
  BY <1>2 DEF FirstSignal, Terminate, TypeOK
<1>3. QED
  BY <1>1, <1>2

LEMMA SpawnSteps ==
    ASSUME ExecutorInv, NEW a \in Agents,
           Submit(a) \/ EnterRun(a) \/ OpenFails(a) \/ SpawnRefused(a) \/ SpawnFails(a) \/ Spawn(a)
    PROVE  ExecutorInv'
<1> USE DEF processVars, cancelVars, Goto, Return
<1>1. CASE Submit(a) \/ EnterRun(a) \/ OpenFails(a) \/ SpawnRefused(a) \/ SpawnFails(a)
  <2>1. TypeOK'
    BY <1>1 DEF Submit, EnterRun, OpenFails, SpawnRefused, SpawnFails, ExecutorInv, TypeOK, RunPlaces
  <2>2. /\ pc[a] \in {"idle", "start", "spawn"}
        /\ \E place \in {"start", "spawn", "done"} : pc' = [pc EXCEPT ![a] = place]
        /\ UNCHANGED <<leader, _active, targets, target, cpc, _cancelled>>
    BY <1>1 DEF Submit, EnterRun, OpenFails, SpawnRefused, SpawnFails
  <2>3. AliveIsTracked' /\ Started'
    BY <2>2 DEF ExecutorInv, TypeOK, AliveIsTracked, Started
  <2>4. FlagSetFirst' /\ Pursued'
    BY <2>2 DEF ExecutorInv, FlagSetFirst, Pursued, Alive
  <2>5. QED
    BY <2>1, <2>3, <2>4 DEF ExecutorInv
<1>2. CASE Spawn(a)
  <2>1. TypeOK'
    BY <1>2 DEF Spawn, ExecutorInv, TypeOK, RunPlaces, Started
  <2>2. AliveIsTracked' /\ Started'
    BY <1>2 DEF Spawn, ExecutorInv, TypeOK, AliveIsTracked, Started
  \* The flag is down: cancel_all() has not begun.
  <2>3. cpc = "idle" /\ cpc' = "idle"
    BY <1>2 DEF Spawn, ExecutorInv, FlagSetFirst
  <2>4. FlagSetFirst' /\ Pursued'
    BY <2>3 DEF FlagSetFirst, Pursued
  <2>5. QED
    BY <2>1, <2>2, <2>4 DEF ExecutorInv
<1>3. QED
  BY <1>1, <1>2

LEMMA WaitSteps ==
    ASSUME ExecutorInv, NEW a \in Agents,
           WaitReturns(a) \/ WaitExpires(a) \/ TermOwn(a) \/ GraceOwnExpires(a)
    PROVE  ExecutorInv'
<1> USE DEF Goto
<1>1. leader[a] # "none"
  BY DEF WaitReturns, WaitExpires, TermOwn, GraceOwnExpires, ExecutorInv, Started
<1>2. TypeOK'
  <2>1. CASE WaitReturns(a) \/ WaitExpires(a)
    BY <2>1 DEF WaitReturns, WaitExpires, processVars, cancelVars, ExecutorInv, TypeOK, RunPlaces
  <2>2. CASE TermOwn(a)
    <3>1. /\ leader' \in [Agents -> {"none", "alive", "exited"}]
          /\ helper' \in [Agents -> {"none", "alive", "gone"}]
          /\ code' \in [Agents -> {"none", "zero", "nonzero"}]
          /\ \A b \in Agents : code'[b] = "none" <=> leader'[b] # "exited"
          /\ termed' \in SUBSET Agents
      BY <1>1, <2>2, FirstSignalEnds DEF TermOwn, processVars, ExecutorInv, TypeOK
    <3>2. QED
      BY <2>2, <3>1 DEF TermOwn, cancelVars, ExecutorInv, TypeOK, RunPlaces
  <2>3. CASE GraceOwnExpires(a)
    BY <1>1, <2>3, KillTreeEnds DEF GraceOwnExpires, cancelVars, ExecutorInv, TypeOK, RunPlaces
  <2>4. QED
    BY <2>1, <2>2, <2>3
\* The call waits on, or its process has exited.
<1>3. /\ UNCHANGED <<_active, targets, target, cpc, _cancelled>>
      /\ leader' \in {leader, [leader EXCEPT ![a] = "exited"]}
      /\ \E place \in {"term", "grace", "reap", "discard"} :
            /\ pc' = [pc EXCEPT ![a] = place]
            /\ place = "discard" => leader[a] = "exited"
  <2>1. CASE WaitReturns(a) \/ WaitExpires(a)
    BY <2>1 DEF WaitReturns, WaitExpires, processVars, cancelVars
  <2>2. CASE TermOwn(a)
    BY <1>1, <2>2, FirstSignalEnds DEF TermOwn, processVars, cancelVars, ExecutorInv
  <2>3. CASE GraceOwnExpires(a)
    BY <1>1, <2>3, KillTreeEnds DEF GraceOwnExpires, cancelVars, ExecutorInv
  <2>4. QED
    BY <2>1, <2>2, <2>3
<1>4. AliveIsTracked'
  BY <1>3 DEF ExecutorInv, TypeOK, AliveIsTracked
<1>5. Started'
  BY <1>1, <1>3 DEF ExecutorInv, TypeOK, Started
<1>6. FlagSetFirst' /\ Pursued'
  BY <1>3 DEF ExecutorInv, TypeOK, FlagSetFirst, Pursued, Alive
<1>7. QED
  BY <1>2, <1>4, <1>5, <1>6 DEF ExecutorInv

LEMMA ReturnSteps ==
    ASSUME ExecutorInv, NEW a \in Agents, Discard(a) \/ Decide(a)
    PROVE  ExecutorInv'
<1> USE DEF processVars, cancelVars, Goto, Return
<1>1. TypeOK'
  BY DEF Discard, Decide, ExecutorInv, TypeOK, RunPlaces
<1>2. /\ pc[a] \in {"discard", "decide"}
      /\ \E place \in {"decide", "done"} : pc' = [pc EXCEPT ![a] = place]
      /\ _active' \in {_active, _active \ {a}}
      /\ UNCHANGED <<leader, targets, target, cpc, _cancelled>>
  BY DEF Discard, Decide
<1>3. AliveIsTracked' /\ Started'
  BY <1>2 DEF ExecutorInv, TypeOK, AliveIsTracked, Started
<1>4. FlagSetFirst' /\ Pursued'
  BY <1>2 DEF ExecutorInv, FlagSetFirst, Pursued, Alive
<1>5. QED
  BY <1>1, <1>3, <1>4 DEF ExecutorInv

LEMMA CancelSteps ==
    ASSUME ExecutorInv, CancelSetsFlag \/ CancelStep
    PROVE  ExecutorInv'
<1>1. CASE CancelSetsFlag
  BY <1>1
  DEF CancelSetsFlag, callVars, processVars, CancelPlaces, ExecutorInv, TypeOK, AliveIsTracked,
      Started, FlagSetFirst, Pursued
\* Whatever is alive is in _active, and nothing more is started.
<1>2. CASE CancelSnapshots
  <2>1. Alive \subseteq _active
    BY DEF ExecutorInv, AliveIsTracked, Alive
  <2>2. QED
    BY <1>2, <2>1
    DEF CancelSnapshots, callVars, processVars, CancelPlaces, ExecutorInv, TypeOK, AliveIsTracked,
        Started, FlagSetFirst, Pursued, Alive
<1>3. CASE CancelReturns
  BY <1>3
  DEF CancelReturns, callVars, processVars, CancelPlaces, ExecutorInv, TypeOK, AliveIsTracked,
      Started, FlagSetFirst, Pursued, Alive
<1>4. ASSUME NEW a \in Agents, CancelPicks(a)
      PROVE  ExecutorInv'
  BY <1>4
  DEF CancelPicks, callVars, processVars, CancelPlaces, ExecutorInv, TypeOK, AliveIsTracked,
      Started, FlagSetFirst, Pursued, Alive
<1>5. ASSUME NEW a \in Agents, CancelSignals(a) \/ CancelGraceEnds(a)
      PROVE  ExecutorInv'
  <2>1. target = a /\ cpc \in {"term", "grace"} /\ leader[a] # "none"
    BY <1>5 DEF CancelSignals, CancelGraceEnds, ExecutorInv, Started
  <2>2. /\ leader' \in {leader, [leader EXCEPT ![a] = "exited"]}
        /\ leader' \in [Agents -> {"none", "alive", "exited"}]
        /\ helper' \in [Agents -> {"none", "alive", "gone"}]
        /\ code' \in [Agents -> {"none", "zero", "nonzero"}]
        /\ \A b \in Agents : code'[b] = "none" <=> leader'[b] # "exited"
        /\ termed' \in SUBSET Agents
    <3>1. CASE CancelSignals(a)
      BY <2>1, <3>1, FirstSignalEnds DEF CancelSignals, processVars, ExecutorInv, TypeOK
    <3>2. CASE CancelGraceEnds(a)
      BY <2>1, <3>2, KillTreeEnds DEF CancelGraceEnds, processVars, ExecutorInv, TypeOK
    <3>3. QED
      BY <1>5, <3>1, <3>2
  \* The process in hand is given up only once it has exited.
  <2>3. /\ UNCHANGED <<pc, timed_out, result, _active, _cancelled, targets, platform>>
        /\ \/ cpc' = "next" /\ target' = NoAgent /\ leader'[a] = "exited"
           \/ cpc' = "grace" /\ target' = target
    <3>1. CASE CancelSignals(a)
      BY <3>1 DEF CancelSignals, processVars, callVars
    <3>2. CASE CancelGraceEnds(a)
      BY <2>1, <3>2, KillTreeEnds DEF CancelGraceEnds, processVars, callVars, ExecutorInv, TypeOK
    <3>3. QED
      BY <1>5, <3>1, <3>2
  <2>4. TypeOK'
    BY <2>2, <2>3 DEF ExecutorInv, TypeOK, CancelPlaces
  <2>5. AliveIsTracked' /\ Started'
    BY <2>1, <2>2, <2>3 DEF ExecutorInv, TypeOK, AliveIsTracked, Started
  <2>6. FlagSetFirst' /\ Pursued'
    BY <2>1, <2>2, <2>3 DEF ExecutorInv, TypeOK, FlagSetFirst, Pursued, Alive
  <2>7. QED
    BY <2>4, <2>5, <2>6 DEF ExecutorInv
<1>6. QED
  BY <1>1, <1>2, <1>3, <1>4, <1>5 DEF CancelStep

LEMMA ExecutorStep == ExecutorInv /\ [Next]_vars => ExecutorInv'
<1> SUFFICES ASSUME ExecutorInv, [Next]_vars
             PROVE  ExecutorInv'
  OBVIOUS
<1>1. CASE UNCHANGED vars
  BY <1>1
  DEF vars, callVars, processVars, cancelVars, ExecutorInv, TypeOK, AliveIsTracked, Started,
      FlagSetFirst, Pursued, Alive
<1>2. CASE Terminated
  BY <1>1, <1>2 DEF Terminated
<1>3. QED
  BY <1>1, <1>2, ProcessSteps, SpawnSteps, WaitSteps, ReturnSteps, CancelSteps DEF Next, RunStep

-----------------------------------------------------------------------------
(* The theorems.                                                           *)

LEMMA ExecutorAlways == Spec => []ExecutorInv
  BY ExecutorInit, ExecutorStep, PTL DEF Spec

\* The state of the executor is well typed; a process that has exited has a code.
THEOREM ExecutorTypeCorrect == Spec => []TypeOK
<1>1. ExecutorInv => TypeOK
  BY DEF ExecutorInv
<1>2. QED
  BY <1>1, ExecutorAlways, PTL

\* run() keeps its process in _active until it has exited and returns no sooner.
THEOREM AliveAlwaysTracked == Spec => []AliveIsTracked
<1>1. ExecutorInv => AliveIsTracked
  BY DEF ExecutorInv
<1>2. QED
  BY <1>1, ExecutorAlways, PTL

\* No codex process escapes cancel_all(), whatever run() was doing when it began.
THEOREM NoneEverEscapesCancel == Spec => []NoneEscapesCancel
<1>1. ExecutorInv => NoneEscapesCancel
  BY DEF ExecutorInv, Pursued, NoneEscapesCancel, Alive
<1>2. QED
  BY <1>1, ExecutorAlways, PTL

\* When cancel_all() has returned no codex process is alive, and none is started
\* afterwards.
THEOREM CancelledIsQuiet == Spec => [](cpc = "done" => \A a \in Agents : leader[a] # "alive")
<1>1. ExecutorInv => (cpc = "done" => \A a \in Agents : leader[a] # "alive")
  BY DEF ExecutorInv, Pursued, Alive
<1>2. QED
  BY <1>1, ExecutorAlways, PTL
-----------------------------------------------------------------------------
(* The executor implements CancelScope.                                    *)

\* What the place and the process of a call say of its stage.
LEMMA StageIs ==
    ASSUME ExecutorInv, NEW a \in Agents
    PROVE  /\ callStage[a] = "idle" <=> pc[a] = "idle"
           /\ callStage[a] = "called" <=> pc[a] \in {"start", "spawn"}
           /\ callStage[a] = "running" <=> leader[a] = "alive"
           /\ callStage[a] = "answered" <=> pc[a] = "done"
           /\ callStage[a] = "stopped" <=> /\ pc[a] \notin {"idle", "start", "spawn", "done"}
                                           /\ leader[a] # "alive"
<1>1. pc[a] \in {"idle", "start", "spawn", "done"} => leader[a] # "alive"
  BY DEF ExecutorInv, AliveIsTracked
<1>2. QED
  BY <1>1 DEF callStage

\* A function that differs from another in one place is that one, changed there.
LEMMA OneChanged ==
    ASSUME NEW S, NEW f, NEW g, NEW a \in S,
           f = [b \in S |-> f[b]], g = [b \in S |-> g[b]],
           \A b \in S \ {a} : g[b] = f[b]
    PROVE  g = [f EXCEPT ![a] = g[a]]
  OBVIOUS

\* A step of one call, or of its process, leaves the others where they were.
LEMMA OthersStay ==
    ASSUME NEW a \in Agents, NEW s, callStage'[a] = s,
           \A b \in Agents \ {a} : pc'[b] = pc[b] /\ leader'[b] = leader[b]
    PROVE  callStage' = [callStage EXCEPT ![a] = s]
<1>1. \A b \in Agents \ {a} : callStage'[b] = callStage[b]
  BY DEF callStage
<1>2. /\ callStage = [b \in Agents |-> callStage[b]]
      /\ callStage' = [b \in Agents |-> callStage'[b]]
  BY DEF callStage
<1>3. callStage' = [callStage EXCEPT ![a] = callStage'[a]]
  BY <1>1, <1>2, OneChanged, Zenon
<1>4. QED
  BY <1>3

\* A process that ends moves its call on, and nothing else.
LEMMA RefineStop ==
    ASSUME ExecutorInv, ExecutorInv', NEW a \in Agents, leader[a] = "alive",
           leader' = [leader EXCEPT ![a] = "exited"],
           \A b \in Agents \ {a} : pc'[b] = pc[b],
           pc'[a] \notin {"idle", "start", "spawn", "done"},
           UNCHANGED <<result, cancelScope>>
    PROVE  Scope!Stop(a)
<1>1. leader'[a] = "exited" /\ \A b \in Agents \ {a} : leader'[b] = leader[b]
  BY DEF ExecutorInv, TypeOK
<1>2. callStage'[a] = "stopped"
  BY <1>1, StageIs DEF callStage
<1>3. QED
  BY <1>1, <1>2, OthersStay, StageIs DEF Scope!Stop, Scope!Move

\* A step of a call that starts and ends no process is invisible between the answer and
\* the start of the process, and between the end of the process and the answer.
LEMMA RefineNothing ==
    ASSUME ExecutorInv, NEW a \in Agents, NEW place, pc' = [pc EXCEPT ![a] = place],
           \/ {pc[a], place} \subseteq {"start", "spawn"}
           \/ {pc[a], place} \cap {"idle", "start", "spawn", "done"} = {},
           UNCHANGED <<leader, result, cancelScope>>
    PROVE  UNCHANGED Scope!scopeVars
<1>1. pc'[a] = place /\ \A b \in Agents \ {a} : pc'[b] = pc[b]
  BY DEF ExecutorInv, TypeOK
<1>2. callStage'[a] = callStage[a]
  BY <1>1 DEF callStage
<1>3. callStage' = callStage
  BY <1>2, OthersStay DEF callStage
<1>4. QED
  BY <1>3 DEF Scope!scopeVars

LEMMA RefineAnswer ==
    ASSUME ExecutorInv, NEW a \in Agents, NEW how \in {"ok", "failed", "cancelled", "timeout"},
           leader[a] # "alive", Return(a, how), UNCHANGED <<leader, cancelScope>>,
           \/ /\ pc[a] \in {"start", "spawn"}
              /\ how = "failed" \/ (how = "cancelled" /\ _cancelled)
           \/ /\ pc[a] = "decide"
              /\ how = "cancelled" => _cancelled
    PROVE  Scope!Refuse(a, how) \/ Scope!Tell(a, how)
<1>1. pc'[a] = "done" /\ \A b \in Agents \ {a} : pc'[b] = pc[b]
  BY DEF Return, Goto, ExecutorInv, TypeOK
<1>2. callStage' = [callStage EXCEPT ![a] = "answered"]
  <2>1. callStage'[a] = "answered"
    BY <1>1 DEF callStage
  <2>2. QED
    BY <1>1, <2>1, OthersStay
<1>3. cancelScope = "open" <=> ~_cancelled
  BY DEF cancelScope, ExecutorInv, FlagSetFirst
<1>4. result' = [result EXCEPT ![a] = how]
  BY DEF Return
<1>5. CASE pc[a] \in {"start", "spawn"}
  <2>1. callStage[a] = "called"
    BY <1>5, StageIs
  <2>2. how = "failed" \/ (how = "cancelled" /\ _cancelled)
    BY <1>5
  <2>3. QED
    BY <1>2, <1>3, <1>4, <2>1, <2>2 DEF Scope!Refuse, Scope!Move
<1>6. CASE pc[a] = "decide"
  <2>1. callStage[a] = "stopped"
    BY <1>6, StageIs
  <2>2. QED
    BY <1>2, <1>3, <1>4, <1>6, <2>1 DEF Scope!Tell, Scope!Move
<1>7. QED
  BY <1>5, <1>6

\* What cancel_all() does to a process it is terminating.
LEMMA RefineSignal ==
    ASSUME ExecutorInv, ExecutorInv', NEW a \in Agents,
           leader' \in {leader, [leader EXCEPT ![a] = "exited"]},
           UNCHANGED <<pc, result, cancelScope>>, leader[a] # "none"
    PROVE  Scope!Stop(a) \/ UNCHANGED Scope!scopeVars
<1>1. CASE leader[a] = "alive" /\ leader' = [leader EXCEPT ![a] = "exited"]
  <2>1. pc'[a] \notin {"idle", "start", "spawn", "done"}
    BY <1>1 DEF ExecutorInv, AliveIsTracked
  <2>2. QED
    BY <1>1, <2>1, RefineStop
<1>2. CASE ~(leader[a] = "alive" /\ leader' = [leader EXCEPT ![a] = "exited"])
  <2>1. leader' = leader
    BY <1>2 DEF ExecutorInv, TypeOK
  <2>2. QED
    BY <2>1 DEF Scope!scopeVars, callStage
<1>3. QED
  BY <1>1, <1>2

LEMMA RefineSpawn ==
    ASSUME ExecutorInv, NEW a \in Agents,
           Submit(a) \/ EnterRun(a) \/ OpenFails(a) \/ SpawnRefused(a) \/ SpawnFails(a) \/ Spawn(a)
    PROVE  [Scope!CancelScopeNext]_(Scope!scopeVars)
<1> USE DEF processVars, cancelVars, cancelScope
<1>1. CASE Submit(a)
  <2>1. callStage[a] = "idle" /\ pc'[a] = "start" /\ \A b \in Agents \ {a} : pc'[b] = pc[b]
    BY <1>1, StageIs DEF Submit, Goto, ExecutorInv, TypeOK
  <2>2. callStage' = [callStage EXCEPT ![a] = "called"]
    <3>1. leader' = leader /\ leader[a] # "alive"
      BY <1>1 DEF Submit, ExecutorInv, AliveIsTracked
    <3>2. callStage'[a] = "called"
      BY <2>1, <3>1 DEF callStage
    <3>3. QED
      BY <2>1, <3>1, <3>2, OthersStay
  <2>3. Scope!Enter(a)
    BY <1>1, <2>1, <2>2 DEF Submit, Scope!Enter, Scope!Move
  <2>4. QED
    BY <2>3 DEF Scope!CancelScopeNext
<1>2. CASE EnterRun(a) /\ ~_cancelled
  BY <1>2, RefineNothing DEF EnterRun, Goto
<1>3. CASE Spawn(a)
  <2>1. /\ callStage[a] = "called"
        /\ cpc = "idle"
        /\ pc'[a] = "wait" /\ leader'[a] = "alive"
        /\ \A b \in Agents \ {a} : pc'[b] = pc[b] /\ leader'[b] = leader[b]
    BY <1>3, StageIs DEF Spawn, Goto, ExecutorInv, TypeOK, FlagSetFirst
  <2>2. callStage' = [callStage EXCEPT ![a] = "running"]
    <3>1. callStage'[a] = "running"
      BY <2>1 DEF callStage
    <3>2. QED
      BY <2>1, <3>1, OthersStay
  <2>3. Scope!Start(a)
    BY <1>3, <2>1, <2>2 DEF Spawn, Scope!Start, Scope!Move
  <2>4. QED
    BY <2>3 DEF Scope!CancelScopeNext
<1>4. CASE (EnterRun(a) /\ _cancelled) \/ OpenFails(a) \/ SpawnRefused(a) \/ SpawnFails(a)
  <2>1. PICK how \in {"failed", "cancelled"} :
            Return(a, how) /\ (how = "cancelled" => _cancelled)
    BY <1>4 DEF EnterRun, OpenFails, SpawnRefused, SpawnFails
  <2>2. pc[a] \in {"start", "spawn"} /\ UNCHANGED <<leader, cancelScope>>
    BY <1>4 DEF EnterRun, OpenFails, SpawnRefused, SpawnFails
  <2>3. leader[a] # "alive"
    BY <2>2 DEF ExecutorInv, Started
  <2>4. Scope!Refuse(a, how) \/ Scope!Tell(a, how)
    BY <2>1, <2>2, <2>3, RefineAnswer
  <2>5. QED
    BY <2>4 DEF Scope!CancelScopeNext
<1>5. QED
  BY <1>1, <1>2, <1>3, <1>4

LEMMA RefineRun ==
    ASSUME ExecutorInv, ExecutorInv', NEW a \in Agents,
           \/ WaitReturns(a) \/ WaitExpires(a) \/ TermOwn(a) \/ GraceOwnExpires(a)
           \/ Discard(a) \/ Decide(a)
    PROVE  [Scope!CancelScopeNext]_(Scope!scopeVars)
<1> USE DEF processVars, cancelVars, cancelScope, Goto
<1>1. CASE WaitReturns(a) \/ WaitExpires(a) \/ Discard(a)
  <2>1. PICK place \in {"term", "discard", "decide"} : pc' = [pc EXCEPT ![a] = place]
    BY <1>1 DEF WaitReturns, WaitExpires, Discard
  <2>2. /\ pc[a] \in {"wait", "grace", "reap", "discard"}
        /\ UNCHANGED <<leader, result, cancelScope>>
    BY <1>1 DEF WaitReturns, WaitExpires, Discard
  <2>3. QED
    BY <2>1, <2>2, RefineNothing
<1>2. CASE TermOwn(a) \/ GraceOwnExpires(a)
  <2>1. leader[a] # "none" /\ pc[a] \in {"term", "grace"}
    BY <1>2 DEF TermOwn, GraceOwnExpires, ExecutorInv, Started
  <2>2. leader' \in {leader, [leader EXCEPT ![a] = "exited"]}
    <3>1. CASE TermOwn(a)
      BY <2>1, <3>1, FirstSignalEnds DEF TermOwn, ExecutorInv
    <3>2. CASE GraceOwnExpires(a)
      BY <2>1, <3>2, KillTreeEnds DEF GraceOwnExpires, ExecutorInv
    <3>3. QED
      BY <1>2, <3>1, <3>2
  <2>3. PICK place \in {"grace", "reap"} : pc' = [pc EXCEPT ![a] = place]
    BY <1>2 DEF TermOwn, GraceOwnExpires
  <2>4. UNCHANGED <<result, cancelScope>>
    BY <1>2 DEF TermOwn, GraceOwnExpires
  <2>5. CASE leader' = leader
    BY <2>1, <2>3, <2>4, <2>5, RefineNothing
  <2>6. CASE leader' # leader
    <3>1. leader[a] = "alive"
      BY <2>1, <2>2, <2>6 DEF ExecutorInv, TypeOK
    <3>2. pc'[a] = place /\ \A b \in Agents \ {a} : pc'[b] = pc[b]
      BY <2>3 DEF ExecutorInv, TypeOK
    <3>3. Scope!Stop(a)
      BY <2>2, <2>3, <2>4, <2>6, <3>1, <3>2, RefineStop
    <3>4. QED
      BY <3>3 DEF Scope!CancelScopeNext
  <2>7. QED
    BY <2>5, <2>6
<1>3. CASE Decide(a)
  <2>1. PICK how \in {"ok", "failed", "cancelled", "timeout"} :
            Return(a, how) /\ (how = "cancelled" => _cancelled)
    BY <1>3 DEF Decide
  <2>2. pc[a] = "decide" /\ leader[a] # "alive" /\ UNCHANGED <<leader, cancelScope>>
    BY <1>3 DEF Decide, ExecutorInv, AliveIsTracked
  <2>3. Scope!Refuse(a, how) \/ Scope!Tell(a, how)
    BY <2>1, <2>2, RefineAnswer
  <2>4. QED
    BY <2>3 DEF Scope!CancelScopeNext
<1>4. QED
  BY <1>1, <1>2, <1>3

LEMMA RefineProcess ==
    ASSUME ExecutorInv, ExecutorInv', NEW a \in Agents, ProcessStep(a)
    PROVE  [Scope!CancelScopeNext]_(Scope!scopeVars)
<1>1. UNCHANGED <<pc, result, cancelScope>>
  BY DEF ProcessStep, LeaderExits, HelperStarts, HelperExits, callVars, cancelVars, cancelScope
<1>2. CASE LeaderExits(a)
  <2>1. Scope!Stop(a) \/ UNCHANGED Scope!scopeVars
    BY <1>1, <1>2, RefineSignal DEF LeaderExits
  <2>2. QED
    BY <2>1 DEF Scope!CancelScopeNext
<1>3. CASE HelperStarts(a) \/ HelperExits(a)
  BY <1>1, <1>3 DEF HelperStarts, HelperExits, Scope!scopeVars, callStage
<1>4. QED
  BY <1>2, <1>3 DEF ProcessStep

LEMMA RefineCancel ==
    ASSUME ExecutorInv, ExecutorInv', CancelSetsFlag \/ CancelStep
    PROVE  [Scope!CancelScopeNext]_(Scope!scopeVars)
<1>1. CASE CancelSetsFlag
  <2>1. UNCHANGED <<callStage, result>>
    BY <1>1 DEF CancelSetsFlag, callVars, processVars, callStage
  <2>2. CASE _cancelled
    BY <1>1, <2>1, <2>2 DEF CancelSetsFlag, Scope!scopeVars, cancelScope
  <2>3. CASE ~_cancelled
    <3>1. Scope!RequestCancel
      BY <1>1, <2>1, <2>3 DEF CancelSetsFlag, cancelScope, Scope!RequestCancel
    <3>2. QED
      BY <3>1 DEF Scope!CancelScopeNext
  <2>4. QED
    BY <2>2, <2>3
<1>2. CASE CancelReturns
  <2>1. UNCHANGED <<callStage, result>>
    BY <1>2 DEF CancelReturns, callVars, processVars, callStage
  <2>2. cancelScope = "requested" /\ cancelScope' = "quiet"
    BY <1>2 DEF CancelReturns, cancelScope, ExecutorInv, FlagSetFirst
  <2>3. \A a \in Agents : callStage[a] # "running"
    BY <1>2, StageIs DEF CancelReturns, ExecutorInv, Pursued, Alive
  <2>4. Scope!BecomeQuiet
    BY <2>1, <2>2, <2>3 DEF Scope!BecomeQuiet
  <2>5. QED
    BY <2>4 DEF Scope!CancelScopeNext
<1>3. ASSUME CancelSnapshots \/ \E a \in Agents : CancelPicks(a)
      PROVE  UNCHANGED Scope!scopeVars
  BY <1>3
  DEF CancelSnapshots, CancelPicks, callVars, processVars, Scope!scopeVars, callStage, cancelScope
<1>4. ASSUME NEW a \in Agents, CancelSignals(a) \/ CancelGraceEnds(a)
      PROVE  [Scope!CancelScopeNext]_(Scope!scopeVars)
  <2>1. leader[a] # "none" /\ UNCHANGED <<pc, result, cancelScope>>
    BY <1>4
    DEF CancelSignals, CancelGraceEnds, callVars, cancelScope, ExecutorInv, Started
  <2>2. leader' \in {leader, [leader EXCEPT ![a] = "exited"]}
    <3>1. CASE CancelSignals(a)
      BY <2>1, <3>1, FirstSignalEnds DEF CancelSignals, processVars, ExecutorInv
    <3>2. CASE CancelGraceEnds(a)
      BY <2>1, <3>2, KillTreeEnds DEF CancelGraceEnds, processVars, ExecutorInv
    <3>3. QED
      BY <1>4, <3>1, <3>2
  <2>3. Scope!Stop(a) \/ UNCHANGED Scope!scopeVars
    BY <2>1, <2>2, RefineSignal
  <2>4. QED
    BY <2>3 DEF Scope!CancelScopeNext
<1>5. QED
  BY <1>1, <1>2, <1>3, <1>4 DEF CancelStep

LEMMA RefineInit == Init => Scope!CancelScopeInit
  BY DEF Init, Scope!CancelScopeInit, callStage, cancelScope

LEMMA RefineStep ==
    ExecutorInv /\ ExecutorInv' /\ [Next]_vars => [Scope!CancelScopeNext]_(Scope!scopeVars)
<1> SUFFICES ASSUME ExecutorInv, ExecutorInv', [Next]_vars
             PROVE  [Scope!CancelScopeNext]_(Scope!scopeVars)
  OBVIOUS
<1>1. CASE UNCHANGED vars \/ Terminated
  BY <1>1
  DEF Terminated, vars, callVars, processVars, cancelVars, Scope!scopeVars, callStage, cancelScope
<1>2. QED
  BY <1>1, RefineProcess, RefineSpawn, RefineRun, RefineCancel DEF Next, RunStep

\* CodexExecutor keeps the promise of CancelScope for any number of calls, on both
\* platforms and whatever the processes do: see ImplementsCancelScope.
THEOREM ExecutorImplementsCancelScope == Spec => ImplementsCancelScope
<1>1. Spec => []ExecutorInv
  BY ExecutorAlways
<1>2. QED
  BY <1>1, RefineInit, RefineStep, PTL DEF Spec, ImplementsCancelScope, Scope!CancelScopeSpec
=============================================================================
