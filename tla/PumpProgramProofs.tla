-------------------------- MODULE PumpProgramProofs ---------------------------
(***************************************************************************)
(* Proofs about the programs the pump runs: no promise job is lost or      *)
(* queued twice, child programs are counted, success leaves nothing open,  *)
(* and a stall is reported only when no program can ever move again.       *)
(*                                                                         *)
(* The order: what each operation of the runtime does to the promise jobs, *)
(* the child programs, the root program, the turns of the loop, and the    *)
(* verdicts, which rest on all of them.                                    *)
(***************************************************************************)
EXTENDS PumpProofs

-----------------------------------------------------------------------------
(* Promise jobs.                                                           *)

\* The statuses of an activity whose next step is a queued promise job.
Queued == {"ready", "returned", "threw", "threwEmpty", "caught"}
Awaiting == {"waiting", "racing"}

\* The jobs in the context's queue are those of the activities that have one.
JobsMatch(queue, status) ==
    /\ IsInjective(queue)
    /\ Range(queue) = {a \in Activities : status[a] \in Queued}

\* Nobody waits for a settled promise, nor for nothing.
WaitsOpen ==
    \A a \in Activities :
        /\ waits[a] \subseteq resolvers
        /\ act[a] \in Awaiting => waits[a] # {}

\* A promise resumes one activity at most: agent() hands its promise to one.
WaitsApart == \A a, b \in Activities : a # b => waits[a] \cap waits[b] = {}

\* The activity whose job executes is the only one said to run.
RunningIsOne ==
    \A a \in Activities : act[a] = "running" <=> a = running

WakeInv == JobsMatch(jobs, act) /\ WaitsOpen /\ WaitsApart /\ RunningIsOne

LEMMA WakeMeans == WakeInv => WakeupsConserved
  BY DEF WakeInv, JobsMatch, WaitsOpen, WakeupsConserved, Queued, Awaiting

\* A settlement wakes the one activity it completes the wait of; status and
\* queue are what its caller has made of act and jobs.
LEMMA SettleWakes ==
    ASSUME RuntimeTypeOK, WakeInv, NEW id \in Promises,
           NEW status \in [Activities -> Statuses], NEW queue \in Seq(Activities),
           JobsMatch(queue, status), Settle(id, status, queue), UNCHANGED running,
           \A a \in Activities : act[a] \in Awaiting \/ status[a] \in Awaiting \cup {"running"}
                                     => status[a] = act[a],
           \A a \in Activities : act[a] = "running" => status[a] = "running"
    PROVE  /\ WakeInv'
           /\ \A a \in Activities : \/ act'[a] = status[a]
                                    \/ act[a] \in Awaiting /\ act'[a] = "ready"
<1> USE DEF Awaiting
<1> DEFINE woken == CHOOSE a \in Woken(id) : TRUE
<1>1. ASSUME NEW a \in Woken(id)
      PROVE  a \in Activities /\ act[a] \in Awaiting /\ id \in waits[a]
  BY <1>1 DEF Woken
<1>2. ASSUME NEW a \in Woken(id), NEW b \in Woken(id)
      PROVE  a = b
  BY <1>1, <1>2 DEF WakeInv, WaitsApart
<1>3. Woken(id) # {} => Woken(id) = {woken} /\ woken \in Activities
  BY <1>1, <1>2
<1>4. \A a \in Activities :
          act'[a] = IF a \in Woken(id) THEN "ready" ELSE status[a]
  BY DEF Settle
<1>5. \A a \in Activities :
          waits'[a] = IF a \in Woken(id) THEN {} ELSE waits[a] \ {id}
  BY DEF Settle
<1>6. resolvers' = resolvers \ {id}
  BY DEF Settle
<1>7. JobsMatch(jobs, act)'
  <2>1. CASE Woken(id) = {}
    <3>1. jobs' = queue
      BY <2>1 DEF Settle
    <3>2. QED
      BY <1>4, <2>1, <3>1 DEF JobsMatch
  <2>2. CASE Woken(id) # {}
    <3>1. jobs' = Append(queue, woken)
      BY <2>2 DEF Settle
    <3>2. woken \in Activities /\ status[woken] \in Awaiting
      BY <1>1, <1>3, <2>2
    <3> HIDE DEF woken
    <3>3. woken \notin Range(queue)
      BY <3>2 DEF JobsMatch, Queued
    <3>4. IsInjective(jobs') /\ Range(jobs') = Range(queue) \cup {woken}
      <4>1. IsInjective(queue)
        BY DEF JobsMatch
      <4>2. QED
        BY <3>1, <3>2, <3>3, <4>1, AppendQueue
    <3>5. {a \in Activities : act'[a] \in Queued}
            = {a \in Activities : status[a] \in Queued} \cup {woken}
      BY <1>3, <1>4, <2>2, <3>2 DEF Queued
    <3>6. QED
      BY <3>4, <3>5 DEF JobsMatch
  <2>3. QED
    BY <2>1, <2>2
<1>8. WaitsOpen'
  <2>1. ASSUME NEW a \in Activities
        PROVE  /\ waits'[a] \subseteq resolvers'
               /\ act'[a] \in Awaiting => waits'[a] # {}
    <3>1. waits[a] \subseteq resolvers /\ (act[a] \in Awaiting => waits[a] # {})
      BY DEF WakeInv, WaitsOpen
    <3>2. CASE a \in Woken(id)
      BY <1>4, <1>5, <3>2
    <3>3. CASE a \notin Woken(id)
      <4>1. act'[a] = status[a] /\ waits'[a] = waits[a] \ {id}
        BY <1>4, <1>5, <3>3
      <4>2. act[a] \in Awaiting => waits[a] # {id}
        <5>1. act[a] = "waiting" => waits[a] # {id}
          BY <3>3 DEF Woken
        <5>2. act[a] = "racing" => id \notin waits[a]
          BY <3>3 DEF Woken
        <5>3. QED
          BY <5>1, <5>2
      <4>3. waits[a] # {} /\ waits[a] # {id} => waits[a] \ {id} # {}
        OBVIOUS
      <4>4. status[a] \in Awaiting => act[a] \in Awaiting
        OBVIOUS
      <4>5. QED
        BY <1>6, <3>1, <4>1, <4>2, <4>3, <4>4
    <3>4. QED
      BY <3>2, <3>3
  <2>2. QED
    BY <2>1 DEF WaitsOpen
<1>9. WaitsApart'
  <2>1. \A a \in Activities : waits'[a] \subseteq waits[a]
    BY <1>5
  <2>2. QED
    BY <2>1 DEF WakeInv, WaitsApart
<1>10. RunningIsOne'
  <2>1. ASSUME NEW a \in Activities
        PROVE  act'[a] = "running" <=> act[a] = "running"
    BY <1>1, <1>4
  <2>2. QED
    BY <2>1 DEF WakeInv, RunningIsOne
<1>11. QED
  BY <1>1, <1>4, <1>7, <1>8, <1>9, <1>10 DEF WakeInv

LEMMA DeliverWakes ==
    ASSUME RuntimeTypeOK, WakeInv, NEW id \in Promises, Deliver(id)
    PROVE  /\ WakeInv'
           /\ \A a \in Activities : \/ act'[a] = act[a]
                                    \/ act[a] \in Awaiting /\ act'[a] = "ready"
<1>1. CASE id \in resolvers
  <2>1. Settle(id, act, jobs) /\ UNCHANGED running
    BY <1>1 DEF Deliver
  <2>2. act \in [Activities -> Statuses] /\ jobs \in Seq(Activities) /\ JobsMatch(jobs, act)
    BY DEF RuntimeTypeOK, WakeInv
  <2>3. \A a \in Activities : act[a] = "running" => act[a] = "running"
    OBVIOUS
  <2>4. \A a \in Activities : act[a] \in Awaiting \/ act[a] \in Awaiting \cup {"running"}
                                => act[a] = act[a]
    OBVIOUS
  <2>5. QED
    BY <2>1, <2>2, <2>3, <2>4, SettleWakes
<1>2. CASE id \notin resolvers
  <2>1. UNCHANGED runtimeVars
    BY <1>2 DEF Deliver
  <2>2. QED
    BY <2>1 DEF runtimeVars, WakeInv, JobsMatch, WaitsOpen, WaitsApart, RunningIsOne
<1>3. QED
  BY <1>1, <1>2

\* The oldest job leaves the queue, its activity in a status without a job.
LEMMA HeadLeaves ==
    ASSUME RuntimeTypeOK, WakeInv, jobs # <<>>, NEW to \in Statuses \ Queued
    PROVE  /\ Head(jobs) \in Activities
           /\ act[Head(jobs)] \in Queued
           /\ Tail(jobs) \in Seq(Activities)
           /\ Head(jobs) \notin Range(Tail(jobs))
           /\ JobsMatch(Tail(jobs), [act EXCEPT ![Head(jobs)] = to])
<1>1. /\ Head(jobs) \in Activities /\ Head(jobs) \in Range(jobs)
      /\ Tail(jobs) \in Seq(Activities)
      /\ IsInjective(Tail(jobs))
      /\ Range(Tail(jobs)) = Range(jobs) \ {Head(jobs)}
  BY TailQueue DEF RuntimeTypeOK, WakeInv, JobsMatch
<1>2. act[Head(jobs)] \in Queued
  BY <1>1 DEF WakeInv, JobsMatch
<1>3. \A a \in Activities :
          [act EXCEPT ![Head(jobs)] = to][a] = IF a = Head(jobs) THEN to ELSE act[a]
  BY DEF RuntimeTypeOK
<1>4. {a \in Activities : [act EXCEPT ![Head(jobs)] = to][a] \in Queued}
        = {a \in Activities : act[a] \in Queued} \ {Head(jobs)}
  BY <1>3
<1>5. QED
  BY <1>1, <1>2, <1>4 DEF WakeInv, JobsMatch

LEMMA BeginJobWakes ==
    ASSUME RuntimeTypeOK, WakeInv, BeginJob
    PROVE  WakeInv'
<1> DEFINE a0 == Head(jobs)
<1>1. /\ running = None /\ jobs # <<>>
      /\ jobs' = Tail(jobs) /\ act' = [act EXCEPT ![a0] = "running"]
      /\ running' = a0 /\ UNCHANGED <<waits, resolvers>>
  BY DEF BeginJob
<1> "running" \in Statuses \ Queued
  BY DEF Statuses, Queued
<1> a0 \in Activities /\ JobsMatch(Tail(jobs), [act EXCEPT ![a0] = "running"])
  BY <1>1, HeadLeaves
<1>2. \A a \in Activities : act'[a] = IF a = a0 THEN "running" ELSE act[a]
  BY <1>1 DEF RuntimeTypeOK
<1>3. RunningIsOne'
  <2>1. \A a \in Activities : act[a] # "running"
    BY <1>1, Identifiers DEF WakeInv, RunningIsOne
  <2>2. QED
    BY <1>1, <1>2, <2>1 DEF RunningIsOne
<1>4. WaitsOpen'
  BY <1>1, <1>2 DEF WakeInv, WaitsOpen, Awaiting
<1>5. WaitsApart'
  BY <1>1 DEF WakeInv, WaitsApart
<1>6. QED
  BY <1>1, <1>3, <1>4, <1>5 DEF WakeInv, JobsMatch

\* The running activity stops, without a job or with one behind the others;
\* what it waits for is what it held, or nothing.
LEMMA StopWakes ==
    ASSUME RuntimeTypeOK, WakeInv, running # None, running' = None, NEW to,
           to \in Statuses \ {"running"}, act' = [act EXCEPT ![running] = to],
           jobs' = IF to \in Queued THEN Append(jobs, running) ELSE jobs,
           UNCHANGED resolvers,
           \/ UNCHANGED waits
           \/ waits' = [waits EXCEPT ![running] = {}] /\ to \notin Awaiting,
           to \in Awaiting => waits[running] # {}
    PROVE  WakeInv'
<1>1. running \in Activities /\ act[running] = "running"
  BY DEF RuntimeTypeOK, WakeInv, RunningIsOne
<1>2. \A a \in Activities : act'[a] = IF a = running THEN to ELSE act[a]
  BY DEF RuntimeTypeOK
<1>3. JobsMatch(jobs, act)'
  <2>1. running \notin Range(jobs)
    BY <1>1 DEF WakeInv, JobsMatch, Queued
  <2>2. CASE to \in Queued
    <3>1. IsInjective(jobs') /\ Range(jobs') = Range(jobs) \cup {running}
      BY <1>1, <2>1, <2>2, AppendQueue DEF RuntimeTypeOK, WakeInv, JobsMatch
    <3>2. {a \in Activities : act'[a] \in Queued}
            = {a \in Activities : act[a] \in Queued} \cup {running}
      BY <1>1, <1>2, <2>2
    <3>3. QED
      BY <3>1, <3>2 DEF WakeInv, JobsMatch
  <2>3. CASE to \notin Queued
    <3>1. {a \in Activities : act'[a] \in Queued} = {a \in Activities : act[a] \in Queued}
      BY <1>1, <1>2, <2>3 DEF Queued
    <3>2. QED
      BY <2>3, <3>1 DEF WakeInv, JobsMatch
  <2>4. QED
    BY <2>2, <2>3
<1>4. \A a \in Activities : \/ waits'[a] = waits[a]
                            \/ waits'[a] = {} /\ a = running /\ to \notin Awaiting
  BY DEF RuntimeTypeOK
<1>5. WaitsOpen'
  BY <1>2, <1>4 DEF WakeInv, WaitsOpen
<1>6. WaitsApart'
  BY <1>4 DEF WakeInv, WaitsApart
<1>7. RunningIsOne'
  BY <1>2, Identifiers DEF WakeInv, RunningIsOne
<1>8. QED
  BY <1>3, <1>5, <1>6, <1>7 DEF WakeInv

LEMMA StopsWake ==
    ASSUME RuntimeTypeOK, WakeInv,
           \/ \E kind \in Awaiting : Await(kind)
           \/ Hang
           \/ \E how \in {"returned", "threw", "threwEmpty"} : Complete(how)
    PROVE  WakeInv'
<1> USE DEF Queued, Awaiting, Statuses
<1>1. ASSUME NEW kind \in Awaiting, Await(kind)
      PROVE  WakeInv'
  <2>1. CASE waits[running] = {}
    BY <1>1, <2>1, StopWakes DEF Await
  <2>2. CASE waits[running] # {}
    BY <1>1, <2>2, StopWakes DEF Await
  <2>3. QED
    BY <2>1, <2>2
<1>2. CASE Hang
  BY <1>2, StopWakes DEF Hang
<1>3. ASSUME NEW how \in {"returned", "threw", "threwEmpty"}, Complete(how)
      PROVE  WakeInv'
  <2>1. CASE running \in Mains
    BY <1>3, <2>1, StopWakes DEF Complete
  <2>2. CASE running \notin Mains
    BY <1>3, <2>2, StopWakes DEF Complete
  <2>3. QED
    BY <2>1, <2>2
<1>4. QED
  BY <1>1, <1>2, <1>3

LEMMA RootWakes ==
    ASSUME RuntimeTypeOK, WakeInv, CatchRoot \/ RootDone
    PROVE  WakeInv'
<1>1. Root \in Activities /\ jobs # <<>> /\ Head(jobs) = Root /\ running = None
  BY DEF CatchRoot, RootDone, Activities, Mains
<1>2. UNCHANGED <<waits, resolvers, running>>
  BY DEF CatchRoot, RootDone
<1>3. PICK to \in {"caught", "ended"} : act' = [act EXCEPT ![Root] = to]
  BY DEF CatchRoot, RootDone
<1>4. \A a \in Activities : act'[a] = IF a = Root THEN to ELSE act[a]
  BY <1>3 DEF RuntimeTypeOK
<1>5. /\ Tail(jobs) \in Seq(Activities)
      /\ Root \notin Range(Tail(jobs))
      /\ act[Root] \in Queued
      /\ JobsMatch(Tail(jobs), [act EXCEPT ![Root] = "ended"])
  BY <1>1, HeadLeaves DEF Statuses, Queued
<1>6. JobsMatch(jobs, act)'
  <2>1. CASE RootDone
    BY <1>5, <2>1 DEF RootDone, JobsMatch
  <2>2. CASE CatchRoot
    <3>1. jobs' = Append(Tail(jobs), Root) /\ act' = [act EXCEPT ![Root] = "caught"]
      BY <2>2 DEF CatchRoot
    <3>2. IsInjective(jobs') /\ Range(jobs') = Range(Tail(jobs)) \cup {Root}
      BY <1>1, <1>5, <3>1, AppendQueue DEF JobsMatch
    <3>3. \A a \in Activities : act'[a] = IF a = Root THEN "caught" ELSE act[a]
      BY <3>1 DEF RuntimeTypeOK
    <3>4. \A a \in Activities :
              [act EXCEPT ![Root] = "ended"][a] = IF a = Root THEN "ended" ELSE act[a]
      BY DEF RuntimeTypeOK
    <3>5. {a \in Activities : act'[a] \in Queued}
            = {a \in Activities : [act EXCEPT ![Root] = "ended"][a] \in Queued} \cup {Root}
      BY <1>1, <3>3, <3>4 DEF Queued
    <3>6. QED
      BY <1>5, <3>2, <3>5 DEF JobsMatch
  <2>3. QED
    BY <2>1, <2>2
<1>7. WaitsOpen'
  BY <1>2, <1>4 DEF WakeInv, WaitsOpen, Awaiting
<1>8. WaitsApart'
  BY <1>2 DEF WakeInv, WaitsApart
<1>9. RunningIsOne'
  BY <1>1, <1>2, <1>4, Identifiers DEF WakeInv, RunningIsOne
<1>10. QED
  BY <1>6, <1>7, <1>8, <1>9 DEF WakeInv

\* finishChild: the child's job goes, and its caller may get one.
LEMMA FinishChildWakes ==
    ASSUME RuntimeTypeOK, WakeInv, FinishChild
    PROVE  /\ WakeInv'
           /\ \A a \in Activities :
                 \/ act'[a] = IF a = Head(jobs) THEN "ended" ELSE act[a]
                 \/ act[a] \in Awaiting /\ act'[a] = "ready"
<1> DEFINE w == Head(jobs)
           status == [act EXCEPT ![w] = "ended"]
<1>1. /\ w \in WorkflowIds /\ jobs # <<>> /\ act[w] = "returned"
      /\ Settle(w, status, Tail(jobs)) /\ UNCHANGED running
  BY DEF FinishChild
<1>2. /\ w \in Activities /\ Tail(jobs) \in Seq(Activities) /\ JobsMatch(Tail(jobs), status)
  BY <1>1, HeadLeaves DEF Statuses, Queued
<1>3. status \in [Activities -> Statuses]
  BY DEF RuntimeTypeOK, Statuses
<1>4. \A a \in Activities : status[a] = IF a = w THEN "ended" ELSE act[a]
  BY DEF RuntimeTypeOK
<1>5. w \in Promises
  BY <1>1 DEF Promises
<1>6. \A a \in Activities : act[a] \in Awaiting \/ status[a] \in Awaiting \cup {"running"}
                                => status[a] = act[a]
  BY <1>1, <1>4 DEF Awaiting
<1>7. \A a \in Activities : act[a] = "running" => status[a] = "running"
  BY <1>1, <1>4
<1> HIDE DEF status
<1>8. /\ WakeInv'
      /\ \A a \in Activities : \/ act'[a] = status[a]
                               \/ act[a] \in Awaiting /\ act'[a] = "ready"
  BY <1>1, <1>2, <1>3, <1>5, <1>6, <1>7, SettleWakes
<1>9. QED
  BY <1>4, <1>8

\* startChild: a child that has no job gets its first one.
LEMMA StartChildWakes ==
    ASSUME RuntimeTypeOK, WakeInv, NEW id \in WorkflowIds, StartChild(id),
           act[id] \in {"absent", "ended"}
    PROVE  WakeInv'
<1>1. id \in Activities
  BY DEF Activities, Mains
<1>2. CASE id \in resolvers
  <2>1. /\ act' = [act EXCEPT ![id] = "ready"] /\ jobs' = Append(jobs, id)
        /\ UNCHANGED <<running, waits, resolvers>>
    BY <1>2 DEF StartChild
  <2>2. \A a \in Activities : act'[a] = IF a = id THEN "ready" ELSE act[a]
    BY <2>1 DEF RuntimeTypeOK
  <2>3. id \notin Range(jobs)
    BY DEF WakeInv, JobsMatch, Queued
  <2>4. IsInjective(jobs') /\ Range(jobs') = Range(jobs) \cup {id}
    BY <1>1, <2>1, <2>3, AppendQueue DEF RuntimeTypeOK, WakeInv, JobsMatch
  <2>5. {a \in Activities : act'[a] \in Queued}
          = {a \in Activities : act[a] \in Queued} \cup {id}
    BY <1>1, <2>2 DEF Queued
  <2>6. JobsMatch(jobs, act)'
    BY <2>4, <2>5 DEF WakeInv, JobsMatch
  <2>7. WaitsOpen'
    BY <2>1, <2>2 DEF WakeInv, WaitsOpen, Awaiting
  <2>8. WaitsApart'
    BY <2>1 DEF WakeInv, WaitsApart
  <2>9. RunningIsOne'
    BY <1>1, <2>1, <2>2 DEF WakeInv, RunningIsOne
  <2>10. QED
    BY <2>6, <2>7, <2>8, <2>9 DEF WakeInv
<1>3. CASE id \notin resolvers
  BY <1>3
  DEF StartChild, runtimeVars, WakeInv, JobsMatch, WaitsOpen, WaitsApart, RunningIsOne
<1>4. QED
  BY <1>2, <1>3

\* agent() and workflow(): nobody can be waiting for a promise made just now.
LEMMA RegisterWakes ==
    ASSUME RuntimeTypeOK, WakeInv, NEW id \in Promises \cap Activities, NEW mode,
           Register(id, mode), id \notin resolvers, mode = "then" => act[id] = "absent"
    PROVE  WakeInv'
<1>1. running \in Activities /\ act[running] = "running"
  BY DEF Register, RuntimeTypeOK, WakeInv, RunningIsOne
<1>2. /\ UNCHANGED <<jobs, running>> /\ resolvers' = resolvers \cup {id}
  BY DEF Register
<1>3. \A a \in Activities : id \notin waits[a]
  BY DEF WakeInv, WaitsOpen
<1>4. PICK holder \in Activities :
          /\ \A a \in Activities : /\ waits[a] \subseteq waits'[a]
                                   /\ waits'[a] \subseteq waits[a] \cup {id}
                                   /\ a # holder => waits'[a] = waits[a]
          /\ mode = "then" => holder = id /\ id \in waits'[id]
  <2>1. CASE mode = "then"
    <3>1. \A a \in Activities : waits'[a] = IF a = id THEN waits[a] \cup {id} ELSE waits[a]
      BY <2>1 DEF Register, RuntimeTypeOK
    <3>2. WITNESS id \in Activities
    <3>3. QED
      BY <3>1
  <2>2. CASE mode = "forget"
    <3>1. waits' = waits
      BY <2>2 DEF Register
    <3>2. QED
      BY <1>1, <2>2, <3>1
  <2>3. CASE mode \notin {"then", "forget"}
    <3> running \in Activities
      BY <1>1
    <3>1. \A a \in Activities :
              waits'[a] = IF a = running THEN waits[a] \cup {id} ELSE waits[a]
      BY <2>3 DEF Register, RuntimeTypeOK
    <3>2. WITNESS running \in Activities
    <3>3. QED
      BY <2>3, <3>1
  <2>4. QED
    BY <2>1, <2>2, <2>3
<1>5. \A a \in Activities :
          act'[a] = IF mode = "then" /\ a = id THEN "waiting" ELSE act[a]
  BY DEF Register, RuntimeTypeOK
<1>6. JobsMatch(jobs, act)'
  <2>1. {a \in Activities : act'[a] \in Queued} = {a \in Activities : act[a] \in Queued}
    BY <1>5 DEF Queued
  <2>2. QED
    BY <1>2, <2>1 DEF WakeInv, JobsMatch
<1>7. WaitsOpen'
  <2>1. ASSUME NEW a \in Activities
        PROVE  /\ waits'[a] \subseteq resolvers'
               /\ act'[a] \in Awaiting => waits'[a] # {}
    <3>1. waits[a] \subseteq resolvers /\ (act[a] \in Awaiting => waits[a] # {})
      BY DEF WakeInv, WaitsOpen
    <3>2. waits'[a] \subseteq resolvers'
      BY <1>2, <1>4, <3>1
    <3>3. CASE mode = "then" /\ a = id
      BY <1>4, <3>2, <3>3
    <3>4. CASE ~ (mode = "then" /\ a = id)
      BY <1>4, <1>5, <3>1, <3>2, <3>4
    <3>5. QED
      BY <3>3, <3>4
  <2>2. QED
    BY <2>1 DEF WaitsOpen
<1>8. WaitsApart'
  <2>1. ASSUME NEW a \in Activities, NEW b \in Activities, a # b
        PROVE  waits'[a] \cap waits'[b] = {}
    BY <1>3, <1>4, <2>1 DEF WakeInv, WaitsApart
  <2>2. QED
    BY <2>1 DEF WaitsApart
<1>9. RunningIsOne'
  BY <1>2, <1>5 DEF WakeInv, RunningIsOne
<1>10. QED
  BY <1>6, <1>7, <1>8, <1>9 DEF WakeInv

-----------------------------------------------------------------------------
(* The programs.                                                           *)

Idle == {"absent", "ended"}

\* No continuation exists for a call that has not been made.
FreshActs == \A n \in 0 .. Calls - 1 : n >= next_agent_job => act[AgentId(n)] = "absent"

ActiveChildren == {w \in WorkflowIds : act[w] \notin Idle}
QueuedChildren == {pending_workflows[i].id : i \in DOMAIN pending_workflows}

QueuedOnce ==
    \A i, j \in DOMAIN pending_workflows :
        pending_workflows[i].id = pending_workflows[j].id => i = j

\* workflow() ids are unused from next_workflow_job on.
WorkflowsNumbered ==
    \A n \in 0 .. Children - 1 : WorkflowId(n) \in resolvers => n < next_workflow_job

ChildInv ==
    /\ activeChildren = Cardinality(ActiveChildren)
    /\ ActiveChildren \cap QueuedChildren = {}
    /\ resolvers \cap WorkflowIds = ActiveChildren \cup QueuedChildren
    /\ QueuedOnce
    /\ WorkflowsNumbered

RootInv == act[Root] # "absent" /\ (done <=> act[Root] = "ended")

\* A child cannot call workflow(), so it waits for agents only.
ChildrenHold == \A w \in WorkflowIds : waits[w] \cap WorkflowIds = {}

ProgramInv == WakeInv /\ FreshActs /\ ChildInv /\ RootInv /\ ChildrenHold

LEMMA CountedWhole == ChildInv => ChildrenCounted
  BY DEF ChildInv, ActiveChildren, QueuedChildren, Idle, ChildrenCounted

LEMMA WorkflowsFinite == IsFiniteSet(WorkflowIds)
<1>1. IsFiniteSet(0 .. Children - 1)
  BY CallBounds, FS_Interval
<1> DEFINE number == [n \in 0 .. Children - 1 |-> WorkflowId(n)]
<1>2. number \in Surjection(0 .. Children - 1, WorkflowIds)
  BY DEF Surjection, WorkflowIds
<1>3. QED
  BY <1>1, <1>2, FS_Surjection

\* No main program begins or ends in the step, no continuation begins.
LifeKept ==
    \A a \in Activities : \/ act'[a] = act[a]
                          \/ act[a] \notin Idle /\ act'[a] \notin Idle
                          \/ act[a] \notin Idle /\ a \notin Mains

WaitsShrink == \A a \in Activities : waits'[a] \subseteq waits[a]

\* Taking a job, stopping at an await, ending a program and settling a promise
\* begin no program and end no main program: that takes its reaction.
LEMMA QuietOperations ==
    ASSUME RuntimeTypeOK, WakeInv,
           \/ BeginJob
           \/ \E kind \in Awaiting : Await(kind)
           \/ Hang
           \/ \E how \in {"returned", "threw", "threwEmpty"} : Complete(how)
           \/ CatchRoot
           \/ \E id \in Promises : Deliver(id)
    PROVE  LifeKept /\ WaitsShrink /\ UNCHANGED <<activeChildren, done>>
<1> USE DEF Idle, LifeKept, WaitsShrink
<1>1. CASE BeginJob
  BY <1>1 DEF BeginJob, RuntimeTypeOK
<1>2. running # None => running \in Activities /\ act[running] = "running"
  BY DEF RuntimeTypeOK, WakeInv, RunningIsOne
<1>3. ASSUME NEW kind \in Awaiting, Await(kind)
      PROVE  LifeKept /\ WaitsShrink /\ UNCHANGED <<activeChildren, done>>
  <2>1. PICK to \in {"ready", kind} : act' = [act EXCEPT ![running] = to]
    BY <1>3 DEF Await
  <2>2. QED
    BY <1>2, <1>3, <2>1 DEF Await, Awaiting, RuntimeTypeOK
<1>4. CASE Hang
  BY <1>2, <1>4 DEF Hang, RuntimeTypeOK
<1>5. ASSUME NEW how \in {"returned", "threw", "threwEmpty"}, Complete(how)
      PROVE  LifeKept /\ WaitsShrink /\ UNCHANGED <<activeChildren, done>>
  <2>1. running # None /\ UNCHANGED <<activeChildren, done>>
    BY <1>5 DEF Complete
  <2>2. WaitsShrink
    BY <1>5 DEF Complete, RuntimeTypeOK
  <2>3. PICK to : /\ act' = [act EXCEPT ![running] = to]
                  /\ running \in Mains => to = how
    BY <1>5 DEF Complete
  <2>4. LifeKept
    BY <1>2, <2>1, <2>3 DEF RuntimeTypeOK
  <2>5. QED
    BY <2>1, <2>2, <2>4
<1>6. CASE CatchRoot
  BY <1>6 DEF CatchRoot, RuntimeTypeOK
<1>7. ASSUME NEW id \in Promises, Deliver(id)
      PROVE  LifeKept /\ WaitsShrink /\ UNCHANGED <<activeChildren, done>>
  <2>1. LifeKept
    BY <1>7, DeliverWakes DEF Awaiting
  <2>2. WaitsShrink /\ UNCHANGED <<activeChildren, done>>
    BY <1>7 DEF Deliver, Settle, runtimeVars
  <2>3. QED
    BY <2>1, <2>2
<1>8. QED
  BY <1>1, <1>3, <1>4, <1>5, <1>6, <1>7

\* A step that leaves the queue of children and their promises alone.
LEMMA ProgramQuiet ==
    ASSUME TypeOK, ProgramInv, WakeInv', LifeKept, WaitsShrink,
           UNCHANGED <<activeChildren, done, pending_workflows, next_workflow_job,
                       next_agent_job>>,
           resolvers' \cap WorkflowIds = resolvers \cap WorkflowIds
    PROVE  ProgramInv'
<1>1. FreshActs'
  BY Identifiers DEF ProgramInv, FreshActs, LifeKept, Idle, Activities
<1>2. ActiveChildren' = ActiveChildren /\ QueuedChildren' = QueuedChildren
  BY DEF ActiveChildren, QueuedChildren, LifeKept, Activities, Mains
<1>3. WorkflowsNumbered'
  BY Identifiers DEF ProgramInv, ChildInv, WorkflowsNumbered
<1>4. ChildInv'
  BY <1>2, <1>3 DEF ProgramInv, ChildInv, QueuedOnce
<1>5. RootInv'
  BY DEF ProgramInv, RootInv, LifeKept, Idle, Activities, Mains
<1>6. ChildrenHold'
  BY DEF ProgramInv, ChildrenHold, WaitsShrink, Activities, Mains
<1>7. QED
  BY <1>1, <1>4, <1>5, <1>6 DEF ProgramInv

\* host_start: an agent() call concerns no child.
LEMMA ProgramNewCall ==
    ASSUME TypeOK, CarryInv, ProgramInv, NEW mode, TakeAgentJob(mode),
           UNCHANGED <<pending_workflows, next_workflow_job>>
    PROVE  ProgramInv'
<1> DEFINE id == AgentId(next_agent_job)
<1>1. /\ id \in AgentIds /\ id \in Promises \cap Activities
      /\ next_agent_job \in 0 .. Calls - 1 /\ RuntimeTypeOK
  BY NextAgentId, CallBounds DEF TakeAgentJob, TypeOK
<1>2. id \notin resolvers
  BY <1>1 DEF CarryInv, IdsNumbered
<1>3. act[id] = "absent"
  BY <1>1 DEF ProgramInv, FreshActs
<1>4. Register(id, mode) /\ next_agent_job' = next_agent_job + 1
  BY DEF TakeAgentJob
<1> HIDE DEF id
<1>5. WakeInv'
  BY <1>1, <1>2, <1>3, <1>4, RegisterWakes DEF ProgramInv
<1>6. /\ \A a \in Activities : a # id => act'[a] = act[a]
      /\ UNCHANGED <<activeChildren, done>>
      /\ resolvers' = resolvers \cup {id}
      /\ \A a \in Activities : waits'[a] \subseteq waits[a] \cup {id}
  BY <1>4 DEF Register, TypeOK, RuntimeTypeOK
<1>7. id \notin WorkflowIds /\ id # Root
  BY <1>1, Identifiers
<1>8. FreshActs'
  <2>1. ASSUME NEW n \in 0 .. Calls - 1, n >= next_agent_job + 1
        PROVE  act'[AgentId(n)] = "absent"
    <3>1. n >= next_agent_job /\ n # next_agent_job
      BY <1>1, <2>1
    <3>2. AgentId(n) # id /\ AgentId(n) \in Activities
      BY <1>1, <3>1, Identifiers DEF id, Activities
    <3>3. QED
      BY <1>6, <3>1, <3>2 DEF ProgramInv, FreshActs
  <2>2. QED
    BY <1>4, <2>1 DEF FreshActs
<1>9. ActiveChildren' = ActiveChildren /\ QueuedChildren' = QueuedChildren
  BY <1>6, <1>7 DEF ActiveChildren, QueuedChildren, Activities, Mains
<1>10. resolvers' \cap WorkflowIds = resolvers \cap WorkflowIds
  BY <1>6, <1>7
<1>11. WorkflowsNumbered'
  BY <1>10, Identifiers DEF ProgramInv, ChildInv, WorkflowsNumbered
<1>12. ChildInv'
  BY <1>6, <1>9, <1>10, <1>11 DEF ProgramInv, ChildInv, QueuedOnce
<1>13. RootInv'
  BY <1>6, <1>7 DEF ProgramInv, RootInv, Activities, Mains
<1>14. ChildrenHold'
  BY <1>6, <1>7 DEF ProgramInv, ChildrenHold, Activities, Mains
<1>15. QED
  BY <1>5, <1>8, <1>12, <1>13, <1>14 DEF ProgramInv

\* host_workflow_start: a fresh child joins the queue.
LEMMA ProgramWorkflow ==
    ASSUME TypeOK, ProgramInv, NEW mode \in {"join", "forget"}, NEW plan \in Plans,
           WorkflowCalled(mode, plan)
    PROVE  ProgramInv'
<1> DEFINE id == WorkflowId(next_workflow_job)
           job == [id |-> id, plan |-> plan]
<1>1. /\ id \in WorkflowIds /\ id \in Promises \cap Activities
      /\ next_workflow_job \in 0 .. Children - 1 /\ RuntimeTypeOK
  BY NextWorkflowId, CallBounds DEF WorkflowCalled, TypeOK
<1>2. id \notin resolvers
  BY <1>1 DEF ProgramInv, ChildInv, WorkflowsNumbered
<1>3. /\ Register(id, mode) /\ next_workflow_job' = next_workflow_job + 1
      /\ pending_workflows' = Append(pending_workflows, job)
      /\ next_agent_job' = next_agent_job
      /\ running # None /\ running \notin WorkflowIds
  BY DEF WorkflowCalled, HoldsRootWorkflow
<1>4. job \in WorkflowJobs /\ job.id = id
  BY <1>1 DEF WorkflowJobs
<1>5. \A n \in Int : WorkflowId(n) = id => n = next_workflow_job
  BY <1>1, Identifiers
<1> HIDE DEF id, job
<1>6. WakeInv'
  BY <1>1, <1>2, <1>3, RegisterWakes DEF ProgramInv
<1>7. /\ act' = act /\ UNCHANGED <<activeChildren, done>>
      /\ resolvers' = resolvers \cup {id}
      /\ \A a \in Activities : a # running => waits'[a] = waits[a]
  BY <1>3 DEF Register, TypeOK, RuntimeTypeOK
<1>8. FreshActs' /\ RootInv' /\ ActiveChildren' = ActiveChildren
  BY <1>3, <1>7 DEF ProgramInv, FreshActs, RootInv, ActiveChildren
<1>9. id \notin ActiveChildren \cup QueuedChildren
  BY <1>1, <1>2 DEF ProgramInv, ChildInv
<1>10. QueuedChildren' = QueuedChildren \cup {id} /\ QueuedOnce'
  <2>1. /\ Len(pending_workflows') = Len(pending_workflows) + 1
        /\ \A i \in 1 .. Len(pending_workflows) : pending_workflows'[i] = pending_workflows[i]
        /\ pending_workflows'[Len(pending_workflows) + 1] = job
        /\ pending_workflows' \in Seq(WorkflowJobs)
    BY <1>3, <1>4, AppendProperties DEF TypeOK
  <2>2. /\ Len(pending_workflows) \in Nat
        /\ DOMAIN pending_workflows = 1 .. Len(pending_workflows)
        /\ DOMAIN pending_workflows' = 1 .. Len(pending_workflows) + 1
    BY <2>1, LenProperties DEF TypeOK
  <2>3. QueuedChildren' = QueuedChildren \cup {id}
    BY <1>4, <2>1, <2>2 DEF QueuedChildren
  <2>4. QueuedOnce'
    BY <1>4, <1>9, <2>1, <2>2 DEF QueuedChildren, ProgramInv, ChildInv, QueuedOnce
  <2>5. QED
    BY <2>3, <2>4
<1>11. WorkflowsNumbered'
  <2>1. ASSUME NEW n \in 0 .. Children - 1, WorkflowId(n) \in resolvers \cup {id}
        PROVE  n < next_workflow_job + 1
    <3>1. CASE WorkflowId(n) \in resolvers
      <4>1. n < next_workflow_job
        BY <3>1 DEF ProgramInv, ChildInv, WorkflowsNumbered
      <4>2. QED
        BY <1>1, <4>1
    <3>2. CASE WorkflowId(n) = id
      BY <1>1, <1>5, <3>2
    <3>3. QED
      BY <2>1, <3>1, <3>2
  <2>2. QED
    BY <1>3, <1>7, <2>1 DEF WorkflowsNumbered
<1>12. ChildInv'
  BY <1>1, <1>7, <1>8, <1>9, <1>10, <1>11 DEF ProgramInv, ChildInv
<1>13. ChildrenHold'
  BY <1>3, <1>7 DEF ProgramInv, ChildrenHold, Activities, Mains
<1>14. QED
  BY <1>6, <1>8, <1>12, <1>13 DEF ProgramInv

\* The oldest workflow() job leaves the queue.
LEMMA HeadDequeued ==
    ASSUME pending_workflows \in Seq(WorkflowJobs), pending_workflows # <<>>, QueuedOnce,
           pending_workflows' = Tail(pending_workflows)
    PROVE  /\ Head(pending_workflows).id \in QueuedChildren
           /\ QueuedChildren' = QueuedChildren \ {Head(pending_workflows).id}
           /\ QueuedOnce'
<1> DEFINE job == Head(pending_workflows)
           id == job.id
<1>1. /\ Len(Tail(pending_workflows)) = Len(pending_workflows) - 1
      /\ Tail(pending_workflows) \in Seq(WorkflowJobs)
      /\ \A i \in 1 .. Len(Tail(pending_workflows)) :
            Tail(pending_workflows)[i] = pending_workflows[i + 1]
      /\ job = pending_workflows[1]
  BY HeadTailProperties
<1>2. /\ Len(pending_workflows) \in Nat /\ Len(pending_workflows) > 0
      /\ DOMAIN pending_workflows = 1 .. Len(pending_workflows)
      /\ DOMAIN pending_workflows' = 1 .. Len(pending_workflows) - 1
  BY <1>1, LenProperties, EmptySeq
<1>3. \A i \in 1 .. Len(pending_workflows) - 1 :
          pending_workflows'[i] = pending_workflows[i + 1]
  BY <1>1, <1>2
<1> HIDE DEF job
<1>4. id \in QueuedChildren
  BY <1>1, <1>2 DEF QueuedChildren
<1>5. QueuedChildren' \subseteq QueuedChildren \ {id}
  BY <1>1, <1>2, <1>3 DEF QueuedChildren, QueuedOnce
<1>6. ASSUME NEW i \in 1 .. Len(pending_workflows), i # 1
      PROVE  pending_workflows[i].id \in QueuedChildren'
  <2>1. i - 1 \in 1 .. Len(pending_workflows) - 1 /\ (i - 1) + 1 = i
    BY <1>2, <1>6
  <2>2. pending_workflows'[i - 1] = pending_workflows[i]
    BY <1>3, <2>1
  <2>3. QED
    BY <1>2, <2>1, <2>2 DEF QueuedChildren
<1>7. QueuedChildren \ {id} \subseteq QueuedChildren'
  BY <1>1, <1>2, <1>6 DEF QueuedChildren
<1>8. QueuedOnce'
  BY <1>2, <1>3 DEF QueuedOnce
<1>9. QED
  BY <1>4, <1>5, <1>7, <1>8 DEF job

\* start_pending_workflows: the oldest child starts, or its refusal is delivered.
LEMMA ProgramStartWorkflow ==
    ASSUME TypeOK, ProgramInv, StartWorkflow
    PROVE  ProgramInv'
<1> DEFINE job == Head(pending_workflows)
           id == job.id
<1>1. /\ pending_workflows # <<>> /\ pending_workflows \in Seq(WorkflowJobs)
      /\ pending_workflows' = Tail(pending_workflows)
      /\ UNCHANGED <<next_agent_job, next_workflow_job>>
      /\ IF job.plan = "program" THEN StartChild(id) ELSE Deliver(id)
  BY DEF StartWorkflow, TypeOK, counterVars
<1>2. /\ id \in WorkflowIds /\ id \in Promises /\ RuntimeTypeOK
  <2>1. job \in WorkflowJobs
    BY <1>1, TailQueue
  <2>2. QED
    BY <2>1 DEF WorkflowJobs, Promises, TypeOK
<1>3. /\ id \in QueuedChildren
      /\ QueuedChildren' = QueuedChildren \ {id}
      /\ QueuedOnce'
  BY <1>1, HeadDequeued DEF ProgramInv, ChildInv
<1>4. id \in resolvers /\ id \notin ActiveChildren
  BY <1>3 DEF ProgramInv, ChildInv
<1> HIDE DEF id, job
<1>5. CASE StartChild(id)
  <2>1. act[id] \in Idle
    BY <1>2, <1>4 DEF ActiveChildren
  <2>2. WakeInv'
    BY <1>2, <1>5, <2>1, StartChildWakes DEF ProgramInv, Idle
  <2>3. /\ activeChildren' = activeChildren + 1 /\ act' = [act EXCEPT ![id] = "ready"]
        /\ UNCHANGED <<waits, resolvers, done>>
    BY <1>4, <1>5 DEF StartChild
  <2>4. id \notin AgentIds /\ id # Root
    BY <1>2, Identifiers
  <2>5. \A a \in Activities : act'[a] = IF a = id THEN "ready" ELSE act[a]
    BY <2>3 DEF TypeOK, RuntimeTypeOK
  <2>6. FreshActs' /\ RootInv' /\ ChildrenHold'
    BY <1>1, <2>3, <2>4, <2>5, Identifiers
    DEF ProgramInv, FreshActs, RootInv, ChildrenHold, Activities, Mains
  <2>7. ActiveChildren' = ActiveChildren \cup {id}
    BY <1>2, <2>5 DEF ActiveChildren, Idle, Activities, Mains
  <2>8. Cardinality(ActiveChildren') = Cardinality(ActiveChildren) + 1
    <3>1. IsFiniteSet(ActiveChildren)
      BY WorkflowsFinite, FS_Subset DEF ActiveChildren
    <3>2. QED
      BY <1>4, <2>7, <3>1, FS_AddElement
  <2>9. WorkflowsNumbered'
    BY <1>1, <2>3 DEF ProgramInv, ChildInv, WorkflowsNumbered
  <2>10. ChildInv'
    BY <1>3, <1>4, <2>3, <2>7, <2>8, <2>9 DEF ProgramInv, ChildInv
  <2>11. QED
    BY <2>2, <2>6, <2>10 DEF ProgramInv
<1>6. CASE Deliver(id)
  <2>1. WakeInv'
    BY <1>2, <1>6, DeliverWakes DEF ProgramInv
  <2>2. LifeKept /\ WaitsShrink /\ UNCHANGED <<activeChildren, done>>
    BY <1>2, <1>6, QuietOperations DEF ProgramInv
  <2>3. resolvers' = resolvers \ {id}
    BY <1>4, <1>6 DEF Deliver, Settle
  <2>4. FreshActs' /\ ActiveChildren' = ActiveChildren
    BY <1>1, <2>2, Identifiers
    DEF ProgramInv, FreshActs, ActiveChildren, LifeKept, Idle, Activities, Mains
  <2>5. RootInv' /\ ChildrenHold'
    BY <2>2
    DEF ProgramInv, RootInv, ChildrenHold, LifeKept, WaitsShrink, Idle, Activities, Mains
  <2>6. WorkflowsNumbered'
    BY <1>1, <2>3 DEF ProgramInv, ChildInv, WorkflowsNumbered
  <2>7. ChildInv'
    BY <1>3, <1>4, <2>2, <2>3, <2>4, <2>6 DEF ProgramInv, ChildInv
  <2>8. QED
    BY <2>1, <2>4, <2>5, <2>7 DEF ProgramInv
<1>7. QED
  BY <1>1, <1>5, <1>6

\* finishChild: the child ends once, and its promise with it.
LEMMA ProgramChildEnds ==
    ASSUME TypeOK, ProgramInv, ChildJob
    PROVE  ProgramInv'
<1> DEFINE w == Head(jobs)
<1>1. /\ FinishChild /\ w \in WorkflowIds /\ act[w] = "returned" /\ RuntimeTypeOK
      /\ activeChildren' = activeChildren - 1
      /\ resolvers' = resolvers \ {w}
      /\ UNCHANGED <<done, pending_workflows, next_workflow_job, next_agent_job>>
      /\ WaitsShrink
  BY DEF ChildJob, FinishChild, CountJob, Settle, TypeOK, queueVars, counterVars, WaitsShrink
<1>2. /\ WakeInv'
      /\ \A a \in Activities : \/ act'[a] = IF a = w THEN "ended" ELSE act[a]
                               \/ act[a] \in Awaiting /\ act'[a] = "ready"
  BY <1>1, FinishChildWakes DEF ProgramInv
<1> HIDE DEF w
<1>3. w \notin AgentIds /\ w # Root /\ w \in Activities
  BY <1>1, Identifiers DEF Activities, Mains
<1>4. FreshActs' /\ RootInv' /\ ChildrenHold'
  <2>1. FreshActs'
    BY <1>1, <1>2, <1>3, Identifiers DEF ProgramInv, FreshActs, Awaiting, Activities
  <2>2. RootInv'
    BY <1>1, <1>2, <1>3 DEF ProgramInv, RootInv, Awaiting, Activities, Mains
  <2>3. ChildrenHold'
    BY <1>1 DEF ProgramInv, ChildrenHold, WaitsShrink, Activities, Mains
  <2>4. QED
    BY <2>1, <2>2, <2>3
<1>5. w \in ActiveChildren
  BY <1>1 DEF ActiveChildren, Idle
<1>6. ActiveChildren' = ActiveChildren \ {w}
  <2>1. act'[w] = "ended"
    BY <1>1, <1>2, <1>3 DEF Awaiting
  <2>2. \A a \in WorkflowIds : a # w => (act'[a] \in Idle <=> act[a] \in Idle)
    BY <1>2 DEF Awaiting, Idle, Activities, Mains
  <2>3. QED
    BY <2>1, <2>2 DEF ActiveChildren, Idle
<1>7. Cardinality(ActiveChildren') = Cardinality(ActiveChildren) - 1
  <2>1. IsFiniteSet(ActiveChildren)
    BY WorkflowsFinite, FS_Subset DEF ActiveChildren
  <2>2. QED
    BY <1>5, <1>6, <2>1, FS_RemoveElement
<1>8. QueuedChildren' = QueuedChildren /\ QueuedOnce' /\ WorkflowsNumbered'
  BY <1>1 DEF ProgramInv, ChildInv, QueuedChildren, QueuedOnce, WorkflowsNumbered
<1>9. ChildInv'
  BY <1>1, <1>5, <1>6, <1>7, <1>8 DEF ProgramInv, ChildInv
<1>10. QED
  BY <1>2, <1>4, <1>9 DEF ProgramInv

\* start's second reaction ends the root program.
LEMMA ProgramRootEnds ==
    ASSUME TypeOK, ProgramInv, DoneJob
    PROVE  ProgramInv'
<1>1. /\ RootDone /\ done' = TRUE /\ act' = [act EXCEPT ![Root] = "ended"]
      /\ RuntimeTypeOK
      /\ UNCHANGED <<waits, resolvers, activeChildren, pending_workflows,
                     next_workflow_job, next_agent_job>>
  BY DEF DoneJob, RootDone, CountJob, TypeOK, queueVars, counterVars
<1>2. WakeInv'
  BY <1>1, RootWakes DEF ProgramInv
<1>3. Root \notin AgentIds \cup WorkflowIds /\ Root \in Activities
  BY Identifiers DEF Activities, Mains
<1>4. \A a \in Activities : act'[a] = IF a = Root THEN "ended" ELSE act[a]
  BY <1>1 DEF RuntimeTypeOK
<1>5. FreshActs'
  BY <1>1, <1>3, <1>4, Identifiers DEF ProgramInv, FreshActs, Activities
<1>6. ActiveChildren' = ActiveChildren
  BY <1>3, <1>4 DEF ActiveChildren, Activities, Mains
<1>7. RootInv' /\ ChildrenHold'
  BY <1>1, <1>3, <1>4 DEF ProgramInv, RootInv, ChildrenHold
<1>8. ChildInv'
  BY <1>1, <1>6
  DEF ProgramInv, ChildInv, QueuedChildren, QueuedOnce, WorkflowsNumbered
<1>9. QED
  BY <1>2, <1>5, <1>7, <1>8 DEF ProgramInv

LEMMA ProgramWhole ==
    ASSUME TypeOK, CarryInv, ProgramInv, [Next]_vars, ~ WorkflowFails
    PROVE  ProgramInv'
<1> DEFINE kept == <<activeChildren, done, pending_workflows, next_workflow_job, next_agent_job>>
<1>1. RuntimeTypeOK /\ WakeInv
  BY DEF TypeOK, ProgramInv
<1>2. CASE \/ PickJob \/ ProgramEnds \/ JobAwaits \/ JobHangs \/ CatchJob
  <2>1. \/ BeginJob
        \/ \E kind \in Awaiting : Await(kind)
        \/ Hang
        \/ \E how \in {"returned", "threw", "threwEmpty"} : Complete(how)
        \/ CatchRoot
    BY <1>2 DEF PickJob, ProgramEnds, JobAwaits, JobHangs, CatchJob, Awaiting
  <2>2. LifeKept /\ WaitsShrink /\ UNCHANGED <<activeChildren, done>>
    BY <1>1, <2>1, QuietOperations
  <2>3. WakeInv'
    BY <1>1, <2>1, BeginJobWakes, StopsWake, RootWakes
  <2>4. UNCHANGED <<resolvers, pending_workflows, next_workflow_job, next_agent_job>>
    BY <1>2
    DEF PickJob, ProgramEnds, JobAwaits, JobHangs, CatchJob, CountJob, BeginJob, Await, Hang,
        Complete, CatchRoot, queueVars, counterVars
  <2>5. QED
    BY <2>2, <2>3, <2>4, ProgramQuiet
<1>3. ASSUME NEW mode, AgentAccepted(mode) \/ AgentAnsweredAtOnce(mode)
      PROVE  ProgramInv'
  BY <1>3, ProgramNewCall DEF AgentAccepted, AgentAnsweredAtOnce
<1>4. CASE DeliverReady \/ WaitGet
  <2> DEFINE id == Head(done_q)
  <2>1. Deliver(id) /\ done_q # <<>>
    BY <1>4 DEF DeliverReady, WaitGet, DeliverHead
  <2>2. id \in AgentIds /\ id \in Promises /\ id \notin WorkflowIds
    BY <2>1, TailQueue, Identifiers DEF TypeOK, Promises
  <2>3. LifeKept /\ WaitsShrink /\ UNCHANGED <<activeChildren, done>>
    BY <1>1, <2>1, <2>2, QuietOperations
  <2>4. WakeInv'
    BY <1>1, <2>1, <2>2, DeliverWakes
  <2>5. resolvers' \cap WorkflowIds = resolvers \cap WorkflowIds
    BY <2>1, <2>2 DEF Deliver, Settle, runtimeVars
  <2>6. UNCHANGED <<pending_workflows, next_workflow_job, next_agent_job>>
    BY <1>4 DEF DeliverReady, WaitGet, DeliverHead, NextTurn, counterVars
  <2>7. QED
    BY <2>3, <2>4, <2>5, <2>6, ProgramQuiet
<1>5. CASE \/ JobsExhausted \/ StartAgent \/ AgentsStarted \/ ReadyDelivered \/ WorkflowsStarted
           \/ ReadFailed \/ ReadFinished \/ ReadContinue \/ ReadWait \/ ReadStalled
           \/ WaitTimeout \/ Fault \/ SubmitFails \/ DeliveryFails \/ Exit \/ Workers
           \/ UNCHANGED vars
  <2>1. UNCHANGED <<runtimeVars, pending_workflows, next_workflow_job, next_agent_job>>
    BY <1>5
    DEF JobsExhausted, StartAgent, AgentsStarted, ReadyDelivered, WorkflowsStarted, ReadFailed,
        ReadFinished, ReadContinue, ReadWait, ReadStalled, WaitTimeout, NextTurn, Fault,
        SubmitFails, DeliveryFails, Raise, Leave, Exit, Cancel, Shutdown, Join, Workers,
        WorkerBegin, WorkerReturn, vars, queueVars, counterVars
  <2>2. WakeInv'
    BY <1>1, <2>1
    DEF WakeInv, JobsMatch, WaitsOpen, WaitsApart, RunningIsOne, runtimeVars
  <2>3. LifeKept /\ WaitsShrink
    BY <2>1 DEF LifeKept, WaitsShrink, runtimeVars
  <2>4. QED
    BY <2>1, <2>2, <2>3, ProgramQuiet DEF runtimeVars
<1>6. QED
  BY <1>2, <1>3, <1>4, <1>5, ProgramWorkflow, ProgramStartWorkflow, ProgramChildEnds,
     ProgramRootEnds
  DEF Next, MainThread, Script, Loop, Failure, Terminated

\* A rejection that raises leaves its promise open, with neither a child nor a job in
\* the queue; nothing moves the program any more.
ProgramKept ==
    \/ ProgramInv
    \/ pc \notin LoopPoints /\ WakeupsConserved /\ ChildrenCounted

LEMMA RejectionLost ==
    ASSUME TypeOK, ProgramInv, WorkflowFails
    PROVE  ProgramKept'
<1> DEFINE id == Head(pending_workflows).id
<1>1. UNCHANGED runtimeVars /\ pc' \notin LoopPoints /\ outcome' = "fault"
  BY DEF WorkflowFails, Raise, LoopPoints
<1>2. WakeupsConserved'
  <2>1. WakeupsConserved
    BY WakeMeans DEF ProgramInv
  <2>2. QED
    BY <1>1, <2>1 DEF WakeupsConserved, runtimeVars
<1>3. /\ id \in QueuedChildren
      /\ QueuedChildren' = QueuedChildren \ {id}
  BY HeadDequeued DEF ProgramInv, ChildInv, TypeOK, WorkflowFails
<1> HIDE DEF id
<1>4. ChildrenCounted'
  <2>1. ActiveChildren' = ActiveChildren /\ UNCHANGED <<activeChildren, resolvers>>
    BY <1>1 DEF ActiveChildren, runtimeVars
  <2>2. id \in resolvers /\ id \notin ActiveChildren
    BY <1>3 DEF ProgramInv, ChildInv
  <2>3. /\ activeChildren' = Cardinality(ActiveChildren')
        /\ ActiveChildren' \cap QueuedChildren' = {}
        /\ (resolvers' \cap WorkflowIds) \ {id} = ActiveChildren' \cup QueuedChildren'
    BY <1>3, <2>1, <2>2 DEF ProgramInv, ChildInv
  <2>4. QED
    BY <1>1, <2>1, <2>2, <2>3 DEF ChildrenCounted, ActiveChildren, QueuedChildren, Idle
<1>5. QED
  BY <1>1, <1>2, <1>4 DEF ProgramKept

LEMMA ProgramStep ==
    ASSUME TypeOK, CarryKept, ProgramKept, [Next]_vars
    PROVE  ProgramKept'
<1>1. CASE pc \notin LoopPoints
  <2>1. UNCHANGED <<runtimeVars, pending_workflows, next_workflow_job, next_agent_job, outcome>>
    BY <1>1, LeftSteps
    DEF Cancel, Shutdown, Join, Workers, WorkerBegin, WorkerReturn, vars, queueVars, counterVars
  <2>2. pc' \notin LoopPoints
    BY <1>1, LeftSteps
  <2>3. WakeupsConserved /\ ChildrenCounted
    BY WakeMeans, CountedWhole DEF ProgramKept, ProgramInv
  <2>4. WakeupsConserved'
    BY <2>1, <2>3 DEF WakeupsConserved, runtimeVars
  <2>5. ChildrenCounted'
    BY <2>1, <2>3 DEF ChildrenCounted, runtimeVars
  <2>6. QED
    BY <2>2, <2>4, <2>5 DEF ProgramKept
<1>2. CASE pc \in LoopPoints
  <2>1. CarryInv /\ ProgramInv
    BY <1>2 DEF CarryKept, Broken, ProgramKept
  <2>2. QED
    BY <2>1, ProgramWhole, RejectionLost DEF ProgramKept
<1>3. QED
  BY <1>1, <1>2

LEMMA ProgramInit == Init => ProgramInv
<1>1. SUFFICES ASSUME Init PROVE ProgramInv
  OBVIOUS
<1>2. /\ jobs = <<Root>> /\ running = None /\ resolvers = {} /\ activeChildren = 0
      /\ act = [a \in Activities |-> IF a = Root THEN "ready" ELSE "absent"]
      /\ waits = [a \in Activities |-> {}]
      /\ pending_workflows = <<>> /\ done = FALSE
  BY <1>1 DEF Init, RuntimeInit
<1>3. Root \in Activities /\ Root \notin AgentIds \cup WorkflowIds /\ None \notin Activities
  BY Identifiers DEF Activities, Mains
<1>4. WakeInv
  <2>1. IsInjective(jobs) /\ Range(jobs) = {Root}
    <3>1. jobs = Append(<<>>, Root)
      BY <1>2
    <3>2. <<>> \in Seq(Activities) /\ Range(<<>>) = {} /\ IsInjective(<<>>)
      BY EmptyQueue
    <3>3. /\ Range(Append(<<>>, Root)) = Range(<<>>) \cup {Root}
          /\ IsInjective(Append(<<>>, Root))
      BY <1>3, <3>2, AppendQueue
    <3>4. QED
      BY <3>1, <3>2, <3>3
  <2>2. JobsMatch(jobs, act)
    BY <1>2, <1>3, <2>1 DEF JobsMatch, Queued
  <2>3. WaitsOpen /\ WaitsApart /\ RunningIsOne
    BY <1>2, <1>3 DEF WaitsOpen, WaitsApart, RunningIsOne, Awaiting
  <2>4. QED
    BY <2>2, <2>3 DEF WakeInv
<1>5. FreshActs /\ RootInv /\ ChildrenHold
  BY <1>2, <1>3, Identifiers DEF FreshActs, RootInv, ChildrenHold, Activities, Mains
<1>6. ChildInv
  <2>1. ActiveChildren = {}
    BY <1>2, <1>3 DEF ActiveChildren, Idle, Activities, Mains
  <2>2. DOMAIN pending_workflows = {}
    BY <1>2
  <2>3. QED
    BY <1>2, <2>1, <2>2, FS_EmptySet
    DEF ChildInv, QueuedChildren, QueuedOnce, WorkflowsNumbered
<1>7. QED
  BY <1>4, <1>5, <1>6 DEF ProgramInv

LEMMA ProgramAlways == Spec => []ProgramKept
<1>1. Spec => []TypeOK
  BY TypeCorrect, PTL
<1>2. TypeOK /\ CarryKept /\ ProgramKept /\ [Next]_vars => ProgramKept'
  BY ProgramStep
<1>3. Init => ProgramKept
  BY ProgramInit DEF ProgramKept
<1>4. QED
  BY <1>1, <1>2, <1>3, CarryAlways, PTL DEF Spec

\* No promise job is lost or queued twice and nobody waits for a settled
\* promise: deliver, finishChild and rejectWorkflow each wake whom they must.
THEOREM WakeupsAreConserved == Spec => []WakeupsConserved
<1>1. ProgramKept => WakeupsConserved
  BY WakeMeans DEF ProgramKept, ProgramInv
<1>2. QED
  BY <1>1, ProgramAlways, PTL

\* activeChildren counts exactly the children that run, each started once and
\* finished once, and a workflow() promise is open exactly as long as its child, but
\* for the one whose start or rejection raised.
THEOREM ChildrenAreCounted == Spec => []ChildrenCounted
<1>1. ProgramKept => ChildrenCounted
  BY CountedWhole DEF ProgramKept, ProgramInv
<1>2. QED
  BY <1>1, ProgramAlways, PTL

-----------------------------------------------------------------------------
(* The turns of the loop, and the verdicts.                                *)

\* Between the jobs and the end of a turn no job executes, a turn that ran no
\* job and made no progress has left none behind, and what arrived after the
\* deliveries comes from a worker.
TurnInv ==
    /\ pc \in LoopPoints \ {"jobs"} => running = None
    /\ pc \in LoopPoints \ {"jobs"} /\ ran_jobs = 0 /\ ~progress => jobs = <<>>
    /\ pc \in {"workflows", "state", "wait"} => Range(done_q) \subseteq inflight

LEMMA TurnStep ==
    ASSUME TypeOK, CarryKept, TurnInv, [Next]_vars
    PROVE  TurnInv'
<1> USE DEF LoopPoints
<1>1. CASE Script \/ WaitGet \/ WaitTimeout \/ ReadContinue
  <2>1. pc' \in {"jobs", "cancel"}
    BY <1>1
    DEF Script, PickJob, AgentAccepted, AgentAnsweredAtOnce, TakeAgentJob, WorkflowCalled,
        ProgramEnds, JobAwaits, JobHangs, CatchJob, DoneJob, ChildJob, CountJob, WaitGet,
        WaitTimeout, ReadContinue, NextTurn
  <2>2. QED
    BY <2>1 DEF TurnInv
<1>2. CASE JobsExhausted
  <2>1. pc' = "start" /\ running' = None /\ (ran_jobs' = 0 => jobs' = <<>>)
    BY <1>2, PumpBounds DEF JobsExhausted, runtimeVars, loopVars
  <2>2. QED
    BY <2>1 DEF TurnInv
<1>3. CASE StartAgent
  BY <1>3 DEF StartAgent, TurnInv, runtimeVars
<1>4. CASE AgentsStarted \/ WorkflowsStarted \/ ReadWait
  BY <1>4
  DEF AgentsStarted, WorkflowsStarted, ReadWait, TurnInv, runtimeVars, queueVars, loopVars
<1>5. CASE DeliverReady
  <2>1. pc = "deliver" /\ pc' = "deliver" /\ progress' = TRUE /\ running' = running
    BY <1>5 DEF DeliverReady, DeliverHead, Deliver, runtimeVars
  <2>2. QED
    BY <2>1 DEF TurnInv
<1>6. CASE ReadyDelivered
  BY <1>6, EmptyQueue DEF ReadyDelivered, TurnInv, runtimeVars, queueVars, loopVars
<1>7. CASE StartWorkflow
  <2>1. /\ pc = "workflows" /\ pc' = "workflows" /\ progress' = TRUE /\ running' = running
        /\ UNCHANGED <<done_q, inflight>>
    BY <1>7 DEF StartWorkflow, StartChild, Deliver, runtimeVars
  <2>2. QED
    BY <2>1 DEF TurnInv
<1>8. CASE ReadFailed \/ ReadFinished \/ ReadStalled \/ Failure \/ Exit
  <2>1. pc' \notin LoopPoints
    BY <1>8
    DEF ReadFailed, ReadFinished, ReadStalled, Failure, Fault, SubmitFails, DeliveryFails,
        WorkflowFails, Raise, Leave, Exit, Cancel, Shutdown, Join
  <2>2. QED
    BY <2>1 DEF TurnInv
<1>9. CASE WorkerBegin \/ UNCHANGED vars
  BY <1>9
  DEF WorkerBegin, vars, TurnInv, runtimeVars, queueVars, loopVars
<1>10. ASSUME NEW id \in AgentIds, WorkerReturn(id)
       PROVE  TurnInv'
  <2>1. pc \in LoopPoints => id \in inflight
    BY <1>10 DEF WorkerReturn, CarryKept, Broken, CarryInv, AllTracked, Pool
  <2>2. pc \in LoopPoints => Range(done_q') = Range(done_q) \cup {id}
    BY <1>10, <2>1, AppendQueue DEF WorkerReturn, TypeOK
  <2>3. UNCHANGED <<runtimeVars, pc, inflight, loopVars>>
    BY <1>10 DEF WorkerReturn
  <2>4. QED
    BY <2>1, <2>2, <2>3 DEF TurnInv, runtimeVars, loopVars
<1>11. QED
  BY <1>1, <1>2, <1>3, <1>4, <1>5, <1>6, <1>7, <1>8, <1>9, <1>10
  DEF Next, MainThread, Loop, Workers, Terminated

\* Nothing is left in the pool, and no agent is unanswered.
PoolEmpty == resolvers \cap AgentIds = {} /\ workers = {} /\ work_queue = <<>>

\* The verdicts, each with what keeps it true while the pool is shut down.
VerdictInv == FinishedClean /\ StallIsReal /\ (outcome \in {"ok", "stalled"} => PoolEmpty)

\* An empty pool and done_q or only completions of an empty set of agents.
LEMMA NothingInPool ==
    ASSUME TypeOK, CarryInv, inflight = {}, pending_agents = <<>>, Range(done_q) \subseteq inflight
    PROVE  PoolEmpty
<1>1. workers = {} /\ Range(work_queue) = {} /\ Range(done_q) = {}
  BY DEF CarryInv, AllTracked, Pool
<1>2. work_queue = <<>>
  <2>1. work_queue # <<>> => Head(work_queue) \in Range(work_queue)
    BY TailQueue DEF TypeOK
  <2>2. QED
    BY <1>1, <2>1
<1>3. resolvers \cap AgentIds = {}
  BY <1>1, EmptyQueue DEF CarryInv, AllPlaced, Placed, Pool
<1>4. QED
  BY <1>1, <1>2, <1>3 DEF PoolEmpty

\* The exit test: the root has ended, no child is active or queued, and the
\* pool is empty, so no promise is left.
LEMMA FinishedIsClean ==
    ASSUME TypeOK, CarryInv, ProgramInv, ReadFinished
    PROVE  VerdictInv'
<1>1. /\ done /\ activeChildren = 0 /\ pending_agents = <<>> /\ pending_workflows = <<>>
      /\ inflight = {} /\ done_q = <<>>
      /\ outcome' = "ok" /\ UNCHANGED <<runtimeVars, workers, work_queue>>
  BY DEF ReadFinished, Finished, Leave, queueVars
<1>2. PoolEmpty
  BY <1>1, NothingInPool, EmptyQueue
<1>3. ActiveChildren = {} /\ QueuedChildren = {}
  <2>1. IsFiniteSet(ActiveChildren)
    BY WorkflowsFinite, FS_Subset DEF ActiveChildren
  <2>2. ActiveChildren = {}
    BY <1>1, <2>1, FS_EmptySet DEF ProgramInv, ChildInv
  <2>3. DOMAIN pending_workflows = {}
    BY <1>1
  <2>4. QED
    BY <2>2, <2>3 DEF QueuedChildren
<1>4. resolvers = {}
  BY <1>2, <1>3 DEF ProgramInv, ChildInv, PoolEmpty, TypeOK, RuntimeTypeOK, Promises
<1>5. \A m \in Mains : act[m] \in {"ended", "absent"}
  BY <1>1, <1>3 DEF ProgramInv, RootInv, ActiveChildren, Idle, Mains
<1>6. QED
  BY <1>1, <1>2, <1>4, <1>5
  DEF VerdictInv, FinishedClean, StallIsReal, PoolEmpty, runtimeVars

\* A turn without progress and with an empty pool: some program has not
\* ended, and it, or the child it waits for, hangs.  A child cannot wait for
\* another, so there is no circle of programs waiting for each other.
LEMMA StalledIsReal ==
    ASSUME TypeOK, CarryInv, ProgramInv, TurnInv, ReadStalled
    PROVE  VerdictInv'
<1>1. /\ pc = "state" /\ ~Progressed /\ inflight = {}
      /\ pending_agents = <<>> /\ pending_workflows = <<>>
      /\ ~done \/ activeChildren # 0
      /\ outcome' = "stalled" /\ UNCHANGED <<runtimeVars, workers, work_queue>>
  BY DEF ReadStalled, Leave, queueVars
<1>2. running = None /\ Range(done_q) \subseteq inflight
  BY <1>1 DEF TurnInv, LoopPoints
<1>3. jobs = <<>>
  <2>1. ran_jobs = 0 /\ ~progress
    BY <1>1 DEF Progressed, TypeOK
  <2>2. QED
    BY <1>1, <2>1 DEF TurnInv, LoopPoints
<1>4. PoolEmpty
  BY <1>1, <1>2, NothingInPool
<1>5. QueuedChildren = {}
  <2>1. DOMAIN pending_workflows = {}
    BY <1>1
  <2>2. QED
    BY <2>1 DEF QueuedChildren
<1>6. ASSUME NEW a \in Activities, act[a] \notin Idle
      PROVE  act[a] = "hung" \/ (act[a] \in Awaiting /\ waits[a] # {})
  <2>1. act[a] \notin Queued
    <3>1. Range(jobs) = {}
      BY <1>3, EmptyQueue
    <3>2. QED
      BY <3>1 DEF ProgramInv, WakeInv, JobsMatch
  <2>2. act[a] # "running"
    BY <1>2, Identifiers DEF ProgramInv, WakeInv, RunningIsOne
  <2>3. act[a] \in Statuses
    BY DEF TypeOK, RuntimeTypeOK
  <2>4. act[a] = "hung" \/ act[a] \in Awaiting
    BY <1>6, <2>1, <2>2, <2>3 DEF Statuses, Idle, Queued, Awaiting
  <2>5. QED
    BY <2>4 DEF ProgramInv, WakeInv, WaitsOpen
<1>7. \A a \in Activities : waits[a] \subseteq ActiveChildren
  <2>1. resolvers \subseteq ActiveChildren
    BY <1>4, <1>5 DEF ProgramInv, ChildInv, PoolEmpty, TypeOK, RuntimeTypeOK, Promises
  <2>2. QED
    BY <2>1 DEF ProgramInv, WakeInv, WaitsOpen
<1>8. \A w \in ActiveChildren : act[w] = "hung"
  <2>1. SUFFICES ASSUME NEW w \in ActiveChildren PROVE act[w] = "hung"
    OBVIOUS
  <2>2. w \in WorkflowIds /\ w \in Activities /\ act[w] \notin Idle
    BY DEF ActiveChildren, Activities, Mains
  <2>3. waits[w] = {}
    BY <1>7, <2>2 DEF ProgramInv, ChildrenHold, ActiveChildren
  <2>4. QED
    BY <1>6, <2>2, <2>3
<1>9. \E m \in Mains : act[m] = "hung"
  <2>1. CASE ActiveChildren # {}
    BY <1>8, <2>1 DEF ActiveChildren, Mains
  <2>2. CASE ActiveChildren = {}
    <3>1. ~done
      BY <1>1, <2>2, FS_EmptySet DEF ProgramInv, ChildInv
    <3>2. act[Root] \notin Idle /\ Root \in Activities /\ Root \in Mains
      BY <3>1 DEF ProgramInv, RootInv, Idle, Activities, Mains
    <3>3. waits[Root] = {}
      BY <1>7, <2>2, <3>2
    <3>4. QED
      BY <1>6, <3>2, <3>3
  <2>3. QED
    BY <2>1, <2>2
<1>10. QED
  BY <1>1, <1>2, <1>3, <1>4, <1>9
  DEF VerdictInv, FinishedClean, StallIsReal, PoolEmpty, runtimeVars

LEMMA VerdictStep ==
    ASSUME TypeOK, CarryKept, EndInv, ProgramKept, TurnInv, VerdictInv, [Next]_vars
    PROVE  VerdictInv'
<1> pc \in LoopPoints => CarryInv /\ ProgramInv
  BY DEF CarryKept, Broken, ProgramKept
<1>1. CASE ReadFinished
  BY <1>1, FinishedIsClean DEF ReadFinished, LoopPoints
<1>2. CASE ReadStalled
  BY <1>2, StalledIsReal DEF ReadStalled, LoopPoints
<1>3. CASE outcome = "none" /\ ~ReadFinished /\ ~ReadStalled
  <2>1. outcome' \notin {"ok", "stalled"}
    BY <1>3
    DEF Next, MainThread, Script, Loop, Exit, Workers, Terminated, PickJob, AgentAccepted,
        AgentAnsweredAtOnce, WorkflowCalled, ProgramEnds, JobAwaits, JobHangs, CatchJob, DoneJob,
        ChildJob, CountJob, JobsExhausted, StartAgent, AgentsStarted, DeliverReady, DeliverHead,
        ReadyDelivered, StartWorkflow, WorkflowsStarted, ReadFailed, ReadContinue, ReadWait,
        WaitGet, WaitTimeout, NextTurn, Failure, Fault, SubmitFails, DeliveryFails,
        WorkflowFails, Raise, Leave, Cancel, Shutdown, Join, WorkerBegin, WorkerReturn, vars,
        endVars
  <2>2. QED
    BY <2>1 DEF VerdictInv, FinishedClean, StallIsReal
<1>4. CASE outcome # "none"
  <2>1. UNCHANGED <<runtimeVars, outcome>>
    <3>1. Cancel \/ Shutdown \/ Join \/ Workers \/ UNCHANGED vars
      BY <1>4, DecidedSteps
    <3>2. QED
      BY <3>1
      DEF Cancel, Shutdown, Join, Workers, WorkerBegin, WorkerReturn, vars, endVars
  <2>2. workers = {} /\ work_queue = <<>> => workers' = {} /\ work_queue' = <<>>
    <3>1. Cancel \/ Shutdown \/ Join \/ Workers \/ UNCHANGED vars
      BY <1>4, DecidedSteps
    <3>2. QED
      BY <3>1
      DEF Cancel, Shutdown, Join, Workers, WorkerBegin, WorkerReturn, vars, queueVars
  <2>3. QED
    BY <2>1, <2>2 DEF VerdictInv, FinishedClean, StallIsReal, PoolEmpty, runtimeVars
<1>5. QED
  BY <1>1, <1>2, <1>3, <1>4

LEMMA VerdictAlways == Spec => []VerdictInv
<1>1. Spec => []TypeOK
  BY TypeCorrect, PTL
<1>2. Init => TurnInv /\ VerdictInv
  BY DEF Init, TurnInv, VerdictInv, FinishedClean, StallIsReal
<1>3. TypeOK /\ CarryKept /\ TurnInv /\ [Next]_vars => TurnInv'
  BY TurnStep
<1>4. TypeOK /\ CarryKept /\ EndInv /\ ProgramKept /\ TurnInv /\ VerdictInv /\ [Next]_vars
        => VerdictInv'
  BY VerdictStep
<1>5. QED
  BY <1>1, <1>2, <1>3, <1>4, CarryAlways, EndAlways, ProgramAlways, PTL DEF Spec

\* A run that ends well leaves no program, no promise and no agent behind.
THEOREM SuccessIsAlwaysClean == Spec => []FinishedClean
<1>1. VerdictInv => FinishedClean
  BY DEF VerdictInv
<1>2. QED
  BY <1>1, VerdictAlways, PTL

\* "script stalled" is raised only when no program can ever take another step
\* and one of them has not ended.
THEOREM StallsAreReal == Spec => []StallIsReal
<1>1. VerdictInv => StallIsReal
  BY DEF VerdictInv
<1>2. QED
  BY <1>1, VerdictAlways, PTL

=============================================================================
