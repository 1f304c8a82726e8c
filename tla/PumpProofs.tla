----------------------------- MODULE PumpProofs ------------------------------
(***************************************************************************)
(* Proofs about the pump, for every number of calls, children, workers and *)
(* jobs.  The order: lemmas about queues and identifiers, type correctness,*)
(* the conservation of agent completions and the in-flight bound, how the  *)
(* pump ends, and that it implements CallLifecycle: seen through callStage,*)
(* startedCalls and verdict, each of its steps is one step of the life     *)
(* cycle or changes nothing in it.                                         *)
(***************************************************************************)
EXTENDS Pump, TLAPS, FiniteSetTheorems, SequenceTheorems

-----------------------------------------------------------------------------
(* Queues.                                                                 *)

\* Appending adds one element, and keeps a queue without repetitions so when
\* the element is new.
LEMMA AppendQueue ==
    ASSUME NEW S, NEW q \in Seq(S), NEW e \in S
    PROVE  /\ Append(q, e) \in Seq(S)
           /\ Range(Append(q, e)) = Range(q) \cup {e}
           /\ IsInjective(q) /\ e \notin Range(q) => IsInjective(Append(q, e))
<1>1. /\ Append(q, e) \in Seq(S)
      /\ Len(Append(q, e)) = Len(q) + 1
      /\ \A i \in 1 .. Len(q) : Append(q, e)[i] = q[i]
      /\ Append(q, e)[Len(q) + 1] = e
  BY AppendProperties
<1>2. /\ Len(q) \in Nat
      /\ DOMAIN q = 1 .. Len(q)
      /\ DOMAIN Append(q, e) = 1 .. Len(q) + 1
  BY <1>1, LenProperties
<1>3. Range(Append(q, e)) = Range(q) \cup {e}
  BY <1>1, <1>2 DEF Range
<1>4. ASSUME IsInjective(q), e \notin Range(q)
      PROVE  IsInjective(Append(q, e))
  BY <1>1, <1>2, <1>4 DEF Range, IsInjective
<1>5. QED
  BY <1>1, <1>3, <1>4

\* Taking the head of a queue without repetitions removes just that element.
LEMMA TailQueue ==
    ASSUME NEW S, NEW q \in Seq(S), q # <<>>
    PROVE  /\ Head(q) \in S
           /\ Head(q) \in Range(q)
           /\ Tail(q) \in Seq(S)
           /\ IsInjective(q) => /\ IsInjective(Tail(q))
                                /\ Range(Tail(q)) = Range(q) \ {Head(q)}
<1>1. /\ Head(q) \in S
      /\ Tail(q) \in Seq(S)
      /\ Len(Tail(q)) = Len(q) - 1
      /\ \A i \in 1 .. Len(Tail(q)) : Tail(q)[i] = q[i + 1]
  BY HeadTailProperties
<1>2. /\ Len(q) \in Nat /\ Len(q) > 0
      /\ DOMAIN q = 1 .. Len(q)
      /\ DOMAIN Tail(q) = 1 .. Len(q) - 1
      /\ Head(q) = q[1]
  BY <1>1, LenProperties, EmptySeq
<1>3. Head(q) \in Range(q)
  BY <1>2 DEF Range
<1>4. ASSUME IsInjective(q)
      PROVE  IsInjective(Tail(q)) /\ Range(Tail(q)) = Range(q) \ {Head(q)}
  <2>1. IsInjective(Tail(q))
    BY <1>1, <1>2, <1>4 DEF IsInjective
  <2>2. Range(Tail(q)) \subseteq Range(q) \ {Head(q)}
    BY <1>1, <1>2, <1>4 DEF Range, IsInjective
  <2>3. ASSUME NEW e \in Range(q) \ {Head(q)}
        PROVE  e \in Range(Tail(q))
    <3>1. PICK i \in 1 .. Len(q) : q[i] = e
      BY <1>2 DEF Range
    <3>2. i # 1 /\ i - 1 \in 1 .. Len(q) - 1
      BY <1>2, <3>1
    <3>3. Tail(q)[i - 1] = e
      BY <1>1, <1>2, <3>1, <3>2
    <3>4. QED
      BY <1>2, <3>2, <3>3 DEF Range
  <2>4. QED
    BY <2>1, <2>2, <2>3
<1>5. QED
  BY <1>1, <1>3, <1>4

\* Concatenating two disjoint queues without repetitions gives another one.
LEMMA ConcatQueue ==
    ASSUME NEW S, NEW p \in Seq(S), NEW q \in Seq(S)
    PROVE  /\ p \o q \in Seq(S)
           /\ Range(p \o q) = Range(p) \cup Range(q)
           /\ IsInjective(p) /\ IsInjective(q) /\ Range(p) \cap Range(q) = {}
                => IsInjective(p \o q)
<1>1. /\ p \o q \in Seq(S)
      /\ Len(p \o q) = Len(p) + Len(q)
      /\ \A i \in 1 .. Len(p) + Len(q) :
            (p \o q)[i] = IF i <= Len(p) THEN p[i] ELSE q[i - Len(p)]
  BY ConcatProperties
<1>2. /\ Len(p) \in Nat /\ Len(q) \in Nat
      /\ DOMAIN p = 1 .. Len(p) /\ DOMAIN q = 1 .. Len(q)
      /\ DOMAIN (p \o q) = 1 .. Len(p) + Len(q)
  BY <1>1, LenProperties
<1>3. Range(p \o q) = Range(p) \cup Range(q)
  <2>1. Range(p \o q) \subseteq Range(p) \cup Range(q)
    BY <1>1, <1>2 DEF Range
  <2>2. Range(p) \subseteq Range(p \o q)
    BY <1>1, <1>2 DEF Range
  <2>3. ASSUME NEW e \in Range(q)
        PROVE  e \in Range(p \o q)
    <3>1. PICK i \in 1 .. Len(q) : q[i] = e
      BY <1>2 DEF Range
    <3>2. /\ i + Len(p) \in 1 .. Len(p) + Len(q)
          /\ ~ (i + Len(p) <= Len(p))
          /\ (i + Len(p)) - Len(p) = i
      BY <1>2
    <3>3. (p \o q)[i + Len(p)] = e
      BY <1>1, <3>1, <3>2
    <3>4. QED
      BY <1>2, <3>2, <3>3 DEF Range
  <2>4. QED
    BY <2>1, <2>2, <2>3
<1>4. ASSUME IsInjective(p), IsInjective(q), Range(p) \cap Range(q) = {}
      PROVE  IsInjective(p \o q)
  <2>1. SUFFICES ASSUME NEW i \in DOMAIN (p \o q), NEW j \in DOMAIN (p \o q),
                        (p \o q)[i] = (p \o q)[j]
                 PROVE  i = j
    BY DEF IsInjective
  <2>2. CASE i <= Len(p) /\ j <= Len(p)
    BY <1>1, <1>2, <1>4, <2>1, <2>2 DEF IsInjective
  <2>3. CASE i > Len(p) /\ j > Len(p)
    <3>1. /\ i - Len(p) \in DOMAIN q /\ j - Len(p) \in DOMAIN q
          /\ q[i - Len(p)] = q[j - Len(p)]
      BY <1>1, <1>2, <2>1, <2>3
    <3>2. i - Len(p) = j - Len(p)
      BY <1>4, <3>1 DEF IsInjective
    <3>3. QED
      BY <1>2, <3>2
  <2>4. ASSUME NEW m \in DOMAIN (p \o q), NEW n \in DOMAIN (p \o q),
               m <= Len(p), n > Len(p)
        PROVE  (p \o q)[m] # (p \o q)[n]
    <3>1. (p \o q)[m] = p[m] /\ p[m] \in Range(p)
      BY <1>1, <1>2, <2>4 DEF Range
    <3>2. (p \o q)[n] = q[n - Len(p)] /\ n - Len(p) \in DOMAIN q
      BY <1>1, <1>2, <2>4
    <3>3. q[n - Len(p)] \in Range(q)
      BY <3>2 DEF Range
    <3>4. QED
      BY <1>4, <3>1, <3>2, <3>3
  <2>5. CASE i <= Len(p) /\ j > Len(p)
    BY <2>1, <2>4, <2>5
  <2>6. CASE i > Len(p) /\ j <= Len(p)
    BY <2>1, <2>4, <2>6
  <2>7. QED
    BY <1>2, <2>2, <2>3, <2>5, <2>6
<1>5. QED
  BY <1>1, <1>3, <1>4

\* Leaving out the last of a queue without repetitions removes just that element.
LEMMA FrontQueue ==
    ASSUME NEW S, NEW q \in Seq(S), q # <<>>
    PROVE  /\ q[Len(q)] \in Range(q)
           /\ SubSeq(q, 1, Len(q) - 1) \in Seq(S)
           /\ IsInjective(q) =>
                 /\ IsInjective(SubSeq(q, 1, Len(q) - 1))
                 /\ Range(SubSeq(q, 1, Len(q) - 1)) = Range(q) \ {q[Len(q)]}
<1> DEFINE last == Len(q)
           front == SubSeq(q, 1, last - 1)
<1>1. /\ last \in Nat /\ last > 0 /\ DOMAIN q = 1 .. last
      /\ \A i \in 1 .. last : q[i] \in S
  BY LenProperties, EmptySeq, ElementOfSeq
<1>2. /\ front \in Seq(S)
      /\ Len(front) = IF 1 <= last - 1 THEN (last - 1) - 1 + 1 ELSE 0
      /\ \A i \in 1 .. (last - 1) - 1 + 1 : front[i] = q[1 + i - 1]
  <2>1. 1 \in Int /\ last - 1 \in Int /\ \A i \in 1 .. last - 1 : q[i] \in S
    BY <1>1
  <2> HIDE DEF last
  <2>2. QED
    BY <2>1, SubSeqProperties
<1> HIDE DEF last, front
<1>3. /\ DOMAIN front = 1 .. last - 1
      /\ \A i \in 1 .. last - 1 : front[i] = q[i]
  <2>1. Len(front) = last - 1
    BY <1>1, <1>2
  <2>2. DOMAIN front = 1 .. last - 1
    BY <1>2, <2>1, LenProperties
  <2>3. \A i \in 1 .. last - 1 : i \in 1 .. (last - 1) - 1 + 1 /\ 1 + i - 1 = i
    BY <1>1
  <2>4. QED
    BY <1>2, <2>2, <2>3
<1>4. q[last] \in Range(q)
  BY <1>1 DEF Range
<1>5. ASSUME IsInjective(q)
      PROVE  IsInjective(front) /\ Range(front) = Range(q) \ {q[last]}
  <2>1. IsInjective(front)
    BY <1>1, <1>3, <1>5 DEF IsInjective
  <2>2. Range(front) \subseteq Range(q) \ {q[last]}
    BY <1>1, <1>3, <1>5 DEF Range, IsInjective
  <2>3. ASSUME NEW e \in Range(q) \ {q[last]}
        PROVE  e \in Range(front)
    <3>1. PICK i \in 1 .. last : q[i] = e
      BY <1>1 DEF Range
    <3>2. i \in 1 .. last - 1
      BY <1>1, <3>1
    <3>3. QED
      BY <1>3, <3>1, <3>2 DEF Range
  <2>4. QED
    BY <2>1, <2>2, <2>3
<1>6. QED
  BY <1>2, <1>4, <1>5 DEF last, front

\* The empty queue.
LEMMA EmptyQueue ==
    /\ \A S : <<>> \in Seq(S)
    /\ Range(<<>>) = {}
    /\ IsInjective(<<>>)
<1>1. DOMAIN <<>> = {}
  OBVIOUS
<1>2. QED
  BY <1>1 DEF Range, IsInjective

-----------------------------------------------------------------------------
(* Identifiers.                                                            *)

\* Job ids are numbered without repetition, and the id spaces of agents,
\* children and the root do not meet.
LEMMA Identifiers ==
    /\ \A m, n \in Int : AgentId(m) = AgentId(n) => m = n
    /\ \A m, n \in Int : WorkflowId(m) = WorkflowId(n) => m = n
    /\ AgentIds \cap WorkflowIds = {}
    /\ Root \notin AgentIds \cup WorkflowIds
    /\ None \notin Activities
    /\ \A n \in 0 .. Calls - 1 : AgentId(n) \in AgentIds
    /\ \A n \in 0 .. Children - 1 : WorkflowId(n) \in WorkflowIds
  BY CallBounds DEF AgentId, WorkflowId, AgentIds, WorkflowIds, Root, None, Mains, Activities

\* The id host_start hands out next has never been handed out.
LEMMA NextAgentId ==
    ASSUME TypeOK, next_agent_job < Calls
    PROVE  /\ AgentId(next_agent_job) \in AgentIds
           /\ AgentId(next_agent_job) \in Promises \cap Activities
           /\ next_agent_job + 1 \in 0 .. Calls
  BY CallBounds, Identifiers DEF TypeOK, Promises, Activities

LEMMA NextWorkflowId ==
    ASSUME TypeOK, next_workflow_job < Children
    PROVE  /\ WorkflowId(next_workflow_job) \in WorkflowIds
           /\ WorkflowId(next_workflow_job) \in Promises \cap Activities
           /\ next_workflow_job + 1 \in 0 .. Children
  BY CallBounds, Identifiers DEF TypeOK, Promises, Mains, Activities

-----------------------------------------------------------------------------
(* Type correctness of the runtime's functions.                            *)

LEMMA SettleTypes ==
    ASSUME RuntimeTypeOK,
           NEW id, NEW status \in [Activities -> Statuses], NEW queue \in Seq(Activities),
           Settle(id, status, queue)
    PROVE  /\ jobs' \in Seq(Activities)
           /\ act' \in [Activities -> Statuses]
           /\ waits' \in [Activities -> SUBSET Promises]
           /\ resolvers' \in SUBSET Promises
<1>1. Woken(id) # {} => (CHOOSE a \in Woken(id) : TRUE) \in Activities
  BY DEF Woken
<1>2. jobs' \in Seq(Activities)
  <2>1. CASE Woken(id) = {}
    BY <2>1 DEF Settle
  <2>2. CASE Woken(id) # {}
    BY <1>1, <2>2, AppendQueue DEF Settle
  <2>3. QED
    BY <2>1, <2>2
<1>3. act' \in [Activities -> Statuses]
  BY DEF Settle, Statuses
<1>4. waits' \in [Activities -> SUBSET Promises]
  BY DEF Settle, RuntimeTypeOK
<1>5. QED
  BY <1>2, <1>3, <1>4 DEF Settle, RuntimeTypeOK

LEMMA DeliverTypes ==
    ASSUME RuntimeTypeOK, NEW id \in Promises, Deliver(id)
    PROVE  RuntimeTypeOK'
<1>1. CASE id \in resolvers
  <2>1. /\ Settle(id, act, jobs)
        /\ UNCHANGED <<running, nested, activeChildren, done, error>>
    BY <1>1 DEF Deliver
  <2>2. act \in [Activities -> Statuses] /\ jobs \in Seq(Activities)
    BY DEF RuntimeTypeOK
  <2>3. /\ jobs' \in Seq(Activities)
        /\ act' \in [Activities -> Statuses]
        /\ waits' \in [Activities -> SUBSET Promises]
        /\ resolvers' \in SUBSET Promises
    BY <2>1, <2>2, SettleTypes
  <2>4. QED
    BY <2>1, <2>3 DEF RuntimeTypeOK
<1>2. CASE id \notin resolvers
  BY <1>2 DEF Deliver, runtimeVars, RuntimeTypeOK
<1>3. QED
  BY <1>1, <1>2

LEMMA StartChildTypes ==
    ASSUME RuntimeTypeOK, NEW id \in WorkflowIds, StartChild(id)
    PROVE  RuntimeTypeOK'
<1>1. id \in Activities
  BY DEF Activities, Mains
<1>2. CASE id \in resolvers
  <2>1. jobs' \in Seq(Activities)
    BY <1>1, <1>2, AppendQueue DEF StartChild, RuntimeTypeOK
  <2>2. act' \in [Activities -> Statuses]
    BY <1>2 DEF StartChild, RuntimeTypeOK, Statuses
  <2>3. QED
    BY <1>2, <2>1, <2>2 DEF StartChild, RuntimeTypeOK
<1>3. CASE id \notin resolvers
  BY <1>3 DEF StartChild, runtimeVars, RuntimeTypeOK
<1>4. QED
  BY <1>2, <1>3

LEMMA RegisterTypes ==
    ASSUME RuntimeTypeOK, NEW id \in Promises, NEW mode \in {"join", "then", "forget"},
           Register(id, mode),
           mode = "then" => id \in AgentIds
    PROVE  RuntimeTypeOK'
<1>1. waits' \in [Activities -> SUBSET Promises]
  <2>1. CASE mode = "join"
    BY <2>1 DEF Register, RuntimeTypeOK
  <2>2. CASE mode = "then"
    BY <2>2 DEF Register, RuntimeTypeOK
  <2>3. CASE mode = "forget"
    BY <2>3 DEF Register, RuntimeTypeOK
  <2>4. QED
    BY <2>1, <2>2, <2>3
<1>2. act' \in [Activities -> Statuses]
  BY DEF Register, RuntimeTypeOK, Statuses
<1>3. nested' \in SUBSET AgentIds
  BY DEF Register, RuntimeTypeOK
<1>4. QED
  BY <1>1, <1>2, <1>3 DEF Register, RuntimeTypeOK

\* The steps that take or end a job, all on the head of the context's queue
\* or on the running activity.
LEMMA JobTypes ==
    ASSUME RuntimeTypeOK,
           \/ BeginJob \/ (\E kind \in {"waiting", "racing"} : Await(kind)) \/ Hang
           \/ (\E how \in {"returned", "threw", "threwEmpty"} : Complete(how))
           \/ CatchRoot \/ RootDone \/ FinishChild
    PROVE  RuntimeTypeOK'
<1>1. CASE BeginJob
  <2>1. Head(jobs) \in Activities /\ Tail(jobs) \in Seq(Activities)
    BY <1>1, TailQueue DEF BeginJob, RuntimeTypeOK
  <2>2. QED
    BY <1>1, <2>1 DEF BeginJob, RuntimeTypeOK, Statuses
<1>2. ASSUME NEW kind \in {"waiting", "racing"}, Await(kind)
      PROVE  RuntimeTypeOK'
  <2>1. running \in Activities
    BY <1>2 DEF Await, RuntimeTypeOK
  <2>2. Append(jobs, running) \in Seq(Activities)
    BY <2>1, AppendQueue DEF RuntimeTypeOK
  <2>3. QED
    BY <1>2, <2>1, <2>2 DEF Await, RuntimeTypeOK, Statuses
<1>3. CASE Hang
  BY <1>3 DEF Hang, RuntimeTypeOK, Statuses
<1>4. ASSUME NEW how \in {"returned", "threw", "threwEmpty"}, Complete(how)
      PROVE  RuntimeTypeOK'
  <2>1. running \in Activities
    BY <1>4 DEF Complete, RuntimeTypeOK
  <2>2. Append(jobs, running) \in Seq(Activities)
    BY <2>1, AppendQueue DEF RuntimeTypeOK
  <2>3. QED
    BY <1>4, <2>1, <2>2 DEF Complete, RuntimeTypeOK, Statuses
<1>5. CASE CatchRoot
  <2>1. Root \in Activities /\ Tail(jobs) \in Seq(Activities)
    BY <1>5, TailQueue DEF CatchRoot, RuntimeTypeOK, Activities, Mains
  <2>2. Append(Tail(jobs), Root) \in Seq(Activities)
    BY <2>1, AppendQueue
  <2>3. error' \in {"none", "empty", "text"}
    BY <1>5 DEF CatchRoot, RuntimeTypeOK
  <2>4. QED
    BY <1>5, <2>1, <2>2, <2>3 DEF CatchRoot, RuntimeTypeOK, Statuses
<1>6. CASE RootDone
  <2>1. Root \in Activities /\ Tail(jobs) \in Seq(Activities)
    BY <1>6, TailQueue DEF RootDone, RuntimeTypeOK, Activities, Mains
  <2>2. QED
    BY <1>6, <2>1 DEF RootDone, RuntimeTypeOK, Statuses
<1>7. CASE FinishChild
  <2>1. Head(jobs) \in Activities /\ Tail(jobs) \in Seq(Activities)
    BY <1>7, TailQueue DEF FinishChild, RuntimeTypeOK
  <2>2. [act EXCEPT ![Head(jobs)] = "ended"] \in [Activities -> Statuses]
    BY DEF RuntimeTypeOK, Statuses
  <2>3. Settle(Head(jobs), [act EXCEPT ![Head(jobs)] = "ended"], Tail(jobs))
    BY <1>7 DEF FinishChild
  <2>4. /\ jobs' \in Seq(Activities)
        /\ act' \in [Activities -> Statuses]
        /\ waits' \in [Activities -> SUBSET Promises]
        /\ resolvers' \in SUBSET Promises
    BY <2>1, <2>2, <2>3, SettleTypes
  <2>5. activeChildren' \in Int
    BY <1>7 DEF FinishChild, RuntimeTypeOK
  <2>6. QED
    BY <1>7, <2>4, <2>5 DEF FinishChild, RuntimeTypeOK
<1>8. QED
  BY <1>1, <1>2, <1>3, <1>4, <1>5, <1>6, <1>7

-----------------------------------------------------------------------------
(* Type correctness of the pump.                                           *)

\* While the loop runs, _MAX_JS_JOBS has not been exceeded: the job that
\* exceeds it leaves the loop.
JobsWithinLimit == pc \in LoopPoints => total_js_jobs <= MaxJsJobs

TypeInv == TypeOK /\ JobsWithinLimit

LEMMA InitTypes == Init => TypeInv
<1>1. SUFFICES ASSUME Init PROVE TypeInv
  OBVIOUS
<1>2. Root \in Activities
  BY DEF Activities, Mains
<1>3. RuntimeTypeOK
  <2>1. jobs \in Seq(Activities)
    <3>1. jobs = Append(<<>>, Root)
      BY <1>1 DEF Init, RuntimeInit
    <3>2. QED
      BY <1>2, <3>1, AppendQueue, EmptyQueue
  <2>2. act \in [Activities -> Statuses]
    BY <1>1 DEF Init, RuntimeInit, Statuses
  <2>3. waits \in [Activities -> SUBSET Promises]
    BY <1>1 DEF Init, RuntimeInit
  <2>4. done \in BOOLEAN
    BY <1>1 DEF Init, RuntimeInit
  <2>5. /\ running \in Activities \cup {None}
        /\ resolvers \in SUBSET Promises
        /\ nested \in SUBSET AgentIds
        /\ activeChildren \in Int
        /\ error \in {"none", "empty", "text"}
    BY <1>1 DEF Init, RuntimeInit
  <2>6. QED
    BY <2>1, <2>2, <2>3, <2>4, <2>5 DEF RuntimeTypeOK
<1>4. TypeOK
  <2>1. /\ pending_agents \in Seq(AgentIds)
        /\ pending_workflows \in Seq(WorkflowJobs)
        /\ work_queue \in Seq(AgentIds)
        /\ done_q \in Seq(AgentIds)
        /\ inflight \in SUBSET AgentIds
        /\ workers \in SUBSET AgentIds
    BY <1>1, EmptyQueue DEF Init
  <2>2. /\ next_agent_job \in 0 .. Calls
        /\ next_workflow_job \in 0 .. Children
        /\ accepted_agents \in 0 .. MaxAgents
        /\ ran_jobs \in 0 .. JobBatch
        /\ total_js_jobs \in 0 .. MaxJsJobs + 1
    BY <1>1, CallBounds, PumpBounds DEF Init
  <2>3. /\ pc \in LoopPoints
        /\ outcome \in Outcomes
        /\ progress \in BOOLEAN
        /\ cancelled \in BOOLEAN
    BY <1>1 DEF Init, LoopPoints, Outcomes
  <2>4. QED
    BY <1>3, <2>1, <2>2, <2>3 DEF TypeOK
<1>5. QED
  BY <1>1, <1>4, PumpBounds DEF Init, TypeInv, JobsWithinLimit

\* A job that ends is counted; the pump's other state is left alone.
LEMMA CountJobTypes ==
    ASSUME TypeInv, RuntimeTypeOK', CountJob
    PROVE  TypeInv'
<1>1. total_js_jobs <= MaxJsJobs
  BY DEF CountJob, TypeInv, JobsWithinLimit, LoopPoints
<1>2. total_js_jobs' \in 0 .. MaxJsJobs + 1 /\ ran_jobs' \in 0 .. JobBatch
  BY <1>1, PumpBounds DEF CountJob, TypeInv, TypeOK
<1>3. CASE total_js_jobs + 1 > MaxJsJobs
  BY <1>2, <1>3 DEF CountJob, TypeInv, TypeOK, JobsWithinLimit, LoopPoints, Outcomes,
     queueVars, counterVars
<1>4. CASE ~ (total_js_jobs + 1 > MaxJsJobs)
  BY <1>2, <1>4, PumpBounds DEF CountJob, TypeInv, TypeOK, JobsWithinLimit, LoopPoints, Outcomes,
     queueVars, counterVars
<1>5. QED
  BY <1>3, <1>4

LEMMA ScriptTypes ==
    ASSUME TypeInv, Script
    PROVE  TypeInv'
<1> USE DEF TypeInv
<1>1. CASE PickJob
  <2>1. RuntimeTypeOK'
    BY <1>1, JobTypes DEF PickJob, TypeOK
  <2>2. QED
    BY <1>1, <2>1 DEF PickJob, TypeOK, JobsWithinLimit, queueVars, counterVars, loopVars, endVars
<1>2. ASSUME NEW mode \in {"join", "then"}, AgentAccepted(mode)
      PROVE  TypeInv'
  <2>1. RuntimeTypeOK'
    BY <1>2, NextAgentId, RegisterTypes DEF AgentAccepted, TakeAgentJob, TypeOK
  <2>2. pending_agents' \in Seq(AgentIds)
    BY <1>2, NextAgentId, AppendQueue DEF AgentAccepted, TakeAgentJob, TypeOK
  <2>3. next_agent_job' \in 0 .. Calls
    BY <1>2, NextAgentId DEF AgentAccepted, TakeAgentJob
  <2>4. accepted_agents' \in 0 .. MaxAgents
    BY <1>2, PumpBounds DEF AgentAccepted, TypeOK
  <2>5. QED
    BY <1>2, <2>1, <2>2, <2>3, <2>4
    DEF AgentAccepted, TypeOK, JobsWithinLimit, loopVars, endVars
<1>3. ASSUME NEW mode \in {"join", "then"}, AgentAnsweredAtOnce(mode)
      PROVE  TypeInv'
  <2>1. RuntimeTypeOK'
    BY <1>3, NextAgentId, RegisterTypes DEF AgentAnsweredAtOnce, TakeAgentJob, TypeOK
  <2>2. done_q' \in Seq(AgentIds)
    BY <1>3, NextAgentId, AppendQueue DEF AgentAnsweredAtOnce, TakeAgentJob, TypeOK
  <2>3. next_agent_job' \in 0 .. Calls
    BY <1>3, NextAgentId DEF AgentAnsweredAtOnce, TakeAgentJob
  <2>4. QED
    BY <1>3, <2>1, <2>2, <2>3
    DEF AgentAnsweredAtOnce, TypeOK, JobsWithinLimit, loopVars, endVars
<1>4. ASSUME NEW mode \in {"join", "forget"}, NEW plan \in Plans, WorkflowCalled(mode, plan)
      PROVE  TypeInv'
  <2>1. RuntimeTypeOK'
    BY <1>4, NextWorkflowId, RegisterTypes DEF WorkflowCalled, TypeOK
  <2>2. [id |-> WorkflowId(next_workflow_job), plan |-> plan] \in WorkflowJobs
    BY <1>4, NextWorkflowId DEF WorkflowCalled, WorkflowJobs
  <2>3. pending_workflows' \in Seq(WorkflowJobs)
    BY <1>4, <2>2, AppendQueue DEF WorkflowCalled, TypeOK
  <2>4. next_workflow_job' \in 0 .. Children
    BY <1>4, NextWorkflowId DEF WorkflowCalled
  <2>5. QED
    BY <1>4, <2>1, <2>3, <2>4
    DEF WorkflowCalled, TypeOK, JobsWithinLimit, loopVars, endVars
<1>5. ASSUME ProgramEnds \/ JobAwaits \/ JobHangs \/ CatchJob \/ DoneJob \/ ChildJob
      PROVE  TypeInv'
  <2>1. CountJob
    BY <1>5 DEF ProgramEnds, JobAwaits, JobHangs, CatchJob, DoneJob, ChildJob
  <2>2. RuntimeTypeOK'
    BY <1>5, JobTypes
    DEF ProgramEnds, JobAwaits, JobHangs, CatchJob, DoneJob, ChildJob, TypeOK
  <2>3. QED
    BY <2>1, <2>2, CountJobTypes
<1>6. QED
  BY <1>1, <1>2, <1>3, <1>4, <1>5 DEF Script

LEMMA LoopTypes ==
    ASSUME TypeInv, Loop
    PROVE  TypeInv'
<1> USE DEF TypeInv
<1>1. CASE \/ JobsExhausted \/ AgentsStarted \/ ReadyDelivered \/ WorkflowsStarted \/ ReadWait
           \/ ReadFailed \/ ReadFinished \/ ReadStalled
  BY <1>1
  DEF JobsExhausted, AgentsStarted, ReadyDelivered, WorkflowsStarted, ReadWait,
      ReadFailed, ReadFinished, ReadStalled, Leave, TypeOK, RuntimeTypeOK, JobsWithinLimit,
      LoopPoints, Outcomes, runtimeVars, queueVars, counterVars, loopVars, endVars
<1>2. CASE StartAgent
  <2>1. /\ Head(pending_agents) \in AgentIds
        /\ Tail(pending_agents) \in Seq(AgentIds)
    BY <1>2, TailQueue DEF StartAgent, TypeOK
  <2>2. work_queue' \in Seq(AgentIds)
    BY <1>2, <2>1, AppendQueue DEF StartAgent, TypeOK
  <2>3. QED
    BY <1>2, <2>1, <2>2
    DEF StartAgent, TypeOK, RuntimeTypeOK, JobsWithinLimit, runtimeVars, counterVars, endVars
<1>3. ASSUME DeliverHead
      PROVE  /\ RuntimeTypeOK'
             /\ done_q' \in Seq(AgentIds)
             /\ inflight' \in SUBSET AgentIds
  <2>1. Head(done_q) \in AgentIds /\ Tail(done_q) \in Seq(AgentIds)
    BY <1>3, TailQueue DEF DeliverHead, TypeOK
  <2>2. RuntimeTypeOK'
    BY <1>3, <2>1, DeliverTypes DEF DeliverHead, TypeOK, Promises
  <2>3. QED
    BY <1>3, <2>1, <2>2 DEF DeliverHead, TypeOK
<1>4. CASE DeliverReady
  BY <1>3, <1>4 DEF DeliverReady, DeliverHead, TypeOK, JobsWithinLimit, counterVars, endVars
<1>5. CASE StartWorkflow
  <2>1. /\ Head(pending_workflows) \in WorkflowJobs
        /\ Tail(pending_workflows) \in Seq(WorkflowJobs)
    BY <1>5, TailQueue DEF StartWorkflow, TypeOK
  <2>2. Head(pending_workflows).id \in WorkflowIds
    BY <2>1 DEF WorkflowJobs
  <2>3. RuntimeTypeOK'
    BY <1>5, <2>2, StartChildTypes, DeliverTypes DEF StartWorkflow, TypeOK, Promises
  <2>4. QED
    BY <1>5, <2>1, <2>3
    DEF StartWorkflow, TypeOK, JobsWithinLimit, counterVars, endVars
<1>6. ASSUME NextTurn, pc \in LoopPoints, RuntimeTypeOK',
             done_q' \in Seq(AgentIds), inflight' \in SUBSET AgentIds,
             UNCHANGED <<pending_agents, pending_workflows, work_queue, workers>>
      PROVE  TypeInv'
  <2>1. ran_jobs' \in 0 .. JobBatch /\ total_js_jobs' \in 0 .. MaxJsJobs + 1
    BY <1>6, PumpBounds DEF NextTurn, TypeOK
  <2>2. progress' \in BOOLEAN
    BY <1>6 DEF NextTurn
  <2>3. pc' \in LoopPoints /\ JobsWithinLimit'
    BY <1>6 DEF NextTurn, JobsWithinLimit, LoopPoints
  <2>4. QED
    BY <1>6, <2>1, <2>2, <2>3 DEF NextTurn, TypeOK, counterVars, endVars
<1>7. CASE ReadContinue \/ WaitTimeout
  <2>1. /\ NextTurn /\ UNCHANGED <<runtimeVars, queueVars>> /\ pc \in LoopPoints
    BY <1>7 DEF ReadContinue, WaitTimeout, LoopPoints
  <2>2. RuntimeTypeOK'
    BY <2>1 DEF TypeOK, RuntimeTypeOK, runtimeVars
  <2>3. QED
    BY <1>6, <2>1, <2>2 DEF TypeOK, queueVars
<1>8. CASE WaitGet
  <2>1. DeliverHead /\ NextTurn /\ pc \in LoopPoints
    BY <1>8 DEF WaitGet, LoopPoints
  <2>2. UNCHANGED <<pending_agents, pending_workflows, work_queue, workers>>
    BY <2>1 DEF DeliverHead
  <2>3. QED
    BY <1>3, <1>6, <2>1, <2>2
<1>9. QED
  BY <1>1, <1>2, <1>4, <1>5, <1>7, <1>8 DEF Loop

LEMMA OtherTypes ==
    ASSUME TypeInv, Exit \/ Failure \/ Workers \/ UNCHANGED vars
    PROVE  TypeInv'
<1> USE DEF TypeInv
<1>1. CASE Cancel \/ Join \/ Fault
  BY <1>1
  DEF Cancel, Join, Fault, Leave, TypeOK, RuntimeTypeOK, JobsWithinLimit, LoopPoints, Outcomes,
      runtimeVars, queueVars, counterVars, loopVars, endVars
<1>2. CASE Shutdown
  <2>1. done_q' \in Seq(AgentIds) /\ work_queue' \in Seq(AgentIds)
    <3>1. Tracked(work_queue) \in Seq(AgentIds)
      BY FrontQueue DEF Tracked, TypeOK
    <3>2. QED
      BY <1>2, <3>1, ConcatQueue, EmptyQueue DEF Shutdown, TypeOK
  <2>2. QED
    BY <1>2, <2>1
    DEF Shutdown, TypeOK, RuntimeTypeOK, JobsWithinLimit, LoopPoints, runtimeVars, counterVars,
        loopVars, endVars
<1>3. CASE WorkerBegin
  <2>1. Head(work_queue) \in AgentIds /\ Tail(work_queue) \in Seq(AgentIds)
    BY <1>3, TailQueue DEF WorkerBegin, TypeOK
  <2>2. QED
    BY <1>3, <2>1
    DEF WorkerBegin, TypeOK, RuntimeTypeOK, JobsWithinLimit, runtimeVars, counterVars,
        loopVars, endVars
<1>4. ASSUME NEW id \in AgentIds, WorkerReturn(id)
      PROVE  TypeInv'
  <2>1. done_q' \in Seq(AgentIds)
    BY <1>4, AppendQueue DEF WorkerReturn, TypeOK
  <2>2. QED
    BY <1>4, <2>1
    DEF WorkerReturn, TypeOK, RuntimeTypeOK, JobsWithinLimit, runtimeVars, counterVars,
        loopVars, endVars
<1>5. CASE UNCHANGED vars
  BY <1>5
  DEF vars, TypeOK, RuntimeTypeOK, JobsWithinLimit, runtimeVars, queueVars, counterVars,
      loopVars, endVars
<1>6. CASE SubmitFails
  <2>1. /\ Head(pending_agents) \in AgentIds
        /\ pending_agents' \in Seq(AgentIds) /\ work_queue' \in Seq(AgentIds)
    <3>1. Head(pending_agents) \in AgentIds /\ Tail(pending_agents) \in Seq(AgentIds)
      BY <1>6, TailQueue DEF SubmitFails, TypeOK
    <3>2. Append(work_queue, Head(pending_agents)) \in Seq(AgentIds)
      BY <3>1, AppendQueue DEF TypeOK
    <3>3. QED
      BY <1>6, <3>1, <3>2 DEF SubmitFails, TypeOK
  <2>2. QED
    BY <1>6, <2>1
    DEF SubmitFails, Raise, TypeOK, RuntimeTypeOK, JobsWithinLimit, LoopPoints, Outcomes,
        runtimeVars, counterVars, loopVars
<1>7. CASE DeliveryFails
  <2>1. done_q' \in Seq(AgentIds) /\ inflight' \in SUBSET AgentIds
    BY <1>7, TailQueue DEF DeliveryFails, TypeOK
  <2>2. QED
    BY <1>7, <2>1
    DEF DeliveryFails, Raise, TypeOK, RuntimeTypeOK, JobsWithinLimit, LoopPoints, Outcomes,
        runtimeVars, counterVars, loopVars
<1>8. CASE WorkflowFails
  <2>1. pending_workflows' \in Seq(WorkflowJobs)
    BY <1>8, TailQueue DEF WorkflowFails, TypeOK
  <2>2. QED
    BY <1>8, <2>1
    DEF WorkflowFails, Raise, TypeOK, RuntimeTypeOK, JobsWithinLimit, LoopPoints, Outcomes,
        runtimeVars, counterVars, loopVars
<1>9. QED
  BY <1>1, <1>2, <1>3, <1>4, <1>5, <1>6, <1>7, <1>8 DEF Exit, Failure, Workers

\* Every reachable state of the pump is well typed: counters stay within their
\* limits, queues hold only ids of their kind.
THEOREM TypeCorrect == Spec => [](TypeOK /\ JobsWithinLimit)
<1>1. Init => TypeInv
  BY InitTypes
<1>2. TypeInv /\ [Next]_vars => TypeInv'
  BY ScriptTypes, LoopTypes, OtherTypes DEF Next, MainThread, Terminated
<1>3. QED
  BY <1>1, <1>2, PTL DEF Spec, TypeInv

-----------------------------------------------------------------------------
(* Conservation of agent completions, and the in-flight bound.             *)

\* Job ids are unused from next_agent_job on.
IdsNumbered == \A n \in 0 .. Calls - 1 : AgentId(n) \in resolvers => n < next_agent_job

\* Where the unanswered calls are, until an exception in the middle of a submission
\* or a delivery loses track of one: each is in one place, and what the pool holds is
\* in flight.
OnePlace ==
    /\ IsInjective(pending_agents) /\ IsInjective(work_queue) /\ IsInjective(done_q)
    /\ Range(pending_agents) \cap (Range(work_queue) \cup workers \cup Range(done_q)) = {}
    /\ Range(work_queue) \cap (workers \cup Range(done_q)) = {}
    /\ workers \cap Range(done_q) = {}

Pool == Range(work_queue) \cup workers
Placed == Range(pending_agents) \cup Pool \cup Range(done_q)

AllPlaced == OnePlace /\ Placed = resolvers \cap AgentIds

CapKept ==
    /\ Cardinality(inflight) <= Concurrency
    /\ inflight \subseteq resolvers \ Range(pending_agents)

AllTracked == CapKept /\ Pool \subseteq inflight

CarryInv == IdsNumbered /\ AllPlaced /\ AllTracked

\* After it: the one call is nowhere, or in the pool without being in flight, queued
\* last if it is queued.
Nowhere(id) ==
    /\ Placed = (resolvers \cap AgentIds) \ {id}
    /\ Pool \subseteq inflight

Untracked(id) ==
    /\ Placed = resolvers \cap AgentIds
    /\ id \in Pool /\ Pool \ {id} \subseteq inflight
    /\ Cardinality(inflight \cup {id}) <= Concurrency
    /\ id \in Range(work_queue) => work_queue[Len(work_queue)] = id

OneLost(id) ==
    /\ OnePlace /\ CapKept
    /\ id \in resolvers \cap AgentIds /\ id \notin inflight
    /\ Nowhere(id) \/ Untracked(id)

Broken == pc \notin LoopPoints /\ outcome = "fault" /\ \E id : OneLost(id)

\* The inductive invariant.
CarryKept == CarryInv \/ Broken

carrierVars ==
    <<pending_agents, work_queue, workers, done_q, inflight, next_agent_job>>

\* A step that moves no completion and settles no agent() promise.
LEMMA CarryFrame ==
    ASSUME TypeOK, CarryInv, UNCHANGED carrierVars,
           resolvers' \cap AgentIds = resolvers \cap AgentIds
    PROVE  CarryInv'
<1> USE DEF OnePlace, Placed, Pool, CapKept
<1>1. IdsNumbered'
  BY Identifiers DEF CarryInv, IdsNumbered, carrierVars
<1>2. AllPlaced'
  BY DEF CarryInv, AllPlaced, carrierVars
<1>3. AllTracked'
  <2>1. inflight \subseteq AgentIds
    BY DEF TypeOK
  <2>2. inflight' \subseteq resolvers'
    BY <2>1 DEF CarryInv, AllTracked, carrierVars
  <2>3. QED
    BY <2>2 DEF CarryInv, AllTracked, carrierVars
<1>4. QED
  BY <1>1, <1>2, <1>3 DEF CarryInv

LEMMA InflightFinite ==
    ASSUME TypeOK
    PROVE  IsFiniteSet(inflight) /\ IsFiniteSet(AgentIds)
<1>1. IsFiniteSet(0 .. Calls - 1)
  BY CallBounds, FS_Interval
<1>2. IsFiniteSet(AgentIds)
  <2> DEFINE number == [n \in 0 .. Calls - 1 |-> AgentId(n)]
  <2>1. number \in Surjection(0 .. Calls - 1, AgentIds)
    BY DEF Surjection, AgentIds
  <2>2. QED
    BY <1>1, <2>1, FS_Surjection
<1>3. inflight \subseteq AgentIds
  BY DEF TypeOK
<1>4. QED
  BY <1>2, <1>3, FS_Subset

\* host_start: a fresh id enters pending_agents or done_q.
LEMMA CarryNewCall ==
    ASSUME TypeOK, CarryInv, NEW mode, TakeAgentJob(mode),
           UNCHANGED <<inflight, work_queue, workers>>,
           \/ /\ pending_agents' = Append(pending_agents, AgentId(next_agent_job))
              /\ done_q' = done_q
           \/ /\ done_q' = Append(done_q, AgentId(next_agent_job))
              /\ pending_agents' = pending_agents
    PROVE  CarryInv'
<1> USE DEF OnePlace, Placed, Pool, CapKept
<1> DEFINE id == AgentId(next_agent_job)
<1>1. id \in AgentIds /\ next_agent_job \in Nat /\ next_agent_job <= Calls - 1
  BY NextAgentId, CallBounds DEF TakeAgentJob, TypeOK
<1>2. id \notin resolvers
  BY <1>1 DEF CarryInv, IdsNumbered
<1>3. /\ resolvers' = resolvers \cup {id}
      /\ next_agent_job' = next_agent_job + 1
  BY DEF TakeAgentJob, Register
<1>4. /\ id \notin Range(pending_agents) /\ id \notin Range(done_q)
      /\ id \notin Range(work_queue) /\ id \notin workers /\ id \notin inflight
  BY <1>1, <1>2 DEF CarryInv, AllPlaced, AllTracked
<1>5. /\ Range(Append(pending_agents, id)) = Range(pending_agents) \cup {id}
      /\ IsInjective(Append(pending_agents, id))
      /\ Range(Append(done_q, id)) = Range(done_q) \cup {id}
      /\ IsInjective(Append(done_q, id))
  BY <1>1, <1>4, AppendQueue DEF TypeOK, CarryInv, AllPlaced
<1>6. IdsNumbered'
  <2>1. SUFFICES ASSUME NEW n \in 0 .. Calls - 1, AgentId(n) \in resolvers \cup {id}
                 PROVE  n < next_agent_job + 1
    BY <1>3 DEF IdsNumbered
  <2>2. CASE AgentId(n) \in resolvers
    <3>1. n < next_agent_job
      BY <2>2 DEF CarryInv, IdsNumbered
    <3>2. QED
      BY <1>1, <3>1
  <2>3. CASE AgentId(n) = id
    <3>1. n = next_agent_job
      BY <1>1, <2>3, Identifiers
    <3>2. QED
      BY <1>1, <3>1
  <2>4. QED
    BY <2>1, <2>2, <2>3
<1>7. AllPlaced'
  <2>1. CASE /\ pending_agents' = Append(pending_agents, id)
             /\ done_q' = done_q
    <3>1. /\ Range(pending_agents') = Range(pending_agents) \cup {id}
          /\ IsInjective(pending_agents')
      BY <1>5, <2>1
    <3>2. QED
      BY <1>1, <1>3, <1>4, <2>1, <3>1 DEF CarryInv, AllPlaced
  <2>2. CASE /\ done_q' = Append(done_q, id)
             /\ pending_agents' = pending_agents
    <3>1. /\ Range(done_q') = Range(done_q) \cup {id}
          /\ IsInjective(done_q')
      BY <1>5, <2>2
    <3>2. QED
      BY <1>1, <1>3, <1>4, <2>2, <3>1 DEF CarryInv, AllPlaced
  <2>3. QED
    BY <2>1, <2>2
<1>8. AllTracked'
  BY <1>3, <1>4, <1>5 DEF CarryInv, AllTracked
<1>9. QED
  BY <1>6, <1>7, <1>8 DEF CarryInv

\* start_agents_upto_cap: the oldest accepted call is submitted.
LEMMA CarryStart ==
    ASSUME TypeOK, CarryInv, StartAgent
    PROVE  CarryInv'
<1> USE DEF OnePlace, Placed, Pool, CapKept
<1> DEFINE id == Head(pending_agents)
<1>1. /\ id \in AgentIds /\ id \in Range(pending_agents)
      /\ IsInjective(Tail(pending_agents))
      /\ Range(Tail(pending_agents)) = Range(pending_agents) \ {id}
  BY TailQueue DEF StartAgent, TypeOK, CarryInv, AllPlaced
<1>2. id \notin Range(work_queue) /\ id \notin workers /\ id \notin Range(done_q)
  BY <1>1 DEF CarryInv, AllPlaced
<1>3. /\ Range(Append(work_queue, id)) = Range(work_queue) \cup {id}
      /\ IsInjective(Append(work_queue, id))
  BY <1>1, <1>2, AppendQueue DEF TypeOK, CarryInv, AllPlaced
<1>4. /\ resolvers' = resolvers
      /\ next_agent_job' = next_agent_job
      /\ inflight' = inflight \cup {id}
      /\ work_queue' = Append(work_queue, id)
      /\ pending_agents' = Tail(pending_agents)
      /\ workers' = workers /\ done_q' = done_q
  BY DEF StartAgent, runtimeVars, counterVars
<1>5. IdsNumbered'
  BY <1>4 DEF CarryInv, IdsNumbered
<1>6. AllPlaced'
  BY <1>1, <1>2, <1>3, <1>4 DEF CarryInv, AllPlaced
<1>7. Cardinality(inflight') <= Concurrency
  <2>1. Cardinality(inflight) < Concurrency
    BY DEF StartAgent
  <2>2. /\ Cardinality(inflight) \in Nat
        /\ Cardinality(inflight \cup {id}) \in {Cardinality(inflight), Cardinality(inflight) + 1}
    BY InflightFinite, FS_AddElement, FS_CardinalityType
  <2>3. QED
    BY <1>4, <2>1, <2>2, PumpBounds
<1>8. id \in resolvers
  BY <1>1 DEF CarryInv, AllPlaced
<1>9. AllTracked'
  BY <1>1, <1>3, <1>4, <1>7, <1>8 DEF CarryInv, AllTracked
<1>10. QED
  BY <1>5, <1>6, <1>9 DEF CarryInv

\* deliver_agent: the oldest completion settles its promise and is forgotten.
LEMMA CarryDeliver ==
    ASSUME TypeOK, CarryInv, DeliverHead
    PROVE  CarryInv'
<1> USE DEF OnePlace, Placed, Pool, CapKept
<1> DEFINE id == Head(done_q)
<1>1. /\ id \in AgentIds /\ id \in Range(done_q)
      /\ IsInjective(Tail(done_q))
      /\ Range(Tail(done_q)) = Range(done_q) \ {id}
  BY TailQueue DEF DeliverHead, TypeOK, CarryInv, AllPlaced
<1>2. id \notin Range(pending_agents) \cup Range(work_queue) \cup workers
  BY <1>1 DEF CarryInv, AllPlaced
<1>3. id \in resolvers
  BY <1>1 DEF CarryInv, AllPlaced
<1>4. /\ resolvers' = resolvers \ {id}
      /\ next_agent_job' = next_agent_job
      /\ inflight' = inflight \ {id}
      /\ done_q' = Tail(done_q)
      /\ pending_agents' = pending_agents
      /\ work_queue' = work_queue /\ workers' = workers
  BY <1>3 DEF DeliverHead, Deliver, Settle, counterVars
<1>5. IdsNumbered'
  BY <1>4 DEF CarryInv, IdsNumbered
<1>6. AllPlaced'
  BY <1>1, <1>2, <1>4 DEF CarryInv, AllPlaced
<1>7. Cardinality(inflight') <= Concurrency
  <2>1. /\ Cardinality(inflight) \in Nat
        /\ Cardinality(inflight \ {id}) <= Cardinality(inflight)
    BY InflightFinite, FS_Subset, FS_CardinalityType
  <2>2. Cardinality(inflight \ {id}) \in Nat
    BY InflightFinite, FS_RemoveElement, FS_CardinalityType
  <2>3. QED
    BY <1>4, <2>1, <2>2, PumpBounds DEF CarryInv, AllTracked
<1>8. AllTracked'
  BY <1>2, <1>4, <1>7 DEF CarryInv, AllTracked
<1>9. QED
  BY <1>5, <1>6, <1>8 DEF CarryInv

\* The pool: a worker takes the oldest future, reports its completion, or the
\* shutdown cancels every future still queued.
LEMMA CarryPool ==
    ASSUME TypeOK, CarryInv, Workers \/ Shutdown
    PROVE  CarryInv'
<1> USE DEF OnePlace, Placed, Pool, CapKept
<1>1. CASE WorkerBegin
  <2> DEFINE id == Head(work_queue)
  <2>1. /\ id \in Range(work_queue)
        /\ IsInjective(Tail(work_queue))
        /\ Range(Tail(work_queue)) = Range(work_queue) \ {id}
    BY <1>1, TailQueue DEF WorkerBegin, TypeOK, CarryInv, AllPlaced
  <2>2. /\ workers' = workers \cup {id} /\ work_queue' = Tail(work_queue)
        /\ UNCHANGED <<resolvers, next_agent_job, pending_agents, inflight, done_q>>
    BY <1>1 DEF WorkerBegin, runtimeVars, counterVars
  <2>3. QED
    BY <2>1, <2>2 DEF CarryInv, IdsNumbered, AllPlaced, AllTracked
<1>2. ASSUME NEW id \in AgentIds, WorkerReturn(id)
      PROVE  CarryInv'
  <2>1. id \in workers /\ id \notin Range(done_q) /\ id \in inflight
    BY <1>2 DEF WorkerReturn, CarryInv, AllPlaced, AllTracked
  <2>2. /\ Range(Append(done_q, id)) = Range(done_q) \cup {id}
        /\ IsInjective(Append(done_q, id))
    BY <1>2, <2>1, AppendQueue DEF TypeOK, CarryInv, AllPlaced
  <2>3. /\ workers' = workers \ {id} /\ done_q' = Append(done_q, id)
        /\ UNCHANGED <<resolvers, next_agent_job, pending_agents, inflight, work_queue>>
    BY <1>2, <2>1 DEF WorkerReturn, runtimeVars, counterVars
  <2>4. QED
    BY <2>1, <2>2, <2>3 DEF CarryInv, IdsNumbered, AllPlaced, AllTracked
<1>3. CASE Shutdown
  <2>1. /\ Range(done_q \o work_queue) = Range(done_q) \cup Range(work_queue)
        /\ IsInjective(done_q \o work_queue)
    BY ConcatQueue DEF TypeOK, CarryInv, AllPlaced
  <2>2. Tracked(work_queue) = work_queue
    BY FrontQueue DEF Tracked, TypeOK, CarryInv, AllTracked
  <2>3. /\ work_queue' = <<>> /\ done_q' = done_q \o work_queue
        /\ UNCHANGED <<resolvers, next_agent_job, pending_agents, inflight, workers>>
    BY <1>3, <2>2 DEF Shutdown, runtimeVars, counterVars
  <2>4. QED
    BY <2>1, <2>3, EmptyQueue
    DEF CarryInv, IdsNumbered, AllPlaced, AllTracked
<1>4. QED
  BY <1>1, <1>2, <1>3 DEF Workers

\* Every other step leaves the completions where they are.
LEMMA CarryOther ==
    ASSUME TypeOK, CarryInv,
           \/ PickJob
           \/ \E mode \in {"join", "forget"}, plan \in Plans : WorkflowCalled(mode, plan)
           \/ ProgramEnds \/ JobAwaits \/ JobHangs \/ CatchJob \/ DoneJob \/ ChildJob
           \/ JobsExhausted \/ AgentsStarted \/ ReadyDelivered \/ WorkflowsStarted
           \/ StartWorkflow \/ ReadFailed \/ ReadFinished \/ ReadContinue \/ ReadWait
           \/ ReadStalled \/ WaitTimeout \/ Fault \/ WorkflowFails \/ Cancel \/ Join
           \/ UNCHANGED vars
    PROVE  CarryInv'
<1>1. CASE \/ PickJob \/ ProgramEnds \/ JobAwaits \/ JobHangs \/ CatchJob \/ DoneJob
  <2>1. UNCHANGED <<carrierVars, resolvers>>
    BY <1>1
    DEF PickJob, ProgramEnds, JobAwaits, JobHangs, CatchJob, DoneJob, CountJob, BeginJob, Await,
        Hang, Complete, CatchRoot, RootDone, carrierVars, queueVars, counterVars
  <2>2. QED
    BY <2>1, CarryFrame
<1>2. ASSUME NEW mode, NEW plan, WorkflowCalled(mode, plan)
      PROVE  CarryInv'
  <2>1. WorkflowId(next_workflow_job) \notin AgentIds
    BY <1>2, NextWorkflowId, Identifiers DEF WorkflowCalled
  <2>2. resolvers' \cap AgentIds = resolvers \cap AgentIds
    BY <1>2, <2>1 DEF WorkflowCalled, Register
  <2>3. UNCHANGED carrierVars
    BY <1>2 DEF WorkflowCalled, carrierVars
  <2>4. QED
    BY <2>2, <2>3, CarryFrame
<1>3. CASE ChildJob
  <2>1. Head(jobs) \notin AgentIds
    BY <1>3, Identifiers DEF ChildJob, FinishChild
  <2>2. resolvers' \cap AgentIds = resolvers \cap AgentIds
    BY <1>3, <2>1 DEF ChildJob, FinishChild, Settle
  <2>3. UNCHANGED carrierVars
    BY <1>3 DEF ChildJob, CountJob, carrierVars, queueVars, counterVars
  <2>4. QED
    BY <2>2, <2>3, CarryFrame
<1>4. CASE StartWorkflow
  <2> DEFINE id == Head(pending_workflows).id
  <2>1. Head(pending_workflows) \in WorkflowJobs
    BY <1>4, TailQueue DEF StartWorkflow, TypeOK
  <2>2. id \notin AgentIds
    BY <2>1, Identifiers DEF WorkflowJobs
  <2>3. StartChild(id) \/ Deliver(id)
    BY <1>4 DEF StartWorkflow
  <2>4. resolvers' \cap AgentIds = resolvers \cap AgentIds
    BY <2>2, <2>3 DEF StartChild, Deliver, Settle, runtimeVars
  <2>5. UNCHANGED carrierVars
    BY <1>4 DEF StartWorkflow, carrierVars, counterVars
  <2>6. QED
    BY <2>4, <2>5, CarryFrame
<1>5. CASE \/ JobsExhausted \/ AgentsStarted \/ ReadyDelivered \/ WorkflowsStarted \/ ReadFailed
           \/ ReadFinished \/ ReadContinue \/ ReadWait \/ ReadStalled \/ WaitTimeout \/ Fault
           \/ Cancel \/ Join \/ UNCHANGED vars
  <2>1. UNCHANGED <<carrierVars, resolvers>>
    BY <1>5
    DEF JobsExhausted, AgentsStarted, ReadyDelivered, WorkflowsStarted, ReadFailed, ReadFinished,
        ReadContinue, ReadWait, ReadStalled, WaitTimeout, NextTurn, Fault, Cancel, Join, Leave,
        vars, carrierVars, runtimeVars, queueVars, counterVars
  <2>2. QED
    BY <2>1, CarryFrame
<1>6. CASE WorkflowFails
  <2>1. UNCHANGED <<carrierVars, resolvers>>
    BY <1>6 DEF WorkflowFails, Raise, carrierVars, runtimeVars, counterVars
  <2>2. QED
    BY <2>1, CarryFrame
<1>7. QED
  BY <1>1, <1>2, <1>3, <1>4, <1>5, <1>6

\* pool.submit raises: the oldest accepted call is in no queue, or last in the pool's.
LEMMA SubmitLoses ==
    ASSUME TypeOK, CarryInv, SubmitFails, NEW id, id = Head(pending_agents)
    PROVE  OneLost(id)'
<1> USE DEF OnePlace, Placed, Pool, CapKept
<1>1. /\ id \in AgentIds /\ id \in Range(pending_agents)
      /\ IsInjective(Tail(pending_agents))
      /\ Range(Tail(pending_agents)) = Range(pending_agents) \ {id}
  BY TailQueue DEF SubmitFails, TypeOK, CarryInv, AllPlaced
<1>2. /\ id \notin Range(work_queue) /\ id \notin workers /\ id \notin Range(done_q)
      /\ id \in resolvers /\ id \notin inflight
  BY <1>1 DEF CarryInv, AllPlaced, AllTracked
<1>3. /\ Range(Append(work_queue, id)) = Range(work_queue) \cup {id}
      /\ IsInjective(Append(work_queue, id))
  BY <1>1, <1>2, AppendQueue DEF TypeOK, CarryInv, AllPlaced
<1>4. Append(work_queue, id)[Len(Append(work_queue, id))] = id
  BY <1>1, AppendProperties DEF TypeOK
<1>5. /\ UNCHANGED <<resolvers, inflight, workers, done_q>>
      /\ pending_agents' = Tail(pending_agents)
      /\ work_queue' \in {work_queue, Append(work_queue, id)}
  BY DEF SubmitFails, Raise, runtimeVars
<1>6. Cardinality(inflight \cup {id}) <= Concurrency
  <2>1. Cardinality(inflight) < Concurrency
    BY DEF SubmitFails
  <2>2. /\ Cardinality(inflight) \in Nat
        /\ Cardinality(inflight \cup {id}) \in {Cardinality(inflight), Cardinality(inflight) + 1}
    BY InflightFinite, FS_AddElement, FS_CardinalityType
  <2>3. QED
    BY <2>1, <2>2, PumpBounds
<1>7. CapKept'
  BY <1>1, <1>5 DEF CarryInv, AllTracked
<1>8. CASE work_queue' = work_queue
  <2>1. OnePlace'
    BY <1>1, <1>5, <1>8 DEF CarryInv, AllPlaced
  <2>2. Nowhere(id)'
    BY <1>1, <1>2, <1>5, <1>8 DEF CarryInv, AllPlaced, AllTracked, Nowhere
  <2>3. QED
    BY <1>1, <1>2, <1>5, <1>7, <2>1, <2>2 DEF OneLost
<1>9. CASE work_queue' = Append(work_queue, id)
  <2>1. OnePlace'
    BY <1>1, <1>2, <1>3, <1>5, <1>9 DEF CarryInv, AllPlaced
  <2>2. Untracked(id)'
    <3>1. Placed' = resolvers' \cap AgentIds
      BY <1>1, <1>3, <1>5, <1>9 DEF CarryInv, AllPlaced
    <3>2. id \in Pool' /\ Pool' \ {id} \subseteq inflight'
      BY <1>3, <1>5, <1>9 DEF CarryInv, AllTracked
    <3>3. QED
      BY <1>4, <1>5, <1>6, <1>9, <3>1, <3>2 DEF Untracked
  <2>3. QED
    BY <1>1, <1>2, <1>5, <1>7, <2>1, <2>2 DEF OneLost
<1>10. QED
  BY <1>5, <1>8, <1>9

\* The delivery raises: the oldest completion has been read and is nowhere.
LEMMA DeliveryLoses ==
    ASSUME TypeOK, CarryInv, DeliveryFails, NEW id, id = Head(done_q)
    PROVE  OneLost(id)'
<1> USE DEF OnePlace, Placed, Pool, CapKept
<1>1. /\ id \in AgentIds /\ id \in Range(done_q)
      /\ IsInjective(Tail(done_q))
      /\ Range(Tail(done_q)) = Range(done_q) \ {id}
  BY TailQueue DEF DeliveryFails, TypeOK, CarryInv, AllPlaced
<1>2. id \notin Range(pending_agents) \cup Range(work_queue) \cup workers
  BY <1>1 DEF CarryInv, AllPlaced
<1>3. id \in resolvers
  BY <1>1 DEF CarryInv, AllPlaced
<1>4. /\ UNCHANGED <<resolvers, pending_agents, work_queue, workers>>
      /\ inflight' = inflight \ {id}
      /\ done_q' = Tail(done_q)
  BY DEF DeliveryFails, Raise, runtimeVars
<1>5. Cardinality(inflight') <= Concurrency
  <2>1. /\ Cardinality(inflight) \in Nat
        /\ Cardinality(inflight \ {id}) <= Cardinality(inflight)
    BY InflightFinite, FS_Subset, FS_CardinalityType
  <2>2. Cardinality(inflight \ {id}) \in Nat
    BY InflightFinite, FS_RemoveElement, FS_CardinalityType
  <2>3. QED
    BY <1>4, <2>1, <2>2, PumpBounds DEF CarryInv, AllTracked
<1>6. OnePlace' /\ CapKept'
  BY <1>1, <1>4, <1>5 DEF CarryInv, AllPlaced, AllTracked
<1>7. Nowhere(id)'
  BY <1>1, <1>2, <1>4 DEF CarryInv, AllPlaced, AllTracked, Nowhere
<1>8. QED
  BY <1>1, <1>3, <1>4, <1>6, <1>7 DEF OneLost

\* The pool is emptied with the one call lost: if it was in the pool, it leaves
\* without a completion.
LEMMA LostPool ==
    ASSUME TypeOK, NEW lost, OneLost(lost), Workers \/ Shutdown
    PROVE  OneLost(lost)'
<1> USE DEF OnePlace, Placed, Pool, CapKept
<1>1. CASE WorkerBegin
  <2> DEFINE id == Head(work_queue)
  <2>1. /\ id \in Range(work_queue)
        /\ IsInjective(Tail(work_queue))
        /\ Range(Tail(work_queue)) = Range(work_queue) \ {id}
    BY <1>1, TailQueue DEF WorkerBegin, TypeOK, OneLost
  <2>2. /\ workers' = workers \cup {id} /\ work_queue' = Tail(work_queue)
        /\ UNCHANGED <<resolvers, pending_agents, inflight, done_q>>
    BY <1>1 DEF WorkerBegin, runtimeVars
  <2>3. OnePlace' /\ CapKept' /\ Pool' = Pool /\ Placed' = Placed
    BY <2>1, <2>2 DEF OneLost
  <2>4. ASSUME Untracked(lost)
        PROVE  Untracked(lost)'
    <3>1. ASSUME lost \in Range(Tail(work_queue))
          PROVE  Tail(work_queue)[Len(Tail(work_queue))] = lost
      <4>1. work_queue \in Seq(AgentIds) /\ work_queue # <<>>
        BY <1>1 DEF WorkerBegin, TypeOK
      <4>2. /\ Len(Tail(work_queue)) = Len(work_queue) - 1
            /\ Tail(work_queue) \in Seq(AgentIds)
            /\ \A i \in 1 .. Len(Tail(work_queue)) : Tail(work_queue)[i] = work_queue[i + 1]
        BY <4>1, HeadTailProperties
      <4>3. Tail(work_queue) # <<>>
        BY <3>1, EmptyQueue
      <4>4. /\ Len(Tail(work_queue)) \in Nat /\ Len(Tail(work_queue)) > 0
            /\ Len(work_queue) \in Nat
        BY <4>1, <4>2, <4>3, LenProperties, EmptySeq
      <4>5. Tail(work_queue)[Len(Tail(work_queue))] = work_queue[Len(work_queue)]
        BY <4>2, <4>4
      <4>6. QED
        BY <2>1, <2>4, <3>1, <4>5 DEF Untracked
    <3>2. QED
      BY <2>2, <2>3, <2>4, <3>1 DEF Untracked
  <2>5. Nowhere(lost) => Nowhere(lost)'
    BY <2>2, <2>3 DEF Nowhere
  <2>6. QED
    BY <2>2, <2>3, <2>4, <2>5 DEF OneLost
<1>2. ASSUME NEW id \in AgentIds, WorkerReturn(id)
      PROVE  OneLost(lost)'
  <2>1. /\ id \in workers /\ id \notin Range(done_q) /\ id \notin Range(work_queue)
        /\ id \notin Range(pending_agents)
        /\ workers' = workers \ {id}
        /\ UNCHANGED <<resolvers, pending_agents, inflight, work_queue>>
    BY <1>2 DEF WorkerReturn, OneLost, runtimeVars
  <2>2. CASE id \in inflight
    <3>1. /\ Range(Append(done_q, id)) = Range(done_q) \cup {id}
          /\ IsInjective(Append(done_q, id))
      BY <2>1, AppendQueue DEF TypeOK, OneLost
    <3>2. done_q' = Append(done_q, id) /\ id # lost
      BY <1>2, <2>2 DEF WorkerReturn, OneLost
    <3>3. OnePlace' /\ CapKept' /\ Pool' = Pool \ {id} /\ Placed' = Placed
      BY <2>1, <3>1, <3>2 DEF OneLost
    <3>4. /\ Nowhere(lost) => Nowhere(lost)'
          /\ Untracked(lost) => Untracked(lost)'
      BY <2>1, <3>2, <3>3 DEF Nowhere, Untracked
    <3>5. QED
      BY <2>1, <3>3, <3>4 DEF OneLost
  <2>3. CASE id \notin inflight
    <3>1. done_q' = done_q
      BY <1>2, <2>3 DEF WorkerReturn
    <3>2. id = lost /\ Untracked(lost)
      BY <2>1, <2>3 DEF OneLost, Nowhere, Untracked
    <3>3. OnePlace' /\ CapKept' /\ Pool' = Pool \ {lost} /\ Placed' = Placed \ {lost}
      BY <2>1, <3>1, <3>2 DEF OneLost
    <3>4. Nowhere(lost)'
      BY <2>1, <3>2, <3>3 DEF Nowhere, Untracked
    <3>5. QED
      BY <2>1, <3>3, <3>4 DEF OneLost
  <2>4. QED
    BY <2>2, <2>3
<1>3. CASE Shutdown
  <2> DEFINE queue == Tracked(work_queue)
  <2>1. /\ queue \in Seq(AgentIds) /\ IsInjective(queue)
        /\ Range(queue) = Range(work_queue) \ {lost}
    <3>1. CASE work_queue # <<>> /\ work_queue[Len(work_queue)] \notin inflight
      <4>1. work_queue[Len(work_queue)] = lost
        BY <3>1, FrontQueue DEF TypeOK, OneLost, Nowhere, Untracked
      <4>2. queue = SubSeq(work_queue, 1, Len(work_queue) - 1)
        BY <3>1 DEF Tracked
      <4>3. QED
        BY <3>1, <4>1, <4>2, FrontQueue DEF TypeOK, OneLost
    <3>2. CASE ~ (work_queue # <<>> /\ work_queue[Len(work_queue)] \notin inflight)
      <4>1. queue = work_queue
        BY <3>2 DEF Tracked
      <4>2. lost \notin Range(work_queue)
        BY <3>2, EmptyQueue DEF OneLost, Nowhere, Untracked
      <4>3. QED
        BY <4>1, <4>2 DEF TypeOK, OneLost
    <3>3. QED
      BY <3>1, <3>2
  <2>2. /\ Range(done_q \o queue) = Range(done_q) \cup Range(queue)
        /\ IsInjective(done_q \o queue)
    BY <2>1, ConcatQueue DEF TypeOK, OneLost
  <2>3. /\ work_queue' = <<>> /\ done_q' = done_q \o queue
        /\ UNCHANGED <<resolvers, pending_agents, inflight, workers>>
    BY <1>3 DEF Shutdown, runtimeVars
  <2> HIDE DEF queue
  <2>4. OnePlace' /\ CapKept'
    BY <2>1, <2>2, <2>3, EmptyQueue DEF OneLost
  <2>5. Pool' = workers /\ Placed' = Placed \ (Range(work_queue) \cap {lost})
    BY <2>1, <2>2, <2>3, EmptyQueue DEF OneLost
  <2>6. CASE lost \in Range(work_queue)
    <3>1. Untracked(lost) /\ lost \notin workers
      BY <2>6 DEF OneLost, Nowhere
    <3>2. Nowhere(lost)'
      BY <2>3, <2>5, <2>6, <3>1 DEF Nowhere, Untracked
    <3>3. QED
      BY <2>3, <2>4, <3>2 DEF OneLost
  <2>7. CASE lost \notin Range(work_queue)
    <3>1. /\ Nowhere(lost) => Nowhere(lost)'
          /\ Untracked(lost) => Untracked(lost)'
      BY <2>3, <2>5, <2>7, EmptyQueue DEF Nowhere, Untracked
    <3>2. QED
      BY <2>3, <2>4, <3>1 DEF OneLost
  <2>8. QED
    BY <2>6, <2>7
<1>4. QED
  BY <1>1, <1>2, <1>3 DEF Workers

\* Only the exit path and the workers move once the loop has been left.
LEMMA LeftSteps ==
    ASSUME pc \notin LoopPoints, [Next]_vars
    PROVE  /\ \/ Cancel \/ Shutdown \/ Join \/ Workers
              \/ UNCHANGED vars
           /\ pc' \notin LoopPoints /\ outcome' = outcome
<1>1. ~Failure
  BY PumpBounds
  DEF Failure, Fault, SubmitFails, DeliveryFails, WorkflowFails, LoopPoints
<1>2. ~Script
  BY DEF Script, PickJob, AgentAccepted, AgentAnsweredAtOnce, TakeAgentJob, WorkflowCalled,
         ProgramEnds, JobAwaits, JobHangs, CatchJob, DoneJob, ChildJob, CountJob, LoopPoints
<1>3. ~Loop
  BY DEF Loop, JobsExhausted, StartAgent, AgentsStarted, DeliverReady, ReadyDelivered,
         StartWorkflow, WorkflowsStarted, ReadFailed, ReadFinished, ReadContinue, ReadWait,
         ReadStalled, WaitGet, WaitTimeout, LoopPoints
<1>4. Cancel \/ Shutdown \/ Join \/ Workers \/ UNCHANGED vars
  BY <1>1, <1>2, <1>3 DEF Next, MainThread, Exit, Terminated
<1>5. pc' \notin LoopPoints /\ outcome' = outcome
  BY <1>4
  DEF Cancel, Shutdown, Join, Workers, WorkerBegin, WorkerReturn, vars, endVars, LoopPoints
<1>6. QED
  BY <1>4, <1>5

LEMMA BrokenStep ==
    ASSUME TypeOK, Broken, [Next]_vars
    PROVE  Broken'
<1>1. PICK lost : OneLost(lost)
  BY DEF Broken
<1>2. /\ pc \notin LoopPoints /\ outcome = "fault"
      /\ pc' \notin LoopPoints /\ outcome' = "fault"
      /\ Cancel \/ Shutdown \/ Join \/ Workers \/ UNCHANGED vars
  BY LeftSteps DEF Broken
<1>3. CASE Cancel \/ Join \/ UNCHANGED vars
  <2>1. UNCHANGED <<carrierVars, resolvers>>
    BY <1>3 DEF Cancel, Join, vars, carrierVars, runtimeVars, queueVars, counterVars
  <2>2. OneLost(lost)'
    BY <1>1, <2>1
    DEF carrierVars, OneLost, Nowhere, Untracked, OnePlace, Placed, Pool, CapKept
  <2>3. QED
    BY <1>2, <2>2 DEF Broken
<1>4. CASE Workers \/ Shutdown
  <2>1. OneLost(lost)'
    BY <1>1, <1>4, LostPool
  <2>2. QED
    BY <1>2, <2>1 DEF Broken
<1>5. QED
  BY <1>2, <1>3, <1>4

\* Every other step keeps all the calls.
LEMMA CarryWhole ==
    ASSUME TypeOK, CarryInv, [Next]_vars, ~ SubmitFails, ~ DeliveryFails
    PROVE  CarryInv'
<1>1. ASSUME NEW mode, AgentAccepted(mode) \/ AgentAnsweredAtOnce(mode)
      PROVE  CarryInv'
  BY <1>1, CarryNewCall DEF AgentAccepted, AgentAnsweredAtOnce
<1>2. CASE DeliverReady \/ WaitGet
  BY <1>2, CarryDeliver DEF DeliverReady, WaitGet
<1>3. QED
  BY <1>1, <1>2, CarryStart, CarryPool, CarryOther
  DEF Next, MainThread, Script, Loop, Exit, Failure, Terminated

LEMMA CarryStep ==
    ASSUME TypeOK, CarryKept, [Next]_vars
    PROVE  CarryKept'
<1>1. CASE Broken
  BY <1>1, BrokenStep DEF CarryKept
<1>2. CASE CarryInv /\ (SubmitFails \/ DeliveryFails)
  <2>1. pc' \notin LoopPoints /\ outcome' = "fault"
    BY <1>2 DEF SubmitFails, DeliveryFails, Raise, LoopPoints
  <2>2. \E id : OneLost(id)'
    BY <1>2, SubmitLoses, DeliveryLoses
  <2>3. QED
    BY <2>1, <2>2 DEF CarryKept, Broken
<1>3. CASE CarryInv /\ ~ SubmitFails /\ ~ DeliveryFails
  BY <1>3, CarryWhole DEF CarryKept
<1>4. QED
  BY <1>1, <1>2, <1>3 DEF CarryKept

LEMMA CarryInit == Init => CarryInv
<1> USE DEF OnePlace, Placed, Pool, CapKept
<1>1. SUFFICES ASSUME Init PROVE CarryInv
  OBVIOUS
<1>2. IdsNumbered
  BY <1>1 DEF Init, RuntimeInit, IdsNumbered
<1>3. AllPlaced
  BY <1>1, EmptyQueue DEF Init, RuntimeInit, AllPlaced
<1>4. AllTracked
  BY <1>1, EmptyQueue, FS_EmptySet, PumpBounds DEF Init, AllTracked
<1>5. QED
  BY <1>2, <1>3, <1>4 DEF CarryInv

LEMMA CarryAlways == Spec => []CarryKept
<1>1. Spec => []TypeOK
  BY TypeCorrect, PTL
<1>2. TypeOK /\ CarryKept /\ [Next]_vars => CarryKept'
  BY CarryStep
<1>3. Init => CarryKept
  BY CarryInit DEF CarryKept
<1>4. QED
  BY <1>1, <1>2, <1>3, PTL DEF Spec

\* No completion is lost or delivered twice: at any moment each unanswered
\* agent() call is in exactly one of the pump's queues or on one worker, but for
\* the one an exception in the middle of its submission or delivery loses track of.
THEOREM CompletionsAreConserved == Spec => []CompletionsConserved
<1>1. CarryKept => CompletionsConserved
  BY DEF CarryKept, CarryInv, AllPlaced, Broken, OneLost, Nowhere, Untracked, OnePlace, Placed,
         Pool, CompletionsConserved
<1>2. QED
  BY <1>1, CarryAlways, PTL

\* The pool never holds more than Concurrency agents, nor one the cap did not admit.
THEOREM InflightIsBounded == Spec => []InflightBounded
<1>1. ASSUME TypeOK, CarryKept
      PROVE  InflightBounded
  <2>1. CASE CarryInv
    BY <2>1 DEF CarryInv, AllTracked, CapKept, Pool, InflightBounded
  <2>2. ASSUME NEW lost, OneLost(lost), outcome = "fault"
        PROVE  InflightBounded
    <3>1. CASE Pool \subseteq inflight
      BY <2>2, <3>1 DEF OneLost, CapKept, Pool, InflightBounded
    <3>2. CASE Untracked(lost)
      <4>1. Cardinality(Pool) <= Concurrency
        <5>1. IsFiniteSet(inflight \cup {lost}) /\ Pool \subseteq inflight \cup {lost}
          BY <1>1, <3>2, InflightFinite, FS_AddElement DEF Untracked
        <5>2. /\ Cardinality(Pool) <= Cardinality(inflight \cup {lost})
              /\ Cardinality(Pool) \in Nat /\ Cardinality(inflight \cup {lost}) \in Nat
          BY <5>1, FS_Subset, FS_CardinalityType
        <5>3. QED
          BY <3>2, <5>2, PumpBounds DEF Untracked
      <4>2. QED
        BY <2>2, <3>2, <4>1 DEF OneLost, Untracked, CapKept, Pool, InflightBounded
    <3>3. QED
      BY <2>2, <3>1, <3>2 DEF OneLost, Nowhere
  <2>3. QED
    BY <1>1, <2>1, <2>2 DEF CarryKept, Broken
<1>2. Spec => []TypeOK
  BY TypeCorrect, PTL
<1>3. QED
  BY <1>1, <1>2, CarryAlways, PTL

-----------------------------------------------------------------------------
(* Leaving the loop.                                                       *)

\* The verdict is open exactly while the loop runs; on the way out the
\* executor has been asked to cancel exactly when the run has failed; once
\* the pool was shut down nothing is queued in it.
EndInv ==
    /\ outcome = "none" <=> pc \in LoopPoints
    /\ pc \in LoopPoints \cup {"cancel"} => ~cancelled
    /\ pc = "cancel" => outcome # "ok"
    /\ pc \in {"shutdown", "join", "ended"} => (cancelled <=> outcome # "ok")
    /\ pc \in {"join", "ended"} => work_queue = <<>>
    /\ pc = "ended" => workers = {}

LEMMA EndInit == Init => EndInv
  BY DEF Init, EndInv, LoopPoints

\* The steps of the loop stay in it or leave it with a verdict.
LEMMA EndLoop ==
    ASSUME TypeOK, EndInv, Script \/ Loop \/ Failure
    PROVE  EndInv'
<1>1. CASE PickJob
  BY <1>1 DEF PickJob, EndInv, LoopPoints, queueVars, endVars
<1>2. ASSUME NEW mode, AgentAccepted(mode) \/ AgentAnsweredAtOnce(mode)
      PROVE  EndInv'
  BY <1>2
  DEF AgentAccepted, AgentAnsweredAtOnce, TakeAgentJob, EndInv, LoopPoints, endVars
<1>3. ASSUME NEW mode, NEW plan, WorkflowCalled(mode, plan)
      PROVE  EndInv'
  BY <1>3 DEF WorkflowCalled, EndInv, LoopPoints, endVars
<1>4. CASE CountJob
  BY <1>4 DEF CountJob, EndInv, LoopPoints, queueVars
<1>5. CASE JobsExhausted \/ AgentsStarted \/ ReadyDelivered \/ WorkflowsStarted \/ ReadWait
  BY <1>5
  DEF JobsExhausted, AgentsStarted, ReadyDelivered, WorkflowsStarted, ReadWait, EndInv,
      LoopPoints, queueVars, endVars
<1>6. CASE StartAgent \/ DeliverReady \/ StartWorkflow
  BY <1>6
  DEF StartAgent, DeliverReady, DeliverHead, StartWorkflow, EndInv, LoopPoints, endVars
<1>7. CASE ReadContinue \/ WaitGet \/ WaitTimeout
  BY <1>7
  DEF ReadContinue, WaitGet, WaitTimeout, DeliverHead, NextTurn, EndInv, LoopPoints, endVars
<1>8. CASE ReadFailed \/ ReadFinished \/ ReadStalled \/ Failure
  <2>1. /\ pc \in LoopPoints
        /\ UNCHANGED <<workers, cancelled>>
        /\ \/ outcome' = "ok" /\ pc' = "shutdown"
           \/ outcome' \in {"script-error", "stalled", "fault"} /\ pc' = "cancel"
    BY <1>8, PumpBounds
    DEF ReadFailed, ReadFinished, ReadStalled, Failure, Fault, SubmitFails, DeliveryFails,
        WorkflowFails, Raise, Leave, LoopPoints, queueVars
  <2>2. QED
    BY <2>1 DEF EndInv, LoopPoints
<1>9. QED
  BY <1>1, <1>2, <1>3, <1>4, <1>5, <1>6, <1>7, <1>8
  DEF Script, Loop, ProgramEnds, JobAwaits, JobHangs, CatchJob, DoneJob, ChildJob

LEMMA EndStep ==
    ASSUME TypeOK, EndInv, [Next]_vars
    PROVE  EndInv'
<1>1. CASE Cancel
  BY <1>1 DEF Cancel, EndInv, LoopPoints, queueVars
<1>2. CASE Shutdown
  BY <1>2 DEF Shutdown, EndInv, LoopPoints, endVars
<1>3. CASE Join
  BY <1>3 DEF Join, EndInv, LoopPoints, queueVars, endVars
<1>4. CASE WorkerBegin
  BY <1>4 DEF WorkerBegin, EndInv, LoopPoints, endVars
<1>5. ASSUME NEW id \in AgentIds, WorkerReturn(id)
      PROVE  EndInv'
  BY <1>5 DEF WorkerReturn, EndInv, LoopPoints, endVars
<1>6. CASE UNCHANGED vars
  BY <1>6 DEF vars, EndInv, LoopPoints, queueVars, endVars
<1>7. QED
  BY <1>1, <1>2, <1>3, <1>4, <1>5, <1>6, EndLoop
  DEF Next, MainThread, Exit, Workers, Terminated

LEMMA EndAlways == Spec => []EndInv
<1>1. Spec => []TypeOK
  BY TypeCorrect, PTL
<1>2. TypeOK /\ EndInv /\ [Next]_vars => EndInv'
  BY EndStep
<1>3. QED
  BY <1>1, <1>2, EndInit, PTL DEF Spec

\* Whatever ends the pump, it returns with no agent queued or executing, and
\* only a run that fails asks its executor to cancel, before it joins the pool.
THEOREM AlwaysExitsClean == Spec => []ExitsClean
<1>1. EndInv => ExitsClean
  BY DEF EndInv, ExitsClean
<1>2. QED
  BY <1>1, EndAlways, PTL

LEMMA DecidedSteps ==
    ASSUME TypeOK, EndInv, outcome # "none", [Next]_vars
    PROVE  \/ Cancel \/ Shutdown \/ Join \/ Workers
           \/ UNCHANGED vars
<1>1. pc \notin LoopPoints
  BY DEF EndInv
<1>2. QED
  BY <1>1, LeftSteps

\* Once the outcome is decided the program is never resumed, the outcome is
\* not revised and no more work enters the pool (exit path of run_job_pump).
THEOREM DecidedStaysFinal == Spec => DecidedIsFinal
<1>1. ASSUME TypeOK, EndInv, [Next]_vars, outcome # "none"
      PROVE  /\ UNCHANGED <<runtimeVars, outcome, inflight, pending_agents>>
             /\ Range(work_queue') \subseteq Range(work_queue)
  <2>1. CASE Cancel \/ Join \/ UNCHANGED vars
    BY <2>1 DEF Cancel, Join, vars, queueVars, endVars
  <2>2. CASE Shutdown
    BY <2>2, EmptyQueue DEF Shutdown, endVars
  <2>3. CASE WorkerBegin
    <3>1. Range(Tail(work_queue)) \subseteq Range(work_queue)
      <4> work_queue \in Seq(AgentIds) /\ work_queue # <<>>
        BY <1>1, <2>3 DEF WorkerBegin, TypeOK
      <4>1. /\ Len(Tail(work_queue)) = Len(work_queue) - 1
            /\ Tail(work_queue) \in Seq(AgentIds)
            /\ \A i \in 1 .. Len(Tail(work_queue)) : Tail(work_queue)[i] = work_queue[i + 1]
        BY HeadTailProperties
      <4>2. /\ Len(work_queue) \in Nat
            /\ DOMAIN work_queue = 1 .. Len(work_queue)
            /\ DOMAIN Tail(work_queue) = 1 .. Len(work_queue) - 1
        BY <4>1, LenProperties
      <4>3. QED
        BY <4>1, <4>2 DEF Range
    <3>2. QED
      BY <2>3, <3>1 DEF WorkerBegin, endVars
  <2>4. ASSUME NEW id \in AgentIds, WorkerReturn(id)
        PROVE  /\ UNCHANGED <<runtimeVars, outcome, inflight, pending_agents>>
               /\ Range(work_queue') \subseteq Range(work_queue)
    BY <2>4 DEF WorkerReturn, endVars
  <2>5. QED
    BY <1>1, <2>1, <2>2, <2>3, <2>4, DecidedSteps DEF Workers
<1>2. Spec => []TypeOK
  BY TypeCorrect, PTL
<1>3. QED
  BY <1>1, <1>2, EndAlways, PTL DEF Spec, DecidedIsFinal

-----------------------------------------------------------------------------
(* The pump implements the life cycle of agent() calls.                    *)

\* What places a call: a step that keeps these keeps every call's stage.
stageVars == <<inflight, next_agent_job, accepted_agents, pending_agents>>

\* The stages of a run that has lost no call.
wholeStage ==
    [n \in 0 .. Calls - 1 |->
        IF n >= next_agent_job THEN "new"
        ELSE IF AgentId(n) \notin resolvers THEN "answered"
        ELSE IF AgentId(n) \in inflight THEN "working" ELSE "waiting"]

LEMMA WholeStages == CarryInv => callStage = wholeStage
<1>1. SUFFICES ASSUME CarryInv, NEW n \in 0 .. Calls - 1,
                      AgentId(n) \in resolvers, AgentId(n) \notin inflight
               PROVE  AgentId(n) \in Range(pending_agents) \cup Range(done_q)
  BY DEF callStage, wholeStage
<1>2. AgentId(n) \in Placed /\ AgentId(n) \notin Pool
  BY <1>1, Identifiers DEF CarryInv, AllPlaced, AllTracked
<1>3. QED
  BY <1>2 DEF Placed

LEMMA StagesKept ==
    ASSUME UNCHANGED stageVars, resolvers' \cap AgentIds = resolvers \cap AgentIds,
           \A n \in 0 .. Calls - 1 :
               AgentId(n) \notin inflight =>
                   (AgentId(n) \in Range(done_q') <=> AgentId(n) \in Range(done_q))
    PROVE  UNCHANGED <<callStage, startedCalls>>
<1>1. \A n \in 0 .. Calls - 1 : AgentId(n) \in resolvers' <=> AgentId(n) \in resolvers
  BY Identifiers
<1>2. callStage' = callStage
  BY <1>1 DEF callStage, stageVars
<1>3. QED
  BY <1>2 DEF startedCalls, stageVars

\* A call is unanswered exactly while its resolver is known, and worked on
\* while it is in flight.
LEMMA StageMeaning ==
    ASSUME TypeOK, CarryInv, NEW n \in 0 .. Calls - 1
    PROVE  /\ callStage[n] \in {"waiting", "working"} <=> AgentId(n) \in resolvers
           /\ callStage[n] = "working" <=> AgentId(n) \in inflight
           /\ callStage[n] = "new" <=> n >= next_agent_job
<1>1. AgentId(n) \in inflight => AgentId(n) \in resolvers
  BY DEF CarryInv, AllTracked, CapKept
<1>2. AgentId(n) \in resolvers => n < next_agent_job
  BY DEF CarryInv, IdsNumbered
<1>3. next_agent_job \in Int /\ n \in Int
  BY CallBounds DEF TypeOK
<1>4. QED
  BY <1>1, <1>2, <1>3, WholeStages DEF wholeStage

\* host_start hands out the next id: a program makes the next call.
LEMMA RefineMake ==
    ASSUME TypeOK, CarryInv, CarryInv', EndInv, NEW mode, TakeAgentJob(mode),
           UNCHANGED <<inflight, outcome, startedCalls>>
    PROVE  Lifecycle!Make(next_agent_job)
<1> DEFINE n == next_agent_job
<1>1. n \in 0 .. Calls - 1 /\ n \in Int
  BY CallBounds DEF TypeOK, TakeAgentJob
<1>2. outcome = "none"
  BY DEF EndInv, TakeAgentJob, LoopPoints
<1>3. callStage[n] = "new" /\ \A m \in 0 .. Calls - 1 : m < n => callStage[m] # "new"
  BY <1>1, StageMeaning
<1>4. /\ resolvers' = resolvers \cup {AgentId(n)}
      /\ next_agent_job' = n + 1
  BY DEF TakeAgentJob, Register
<1>5. AgentId(n) \notin inflight
  BY <1>1, <1>3, StageMeaning
<1>6. callStage = wholeStage /\ (callStage = wholeStage)'
  BY WholeStages, PTL
<1>7. callStage' = [callStage EXCEPT ![n] = "waiting"]
  <2>1. ASSUME NEW m \in 0 .. Calls - 1
        PROVE  /\ m = n => callStage'[m] = "waiting"
               /\ m # n => callStage'[m] = callStage[m]
    <3>1. m = n <=> AgentId(m) = AgentId(n)
      BY <1>1, Identifiers
    <3>2. m \in Int /\ (m # n => (m >= n + 1 <=> m >= n))
      BY <1>1
    <3>3. callStage'[m] = IF m >= n + 1 THEN "new"
                          ELSE IF AgentId(m) \notin resolvers' THEN "answered"
                          ELSE IF AgentId(m) \in inflight' THEN "working" ELSE "waiting"
      BY <1>4, <1>6 DEF wholeStage
    <3>4. callStage[m] = IF m >= n THEN "new"
                         ELSE IF AgentId(m) \notin resolvers THEN "answered"
                         ELSE IF AgentId(m) \in inflight THEN "working" ELSE "waiting"
      BY <1>6 DEF wholeStage
    <3>5. CASE m = n
      <4>1. ~ (m >= n + 1)
        BY <1>1, <3>5
      <4>2. QED
        BY <1>4, <1>5, <3>3, <3>5, <4>1
    <3>6. CASE m # n
      BY <1>4, <3>1, <3>2, <3>3, <3>4, <3>6
    <3>7. QED
      BY <3>5, <3>6
  <2>2. /\ callStage' = [m \in 0 .. Calls - 1 |-> callStage'[m]]
        /\ callStage = [m \in 0 .. Calls - 1 |-> callStage[m]]
    BY DEF callStage
  <2>3. QED
    BY <1>1, <2>1, <2>2
<1>8. QED
  BY <1>1, <1>2, <1>3, <1>7 DEF Lifecycle!Make, Lifecycle!Ids, verdict

\* The oldest accepted call leaves pending_agents: one more has been started, within
\* the budget, since it was charged when it was accepted.
LEMMA OneMoreStarted ==
    ASSUME TypeOK, pending_agents # <<>>,
           UNCHANGED accepted_agents, pending_agents' = Tail(pending_agents)
    PROVE  startedCalls < MaxAgents /\ startedCalls' = startedCalls + 1
<1>1. /\ Len(pending_agents) \in Nat /\ Len(pending_agents) > 0
      /\ Len(Tail(pending_agents)) = Len(pending_agents) - 1
  BY LenProperties, HeadTailProperties, EmptySeq DEF TypeOK
<1>2. accepted_agents \in Nat /\ accepted_agents <= MaxAgents
  BY PumpBounds DEF TypeOK
<1>3. /\ startedCalls = accepted_agents - Len(pending_agents)
      /\ startedCalls' = accepted_agents - Len(Tail(pending_agents))
  BY DEF startedCalls
<1>4. PICK queued \in Nat : queued = Len(pending_agents)
  BY <1>1
<1>5. /\ startedCalls = accepted_agents - queued
      /\ startedCalls' = accepted_agents - (queued - 1)
      /\ queued > 0
  BY <1>1, <1>3, <1>4
<1>6. /\ accepted_agents - queued < MaxAgents
      /\ accepted_agents - (queued - 1) = (accepted_agents - queued) + 1
  BY <1>2, <1>4, <1>5, PumpBounds
<1>7. QED
  BY <1>5, <1>6

\* start_agents_upto_cap submits the oldest call: a worker is given it, within
\* the cap, since the calls being worked on are those in flight, and within
\* the budget, since the call was charged when it was accepted.
LEMMA RefineBegin ==
    ASSUME TypeOK, CarryInv, CarryInv', EndInv, StartAgent
    PROVE  \E n \in Lifecycle!Ids : Lifecycle!Begin(n)
<1> USE DEF OnePlace, Placed, Pool, CapKept
<1> DEFINE id == Head(pending_agents)
<1>1. /\ id \in AgentIds /\ id \in Range(pending_agents)
      /\ pending_agents \in Seq(AgentIds) /\ pending_agents # <<>>
  BY TailQueue DEF StartAgent, TypeOK
<1>2. PICK n \in 0 .. Calls - 1 : id = AgentId(n)
  BY <1>1 DEF AgentIds
<1>3. outcome = "none"
  BY DEF EndInv, StartAgent, LoopPoints
<1>4. id \in resolvers /\ id \notin inflight
  BY <1>1 DEF CarryInv, AllPlaced, AllTracked
<1>5. callStage[n] = "waiting"
  BY <1>2, <1>4, StageMeaning
<1>6. Cardinality(Lifecycle!At("working")) < Concurrency
  <2> DEFINE working == {m \in 0 .. Calls - 1 : AgentId(m) \in inflight}
             number == [m \in working |-> AgentId(m)]
  <2>1. Lifecycle!At("working") = working
    BY StageMeaning DEF Lifecycle!At, Lifecycle!Ids
  <2>2. number \in Injection(working, inflight)
    <3>1. \A a, b \in working : number[a] = number[b] => a = b
      BY Identifiers
    <3>2. QED
      BY <3>1 DEF Injection, IsInjective
  <2>3. /\ IsFiniteSet(working)
        /\ Cardinality(working) <= Cardinality(inflight)
    BY <2>2, InflightFinite, FS_Injection
  <2>4. Cardinality(working) \in Nat /\ Cardinality(inflight) \in Nat
    BY <2>3, InflightFinite, FS_CardinalityType
  <2>5. QED
    <3>1. Cardinality(inflight) < Concurrency /\ Concurrency \in Nat
      BY PumpBounds DEF StartAgent
    <3>2. Cardinality(working) < Concurrency
      BY <2>3, <2>4, <3>1
    <3>3. QED
      BY <2>1, <3>2
<1>7. startedCalls < MaxAgents /\ startedCalls' = startedCalls + 1
  BY <1>1, OneMoreStarted DEF StartAgent, counterVars
<1>8. callStage' = [callStage EXCEPT ![n] = "working"]
  <2>1. /\ UNCHANGED <<resolvers, next_agent_job, outcome>>
        /\ inflight' = inflight \cup {id}
    BY DEF StartAgent, runtimeVars, counterVars, endVars
  <2>2. n < next_agent_job /\ ~ (n >= next_agent_job)
    <3>1. n < next_agent_job
      BY <1>2, <1>4 DEF CarryInv, IdsNumbered
    <3>2. QED
      BY <3>1, CallBounds DEF TypeOK
  <2>3. callStage = wholeStage /\ (callStage = wholeStage)'
    BY WholeStages, PTL
  <2>4. ASSUME NEW m \in 0 .. Calls - 1
        PROVE  /\ m = n => callStage'[m] = "working"
               /\ m # n => callStage'[m] = callStage[m]
    <3>1. m = n <=> AgentId(m) = id
      BY <1>2, Identifiers
    <3>2. QED
      BY <1>2, <1>4, <2>1, <2>2, <2>3, <3>1 DEF wholeStage
  <2>5. /\ callStage' = [m \in 0 .. Calls - 1 |-> callStage'[m]]
        /\ callStage = [m \in 0 .. Calls - 1 |-> callStage[m]]
    BY DEF callStage
  <2>6. QED
    BY <1>2, <2>4, <2>5
<1>9. verdict = "open" /\ verdict' = verdict
  BY <1>3 DEF verdict, StartAgent, endVars
<1>10. QED
  <2>1. Lifecycle!Begin(n)
    <3>1. \A S : Lifecycle!Cardinality(S) = Cardinality(S)
      BY DEF Lifecycle!Cardinality, Cardinality
    <3>2. QED
      BY <1>5, <1>6, <1>7, <1>8, <1>9, <3>1 DEF Lifecycle!Begin
  <2>2. QED
    BY <2>1 DEF Lifecycle!Ids

\* deliver_agent settles the promise of the oldest completion.
LEMMA RefineAnswer ==
    ASSUME TypeOK, CarryInv, CarryInv', EndInv, pc \in LoopPoints, DeliverHead
    PROVE  \E n \in Lifecycle!Ids : Lifecycle!Answer(n)
<1> USE DEF OnePlace, Placed, Pool, CapKept
<1> DEFINE id == Head(done_q)
<1>1. id \in AgentIds /\ id \in Range(done_q)
  BY TailQueue DEF DeliverHead, TypeOK
<1>2. PICK n \in 0 .. Calls - 1 : id = AgentId(n)
  BY <1>1 DEF AgentIds
<1>3. outcome = "none" /\ UNCHANGED outcome
  BY DEF EndInv, DeliverHead, endVars
<1>4. id \in resolvers
  BY <1>1 DEF CarryInv, AllPlaced
<1>5. callStage[n] \in {"waiting", "working"}
  BY <1>2, <1>4, StageMeaning
<1>6. /\ resolvers' = resolvers \ {id} /\ inflight' = inflight \ {id}
      /\ UNCHANGED <<next_agent_job, accepted_agents, pending_agents>>
  BY <1>4 DEF DeliverHead, Deliver, Settle, counterVars
<1>7. callStage' = [callStage EXCEPT ![n] = "answered"]
  <2>1. n < next_agent_job /\ ~ (n >= next_agent_job)
    <3>1. n < next_agent_job
      BY <1>2, <1>4 DEF CarryInv, IdsNumbered
    <3>2. QED
      BY <3>1, CallBounds DEF TypeOK
  <2>2. callStage = wholeStage /\ (callStage = wholeStage)'
    BY WholeStages, PTL
  <2>3. ASSUME NEW m \in 0 .. Calls - 1
        PROVE  /\ m = n => callStage'[m] = "answered"
               /\ m # n => callStage'[m] = callStage[m]
    <3>1. m = n <=> AgentId(m) = id
      BY <1>2, Identifiers
    <3>2. QED
      BY <1>2, <1>6, <2>1, <2>2, <3>1 DEF wholeStage
  <2>4. /\ callStage' = [m \in 0 .. Calls - 1 |-> callStage'[m]]
        /\ callStage = [m \in 0 .. Calls - 1 |-> callStage[m]]
    BY DEF callStage
  <2>5. QED
    BY <1>2, <2>3, <2>4
<1>8. startedCalls' = startedCalls
  BY <1>6 DEF startedCalls
<1>9. QED
  BY <1>2, <1>3, <1>5, <1>7, <1>8 DEF Lifecycle!Answer, Lifecycle!Ids, verdict

\* The exit test succeeds only when every call made has been answered.
LEMMA RefineEndWell ==
    ASSUME TypeOK, CarryInv, EndInv, ReadFinished
    PROVE  Lifecycle!EndWell
<1>1. outcome = "none" /\ outcome' = "ok" /\ UNCHANGED <<stageVars, resolvers, done_q>>
  BY DEF EndInv, ReadFinished, Leave, LoopPoints, stageVars, runtimeVars, queueVars, counterVars
<1>2. pending_agents = <<>> /\ inflight = {} /\ done_q = <<>>
  BY DEF ReadFinished, Finished
<1>3. resolvers \cap AgentIds = {}
  BY <1>2, EmptyQueue DEF CarryInv, AllPlaced, AllTracked, Placed, Pool
<1>4. Lifecycle!At("waiting") \cup Lifecycle!At("working") = {}
  BY <1>3, StageMeaning, Identifiers DEF Lifecycle!At, Lifecycle!Ids
<1>5. UNCHANGED <<callStage, startedCalls>>
  BY <1>1, StagesKept
<1>6. QED
  BY <1>1, <1>4, <1>5 DEF Lifecycle!EndWell, verdict

\* A step that settles no agent() promise either leaves the verdict alone or
\* ends the run badly.
LEMMA RefineQuiet ==
    ASSUME EndInv, UNCHANGED stageVars, resolvers' \cap AgentIds = resolvers \cap AgentIds,
           \/ CarryInv /\ CarryInv'
           \/ \A id \in AgentIds \ inflight : id \in Range(done_q') <=> id \in Range(done_q),
           \/ UNCHANGED outcome
           \/ /\ pc \in LoopPoints
              /\ outcome' \in {"script-error", "stalled", "too-many-jobs", "fault"}
    PROVE  [Lifecycle!LifecycleNext]_(Lifecycle!callVars)
<1>1. UNCHANGED <<callStage, startedCalls>>
  <2>1. CASE CarryInv /\ CarryInv'
    <3>1. callStage = wholeStage /\ (callStage = wholeStage)'
      BY <2>1, WholeStages, PTL
    <3>2. wholeStage' = wholeStage
      BY Identifiers DEF wholeStage, stageVars
    <3>3. QED
      BY <3>1, <3>2 DEF startedCalls, stageVars
  <2>2. CASE \A id \in AgentIds \ inflight : id \in Range(done_q') <=> id \in Range(done_q)
    BY <2>2, StagesKept, Identifiers
  <2>3. QED
    BY <2>1, <2>2
<1>2. CASE UNCHANGED outcome
  BY <1>1, <1>2 DEF verdict, Lifecycle!callVars
<1>3. CASE /\ pc \in LoopPoints
           /\ outcome' \in {"script-error", "stalled", "too-many-jobs", "fault"}
  BY <1>1, <1>3 DEF EndInv, verdict, Lifecycle!LifecycleNext, Lifecycle!EndBadly
<1>4. QED
  BY <1>2, <1>3

\* pool.submit raises: the run fails in the middle of the beginning of a call.
LEMMA RefineSubmitFails ==
    ASSUME TypeOK, CarryInv, EndInv, SubmitFails
    PROVE  \E n \in Lifecycle!Ids : Lifecycle!LoseOne(n)
<1> USE DEF OnePlace, Placed, Pool, CapKept
<1> DEFINE id == Head(pending_agents)
<1>1. /\ id \in AgentIds /\ id \in Range(pending_agents) /\ pending_agents # <<>>
      /\ Range(Tail(pending_agents)) = Range(pending_agents) \ {id}
  BY TailQueue DEF SubmitFails, TypeOK, CarryInv, AllPlaced
<1>2. PICK n \in 0 .. Calls - 1 : id = AgentId(n)
  BY <1>1 DEF AgentIds
<1>3. outcome = "none" /\ outcome' = "fault"
  BY DEF EndInv, SubmitFails, Raise, LoopPoints
<1>4. id \in resolvers /\ id \notin inflight /\ id \notin Range(done_q)
  BY <1>1 DEF CarryInv, AllPlaced, AllTracked
<1>5. callStage[n] = "waiting"
  BY <1>2, <1>4, StageMeaning
<1>6. /\ UNCHANGED <<resolvers, inflight, done_q, next_agent_job, accepted_agents>>
      /\ pending_agents' = Tail(pending_agents)
  BY DEF SubmitFails, Raise, runtimeVars, counterVars
<1>7. startedCalls < MaxAgents /\ startedCalls' = startedCalls + 1
  BY <1>1, <1>6, OneMoreStarted
<1>8. callStage' = [callStage EXCEPT ![n] = "lost"]
  <2>1. ~ (n >= next_agent_job)
    BY <1>2, <1>5, StageMeaning
  <2>2. ASSUME NEW m \in 0 .. Calls - 1
        PROVE  /\ m = n => callStage'[m] = "lost"
               /\ m # n => callStage'[m] = callStage[m]
    <3>1. m = n <=> AgentId(m) = id
      BY <1>2, Identifiers
    <3>2. QED
      BY <1>1, <1>2, <1>4, <1>6, <2>1, <3>1 DEF callStage
  <2>3. /\ callStage' = [m \in 0 .. Calls - 1 |-> callStage'[m]]
        /\ callStage = [m \in 0 .. Calls - 1 |-> callStage[m]]
    BY DEF callStage
  <2>4. QED
    BY <1>2, <2>2, <2>3
<1>9. verdict = "open" /\ verdict' = "failed"
  BY <1>3 DEF verdict
<1>10. QED
  BY <1>2, <1>5, <1>7, <1>8, <1>9 DEF Lifecycle!LoseOne, Lifecycle!Ids

\* The delivery raises: the run fails in the middle of the answer of a call.
LEMMA RefineDeliveryFails ==
    ASSUME TypeOK, CarryInv, EndInv, DeliveryFails
    PROVE  \E n \in Lifecycle!Ids : Lifecycle!LoseOne(n)
<1> USE DEF OnePlace, Placed, Pool, CapKept
<1> DEFINE id == Head(done_q)
<1>1. /\ id \in AgentIds /\ id \in Range(done_q)
      /\ Range(Tail(done_q)) = Range(done_q) \ {id}
  BY TailQueue DEF DeliveryFails, TypeOK, CarryInv, AllPlaced
<1>2. PICK n \in 0 .. Calls - 1 : id = AgentId(n)
  BY <1>1 DEF AgentIds
<1>3. outcome = "none" /\ outcome' = "fault"
  BY DEF EndInv, DeliveryFails, Raise, LoopPoints
<1>4. id \in resolvers /\ id \notin Range(pending_agents)
  BY <1>1 DEF CarryInv, AllPlaced
<1>5. callStage[n] \in {"waiting", "working"}
  BY <1>2, <1>4, StageMeaning
<1>6. /\ UNCHANGED <<resolvers, pending_agents, next_agent_job, accepted_agents>>
      /\ inflight' = inflight \ {id} /\ done_q' = Tail(done_q)
  BY DEF DeliveryFails, Raise, runtimeVars, counterVars
<1>7. callStage' = [callStage EXCEPT ![n] = "lost"]
  <2>1. ~ (n >= next_agent_job)
    BY <1>2, <1>5, StageMeaning
  <2>2. ASSUME NEW m \in 0 .. Calls - 1
        PROVE  /\ m = n => callStage'[m] = "lost"
               /\ m # n => callStage'[m] = callStage[m]
    <3>1. m = n <=> AgentId(m) = id
      BY <1>2, Identifiers
    <3>2. QED
      BY <1>1, <1>2, <1>4, <1>6, <2>1, <3>1 DEF callStage
  <2>3. /\ callStage' = [m \in 0 .. Calls - 1 |-> callStage'[m]]
        /\ callStage = [m \in 0 .. Calls - 1 |-> callStage[m]]
    BY DEF callStage
  <2>4. QED
    BY <1>2, <2>2, <2>3
<1>8. startedCalls' = startedCalls
  BY <1>6 DEF startedCalls
<1>9. verdict = "open" /\ verdict' = "failed"
  BY <1>3 DEF verdict
<1>10. QED
  BY <1>2, <1>5, <1>7, <1>8, <1>9 DEF Lifecycle!LoseOne, Lifecycle!Ids

\* The exit path and the workers report only calls that are in flight.
LEMMA RefineLeft ==
    ASSUME TypeOK, CarryKept, EndInv, pc \notin LoopPoints, [Next]_vars
    PROVE  [Lifecycle!LifecycleNext]_(Lifecycle!callVars)
<1>1. Pool \subseteq inflight \/ \E lost : Untracked(lost)
  BY DEF CarryKept, CarryInv, AllTracked, Broken, OneLost, Nowhere
<1>2. \A id \in AgentIds \ inflight : id \in Range(done_q') <=> id \in Range(done_q)
  <2>1. CASE Cancel \/ Join \/ WorkerBegin \/ UNCHANGED vars
    BY <2>1 DEF Cancel, Join, WorkerBegin, vars, queueVars
  <2>2. ASSUME NEW id \in AgentIds, WorkerReturn(id)
        PROVE  \A a \in AgentIds \ inflight : a \in Range(done_q') <=> a \in Range(done_q)
    BY <2>2, AppendQueue DEF WorkerReturn, TypeOK
  <2>3. CASE Shutdown
    <3>1. /\ Tracked(work_queue) \in Seq(AgentIds)
          /\ Range(Tracked(work_queue)) \subseteq inflight
      <4>1. IsInjective(work_queue)
        BY DEF CarryKept, CarryInv, AllPlaced, Broken, OneLost, OnePlace
      <4>2. CASE work_queue # <<>> /\ work_queue[Len(work_queue)] \notin inflight
        <5>1. Tracked(work_queue) = SubSeq(work_queue, 1, Len(work_queue) - 1)
          BY <4>2 DEF Tracked
        <5>2. /\ work_queue[Len(work_queue)] \in Pool
              /\ SubSeq(work_queue, 1, Len(work_queue) - 1) \in Seq(AgentIds)
              /\ Range(SubSeq(work_queue, 1, Len(work_queue) - 1))
                    = Range(work_queue) \ {work_queue[Len(work_queue)]}
          BY <4>1, <4>2, FrontQueue DEF TypeOK, Pool
        <5>3. PICK lost : Untracked(lost)
          BY <1>1, <4>2, <5>2
        <5>4. work_queue[Len(work_queue)] = lost
          BY <4>2, <5>2, <5>3 DEF Untracked
        <5>5. QED
          BY <5>1, <5>2, <5>3, <5>4 DEF Untracked, Pool
      <4>3. CASE ~ (work_queue # <<>> /\ work_queue[Len(work_queue)] \notin inflight)
        <5>1. Tracked(work_queue) = work_queue
          BY <4>3 DEF Tracked
        <5>2. ASSUME NEW lost, Untracked(lost), lost \in Range(work_queue)
              PROVE  lost \in inflight
          BY <4>3, <5>2, EmptyQueue DEF Untracked
        <5>3. Range(work_queue) \subseteq inflight
          BY <1>1, <5>2 DEF Untracked, Pool
        <5>4. QED
          BY <5>1, <5>3 DEF TypeOK
      <4>4. QED
        BY <4>2, <4>3
    <3>2. Range(done_q') = Range(done_q) \cup Range(Tracked(work_queue))
      BY <2>3, <3>1, ConcatQueue DEF Shutdown, TypeOK
    <3>3. QED
      BY <3>1, <3>2
  <2>4. QED
    BY <2>1, <2>2, <2>3, LeftSteps DEF Workers
<1>3. UNCHANGED <<stageVars, resolvers, outcome>>
  BY LeftSteps
  DEF Cancel, Shutdown, Join, Workers, WorkerBegin, WorkerReturn, vars, stageVars, runtimeVars,
      queueVars, counterVars
<1>4. QED
  BY <1>2, <1>3, RefineQuiet

\* A step that loses no call.
LEMMA RefineWhole ==
    ASSUME TypeOK, CarryInv, CarryInv', EndInv, [Next]_vars, ~ SubmitFails, ~ DeliveryFails
    PROVE  [Lifecycle!LifecycleNext]_(Lifecycle!callVars)
<1> DEFINE Goal == [Lifecycle!LifecycleNext]_(Lifecycle!callVars)
<1>1. ASSUME NEW mode, AgentAccepted(mode) \/ AgentAnsweredAtOnce(mode)
      PROVE  Goal
  <2>1. TakeAgentJob(mode) /\ UNCHANGED <<inflight, outcome>>
    BY <1>1 DEF AgentAccepted, AgentAnsweredAtOnce, endVars
  <2>2. startedCalls' = startedCalls
    <3>1. CASE AgentAccepted(mode)
      <4>1. AgentId(next_agent_job) \in AgentIds /\ pending_agents \in Seq(AgentIds)
        BY <2>1, NextAgentId DEF TakeAgentJob, TypeOK
      <4>2. /\ Len(Append(pending_agents, AgentId(next_agent_job))) = Len(pending_agents) + 1
            /\ Len(pending_agents) \in Nat
        BY <4>1, AppendProperties, LenProperties
      <4>3. accepted_agents \in Int
        BY DEF TypeOK
      <4>4. QED
        BY <3>1, <4>2, <4>3 DEF AgentAccepted, startedCalls
    <3>2. CASE AgentAnsweredAtOnce(mode)
      BY <3>2 DEF AgentAnsweredAtOnce, startedCalls
    <3>3. QED
      BY <1>1, <3>1, <3>2
  <2>3. Lifecycle!Make(next_agent_job)
    BY <2>1, <2>2, RefineMake
  <2>4. next_agent_job \in Lifecycle!Ids
    BY <2>1, CallBounds DEF TakeAgentJob, TypeOK, Lifecycle!Ids
  <2>5. QED
    BY <2>3, <2>4 DEF Lifecycle!LifecycleNext
<1>2. CASE StartAgent
  BY <1>2, RefineBegin DEF Lifecycle!LifecycleNext
<1>3. CASE DeliverReady \/ WaitGet
  <2>1. DeliverHead /\ pc \in LoopPoints
    BY <1>3 DEF DeliverReady, WaitGet, LoopPoints
  <2>2. QED
    BY <2>1, RefineAnswer DEF Lifecycle!LifecycleNext
<1>4. CASE ReadFinished
  BY <1>4, RefineEndWell DEF Lifecycle!LifecycleNext
<1>5. CASE PickJob \/ ProgramEnds \/ JobAwaits \/ JobHangs \/ CatchJob \/ DoneJob
  <2>1. UNCHANGED <<stageVars, resolvers>>
    BY <1>5
    DEF PickJob, ProgramEnds, JobAwaits, JobHangs, CatchJob, DoneJob, CountJob, BeginJob, Await,
        Hang, Complete, CatchRoot, RootDone, stageVars, queueVars, counterVars
  <2>2. \/ UNCHANGED outcome
        \/ pc \in LoopPoints /\ outcome' = "too-many-jobs"
    BY <1>5
    DEF PickJob, ProgramEnds, JobAwaits, JobHangs, CatchJob, DoneJob, CountJob, LoopPoints, endVars
  <2>3. QED
    BY <2>1, <2>2, RefineQuiet
<1>6. CASE ChildJob
  <2>1. Head(jobs) \notin AgentIds
    BY <1>6, Identifiers DEF ChildJob, FinishChild
  <2>2. resolvers' \cap AgentIds = resolvers \cap AgentIds
    BY <1>6, <2>1 DEF ChildJob, FinishChild, Settle
  <2>3. UNCHANGED stageVars
    BY <1>6 DEF ChildJob, CountJob, stageVars, queueVars, counterVars
  <2>4. \/ UNCHANGED outcome
        \/ pc \in LoopPoints /\ outcome' = "too-many-jobs"
    BY <1>6 DEF ChildJob, CountJob, LoopPoints
  <2>5. QED
    BY <2>2, <2>3, <2>4, RefineQuiet
<1>7. ASSUME NEW mode, NEW plan, WorkflowCalled(mode, plan)
      PROVE  Goal
  <2>1. WorkflowId(next_workflow_job) \notin AgentIds
    BY <1>7, NextWorkflowId, Identifiers DEF WorkflowCalled
  <2>2. resolvers' \cap AgentIds = resolvers \cap AgentIds
    BY <1>7, <2>1 DEF WorkflowCalled, Register
  <2>3. UNCHANGED <<stageVars, outcome>>
    BY <1>7 DEF WorkflowCalled, stageVars, endVars
  <2>4. QED
    BY <2>2, <2>3, RefineQuiet
<1>8. CASE StartWorkflow
  <2> DEFINE id == Head(pending_workflows).id
  <2>1. Head(pending_workflows) \in WorkflowJobs
    BY <1>8, TailQueue DEF StartWorkflow, TypeOK
  <2>2. id \notin AgentIds
    BY <2>1, Identifiers DEF WorkflowJobs
  <2>3. StartChild(id) \/ Deliver(id)
    BY <1>8 DEF StartWorkflow
  <2>4. resolvers' \cap AgentIds = resolvers \cap AgentIds
    BY <2>2, <2>3 DEF StartChild, Deliver, Settle, runtimeVars
  <2>5. UNCHANGED <<stageVars, outcome>>
    BY <1>8 DEF StartWorkflow, stageVars, counterVars, endVars
  <2>6. QED
    BY <2>4, <2>5, RefineQuiet
<1>9. CASE \/ JobsExhausted \/ AgentsStarted \/ ReadyDelivered \/ WorkflowsStarted
           \/ ReadContinue \/ ReadWait \/ WaitTimeout \/ Cancel \/ Shutdown \/ Join
           \/ WorkerBegin \/ (\E id \in AgentIds : WorkerReturn(id)) \/ UNCHANGED vars
  <2>1. UNCHANGED <<stageVars, resolvers, outcome>>
    BY <1>9
    DEF JobsExhausted, AgentsStarted, ReadyDelivered, WorkflowsStarted, ReadContinue, ReadWait,
        WaitTimeout, NextTurn, Cancel, Shutdown, Join, WorkerBegin, WorkerReturn, vars,
        stageVars, runtimeVars, queueVars, counterVars, endVars
  <2>2. QED
    BY <2>1, RefineQuiet
<1>10. CASE ReadFailed \/ ReadStalled \/ Fault \/ WorkflowFails
  <2>1. /\ UNCHANGED <<stageVars, resolvers>> /\ pc \in LoopPoints
        /\ outcome' \in {"script-error", "stalled", "fault"}
    BY <1>10, PumpBounds
    DEF ReadFailed, ReadStalled, Fault, WorkflowFails, Raise, Leave, LoopPoints, stageVars,
        runtimeVars, queueVars, counterVars
  <2>2. QED
    BY <2>1, RefineQuiet
<1>11. QED
  BY <1>1, <1>2, <1>3, <1>4, <1>5, <1>6, <1>7, <1>8, <1>9, <1>10
  DEF Next, MainThread, Script, Loop, Exit, Failure, Workers, Terminated

LEMMA RefineStep ==
    ASSUME TypeOK, CarryKept, CarryKept', EndInv, [Next]_vars
    PROVE  [Lifecycle!LifecycleNext]_(Lifecycle!callVars)
<1>1. CASE pc \notin LoopPoints
  BY <1>1, RefineLeft
<1>2. CASE pc \in LoopPoints
  <2>1. CarryInv
    BY <1>2 DEF CarryKept, Broken
  <2>2. CASE SubmitFails \/ DeliveryFails
    BY <2>1, <2>2, RefineSubmitFails, RefineDeliveryFails DEF Lifecycle!LifecycleNext
  <2>3. CASE ~ SubmitFails /\ ~ DeliveryFails
    BY <2>1, <2>3, CarryWhole, RefineWhole
  <2>4. QED
    BY <2>2, <2>3
<1>3. QED
  BY <1>1, <1>2


LEMMA RefineInit == Init => Lifecycle!LifecycleInit
<1>1. SUFFICES ASSUME Init PROVE Lifecycle!LifecycleInit
  OBVIOUS
<1>2. callStage = [n \in Lifecycle!Ids |-> "new"]
  <2>1. ASSUME NEW n \in 0 .. Calls - 1
        PROVE  n >= next_agent_job
    BY <1>1, CallBounds DEF Init
  <2>2. QED
    BY <2>1 DEF callStage, Lifecycle!Ids
<1>3. startedCalls = 0
  <2>1. Len(<<>>) = 0
    OBVIOUS
  <2>2. QED
    <3>1. accepted_agents = 0 /\ pending_agents = <<>>
      BY <1>1 DEF Init
    <3>2. Len(pending_agents) = 0
      BY <2>1, <3>1, Zenon
    <3>3. accepted_agents = 0
      BY <3>1
    <3>4. QED
      BY <3>2, <3>3 DEF startedCalls
<1>4. verdict = "open"
  BY <1>1 DEF Init, verdict
<1>5. QED
  BY <1>2, <1>3, <1>4 DEF Lifecycle!LifecycleInit

\* run_job_pump implements the life cycle of agent() calls: made in order,
\* worked on within the cap and the budget, answered at most once and all of them
\* before a run ends well, one of them lost at most, and never changed after the
\* verdict.
THEOREM PumpImplementsLifecycle == Spec => ImplementsLifecycle
<1>1. TypeOK /\ CarryKept /\ CarryKept' /\ EndInv /\ [Next]_vars
        => [Lifecycle!LifecycleNext]_(Lifecycle!callVars)
  BY RefineStep
<1>2. Spec => []TypeOK
  BY TypeCorrect, PTL
<1>3. QED
  BY <1>1, <1>2, RefineInit, CarryAlways, EndAlways, PTL
  DEF Spec, ImplementsLifecycle, Lifecycle!LifecycleSpec

=============================================================================
