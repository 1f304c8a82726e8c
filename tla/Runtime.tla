------------------------------- MODULE Runtime -------------------------------
(***************************************************************************)
(* The JavaScript side of one run: RUNTIME_BOOTSTRAP in sandbox.py and the *)
(* user program it drives.  User code is a set of ACTIVITIES, each a chain *)
(* of promise jobs (microtasks): the root program, one child program per   *)
(* workflow() call, and one detached continuation per agent() call whose   *)
(* promise is not awaited by its caller (`agent(...).then(...)`).  What a  *)
(* program does between two awaits is chosen nondeterministically.         *)
(*                                                                         *)
(* This module holds the runtime's state and the state change of each of   *)
(* its functions; module Pump drives them, as pump.py drives the context.  *)
(***************************************************************************)
EXTENDS Integers, Sequences, FiniteSets, Functions

CONSTANTS Calls,      \* bound on the agent() calls of a run
          Children    \* bound on the workflow() calls of a run

ASSUME CallBounds == Calls \in Nat /\ Children \in Nat

AgentId(n)    == <<"job", n>>
WorkflowId(n) == <<"workflow", n>>
AgentIds      == {AgentId(n) : n \in 0 .. Calls - 1}
WorkflowIds   == {WorkflowId(n) : n \in 0 .. Children - 1}
Root          == <<"root", 0>>
None          == <<"none", 0>>
Promises      == AgentIds \cup WorkflowIds
Mains         == {Root} \cup WorkflowIds
Activities    == Mains \cup AgentIds

VARIABLES
    jobs,            \* the context's FIFO of pending promise jobs
    running,         \* the activity whose job executes, or None
    act,             \* status of every activity
    waits,           \* the unsettled promises an activity will await
    resolvers,       \* keys of pendingAgents and pendingWorkflows
    nested,          \* continuations created inside a child program
    activeChildren, done, error

runtimeVars ==
    <<jobs, running, act, waits, resolvers, nested, activeChildren, done, error>>

Statuses == {"absent", "ready", "running", "waiting", "racing", "hung",
             "returned", "threw", "threwEmpty", "caught", "ended"}

RuntimeTypeOK ==
    /\ jobs \in Seq(Activities)
    /\ running \in Activities \cup {None}
    /\ act \in [Activities -> Statuses]
    /\ waits \in [Activities -> SUBSET Promises]
    /\ resolvers \in SUBSET Promises
    /\ nested \in SUBSET AgentIds
    /\ activeChildren \in Int
    /\ done \in BOOLEAN
    /\ error \in {"none", "empty", "text"}

\* runtime("start", user_main): the root program is queued as the first job.
RuntimeInit ==
    /\ jobs = <<Root>>
    /\ running = None
    /\ act = [a \in Activities |-> IF a = Root THEN "ready" ELSE "absent"]
    /\ waits = [a \in Activities |-> {}]
    /\ resolvers = {}
    /\ nested = {}
    /\ activeChildren = 0
    /\ done = FALSE
    /\ error = "none"

-----------------------------------------------------------------------------
(* Promise settlement.                                                     *)

\* The activity a settlement of promise id resumes: an await of several
\* promises resumes with the last of them (allValues), a race with the first.
Woken(id) ==
    {a \in Activities : \/ act[a] = "waiting" /\ waits[a] = {id}
                        \/ act[a] = "racing" /\ id \in waits[a]}

\* rec.resolve / rec.reject: forget the resolver and queue the reaction.
\* status and queue are act and jobs as the caller leaves them.
Settle(id, status, queue) ==
    /\ resolvers' = resolvers \ {id}
    /\ waits' = [a \in Activities |-> IF a \in Woken(id) THEN {} ELSE waits[a] \ {id}]
    /\ act' = [a \in Activities |-> IF a \in Woken(id) THEN "ready" ELSE status[a]]
    /\ jobs' = IF Woken(id) = {} THEN queue
               ELSE Append(queue, CHOOSE a \in Woken(id) : TRUE)

\* deliver and rejectWorkflow: both return early when the id is unknown.
Deliver(id) ==
    IF id \in resolvers
    THEN /\ Settle(id, act, jobs)
         /\ UNCHANGED <<running, nested, activeChildren, done, error>>
    ELSE UNCHANGED runtimeVars

StartChild(id) ==
    IF id \in resolvers
    THEN /\ activeChildren' = activeChildren + 1
         /\ act' = [act EXCEPT ![id] = "ready"]
         /\ jobs' = Append(jobs, id)
         /\ UNCHANGED <<running, waits, resolvers, nested, done, error>>
    ELSE UNCHANGED runtimeVars

-----------------------------------------------------------------------------
(* What the activity in the running job does.                              *)

BeginJob ==
    /\ running = None
    /\ jobs # <<>>
    /\ act[Head(jobs)] = "ready"
    /\ running' = Head(jobs)
    /\ jobs' = Tail(jobs)
    /\ act' = [act EXCEPT ![Head(jobs)] = "running"]
    /\ UNCHANGED <<waits, resolvers, nested, activeChildren, done, error>>

\* agent() and rootWorkflow() store the resolver the host will answer.  The
\* caller keeps the promise for a later await ("join"), hangs a continuation
\* on it ("then", agents only) or drops it ("forget").
Register(id, mode) ==
    /\ running # None
    /\ resolvers' = resolvers \cup {id}
    /\ waits' = IF mode = "forget" THEN waits
                ELSE [waits EXCEPT ![IF mode = "then" THEN id ELSE running] = @ \cup {id}]
    /\ act' = IF mode = "then" THEN [act EXCEPT ![id] = "waiting"] ELSE act
    /\ nested' = IF mode = "then" /\ running \in nested \cup WorkflowIds
                 THEN nested \cup {id} ELSE nested
    /\ UNCHANGED <<jobs, running, activeChildren, done, error>>

\* Only the root program holds rootWorkflow; a child is handed nestedWorkflow,
\* which throws without reaching the host.
HoldsRootWorkflow(a) == a \notin WorkflowIds \cup nested

\* Mutation: the await suspends without looking at what has settled meanwhile.
AwaitMissesSettlement(kind) ==
    /\ running # None
    /\ running' = None
    /\ act' = [act EXCEPT ![running] = kind]
    /\ UNCHANGED <<jobs, waits, resolvers, nested, activeChildren, done, error>>

\* The job ends at an await: on what the activity holds (all of it, or a race)
\* or, when all of that has settled, on a resolved promise, a mere yield.
Await(kind) ==
    /\ running # None
    /\ running' = None
    /\ IF waits[running] = {}
       THEN /\ act' = [act EXCEPT ![running] = "ready"]
            /\ jobs' = Append(jobs, running)
       ELSE /\ act' = [act EXCEPT ![running] = kind]
            /\ jobs' = jobs
    /\ UNCHANGED <<waits, resolvers, nested, activeChildren, done, error>>

\* The job ends at an await of a promise nothing will ever settle.
Hang ==
    /\ running # None
    /\ running' = None
    /\ act' = [act EXCEPT ![running] = "hung"]
    /\ waits' = [waits EXCEPT ![running] = {}]
    /\ UNCHANGED <<jobs, resolvers, nested, activeChildren, done, error>>

\* The program ends.  The promise of a main program has a reaction, queued
\* now; a detached continuation has none.
Complete(how) ==
    /\ running # None
    /\ running' = None
    /\ waits' = [waits EXCEPT ![running] = {}]
    /\ IF running \in Mains
       THEN /\ act' = [act EXCEPT ![running] = how]
            /\ jobs' = Append(jobs, running)
       ELSE /\ act' = [act EXCEPT ![running] = "ended"]
            /\ jobs' = jobs
    /\ UNCHANGED <<resolvers, nested, activeChildren, done, error>>

\* start's first reaction: record what the root program threw.  errorText maps
\* a thrown empty string to the empty string, anything else to some text.
CatchRoot ==
    /\ running = None
    /\ jobs # <<>>
    /\ Head(jobs) = Root
    /\ act[Root] \in {"returned", "threw", "threwEmpty"}
    /\ error' = IF act[Root] = "returned" THEN error
                ELSE IF act[Root] = "threw" THEN "text" ELSE "empty"
    /\ act' = [act EXCEPT ![Root] = "caught"]
    /\ jobs' = Append(Tail(jobs), Root)
    /\ UNCHANGED <<running, waits, resolvers, nested, activeChildren, done>>

\* start's second reaction.
RootDone ==
    /\ running = None
    /\ jobs # <<>>
    /\ Head(jobs) = Root
    /\ act[Root] = "caught"
    /\ done' = TRUE
    /\ act' = [act EXCEPT ![Root] = "ended"]
    /\ jobs' = Tail(jobs)
    /\ UNCHANGED <<running, waits, resolvers, nested, activeChildren, error>>

\* Mutation: finishChild without the decrement.
FinishChildUncounted ==
    /\ running = None
    /\ jobs # <<>>
    /\ Head(jobs) \in WorkflowIds
    /\ act[Head(jobs)] = "returned"
    /\ Settle(Head(jobs), [act EXCEPT ![Head(jobs)] = "ended"], Tail(jobs))
    /\ UNCHANGED <<running, nested, activeChildren, done, error>>

\* finishChild settles the workflow() promise of the root program.
FinishChild ==
    /\ running = None
    /\ jobs # <<>>
    /\ Head(jobs) \in WorkflowIds
    /\ act[Head(jobs)] = "returned"
    /\ activeChildren' = activeChildren - 1
    /\ Settle(Head(jobs), [act EXCEPT ![Head(jobs)] = "ended"], Tail(jobs))
    /\ UNCHANGED <<running, nested, done, error>>

=============================================================================
