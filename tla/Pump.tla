-------------------------------- MODULE Pump ---------------------------------
(***************************************************************************)
(* run_job_pump (pump.py): one main thread alternates between the pending  *)
(* jobs of the JavaScript context, the agents it starts on a thread pool,  *)
(* the completions it delivers back, and the child programs it starts; the *)
(* pool's workers run execute_agent and append to done_q.                  *)
(*                                                                         *)
(* pc is the main thread's place in the loop.  Every host callback runs on *)
(* the main thread inside a JavaScript job, and interleaves with workers.  *)
(***************************************************************************)
EXTENDS Runtime

CONSTANTS Concurrency,   \* max_concurrency, the pool's size and inflight cap
          MaxAgents,     \* max_agents, the live-agent budget of the run
          JobBatch,      \* _JS_JOB_BATCH
          MaxJsJobs,     \* _MAX_JS_JOBS
          FaultPoints    \* bound: where an unforeseen exception may strike

\* The main thread's places inside the loop.
LoopPoints == {"jobs", "start", "deliver", "workflows", "state", "wait"}

ASSUME PumpBounds ==
    /\ Concurrency \in Nat \ {0}
    /\ MaxAgents \in Nat \ {0}
    /\ JobBatch \in Nat \ {0}
    /\ MaxJsJobs \in Nat
    /\ FaultPoints \subseteq LoopPoints

VARIABLES
    pc,
    pending_agents,      \* accepted jobs not yet submitted (FIFO)
    pending_workflows,   \* workflow() calls to start or reject (FIFO)
    inflight,            \* job ids submitted and not yet delivered
    work_queue,          \* the pool's queue: futures not yet picked up
    workers,             \* job ids a pool thread is executing
    done_q,              \* completions not yet delivered (FIFO)
    next_agent_job, next_workflow_job, accepted_agents,
    ran_jobs, total_js_jobs,
    progress,            \* started_agents or delivered_agents or started_workflows
    outcome, cancelled

queueVars == <<pending_agents, pending_workflows, inflight, work_queue, workers, done_q>>
counterVars == <<next_agent_job, next_workflow_job, accepted_agents>>
loopVars == <<ran_jobs, total_js_jobs, progress>>
endVars == <<outcome, cancelled>>
vars == <<runtimeVars, pc, queueVars, counterVars, loopVars, endVars>>

Plans == {"program", "refused"}
WorkflowJobs == [id : WorkflowIds, plan : Plans]
Outcomes == {"none", "ok", "script-error", "stalled", "too-many-jobs", "fault"}

TypeOK ==
    /\ RuntimeTypeOK
    /\ pc \in LoopPoints \cup {"cancel", "shutdown", "join", "ended"}
    /\ pending_agents \in Seq(AgentIds)
    /\ pending_workflows \in Seq(WorkflowJobs)
    /\ inflight \in SUBSET AgentIds
    /\ work_queue \in Seq(AgentIds)
    /\ workers \in SUBSET AgentIds
    /\ done_q \in Seq(AgentIds)
    /\ next_agent_job \in 0 .. Calls
    /\ next_workflow_job \in 0 .. Children
    /\ accepted_agents \in 0 .. MaxAgents
    /\ ran_jobs \in 0 .. JobBatch
    /\ total_js_jobs \in 0 .. MaxJsJobs + 1
    /\ progress \in BOOLEAN
    /\ outcome \in Outcomes
    /\ cancelled \in BOOLEAN

Init ==
    /\ RuntimeInit
    /\ pc = "jobs"
    /\ pending_agents = <<>>
    /\ pending_workflows = <<>>
    /\ inflight = {}
    /\ work_queue = <<>>
    /\ workers = {}
    /\ done_q = <<>>
    /\ next_agent_job = 0
    /\ next_workflow_job = 0
    /\ accepted_agents = 0
    /\ ran_jobs = 0
    /\ total_js_jobs = 0
    /\ progress = FALSE
    /\ outcome = "none"
    /\ cancelled = FALSE

-----------------------------------------------------------------------------
(* The pending jobs of the context.                                        *)

PickJob ==
    /\ pc = "jobs"
    /\ ran_jobs < JobBatch
    /\ BeginJob
    /\ UNCHANGED <<pc, queueVars, counterVars, loopVars, endVars>>

\* host_start up to its early returns: the call takes the next job id.
TakeAgentJob(mode) ==
    /\ pc = "jobs"
    /\ next_agent_job < Calls
    /\ Register(AgentId(next_agent_job), mode)
    /\ next_agent_job' = next_agent_job + 1

\* Mutation: host_start without the live-agent limit.
AcceptedOverLimit(mode) ==
    /\ TakeAgentJob(mode)
    /\ accepted_agents' = accepted_agents + 1
    /\ pending_agents' = Append(pending_agents, AgentId(next_agent_job))
    /\ UNCHANGED <<pc, pending_workflows, inflight, work_queue, workers, done_q,
                   next_workflow_job, loopVars, endVars>>

\* host_start: the call is accepted and waits for a worker.
AgentAccepted(mode) ==
    /\ TakeAgentJob(mode)
    /\ accepted_agents < MaxAgents
    /\ accepted_agents' = accepted_agents + 1
    /\ pending_agents' = Append(pending_agents, AgentId(next_agent_job))
    /\ UNCHANGED <<pc, pending_workflows, inflight, work_queue, workers, done_q,
                   next_workflow_job, loopVars, endVars>>

\* Mutation: a cached call is charged to the live-agent budget.
AnsweredAndCharged(mode) ==
    /\ TakeAgentJob(mode)
    /\ accepted_agents < MaxAgents
    /\ accepted_agents' = accepted_agents + 1
    /\ done_q' = Append(done_q, AgentId(next_agent_job))
    /\ UNCHANGED <<pc, pending_agents, pending_workflows, inflight, work_queue,
                   workers, next_workflow_job, loopVars, endVars>>

\* host_start: cached agents and refused calls are answered on the spot.
AgentAnsweredAtOnce(mode) ==
    /\ TakeAgentJob(mode)
    /\ done_q' = Append(done_q, AgentId(next_agent_job))
    /\ UNCHANGED <<pc, pending_agents, pending_workflows, inflight, work_queue,
                   workers, next_workflow_job, accepted_agents, loopVars, endVars>>

\* host_workflow_start: whatever happened to the call, a job is queued; it
\* carries a child program or the error the start will report.
WorkflowCalled(mode, plan) ==
    /\ pc = "jobs"
    /\ next_workflow_job < Children
    /\ running # None
    /\ HoldsRootWorkflow(running)
    /\ Register(WorkflowId(next_workflow_job), mode)
    /\ next_workflow_job' = next_workflow_job + 1
    /\ pending_workflows' =
         Append(pending_workflows, [id |-> WorkflowId(next_workflow_job), plan |-> plan])
    /\ UNCHANGED <<pc, pending_agents, inflight, work_queue, workers, done_q,
                   next_agent_job, accepted_agents, loopVars, endVars>>

\* Mutation: the limit is noticed but does not leave the loop.
CountJobAndGoOn ==
    /\ pc = "jobs"
    /\ ran_jobs < JobBatch
    /\ total_js_jobs <= MaxJsJobs
    /\ ran_jobs' = ran_jobs + 1
    /\ total_js_jobs' = total_js_jobs + 1
    /\ outcome' = IF total_js_jobs + 1 > MaxJsJobs THEN "too-many-jobs" ELSE outcome
    /\ UNCHANGED <<pc, queueVars, counterVars, progress, cancelled>>

\* execute_pending_job returns: count the job against both limits.
CountJob ==
    /\ pc = "jobs"
    /\ ran_jobs < JobBatch
    /\ ran_jobs' = ran_jobs + 1
    /\ total_js_jobs' = total_js_jobs + 1
    /\ IF total_js_jobs + 1 > MaxJsJobs
       THEN pc' = "cancel" /\ outcome' = "too-many-jobs"
       ELSE UNCHANGED <<pc, outcome>>
    /\ UNCHANGED <<queueVars, counterVars, progress, cancelled>>

\* Only the root program's way of failing is told apart: a child's rejects a
\* promise its caller may or may not handle, a continuation's is nobody's.
ProgramEnds ==
    \E how \in {"returned", "threw", "threwEmpty"} :
        /\ how # "returned" => running = Root
        /\ Complete(how)
        /\ CountJob

JobAwaits  == (\E kind \in {"waiting", "racing"} : Await(kind)) /\ CountJob
JobHangs   == Hang /\ CountJob
CatchJob   == CatchRoot /\ CountJob
DoneJob    == RootDone /\ CountJob
ChildJob   == FinishChild /\ CountJob

JobsExhausted ==
    /\ pc = "jobs"
    /\ running = None
    /\ jobs = <<>> \/ ran_jobs = JobBatch
    /\ pc' = "start"
    /\ UNCHANGED <<runtimeVars, queueVars, counterVars, loopVars, endVars>>

-----------------------------------------------------------------------------
(* start_agents_upto_cap, deliver_ready_agents, start_pending_workflows.   *)

\* Mutation: the in-flight cap off by one.
StartAgentPastCap ==
    /\ pc = "start"
    /\ pending_agents # <<>>
    /\ Cardinality(inflight) <= Concurrency
    /\ pending_agents' = Tail(pending_agents)
    /\ work_queue' = Append(work_queue, Head(pending_agents))
    /\ inflight' = inflight \cup {Head(pending_agents)}
    /\ progress' = TRUE
    /\ UNCHANGED <<runtimeVars, pc, pending_workflows, workers, done_q,
                   counterVars, ran_jobs, total_js_jobs, endVars>>

StartAgent ==
    /\ pc = "start"
    /\ pending_agents # <<>>
    /\ Cardinality(inflight) < Concurrency
    /\ pending_agents' = Tail(pending_agents)
    /\ work_queue' = Append(work_queue, Head(pending_agents))
    /\ inflight' = inflight \cup {Head(pending_agents)}
    /\ progress' = TRUE
    /\ UNCHANGED <<runtimeVars, pc, pending_workflows, workers, done_q,
                   counterVars, ran_jobs, total_js_jobs, endVars>>

AgentsStarted ==
    /\ pc = "start"
    /\ pending_agents = <<>> \/ Cardinality(inflight) >= Concurrency
    /\ pc' = "deliver"
    /\ UNCHANGED <<runtimeVars, queueVars, counterVars, loopVars, endVars>>

\* deliver_agent on the oldest completion.
DeliverHead ==
    /\ done_q # <<>>
    /\ done_q' = Tail(done_q)
    /\ inflight' = inflight \ {Head(done_q)}
    /\ Deliver(Head(done_q))
    /\ UNCHANGED <<pending_agents, pending_workflows, work_queue, workers,
                   counterVars, endVars>>

DeliverReady ==
    /\ pc = "deliver"
    /\ DeliverHead
    /\ progress' = TRUE
    /\ UNCHANGED <<pc, ran_jobs, total_js_jobs>>

ReadyDelivered ==
    /\ pc = "deliver"
    /\ done_q = <<>>
    /\ pc' = "workflows"
    /\ UNCHANGED <<runtimeVars, queueVars, counterVars, loopVars, endVars>>

StartWorkflow ==
    /\ pc = "workflows"
    /\ pending_workflows # <<>>
    /\ LET job == Head(pending_workflows)
       IN  IF job.plan = "program" THEN StartChild(job.id) ELSE Deliver(job.id)
    /\ pending_workflows' = Tail(pending_workflows)
    /\ progress' = TRUE
    /\ UNCHANGED <<pc, pending_agents, inflight, work_queue, workers, done_q,
                   counterVars, ran_jobs, total_js_jobs, endVars>>

WorkflowsStarted ==
    /\ pc = "workflows"
    /\ pending_workflows = <<>>
    /\ pc' = "state"
    /\ UNCHANGED <<runtimeVars, queueVars, counterVars, loopVars, endVars>>

-----------------------------------------------------------------------------
(* read_state and the branches that follow it.                             *)

Leave(how, next) ==
    /\ outcome' = how
    /\ pc' = next
    /\ UNCHANGED <<runtimeVars, queueVars, counterVars, loopVars, cancelled>>

\* The next turn of the loop starts by resetting its locals.
NextTurn ==
    /\ pc' = "jobs"
    /\ ran_jobs' = 0
    /\ progress' = FALSE
    /\ UNCHANGED <<total_js_jobs, counterVars, endVars>>

\* `if error`: an empty error text is not an error.
Failed == error = "text"

\* Mutation: the exit test forgets the agents in flight.
FinishedWithInflight ==
    /\ done
    /\ activeChildren = 0
    /\ pending_agents = <<>>
    /\ pending_workflows = <<>>
    /\ done_q = <<>>

Finished ==
    /\ done
    /\ activeChildren = 0
    /\ pending_agents = <<>>
    /\ pending_workflows = <<>>
    /\ inflight = {}
    /\ done_q = <<>>

\* Mutation: deliveries do not count as progress.
ProgressedByJobs == ran_jobs > 0

Progressed == ran_jobs > 0 \/ progress

ReadFailed == pc = "state" /\ Failed /\ Leave("script-error", "cancel")

ReadFinished == pc = "state" /\ ~Failed /\ Finished /\ Leave("ok", "shutdown")

\* The branch on pending work falls through to the same next turn.
ReadContinue ==
    /\ pc = "state" /\ ~Failed /\ ~Finished
    /\ \/ Progressed
       \/ /\ inflight = {}
          /\ pending_agents # <<>> \/ pending_workflows # <<>> \/ (done /\ activeChildren = 0)
    /\ NextTurn
    /\ UNCHANGED <<runtimeVars, queueVars>>

ReadWait ==
    /\ pc = "state" /\ ~Failed /\ ~Finished /\ ~Progressed
    /\ inflight # {}
    /\ pc' = "wait"
    /\ UNCHANGED <<runtimeVars, queueVars, counterVars, loopVars, endVars>>

\* Mutation: no stall detection, the loop turns for ever.
ReadNeverStalls ==
    /\ pc = "state" /\ ~Failed /\ ~Finished /\ ~Progressed
    /\ inflight = {}
    /\ pending_agents = <<>>
    /\ pending_workflows = <<>>
    /\ NextTurn
    /\ UNCHANGED <<runtimeVars, queueVars>>

ReadStalled ==
    /\ pc = "state" /\ ~Failed /\ ~Finished /\ ~Progressed
    /\ inflight = {}
    /\ pending_agents = <<>>
    /\ pending_workflows = <<>>
    /\ ~done \/ activeChildren # 0
    /\ Leave("stalled", "cancel")

\* done_q.get(timeout=_WAIT_SECONDS), answered or timed out.
WaitGet == pc = "wait" /\ DeliverHead /\ NextTurn

WaitTimeout ==
    /\ pc = "wait"
    /\ done_q = <<>>
    /\ NextTurn
    /\ UNCHANGED <<runtimeVars, queueVars>>

-----------------------------------------------------------------------------
(* Leaving the loop.                                                       *)

\* Any other exception that unwinds the loop, at any point of it: a failing
\* context call (memory limit), or a KeyboardInterrupt on the main thread.
Fault == pc \in FaultPoints /\ Leave("fault", "cancel")

\* The same in the middle of a statement, with what it has done so far.  Nothing
\* enters the context again, whatever the failing call has left in it.
Raise ==
    /\ pc \in FaultPoints
    /\ outcome' = "fault"
    /\ pc' = "cancel"
    /\ UNCHANGED <<runtimeVars, counterVars, loopVars, cancelled>>

\* pool.submit raises (it can start no thread), before or after it has queued the
\* work: the job is with nobody, or with a pool that will report it to nobody.
SubmitFails ==
    /\ pc = "start"
    /\ pending_agents # <<>>
    /\ Cardinality(inflight) < Concurrency
    /\ pending_agents' = Tail(pending_agents)
    /\ work_queue' \in {work_queue, Append(work_queue, Head(pending_agents))}
    /\ Raise
    /\ UNCHANGED <<pending_workflows, inflight, workers, done_q>>

\* runtime("deliver") raises: the completion has been read and the job popped.
DeliveryFails ==
    /\ pc \in {"deliver", "wait"}
    /\ done_q # <<>>
    /\ done_q' = Tail(done_q)
    /\ inflight' = inflight \ {Head(done_q)}
    /\ Raise
    /\ UNCHANGED <<pending_agents, pending_workflows, work_queue, workers>>

\* runtime("reject_workflow") raises: the job has been popped.
WorkflowFails ==
    /\ pc = "workflows"
    /\ pending_workflows # <<>>
    /\ pending_workflows' = Tail(pending_workflows)
    /\ Raise
    /\ UNCHANGED <<pending_agents, inflight, work_queue, workers, done_q>>

\* `except BaseException`: on_cancel, then re-raise.
Cancel ==
    /\ pc = "cancel"
    /\ cancelled' = TRUE
    /\ pc' = "shutdown"
    /\ UNCHANGED <<runtimeVars, queueVars, counterVars, loopVars, outcome>>

\* Mutation: the futures still queued are dropped without their callbacks.
ShutdownDropsFutures ==
    /\ pc = "shutdown"
    /\ work_queue' = <<>>
    /\ pc' = "join"
    /\ UNCHANGED <<runtimeVars, pending_agents, pending_workflows, inflight, workers, done_q,
                   counterVars, loopVars, endVars>>

\* The futures that have a callback: all but the one, at the end of the queue,
\* whose submission has failed.
Tracked(queue) ==
    IF queue # <<>> /\ queue[Len(queue)] \notin inflight
    THEN SubSeq(queue, 1, Len(queue) - 1) ELSE queue

\* pool.shutdown(cancel_futures=True): the queued futures are cancelled, and
\* each one's callback still reports to done_q.
Shutdown ==
    /\ pc = "shutdown"
    /\ work_queue' = <<>>
    /\ done_q' = done_q \o Tracked(work_queue)
    /\ pc' = "join"
    /\ UNCHANGED <<runtimeVars, pending_agents, pending_workflows, inflight, workers,
                   counterVars, loopVars, endVars>>

\* Mutation: shutdown(wait=False).
JoinWithoutWaiting ==
    /\ pc = "join"
    /\ pc' = "ended"
    /\ UNCHANGED <<runtimeVars, queueVars, counterVars, loopVars, endVars>>

\* pool.shutdown(wait=True): join the worker threads.
Join ==
    /\ pc = "join"
    /\ workers = {}
    /\ pc' = "ended"
    /\ UNCHANGED <<runtimeVars, queueVars, counterVars, loopVars, endVars>>

-----------------------------------------------------------------------------
(* The pool's worker threads.                                              *)

WorkerBegin ==
    /\ work_queue # <<>>
    /\ Cardinality(workers) < Concurrency
    /\ workers' = workers \cup {Head(work_queue)}
    /\ work_queue' = Tail(work_queue)
    /\ UNCHANGED <<runtimeVars, pc, pending_agents, pending_workflows, inflight,
                   done_q, counterVars, loopVars, endVars>>

\* execute_agent returns or raises; capture_completion, if it was registered,
\* reports either.
WorkerReturn(id) ==
    /\ id \in workers
    /\ workers' = workers \ {id}
    /\ done_q' = IF id \in inflight THEN Append(done_q, id) ELSE done_q
    /\ UNCHANGED <<runtimeVars, pc, pending_agents, pending_workflows, inflight,
                   work_queue, counterVars, loopVars, endVars>>

-----------------------------------------------------------------------------
Script ==
    \/ PickJob
    \/ \E mode \in {"join", "then"} : AgentAccepted(mode) \/ AgentAnsweredAtOnce(mode)
    \/ \E mode \in {"join", "forget"}, plan \in Plans : WorkflowCalled(mode, plan)
    \/ ProgramEnds \/ JobAwaits \/ JobHangs \/ CatchJob \/ DoneJob \/ ChildJob

Loop ==
    \/ JobsExhausted
    \/ StartAgent \/ AgentsStarted
    \/ DeliverReady \/ ReadyDelivered
    \/ StartWorkflow \/ WorkflowsStarted
    \/ ReadFailed \/ ReadFinished \/ ReadContinue \/ ReadWait \/ ReadStalled
    \/ WaitGet \/ WaitTimeout

Exit == Cancel \/ Shutdown \/ Join

MainThread == Script \/ Loop \/ Exit

Workers == WorkerBegin \/ \E id \in AgentIds : WorkerReturn(id)

Terminated == pc = "ended" /\ UNCHANGED vars

Failure == Fault \/ SubmitFails \/ DeliveryFails \/ WorkflowFails

Next == MainThread \/ Failure \/ Workers \/ Terminated

Spec == Init /\ [][Next]_vars

\* The main thread is not suspended for ever, and every agent ends: the
\* executor bounds each one by its timeout.
Fairness ==
    /\ WF_vars(MainThread)
    /\ WF_vars(WorkerBegin)
    /\ \A id \in AgentIds : WF_vars(WorkerReturn(id))

FairSpec == Spec /\ Fairness

-----------------------------------------------------------------------------
(* Safety.                                                                 *)

\* No promise job is lost or queued twice, and nobody waits for a promise
\* that has already been settled (deliver, finishChild and rejectWorkflow each
\* queue the reaction that resumes the waiting program).
WakeupsConserved ==
    /\ IsInjective(jobs)
    /\ Range(jobs) = {a \in Activities :
           act[a] \in {"ready", "returned", "threw", "threwEmpty", "caught"}}
    /\ \A a \in Activities :
           /\ waits[a] \subseteq resolvers
           /\ act[a] \in {"waiting", "racing"} => waits[a] # {}

\* Every unanswered agent() call is in exactly one place between host_start
\* and deliver: pending_agents, the pool's queue, a worker or done_q.  So no
\* completion is lost and none is delivered twice, also when the pool is shut
\* down with futures still queued.  Only an exception in the middle of a submission
\* or a delivery loses track of a call: of that one, in the run it fails.
CompletionsConserved ==
    /\ IsInjective(pending_agents) /\ IsInjective(work_queue) /\ IsInjective(done_q)
    /\ LET accepted  == Range(pending_agents)
           submitted == Range(work_queue)
           finished  == Range(done_q)
       IN  /\ accepted \cap (submitted \cup workers \cup finished) = {}
           /\ submitted \cap (workers \cup finished) = {}
           /\ workers \cap finished = {}
           /\ LET unanswered == resolvers \cap AgentIds
                  placed == accepted \cup submitted \cup workers \cup finished
              IN  \/ placed = unanswered
                  \/ /\ outcome = "fault"
                     /\ \E id \in unanswered : placed = unanswered \ {id}

\* At most Concurrency agents are in the pool, counting those whose completion
\* still waits in done_q: the pool never holds work the cap did not admit, not even
\* the one job whose submission failed after it was queued.
InflightBounded ==
    /\ Cardinality(inflight) <= Concurrency
    /\ inflight \subseteq resolvers \ Range(pending_agents)
    /\ LET pool == Range(work_queue) \cup workers
       IN  \/ pool \subseteq inflight
           \/ /\ outcome = "fault"
              /\ Cardinality(pool) <= Concurrency
              /\ \E id \in pool : pool \ {id} \subseteq inflight

\* activeChildren counts the child programs that started and have not been
\* finished by finishChild, and a workflow() promise is open exactly while its
\* child is queued or active: no child ends twice and none is forgotten, but for
\* the one whose start or rejection was cut short by the exception that ends the run.
ChildrenCounted ==
    LET active == {w \in WorkflowIds : act[w] \notin {"absent", "ended"}}
        queued == {pending_workflows[i].id : i \in DOMAIN pending_workflows}
    IN  /\ activeChildren = Cardinality(active)
        /\ active \cap queued = {}
        /\ \/ resolvers \cap WorkflowIds = active \cup queued
           \/ /\ outcome = "fault"
              /\ \E w \in resolvers : (resolvers \cap WorkflowIds) \ {w} = active \cup queued

\* The pump reports success only when the root and all its children have
\* ended, every agent() and workflow() promise has been settled and the pool
\* is idle, whatever the programs left unawaited.
FinishedClean ==
    outcome = "ok" =>
        /\ \A m \in Mains : act[m] \in {"ended", "absent"}
        /\ resolvers = {}
        /\ workers = {} /\ work_queue = <<>>

\* "script stalled" is raised only when it is true: no program can ever take
\* another step, and some program has not ended.
StallIsReal ==
    outcome = "stalled" =>
        /\ jobs = <<>> /\ running = None
        /\ resolvers \cap AgentIds = {} /\ workers = {}
        /\ \E m \in Mains : act[m] = "hung"

\* Whatever ends the pump, it returns with no agent queued or executing, and
\* a run that fails asks its executor to cancel before it waits for workers;
\* a run that ends well never does.
ExitsClean ==
    /\ pc = "ended" => workers = {} /\ work_queue = <<>>
    /\ pc \in {"join", "ended"} => (cancelled <=> outcome # "ok")

\* Once the outcome is decided the program is never resumed and no more work
\* enters the pool, although workers go on until the pool is joined.
DecidedIsFinal ==
    [][outcome # "none" =>
          /\ UNCHANGED <<runtimeVars, outcome, inflight, pending_agents>>
          /\ Range(work_queue') \subseteq Range(work_queue)]_vars

-----------------------------------------------------------------------------
(* The pump implements the life cycle of agent() calls.                    *)

callStage ==
    [n \in 0 .. Calls - 1 |->
        IF n >= next_agent_job THEN "new"
        ELSE IF AgentId(n) \notin resolvers THEN "answered"
        ELSE IF AgentId(n) \in inflight THEN "working"
        ELSE IF AgentId(n) \in Range(pending_agents) \cup Range(done_q) THEN "waiting"
        ELSE "lost"]

startedCalls == accepted_agents - Len(pending_agents)

verdict == CASE outcome = "none" -> "open" [] outcome = "ok" -> "ok" [] OTHER -> "failed"

Lifecycle == INSTANCE CallLifecycle
                 WITH call <- callStage, started <- startedCalls, run <- verdict

\* Every step of the pump is a step of the life cycle, or changes nothing in it.
ImplementsLifecycle == Lifecycle!LifecycleSpec

-----------------------------------------------------------------------------
(* Liveness.                                                               *)

\* The pump always returns: it neither waits for ever on done_q nor loops on
\* an idle script, since a script that yields for ever meets _MAX_JS_JOBS and
\* one that waits for nothing is found stalled.
Termination == <>(pc = "ended")

-----------------------------------------------------------------------------
(* What the documentation says and the code does not do.                   *)

\* pump.py:74, "pump it and its child workflows to completion": when the pump
\* reports success no job of the program is left to run.
JobsDrained == outcome = "ok" => jobs = <<>>

\* docs/JOURNAL.md, run.finished: "On handled failure, ok is false": a root
\* program that rejects is never reported as a success.
RejectionFails == outcome = "ok" => error = "none"
=============================================================================
