# TLA+ verification of codex-workflow

`codex-workflow` runs JavaScript workflow scripts that call `agent()`,
`parallel()`, `pipeline()` and `workflow()`. A supervisor process starts a
runtime process; the runtime evaluates the script in QuickJS, executes each
agent as a `codex exec` process on a thread pool, records everything in a
journal, and can replay the journal of an earlier run. This directory models
the parts with concurrency, failure and persistence in TLA+, and the pure parts
that decide what codex is started with and which answers count, and checks them
with TLC. TLAPS proves the safety properties of the pump, the executor, the
supervisor, runs with their journals and resume cursors, the combinators and
agent calls for every value of the constants (see Proofs).

Paths below are relative to `src/`; `PROJECT.json` maps each definition to the
lines it models.

## Inventory

| Component | State it keeps | Operations | Hard behaviour |
|---|---|---|---|
| Job pump, `workflow/pump.py` | `pending_agents`, `pending_workflows`, `inflight`, `done_q`, counters, the thread pool | host callbacks (`host_start`, `host_workflow_start`), the loop (jobs, start, deliver, start children, read state, wait), the exit path | workers complete at any moment; limits hit in mid-batch; stall detection; exceptions anywhere |
| Runtime bootstrap, `workflow/sandbox.py` | QuickJS job queue, `pendingAgents`, `pendingWorkflows`, `activeChildren`, `done`, `error` | `agent`, `workflow`, `deliver`, `startChild`, `finishChild`, `rejectWorkflow`, `state` | programs wait, race, forget promises, throw, start children that end before or after them |
| Executor, `workflow/executor.py` | `_active`, `_cancelled`, one process group per call | `run`, `_spawn`, `cancel_all`, `_terminate_process_tree` | cancel against spawn, timeout against cancel, processes that ignore SIGTERM or leave helpers |
| Supervisor, `workflow/supervisor.py` | result pipe, deadline, child process | `supervise_workflow`, `_child_entry`, `_stop_process_tree` | deadline, Ctrl+C, crash, result and exit in any order; `setsid` race |
| Run, `workflow/run.py` | `agent_index`, `live_agent_count`, `current_phase`, slots | `prepare_agent`, `execute_agent`, `on_phase`, `prepare_workflow` | records written by several threads, partial failure of a registration |
| Journal, `workflow/journal.py` | `journal.jsonl` | `append`, `read_events` | kill in mid-line, values JSON cannot express |
| Resume, `workflow/resume.py` | entries, position, active | `load`, `match` | prefix of a run that was killed, recorded out of order, or edited since |
| Combinators in `workflow/sandbox.py` | `results`, `remaining`, one promise chain per entry | `parallel`, `pipeline`, `allValues` | branches end, fail and hang in any order; no entries, no stages, holes |
| Worktrees, `workflow/worktree.py` | git worktrees on disk, `_GIT_WORKTREE_LOCK` | `allocate_worktree_path`, `create_worktree` | a test before the lock, a lock per process, names that become the same, git failing or outliving its process |
| Argv, `workflow/argv.py` | none | `build_codex_argv`, `validate_codex_argv` | flags repeated, without value, out of place; forbidden texts in paths |
| Schema, `workflow/schema.py` | none | `validate_schema`, `validate_instance` | Python's equality and number types, bounds |
| CLI `workflow/cli.py`, errors | none | parse, print | none |

Interactions: the supervisor starts the runtime (pipe and signals). `run_workflow`
hands `prepare_agent`, `execute_agent`, `is_cached_agent`, `cancel_all` and the
phase and log callbacks to the pump. The pump calls `prepare_agent` on the main
thread inside a JavaScript job, `execute_agent` on a worker (on the main thread
for a cache hit), and `cancel_all` when the loop fails. `execute_agent` calls the
executor and appends to the journal.

What must be true: no call is answered twice, and in a run that goes on each is
answered; the caps hold; success means
that nothing is left to do; a stall is real; every failure path returns with no
agent at work; no process escapes cancellation; success reported by the
supervisor is backed by a complete journal and a clean exit; a resumed run
replays exactly what its predecessor recorded as its consecutive prefix; a codex
that may write has a directory of its own outside the repository; the command
line says what was requested and nothing else; a result is a value its schema
stands for; each branch of a combinator keeps its slot and its failures to
itself.

## Modules

- **`Runtime`**: the JavaScript side. User code is a set of *activities* (the
  root, one child per `workflow()` call, one detached continuation per
  un-awaited `agent()`), each a chain of promise jobs. What a program does
  between two awaits is a nondeterministic choice: call, wait for one promise
  or for all, hang, return, throw, throw the empty string. `Settle` and
  `Deliver` queue reactions as the promise machinery does.
- **`Pump`** extends `Runtime`: `run_job_pump` with one action per section of
  the loop. `pc` is the main thread's place. A host callback is part of the
  job that calls it. Workers interleave with everything. `Failure` is an
  unforeseen exception at a place of `FaultPoints`: between two statements
  (`Fault`), or in the middle of a submission, a delivery or the rejection of a
  child (`SubmitFails`, `DeliveryFails`, `WorkflowFails`), when the entry has left
  its queue and has not arrived. The one call or child it was is then with nobody,
  or with a pool that reports it to nobody.
- **`CallLifecycle`**: the abstract promise: calls made in order, worked on
  within the cap and the budget, answered at most once, nothing changed after the
  verdict; a run that fails may lose the one call it was beginning or answering. `Pump!ImplementsLifecycle` maps the pump's queues to it.
- **`Executor`**: the threads in `run()`, one process each with at most one
  helper, and the thread in `cancel_all()`. A section under `_lock` is one
  step. `platform` is chosen initially. `KillTree` is SIGKILL of the group or
  `taskkill /T /F`.
- **`CancelScope`**: the abstract promise of the executor, without lock, list and
  signals: a call starts at most one process, is answered only when that is gone, is
  told of a cancellation only after one was asked for, and the scope is quiet when
  `cancel_all` returns. `Executor!ImplementsCancelScope` maps places and processes to it.
- **`Supervisor`**: `supervise_workflow` against a runtime reduced to what is
  visible from outside: it starts agents, ends, records, sends, exits or dies.
  The clock is the action `DeadlinePasses`; Ctrl+C may come at any time and
  again while the first one is handled.
- **`Run`**: run directories one after the other, each a journal that
  survives; the main thread's registrations, the workers' records, the phase,
  the budget, the resume cursor, and kills that may leave a part of a line.
  The pump appears through the discipline of `CallLifecycle`: what is accepted
  may begin, what has begun is waited for. A returned value is the pair (run,
  index) that produced it, so that a replayed value shows its origin.
- **`Combinators`**: `parallel` and `pipeline` with `allValues`, each entry a
  branch: user code of a stage returns a value, a promise, throws or hangs. A
  value is the list of what made it (its entry, then each stage), so that a
  slot shows whether it holds what its own branch made of its own entry.
- **`Argv`**: `build_codex_argv` and `validate_codex_argv` as operators. Texts are
  opaque; what the code asks of a text (a dash in front, a forbidden substring,
  a model name) is a constant operator. `FlagTurn` is a turn of the loop over flags
  and `FlagLoop` the loop; `WellFormed` says without a loop what a command line may be.
- **`Schema`**: JSON values as Python has them (int and float apart, a NaN, `==`
  with `True == 1`), schemas as such values, the two validators, and `Made`,
  which builds the values a schema stands for.
- **`Worktree`**: path allocation and the steps of `create_worktree` with the lock
  of each process. `git worktree add` is external: it takes time, creates a
  directory only where none is, and may fail.
- **`AgentCall`** composes `Argv`, `Worktree` and, through two constant operators,
  `Schema`: one call from its options to its result (`parse_agent_opts`,
  `prepare_agent`, `execute_agent`, `_decode_result`), for several calls of several
  runs in one process or more, with cancellation, kills, and a codex or a mock
  executor. A call that no worker has begun is dropped when its run is given up
  (`Drop`), as `pool.shutdown(cancel_futures=True)` and the forgotten
  `pending_agents` do. The slot of a call is named after its label (`SlotPath`), and
  its path is part of the command line. It is what happens inside one call of `Run`. Only its
  instance reaches `Schema`, whose operators are recursive, so that `AgentCall`
  can be proved about.
- **`MCPump`, `MCExecutor`, `MCSupervisor`, `MCRun`, `MCAgentCall`**: values for TLC.
- **`PumpProofs`**, **`PumpProgramProofs`** (extends it), **`ExecutorProofs`**,
  **`SupervisorProofs`**, **`RunProofs`**, **`CombinatorsProofs`**, **`ArgvProofs`**,
  **`AgentCallProofs`** (extends that): theorems about the module of that name and
  their proofs.

Definitions marked *Mutation* in a comment are not part of a specification: each
is a plausible wrong form of the definition that follows it, kept to show that
the properties notice it.

## Runs

| Run | Instance | What it shows |
|---|---|---|
| `pump_agents` | 3 calls, 2 workers, budget 2, batch 3, 8 jobs, faults at every place | completions conserved, verdict final, `CallLifecycle` implemented (its cap and budget included) |
| `pump_children` | 2 calls, 1 child, 1 worker, budget 2, faults at every place, fair | wakeups conserved, children counted, success clean, stall real; always returns, cap held by every path, no worker left, cancelled unless successful |
| `pump_undrained` | 1 call | *violation*: success with a continuation still queued |
| `pump_empty_rejection` | 1 call | *violation*: a thrown empty string is a success |
| `executor` | 2 agents, POSIX and Windows, fair | nothing escapes `cancel_all`, `run` and `cancel_all` return, `CancelScope` implemented |
| `supervisor` | 2 agents, POSIX and Windows, fair | success is real, no result missed, runtime gone, always returns |
| `supervisor_tree` | 2 agents, POSIX | *violation*: codex processes outlive a timeout |
| `run_journal` | 2 runs, 2 calls, 1 phase change, 1 agent, 2 identities, all failures | one record per settled call, closed by `run.finished`, phases in order, limit real, calls served from the first run not charged |
| `run_resume` | 3 runs, 2 calls, 2 agents, 2 identities, 2 arguments, calls refused for their options | exactly the recorded prefix is replayed, none of it redone, and a value served two runs later still belongs to the call that produced it |
| `run_unrecorded` | 1 call, whose result JSON may not express: the only failure | *violation*: a call that was charged and executed has no record in a run that ended well |
| `combinators` | up to 4 entries (limit 3), up to 2 stages, fair | slots match entries, failures stay in their branch and end it, no barrier, an answer unless a branch hangs |
| `agent_call` | up to 3 calls in 2 processes; 474 scenarios, fair | writers confined to directories of their own, command lines as requested, validator exact, results fit their schemas, calls settle unless killed or dropped |

### Bounds and why they are enough

Three calls over two workers leave one call behind the cap and one behind the
budget. One child is enough for every start, refusal and end of a child, because
children meet only in `activeChildren`; its counting is checked with the child
inside a run that has agents too. Eight jobs let the job limit strike after a
delivery as well as before one. Two executor calls can be one in `_spawn` and
one registered. Two calls in each of two runs with a budget of one (`run_journal`) give
records in either order, holes, and every mixture of a call served, charged and refused
for the limit. Two calls in each of three runs (`run_resume`) give a prefix, a hole with a
recorded call behind it, a miss and a call that would match again, a hit behind a hit,
and a run resumed from one that was itself resumed; longer runs and chains are left to
the theorems, which have no bounds. `Faults` limits which calls may fail: in `run_resume` a
cached value its schema refuses, and options that are refused, which takes an index and
does not move the cursor (kills make the other holes); in `run_unrecorded` a result the
journal cannot write; `run_journal` has all failures. Symmetry is used in `Run` only, over identities and over arguments, with
invariants only. Deadlock is checked except for `Run`, where the last run simply ends,
and for `Combinators`, where a branch whose user code hangs stays where it is. The types
of `Combinators` are left to their theorem.

Four entries over a limit of three meet the limit; three branches are enough for
one that succeeds, one that fails and one that hangs, in every order, and two
stages for an item that is ahead of another and for one whose first or last
stage fails.

`agent_call` starts from scenarios. Single calls leave the ordinary one in at
most two places (prompt, each option, labels that are allowed and spoil the path of
their slot among them, the run's codex, model, repository,
worktree root, name). Schemas: every type bare, and a representative of each
keyword, of nesting and of each reason for refusal; each is met by every one of
49 answers, NaN, booleans against numbers and nested ones among them. `Made`
builds arrays of up to three items and objects over two names, which covers the
answers. Command lines near a built one are those with up to two texts removed
and up to two put in at one place, which includes repeated flags, lost values
and texts behind the prompt; six built lines are altered so, authorized and
not. At the same time: two calls of a run, two runs of one process or of two
whose directories get the same safe name, a root inside the repository, no
repository, mocks. The depth limit of schemas is 2 instead of 64.

### Fairness

`Pump` assumes that the main thread and the workers are scheduled, and that
each agent ends: `CodexExecutor` bounds it by its timeout (900 s by default),
which is what `Executor!RunsReturn` checks in turn. `Executor` assumes fairness
of the threads only, none of the processes: they may ignore SIGTERM for ever. A
wait with a timeout may expire whenever its process is alive, and by weak
fairness one of return and expiry happens. `AgentCall` assumes of an accepted call only
that the pump begins it or drops it, and it may drop it once the run was given up; of
the others that workers are scheduled, that codex ends (its timeout, `Executor!RunsReturn`), and that git
ends, which nothing in the code enforces: there is no timeout, and `cancel_all`
does not reach git. Nothing is assumed of the program that makes the calls.
`Combinators` assumes that the promise jobs run and that promises which are not
chosen to hang are settled. `Supervisor` assumes that it is
scheduled and that time passes; the runtime may loop for ever. `Run` has no
liveness property.

## Disagreements found

1. **`pump_undrained`** (`pump.py:404`): deliveries queue promise jobs in the
   same turn in which the exit test succeeds, and the loop is left without
   running them. A forgotten `agent(...).then(...)` may never run its
   continuation, while the run is reported ok.
2. **`pump_empty_rejection`** (`pump.py:402`): `if error:` takes an empty error
   text for none.
3. **`supervisor_tree`** (`supervisor.py:201`): the runtime is killed by the
   SIGTERM before it can cancel its executor, and the codex processes, which
   have sessions of their own, live on. (On Windows `taskkill /T` takes them.)
4. **`run_unrecorded`** (`run.py:361`): the record of a success is appended
   outside the `try`; a value with a NaN inside an object passes a schema
   without `properties` and cannot be written. The call was charged and executed,
   its program sees an error, and when it catches that the run ends well with fewer
   records of executions than agents it was charged for
   (`EveryExecutionRecorded`). The journal then has a hole that ends every later
   resume there. The run has no other failure, so that its trace is this one.

Remarks that contradict no sentence of the documentation, or only repeat one of
the above:

- `executor.py:213`: the group of an exited leader is not looked at again, so that
  a helper of codex which is slow to heed SIGTERM survives `run` and `cancel_all`.
- `worktree.py:38`: the safe name strips dashes, and runs with different
  `runs_root` may have one name: two runs begun in the same second can be given
  one worktree path. The directory is not shared (`WritersConfined`), but the
  second call fails.
- `argv.py:108`: forbidden texts are searched for in paths too. A script named
  `x--config.js` has a run directory in whose runs every call is refused, and a call
  with the label `workspace-write` or `a--config`, which `_LABEL_RE` allows, is
  refused for the name of its own slot.
- `schema.py:304`: inside arrays and objects an enum compares as Python does, so
  that `[true]` is accepted where `[1]` is listed.
- `sandbox.py:319`: `pipeline(items)` without stages has no `try`, so that an item
  which is a rejected promise rejects the whole call.

## Proofs

Each theorem below has the form `Spec => []Inv` or `Spec => [][A]_vars`, or says that the
specification implements an abstract one (those about command lines are about
operators), and holds for every value of the constants that
meets the assumptions named with it. TLC evaluates those assumptions in the runs of
the module. A proof module first says what the operators do (queues, command lines,
journals), then what a step of each kind does to each part of the inductive
invariant, and combines the parts in the theorems at its end. No run checks the
strengthened invariants themselves: their proofs do, and each implies the property a
run checks.

### The pump

Assumptions: `CallBounds` and `PumpBounds` (counters are natural numbers, the cap,
the budget and the batch positive; faults strike at places of the loop).

| Theorem | Module | Property |
|---|---|---|
| `TypeCorrect` | `PumpProofs` | `TypeOK` |
| `CompletionsAreConserved` | `PumpProofs` | `CompletionsConserved` |
| `InflightIsBounded` | `PumpProofs` | `InflightBounded` |
| `AlwaysExitsClean` | `PumpProofs` | `ExitsClean` |
| `DecidedStaysFinal` | `PumpProofs` | `DecidedIsFinal` |
| `PumpImplementsLifecycle` | `PumpProofs` | `ImplementsLifecycle` |
| `WakeupsAreConserved` | `PumpProgramProofs` | `WakeupsConserved` |
| `ChildrenAreCounted` | `PumpProgramProofs` | `ChildrenCounted` |
| `SuccessIsAlwaysClean` | `PumpProgramProofs` | `FinishedClean` |
| `StallsAreReal` | `PumpProgramProofs` | `StallIsReal` |

- *Queues.* `TypeCorrect` needs `JobsWithinLimit`: the job counter is typed by its
  limit, and a job is only begun below it. The next two rest on `CarryInv`: calls are
  numbered in order (`IdsNumbered`), each unanswered one is in one place
  (`AllPlaced`), and the pool is inside `inflight`, within the cap (`AllTracked`).
  Neither property is inductive alone: a new call keeps the queues disjoint only
  because its number is fresh, and a delivery keeps the pool inside `inflight` only
  because a completion in `done_q` is neither queued nor on a worker. An exception in
  mid-statement breaks `CarryInv` for good, but in one way: the run has failed, and
  for all calls but one the same still holds (`OneLost`). The inductive invariant is
  therefore `CarryKept`, one or the other; `ProgramKept` does the same for the
  one child of `WorkflowFails`.
- *Ends.* `EndInv` ties `outcome` and `cancelled` to the place on the way out.
- *Refinement.* Initial states map to initial states of `CallLifecycle`; each
  kind of step is mapped to one of its actions or to no change of `callStage`,
  `startedCalls` and `verdict`. It uses `CarryInv` (a worker holds only what was
  submitted), under which the stage of a call is read from `resolvers` and `inflight`
  alone (`wholeStage`), and the budget. The steps that lose a call are `LoseOne`; after
  them the abstract state does not change.
- *Programs.* `WakeInv` (the queued jobs are those of the activities whose status
  has one, each once; nobody waits for a settled promise or for nothing; no two
  wait for one promise; one job runs) implies `WakeupsConserved`. `ChildInv`
  counts the children and ties an open `workflow()` promise to its child.
- *Verdicts.* `TurnInv` says what a turn that ran no job and made no progress has
  left behind: no job, and completions only of workers. That a stall is real then follows without any
  fairness: no agent is open, so whoever waits, waits for a child. A child
  cannot call `workflow()` (`ChildrenHold`), so there is no circle of waits, and
  some main program hangs.

### The executor

`ExecutorTypeCorrect`, `NoneEverEscapesCancel` (`NoneEscapesCancel`) and `AliveAlwaysTracked`
(a live process is in `_active`, and its call has not gone on without it), for any set
of agents, with `PlatformsAssumption`. `ExecutorInv` adds which calls have a process at all
(`Started`), that the flag is set before `_active` is copied (`FlagSetFirst`), and
that from the copy on every live process is among the targets or in hand
(`Pursued`; the spawn is in the same section under the lock as its test of the
flag). `CancelledIsQuiet` follows: when `cancel_all` has returned, no codex
process is alive and none is started. It is about leaders; helpers may survive
(Remarks above).

`ExecutorImplementsCancelScope` (`ImplementsCancelScope`) is the refinement. The stage of
a call follows from its place and its process (`StageIs`); a step that starts or ends no
process and gives no answer is invisible (`RefineNothing`), and each other one is one
action of `CancelScope`, whether a process ended by itself, by its call's timeout or by
`cancel_all` (`RefineStop`). `ExecutorInv` is used where the two views could differ: a
process is started only while the scope is open (`FlagSetFirst`), an answered call has
none (`AliveIsTracked`), and none is left when `cancel_all` returns (`Pursued`).

### The supervisor

`SupervisorTypeCorrect`, `SuccessIsAlwaysReal` (`SuccessIsReal`), `NoRuntimeEverLeft`
(`NoRuntimeLeft`), `ResultIsNeverMissed` (`ResultNotMissed`), for any set of agents.
`SupervisorInv` adds the order of a runtime's life (`RuntimeInOrder`), that one
result is sent, after its verdict was recorded, and is in the pipe or received
(`OneResult`), and that the places of the supervisor tell whether it has one
(`ResultDecides`).

### Runs, journals, resume

Assumption: `RunBounds`. `Identities` does not contain `None`, because
`agent_identity` returns a text; without it a refused call, which has no identity,
could agree with a recorded one, and `PrefixReused` would be false.

| Theorem | Property | Invariant |
|---|---|---|
| `RunTypeCorrect` | `TypeOK` | `RunInv` |
| `RecordsAlwaysMatchCalls` | `RecordsMatchCalls` | `RunInv` |
| `FinishedIsAlwaysLast` | `FinishedIsLast` | `FinishInv` |
| `PhasesAlwaysInOrder` | `PhasesInOrder` | `PhaseInv` |
| `LimitIsAlwaysReal` | `LimitIsReal` | `BudgetInv` |
| `AlwaysReplaysPrefix` | `ReplaysPrefix` | `ResumeInv` |
| `PrefixIsAlwaysReused` | `PrefixReused` | `ReuseInv` |
| `OriginIsAlwaysReal` | `OriginIsReal` | `HistoryInv` |

- The lemma `Shapes` reduces the actions to what they do to calls and journal:
  a new run, nothing (`Same`), a call registered with its record (`Registered`), one
  without (`Unrecorded`), an execution recorded (`Executed`). The parts below
  distinguish these.
- `RecordInv`: the records of a journal have different indices; the records of
  the latest one are those of settled calls, with their phases, and every
  settled call has one. The Cardinality of `RecordsMatchCalls` is that of a set
  with one element or none.
- `FinishInv`: only an ended run has a closing line (`NotYetFinished`), and an
  ended run has no call that could still be recorded (`NoneAtRest`).
- `PhaseInv`: the calls have the phases in which they were made, in order;
  records inherit that whichever is appended first.
- `BudgetInv`: `live_agent_count` is at most the number of calls that were accepted
  as far as the records tell. A call without a record counts as accepted, so
  that a later record only settles what was counted.
- `ResumeInv`: `OriginInv` says that each entry is the predecessor's record of that
  index and that the next one is missing or failed, and that the cursor is only
  active for the same arguments; `CursorInv` that `position` is the number of
  records served from it, that the k-th of these is the k-th entry, and that no
  call is served behind one that was not. That `load` finds such a prefix, for
  every journal, is the least-element argument of `LoadedPrefix`.
- `ReuseInv`: while all calls were served, `position` is their number, and the
  cursor is closed only by a call that disagrees with the entries.

### Combinators

`CombinatorsTypeCorrect`, `SlotsAlwaysKeepInput` (`SlotsKeepInput`),
`FailureAlwaysStaysInBranch` (`FailureStaysInBranch`), `FailedBranchSkips`
(`SkipsAfterFailure`) and `AlwaysWaitsForABranch` (`WaitsForABranch`, the safety
half of `Answers`: a call that is not answered has a branch whose reaction has
not run), for any limit and any number of stages, with `CombinatorBounds`. `BranchInv` says what a branch under way carries (the entry
and the stages before the one under way) and where a failed branch may be;
`JoinInv` that `remaining` counts the empty slots, and that while the call waits
there is one and every reaction that has run filled its own. The proof showed that the
type invariant had been too narrow: `parallel` has one stage also where
`MaxStages` is 0.

### Command lines

Assumption: `FlagTexts`, what the code's tests say of the texts it has in its source
(flags start with a dash, no flag has the name of codex or a forbidden text, the
empty text is blank). `ArgvProofs` has no behaviours, only operators:

- `ValidatorAcceptsWellFormed`: for every sequence of texts, `ValidateArgv` holds
  exactly when `WellFormed` does. `LoopSound` says that a loop that refuses nothing
  has read a list of allowed pairs and stands behind it, `LoopComplete` that it
  gets through every such list. Both go by the number of turns. The library's induction
  theorems cannot be used here, so `AllNumbers` gets induction for a *set* of
  numbers from the least element of its complement (`WFMin`, which the library
  states for sets), and the lemmas put the numbers for which they hold into one.
- `BuilderRefusesForItsParts`: given paths that are absolute and do not start with a
  dash, `build_codex_argv` refuses exactly when a part of the request is not
  allowed for itself. So what its last step, the validator, adds to its own tests
  are the name of the executable and the forbidden texts, and it never refuses a
  line for its form.
- `AllowedPlaces`: in a line that was built, a flag stands nowhere but in its place,
  so that nothing a caller writes is read as one.

### Agent calls

`AgentCallTypeCorrect`, `WritersAlwaysConfined` (`WritersConfined`),
`ArgvAlwaysRequested` (`ArgvIsRequested`) and `ValidatorAlwaysExact`
(`ValidatorIsExact`), for any scenarios, runs, processes and edits, the first three from
`AgentCallInvariant`. The argument: a command line is what the builder made and its
tests passed (`LineInv`), so its sandbox and its directory are read at known places,
and none of its texts is forbidden, the path of the slot with its label included;
a refused call had options or a request that is not allowed (`StageInv`, with its
number as of then); `git worktree add` runs under the lock of the process only
(`LockInv`), makes a directory only where none is, and each worktree has one maker,
the path its maker was told, and lies outside the repository (`TreeInv`). Two processes
may be given one path; the second `git` fails. A call has an answer only when it is
over, and has returned exactly when that passed (`AnswerInv`): `ResultAlwaysChecked` says
so of every schema and answer, with the two validators left as constant operators. What
`ResultFits` adds to it is a question about values and schemas only.

Assumptions: `FlagTexts`; `ScenariosAssumption` (finite sequences of calls; the
effort of a run was checked when it began; a text that starts with a dash also does
after its white space); `FaultKinds`; `NoAgentAssumption`; and `PathsAssumption`: paths
are resolved before they are used, hence absolute, unchanged by `_absolute_path` and
without a dash in front; worktree paths differ as texts when they differ; the two
files of a slot, whatever its label, have the same forbidden text in their paths or none, since they
differ in their last part only; and, about the environment, nobody starts a run
inside the worktree of a call. A read-only codex given another call's worktree as
its repository would be a second codex there, and nothing in the code looks for it.

### What is only model-checked

- Liveness, which the provers do not reach: `Termination` of the pump, `RunsReturn`
  and `CancelEnds` of the executor, `Returns` of the supervisor, `NoBarrier` and
  `Answers` of the combinators, `CallsSettle` of agent calls.
- `ResultFits`, as far as it goes beyond `ResultAlwaysChecked`: the validators of `Schema`
  and the values `Made` for a schema are recursive operators.

## Not modelled

- The contents of prompts, results and messages beyond what the code asks of
  them; in `Pump` and `Run` payload checks appear as accepted or refused.
- The hardening of JavaScript globals and the source checks of `prepare_script`:
  they decide what a program can name, and have no state to explore.
- The CLI, which parses arguments, calls the supervisor once and prints.
- A git that hangs or leaves a partial directory when it fails; a user who
  removes a worktree while its agent works.
- A second Ctrl+C in the runtime while `run_job_pump` cancels or joins its pool, which
  leaves that early; a runtime that survives a second Ctrl+C in the supervisor is in
  `Supervisor`, and `NoRuntimeLeft` excludes it.
- What a context call that fails leaves half done in the context (`startChild` out of
  memory after it has counted its child, when `reject_workflow` then succeeds).
- Promises a program keeps in a variable while it awaits something else: in `Runtime` a
  program's next await is of all it holds, or a race between them.
- Reuse of process ids (`executor.py:208` signals by pid after a poll), processes that
  survive SIGKILL, writes that fail for lack of space except where a slot is prepared
  or its logs are opened.
- A run resumed while its predecessor is still being written, and two runs at
  once, except for their worktrees (`AgentCall`): run directories are made by an
  atomic `mkdir` and share nothing else.

## Plan

Order: the pump first, since everything passes through it.

1. *Done*: `Runtime`, `Pump`, `CallLifecycle`, `PumpProofs` (types, completions,
   cap), `Executor`, `CancelScope`, `Supervisor`, `Run`, `Combinators`, `Argv`, `Schema`,
   `Worktree`, `AgentCall`.
2. *Done*: proofs of every safety property of the runs, except for those listed
   under "What is only model-checked", and of both refinements.
3. *Possible*: a composition of `Supervisor` with the executor's
   cancellation in place of the summary `ScriptFails`.
