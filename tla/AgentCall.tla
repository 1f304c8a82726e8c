------------------------------ MODULE AgentCall ------------------------------
(***************************************************************************)
(* One agent() call from its options to its result, on the host: module    *)
(* Run's calls looked at from inside.  prepare_agent and execute_agent     *)
(* (run.py) parse the options, set a directory aside, build the command    *)
(* line (Argv), make the worktree (Worktree), run codex and check what it  *)
(* answered.  Several calls of several runs, in one process or in more,    *)
(* are on their way at the same time.                                      *)
(*                                                                         *)
(* Left to other modules: the queues and the cap (Pump), cache hits, the   *)
(* limit on live agents and the journal (Run), how codex is waited for and *)
(* killed (Executor).  Here a codex that was started ends, with an answer  *)
(* or without.                                                             *)
(***************************************************************************)
EXTENDS Argv, Worktree

CONSTANTS
    Scenarios,          \* the calls considered: a request for each of Agents
    Answers,            \* what codex may answer when a schema was given
    SchemaAllowed(_),   \* validate_schema, and that it is JSON and not too long
    ResultAllowed(_, _),\* validate_instance
    LabelPattern(_),    \* _LABEL_RE.fullmatch(text)
    SafeLabel(_),       \* _safe_label
    AgentName(_),       \* "agent-" and the number of the call, its label by default
    SlotFile(_, _, _, _),\* the path of a file in the slot of a run's n-th call, whose
                        \* directory is named by the number and a safe label
    TreeText(_),        \* a worktree path as text
    Probed,             \* the scenarios whose command lines are altered, to see
    Edits(_),           \* ... what the validator says of the altered ones
    Faults              \* bound: what may go wrong around the calls

ASSUME FaultKinds == Faults \subseteq {"cancel", "kill", "disk", "git"}

(***************************************************************************)
(* A request is [run, prompt, opts].  opts has what the call gives, NoText *)
(* for what it does not; its schema is a sequence of at most one element.  *)
(* A run is [dir, name, process, repository, worktree_root, workdir,       *)
(* codex_bin, model, effort, mock]: dir is its directory and name the last *)
(* part of that; repository tells whether workdir is in one; mock whether  *)
(* its executor is a MockExecutor, which answers in place of codex.        *)
(***************************************************************************)

\* A scenario is a finite sequence of calls, made by runs in some of the processes.
\* The effort of a run was checked when it began (run.py:461).  A text that starts with
\* a dash starts with one after its white space too.
ASSUME ScenariosAssumption ==
    \A calls \in Scenarios :
        /\ Len(calls) \in Nat
        /\ DOMAIN calls = 1 .. Len(calls)
        /\ DOMAIN calls \subseteq Agents
        /\ \A a \in DOMAIN calls :
              /\ calls[a].run.process \in Processes
              /\ calls[a].run.effort \in Efforts
              /\ StartsWithDash(calls[a].prompt) => IndentedDash(calls[a].prompt)

\* A file in the slot of a call: the slot is named after the label it was given.
SlotPath(run, number, opts, name) ==
    SlotFile(run, number,
             SafeLabel(IF opts.label = NoText THEN AgentName(number) ELSE opts.label), name)

\* Paths as text.  All of them are resolved before they are used, so that they are
\* absolute, and making them so changes nothing; an absolute path does not start
\* with a dash.  No two worktree paths are the same text, and the files of a slot
\* have the same directory in their paths.  The last part is about the environment:
\* nobody starts a run inside the worktree of a call.
ASSUME PathsAssumption ==
    \A calls \in Scenarios : \A a, b \in DOMAIN calls, m, n \in 0 .. Len(calls) :
        LET path == AllocateWorktreePath(calls[a].run, m)
            other == AllocateWorktreePath(calls[b].run, n)
            last == SlotPath(calls[a].run, m, calls[a].opts, "last.txt")
            schema == SlotPath(calls[a].run, m, calls[a].opts, "schema.json")
        IN /\ \A text \in {TreeText(path), calls[a].run.workdir, last, schema} :
                 text # NoText /\ Absolute(text) = text /\ IsAbsolute(text) /\ ~StartsWithDash(text)
           /\ TreeText(path) = TreeText(other) => path = other
           /\ Mentions(schema) = Mentions(last)
           /\ calls[b].run.workdir # TreeText(path)

VARIABLES
    request,     \* the calls, fixed: a sequence
    place,       \* where each is
    index,       \* its agent_index
    stage,       \* the stage it failed in, as its record names it
    argv,        \* its command line
    answer,      \* what codex answered: <<>>, not JSON, or <<value>>
    cancelled,   \* directories of the runs whose executor was told to cancel_all
    killed       \* processes that were killed

callVars == <<place, index, stage, argv, answer>>
vars == <<request, callVars, cancelled, killed, trees, lock>>

Places == {"uncalled",
           "accepted",   \* prepared: with a worker, or waiting for one
           "locking",    \* its target has passed the tests
           "adding",     \* git runs, under the lock
           "starting",   \* on the way into executor.run
           "running",    \* codex runs, or the mock executor waits
           "answering",  \* the mock executor has waited
           "returned", "failed",
           "dropped",    \* its run was given up before a worker began it
           "dead",       \* its process was killed
           "abandoned",  \* ... while git ran, which goes on
           "orphaned"}   \* ... while codex ran, which goes on

Over == {"returned", "failed", "dropped", "dead", "abandoned", "orphaned"}
Stages == {"options", "slot", "argv", "worktree", "executor"}

Calls == DOMAIN request
Run(a) == request[a].run
Opts(a) == request[a].opts
Isolated(a) == Opts(a).isolation = "worktree"
Target(a) == AllocateWorktreePath(Run(a), index[a])
CodexRuns(a) == place[a] \in {"running", "orphaned"} /\ ~Run(a).mock
SameRun(a) == {b \in Calls : Run(b).dir = Run(a).dir}

TypeOK ==
    /\ request \in Scenarios
    /\ place \in [Calls -> Places]
    /\ index \in [Calls -> 0 .. Len(request)]
    /\ stage \in [Calls -> Stages \cup {NoText}]
    /\ \A a \in Calls : stage[a] # NoText <=> place[a] = "failed"
    /\ \A a \in Calls : Len(argv[a]) \in {0, 13, 15, 17} /\ Len(answer[a]) \in 0 .. 1
    /\ cancelled \subseteq {Run(a).dir : a \in Calls}
    /\ killed \subseteq Processes
    /\ WorktreeTypeOK
    \* the lock is with the one call whose git runs
    /\ \A p \in Processes :
          {a \in Calls : Run(a).process = p /\ place[a] = "adding"} = {lock[p]} \ {NoAgent}

Init ==
    /\ request \in Scenarios
    /\ place = [a \in Calls |-> "uncalled"]
    /\ index = [a \in Calls |-> 0]
    /\ stage = [a \in Calls |-> NoText]
    /\ argv = [a \in Calls |-> <<>>]
    /\ answer = [a \in Calls |-> <<>>]
    /\ cancelled = {}
    /\ killed = {}
    /\ WorktreeInit

Goto(a, where) == place' = [place EXCEPT ![a] = where] /\ UNCHANGED stage

Fail(a, where) ==
    /\ place' = [place EXCEPT ![a] = "failed"]
    /\ stage' = [stage EXCEPT ![a] = where]

-----------------------------------------------------------------------------
(* prepare_agent, on the thread of the pump.                               *)

\* parse_agent_opts; unlisted is one of the names it has no place for.
OptionsAllowed(opts) ==
    /\ opts.unlisted = NoText
    /\ opts.label # NoText => LabelPattern(opts.label)
    /\ \A schema \in {opts.schema[i] : i \in DOMAIN opts.schema} : SchemaAllowed(schema)
    /\ opts.model # ""
    /\ opts.effort \in Efforts \cup {NoText}
    /\ opts.isolation \in {"worktree", NoText}

\* Mutation: the model of the run is used for every call.
CommandOfRunModel(a, number) ==
    LET isolated == Isolated(a)
    IN [codex_bin |-> Run(a).codex_bin,
        sandbox |-> IF isolated THEN "workspace-write" ELSE "read-only",
        authorized |-> isolated,
        workdir |-> IF isolated THEN TreeText(AllocateWorktreePath(Run(a), number))
                    ELSE Run(a).workdir,
        effort |-> IF Opts(a).effort = NoText THEN Run(a).effort ELSE Opts(a).effort,
        model |-> Run(a).model,
        last_message_path |-> SlotPath(Run(a), number, Opts(a), "last.txt"),
        schema_path |-> IF Opts(a).schema = <<>> THEN NoText
                        ELSE SlotPath(Run(a), number, Opts(a), "schema.json"),
        prompt |-> request[a].prompt]

\* What prepare_agent asks build_codex_argv for: what the call does not choose is
\* the run's choice, and isolation alone decides on sandbox and directory.
Command(a, number) ==
    LET isolated == Isolated(a)
    IN [codex_bin |-> Run(a).codex_bin,
        sandbox |-> IF isolated THEN "workspace-write" ELSE "read-only",
        authorized |-> isolated,
        workdir |-> IF isolated THEN TreeText(AllocateWorktreePath(Run(a), number))
                    ELSE Run(a).workdir,
        effort |-> IF Opts(a).effort = NoText THEN Run(a).effort ELSE Opts(a).effort,
        model |-> IF Opts(a).model = NoText THEN Run(a).model ELSE Opts(a).model,
        last_message_path |-> SlotPath(Run(a), number, Opts(a), "last.txt"),
        schema_path |-> IF Opts(a).schema = <<>> THEN NoText
                        ELSE SlotPath(Run(a), number, Opts(a), "schema.json"),
        prompt |-> request[a].prompt]

\* The calls of a run are numbered as they come, the refused ones too.
NextIndex(a) == Cardinality({b \in SameRun(a) : place[b] # "uncalled"})

\* The program runs: it makes no call once its pump has given up.
MayCall(a) ==
    /\ place[a] = "uncalled"
    /\ Run(a).process \notin killed
    /\ Run(a).dir \notin cancelled

Prepare(a) ==
    /\ MayCall(a)
    /\ index' = [index EXCEPT ![a] = NextIndex(a)]
    /\ LET command == Command(a, NextIndex(a))
       IN \/ /\ ~OptionsAllowed(Opts(a))
             /\ Fail(a, "options")
             /\ UNCHANGED argv
          \/ /\ OptionsAllowed(Opts(a))
             /\ ~BuildAllowed(command)
             /\ Fail(a, "argv")
             /\ UNCHANGED argv
          \/ /\ OptionsAllowed(Opts(a))
             /\ BuildAllowed(command)
             /\ argv' = [argv EXCEPT ![a] = BuildArgv(command)]
             /\ Goto(a, "accepted")
    /\ UNCHANGED <<request, answer, cancelled, killed, trees, lock>>

\* The slot, or a file in it, cannot be written ("schema" and "artifacts" are
\* stages of their own in the record).
PrepareFails(a) ==
    /\ "disk" \in Faults
    /\ MayCall(a)
    /\ OptionsAllowed(Opts(a))
    /\ index' = [index EXCEPT ![a] = NextIndex(a)]
    /\ Fail(a, "slot")
    /\ UNCHANGED <<request, argv, answer, cancelled, killed, trees, lock>>

-----------------------------------------------------------------------------
(* execute_agent, on a worker.                                             *)

\* create_worktree up to its lock.
CheckTarget(a) ==
    /\ place[a] = "accepted"
    /\ Isolated(a)
    /\ IF TargetAllowed(Run(a), Target(a)) THEN Goto(a, "locking") ELSE Fail(a, "worktree")
    /\ UNCHANGED <<request, index, argv, answer, cancelled, killed, trees, lock>>

GitBegins(a) ==
    /\ place[a] = "locking"
    /\ AcquireGitLock(a, Run(a).process)
    /\ Goto(a, "adding")
    /\ UNCHANGED <<request, index, argv, answer, cancelled, killed>>

\* The rest of create_worktree; a git whose process was killed ends too.
GitEnds(a, added) ==
    /\ place[a] \in {"adding", "abandoned"}
    /\ added \/ "git" \in Faults \/ Exists(Target(a))
    /\ IF added THEN GitAdds(a, Target(a)) ELSE GitFails
    /\ IF place[a] = "abandoned"
       THEN Goto(a, "dead") /\ UNCHANGED lock
       ELSE /\ ReleaseGitLock(Run(a).process, added)
            /\ IF Created(Target(a), added) THEN Goto(a, "starting") ELSE Fail(a, "worktree")
    /\ UNCHANGED <<request, index, argv, answer, cancelled, killed>>

\* executor.run up to Popen, which takes the argv as it was built.  The mock has no
\* use for it.
Start(a) ==
    /\ place[a] = "starting" \/ (place[a] = "accepted" /\ ~Isolated(a))
    /\ IF Run(a).dir \in cancelled THEN Fail(a, "executor") ELSE Goto(a, "running")
    /\ UNCHANGED <<request, index, argv, answer, cancelled, killed, trees, lock>>

\* MockExecutor.run waits for its delay or until it is cancelled.
MockWaits(a) ==
    /\ place[a] = "running"
    /\ Run(a).mock
    /\ IF Run(a).dir \in cancelled THEN Fail(a, "executor") ELSE Goto(a, "answering")
    /\ UNCHANGED <<request, index, argv, answer, cancelled, killed, trees, lock>>

MayEnd(a) == place[a] = (IF Run(a).mock THEN "answering" ELSE "running")

\* Codex has failed, run into its timeout or was cancelled; the handler of a mock
\* has raised, or its payload cannot be written.
CodexFails(a) ==
    /\ MayEnd(a)
    /\ Fail(a, "executor")
    /\ UNCHANGED <<request, index, argv, answer, cancelled, killed, trees, lock>>

\* _decode_result when a schema was given.
Decoded(schema, raw) == raw # <<>> /\ ResultAllowed(raw[1], schema)

\* The text of the last message is the result, or is parsed and checked.
CodexAnswers(a) ==
    /\ MayEnd(a)
    /\ IF Opts(a).schema = <<>>
       THEN Goto(a, "returned") /\ UNCHANGED answer
       ELSE \E raw \in {<<>>} \cup {<<value>> : value \in Answers} :
               /\ answer' = [answer EXCEPT ![a] = raw]
               /\ IF Decoded(Opts(a).schema[1], raw) THEN Goto(a, "returned")
                  ELSE Fail(a, "executor")
    /\ UNCHANGED <<request, index, argv, cancelled, killed, trees, lock>>

-----------------------------------------------------------------------------
(* What happens to a run.                                                  *)

\* The pump gives up: executor.cancel_all.  It reaches no git.
Cancel(a) ==
    /\ "cancel" \in Faults
    /\ Run(a).dir \notin cancelled
    /\ Run(a).process \notin killed
    /\ cancelled' = cancelled \cup {Run(a).dir}
    /\ UNCHANGED <<request, callVars, killed, trees, lock>>

\* shutdown(cancel_futures=True) after that: a call no worker has begun, in the
\* pool's queue or still with the pump, is never begun.
Drop(a) ==
    /\ place[a] = "accepted"
    /\ Run(a).dir \in cancelled
    /\ Goto(a, "dropped")
    /\ UNCHANGED <<request, index, argv, answer, cancelled, killed, trees, lock>>

\* The process dies.  What it has started lives on: codex leads a session of its
\* own, and nothing tells git.
Kill(p) ==
    /\ "kill" \in Faults
    /\ p \notin killed
    /\ killed' = killed \cup {p}
    /\ place' = [a \in Calls |->
           CASE Run(a).process # p \/ place[a] \in Over -> place[a]
             [] Run(a).process = p /\ place[a] = "adding" -> "abandoned"
             [] Run(a).process = p /\ CodexRuns(a) -> "orphaned"
             [] OTHER -> "dead"]
    /\ ForgetGitLock(p)
    /\ UNCHANGED <<request, index, stage, argv, answer, cancelled, trees>>

\* An orphan ends in its own time; nobody reads what it answered.
OrphanEnds(a) ==
    /\ place[a] = "orphaned"
    /\ Goto(a, "dead")
    /\ UNCHANGED <<request, index, argv, answer, cancelled, killed, trees, lock>>

-----------------------------------------------------------------------------
ProgramStep(a) == Prepare(a) \/ PrepareFails(a)
WorkerStep(a) == CheckTarget(a) \/ GitBegins(a) \/ Start(a) \/ MockWaits(a)
PumpStep(a) == WorkerStep(a) \/ Drop(a)
ExternalStep(a) == (\E added \in BOOLEAN : GitEnds(a, added)) \/ CodexFails(a) \/ CodexAnswers(a)

AtRest ==
    /\ \A a \in Calls : \/ place[a] \in Over \ {"abandoned", "orphaned"}
                        \/ place[a] = "uncalled" /\ ~MayCall(a)
    /\ UNCHANGED vars

Next ==
    \/ \E a \in Calls : \/ ProgramStep(a) \/ PumpStep(a) \/ ExternalStep(a)
                       \/ Cancel(a) \/ OrphanEnds(a)
    \/ \E p \in Processes : Kill(p)
    \/ AtRest

\* The pump gives every accepted call to a worker, or drops it when the run has been
\* given up; git ends, and codex ends or is ended by its timeout.  Nothing makes the
\* program go on calling.
Fairness ==
    \A a \in Agents :
        /\ WF_vars(a \in Calls /\ PumpStep(a))
        /\ WF_vars(a \in Calls /\ ExternalStep(a))

Spec == Init /\ [][Next]_vars /\ Fairness

-----------------------------------------------------------------------------
(* Properties.                                                             *)

Value(line, flag) == line[(CHOOSE i \in 1 .. Len(line) : line[i] = flag) + 1]

\* THREAT_MODEL.md:62, invariants 3 and 4: at every moment a codex that may write
\* works in a directory which its own call has made, outside the repository, and
\* which no other codex has for its own; every other codex reads only.
WritersConfined ==
    \A a \in Calls : CodexRuns(a) =>
        \/ Value(argv[a], "-s") = "read-only" /\ ~Isolated(a)
        \/ /\ Value(argv[a], "-s") = "workspace-write" /\ Isolated(a)
           /\ \E tree \in trees :
                 /\ tree.maker = a
                 /\ TreeText(tree.path) = Value(argv[a], "-C")
                 /\ ~InsideRepository(tree.path)
           /\ \A b \in Calls \ {a} :
                 CodexRuns(b) => Value(argv[b], "-C") # Value(argv[a], "-C")

\* A request that may be granted: every part of it is allowed for itself, and no
\* text of the command line has a forbidden one, neither the paths of the run nor the
\* path of the slot, which a label of the right form may spoil.
Grantable(a) ==
    LET prompt == request[a].prompt
        model == IF Opts(a).model = NoText THEN Run(a).model ELSE Opts(a).model
    IN /\ OptionsAllowed(Opts(a))
       /\ ~Blank(prompt) /\ ~TooLong(prompt) /\ ~IndentedDash(prompt) /\ Mentions(prompt) = NoText
       /\ model = NoText \/ ModelAllowed(model)
       /\ IsCodex(Run(a).codex_bin) /\ Mentions(Run(a).codex_bin) = NoText
       /\ Mentions(IF Isolated(a) THEN TreeText(Target(a)) ELSE Run(a).workdir) = NoText
       /\ Mentions(SlotPath(Run(a), index[a], Opts(a), "last.txt")) = NoText

\* The first flag of that name is followed by text.
Says(line, flag, text) ==
    \E i \in 1 .. Len(line) - 1 : /\ line[i] = flag
                                  /\ line[i + 1] = text
                                  /\ \A j \in 1 .. i - 1 : line[j] # flag

\* The builder and its validator together: a request that may be granted is never
\* refused for its options or its command line, any other always is, and the
\* command line says what was requested, with the run's choice where the call
\* made none.
ArgvIsRequested ==
    \A a \in Calls :
        /\ stage[a] \in {"options", "argv"} => ~Grantable(a)
        /\ argv[a] # <<>> =>
              /\ Grantable(a)
              /\ argv[a][Len(argv[a])] = request[a].prompt
              /\ Says(argv[a], "-c", EffortArg(IF Opts(a).effort \in Efforts THEN Opts(a).effort
                                               ELSE Run(a).effort))
              /\ IF Opts(a).model # NoText THEN Says(argv[a], "-m", Opts(a).model)
                 ELSE IF Run(a).model # NoText THEN Says(argv[a], "-m", Run(a).model)
                 ELSE \A i \in 1 .. Len(argv[a]) - 1 : argv[a][i] # "-m"
              /\ Opts(a).schema # <<>> <=>
                    \E i \in 1 .. Len(argv[a]) - 1 : argv[a][i] = "--output-schema"

\* THREAT_MODEL.md:48, "rejected in both builder and validator paths": for every
\* command line near one that was built, the two loops of the validator accept
\* it exactly when it is a well formed one.
ValidatorIsExact ==
    \A a \in Calls : request \in Probed /\ place[a] = "accepted" =>
        \A line \in Edits(argv[a]) \cap Seq(STRING), authorized \in BOOLEAN :
            ValidateArgv(line, authorized) <=> WellFormed(line, authorized)

\* Every call that was made returns or fails.  The exceptions: its process is killed,
\* or its run was given up before a worker began it.  So whatever fails under the lock
\* leaves it free for the calls that wait for it, those of other runs too.
Settled(a) ==
    \/ place[a] \in {"returned", "failed"}
    \/ place[a] = "dropped" /\ Run(a).dir \in cancelled
    \/ place[a] \in {"dead", "abandoned", "orphaned"} /\ Run(a).process \in killed

CallsSettle ==
    \A a \in Agents : (a \in Calls /\ place[a] # "uncalled") ~> (a \in Calls /\ Settled(a))
=============================================================================
