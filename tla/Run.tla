--------------------------------- MODULE Run ---------------------------------
(***************************************************************************)
(* run_workflow (run.py), its journal (journal.py) and resume (resume.py). *)
(* A run numbers the agent() calls, serves the ones its predecessor has    *)
(* recorded, has the others executed by workers that append their records  *)
(* in completion order, and ends with run.finished unless it is killed; a  *)
(* later run may resume from any earlier one.                              *)
(*                                                                         *)
(* The pump appears as what CallLifecycle says of it: it runs the accepted *)
(* calls on its workers and ends well only when none is left.  A line is   *)
(* appended in one step (Journal.append holds a lock and flushes), except  *)
(* that a kill can leave a part of one.  log() and workflow() append lines *)
(* like phase()'s, which nothing reads: they are left out.                 *)
(***************************************************************************)
EXTENDS Integers, Sequences, FiniteSets, SequencesExt

CONSTANTS Identities,   \* prompt and options of a call, as agent_identity keys them
          Args,         \* arguments of a run
          MaxRuns,      \* bound: runs one after the other
          MaxCalls,     \* bound: agent() calls of a run
          MaxPhases,    \* bound: phase() calls of a run
          MaxAgents,    \* config.max_agents
          Faults        \* bound: what may fail, among Failures

Failures == {"options", "setup", "cache", "executor", "record", "value"}

None == "none"

ASSUME RunBounds ==
    /\ {MaxRuns, MaxCalls, MaxPhases, MaxAgents} \subseteq Nat
    /\ Faults \subseteq Failures
    /\ None \notin Identities      \* agent_identity returns a text, never None

VARIABLES
    journals,           \* the journal.jsonl of each run directory, oldest first
    place,              \* where the latest run is
    args, resume_from,  \* of the latest run; 0: not resumed
    entries, position, active,   \* its ResumeCursor
    calls,              \* its agent() calls, in order of registration
    live_agent_count,
    current_phase

cursorVars == <<entries, position, active>>
callVars == <<calls, live_agent_count, current_phase>>
vars == <<journals, place, args, resume_from, cursorVars, callVars>>

Values == (1 .. MaxRuns) \X (0 .. MaxCalls)      \* what a call returned: its origin
NoValue == <<0, 0>>
Served == {"live", "hit"}                        \* the records with ok true
Refusals == {"options", "limit", "setup", "cache"}
Stages == Served \cup Refusals \cup {"executor"}

-----------------------------------------------------------------------------
(* Journal lines.                                                          *)

Started == [event |-> "run.started", args |-> args]
Phase(title) == [event |-> "phase", title |-> title]
AgentRecord(index, identity, phase, stage, value) ==
    [event |-> "agent", index |-> index, identity |-> identity, phase |-> phase,
     stage |-> stage, value |-> value]
Finished(ok) == [event |-> "run.finished", ok |-> ok, agents |-> Len(calls)]
Torn == [event |-> "part of a line"]

Latest == Len(journals)
Journal == journals[Latest]
Append1(line) == journals' = [journals EXCEPT ![Latest] = Append(@, line)]
AgentRecords(r) == {line \in ToSet(journals[r]) : line.event = "agent"}

TypeOK ==
    /\ Len(journals) \in 0 .. MaxRuns
    /\ place \in {"none", "created", "open", "cancelling", "ended"}
    /\ args \in Args \cup {None}
    /\ resume_from \in 0 .. MaxRuns
    /\ entries \in Seq([identity : Identities, value : Values])
    /\ position \in 0 .. Len(entries)
    /\ active \in BOOLEAN
    /\ calls \in Seq([identity : Identities \cup {None}, phase : 0 .. MaxPhases,
                      state : {"waiting", "working", "settled", "lost"}])
    /\ Len(calls) <= MaxCalls
    /\ live_agent_count \in 0 .. MaxAgents
    /\ current_phase \in 0 .. MaxPhases
    /\ \A r \in 1 .. Latest : \A line \in AgentRecords(r) :
          line \in [event : {"agent"}, index : 0 .. MaxCalls - 1,
                    identity : Identities \cup {None}, phase : 0 .. MaxPhases,
                    stage : Stages, value : Values \cup {NoValue}]

Init ==
    /\ journals = <<>>
    /\ place = "none"
    /\ args = None
    /\ resume_from = 0
    /\ entries = <<>> /\ position = 0 /\ active = FALSE
    /\ calls = <<>> /\ live_agent_count = 0 /\ current_phase = 0

-----------------------------------------------------------------------------
(* Starting a run.                                                         *)

\* ResumeCursor.load refuses a journal with a broken line or without run.started.
Readable(r) ==
    /\ journals[r] # <<>>
    /\ journals[r][1].event = "run.started"
    /\ Torn \notin ToSet(journals[r])

RecordOk(r, index) ==
    \E line \in AgentRecords(r) : line.index = index /\ line.stage \in Served

\* Mutation: records are taken in the order of the file, unsorted.
LoadedUnsorted(r) ==
    LET records == SelectSeq(journals[r], LAMBDA line : line.event = "agent")
        Fits(n) == \A k \in 1 .. n : records[k].index = k - 1 /\ records[k].stage \in Served
        length == CHOOSE n \in 0 .. Len(records) :
                      Fits(n) /\ (n < Len(records) => ~Fits(n + 1))
    IN [k \in 1 .. length |-> [identity |-> records[k].identity, value |-> records[k].value]]

\* The consecutive successful records from index zero.
Loaded(r) ==
    LET length == CHOOSE n \in 0 .. MaxCalls :
                      /\ \A index \in 0 .. n - 1 : RecordOk(r, index)
                      /\ ~RecordOk(r, n)
        Record(index) == CHOOSE line \in AgentRecords(r) : line.index = index
    IN [k \in 1 .. length |->
            [identity |-> Record(k - 1).identity, value |-> Record(k - 1).value]]

\* The predecessor is read before the new directory is made.  A refused resume
\* leaves nothing behind and is not a step.
StartRun(given, r) ==
    /\ place \in {"none", "ended"}
    /\ Latest < MaxRuns
    /\ r # 0 => Readable(r)
    /\ journals' = Append(journals, <<>>)
    /\ place' = "created"
    /\ args' = given
    /\ resume_from' = r
    /\ entries' = IF r = 0 THEN <<>> ELSE Loaded(r)
    /\ position' = 0
    /\ active' = (r # 0 /\ journals[r][1].args = given)
    /\ calls' = <<>> /\ live_agent_count' = 0 /\ current_phase' = 0

RecordStart ==
    /\ place = "created"
    /\ Append1(Started)
    /\ place' = "open"
    /\ UNCHANGED <<args, resume_from, cursorVars, callVars>>

-----------------------------------------------------------------------------
(* prepare_agent, on the main thread.                                      *)

Call(identity, state) ==
    calls' = Append(calls, [identity |-> identity, phase |-> current_phase, state |-> state])

CanCall == place = "open" /\ Len(calls) < MaxCalls

Hit(identity) == active /\ position < Len(entries) /\ entries[position + 1].identity = identity

\* Mutation: a call refused at its options is not recorded.
OptionsUnrecorded ==
    /\ "options" \in Faults
    /\ CanCall
    /\ Call(None, "settled")
    /\ UNCHANGED <<journals, place, args, resume_from, cursorVars, live_agent_count, current_phase>>

\* A call is refused: its record is appended, unless UTF-8 or JSON has no form for
\* its prompt or options (a lone surrogate, a NaN), when append raises instead.
Refused(identity, stage) ==
    \/ /\ Call(identity, "settled")
       /\ Append1(AgentRecord(Len(calls), identity, current_phase, stage, NoValue))
    \/ /\ "record" \in Faults
       /\ Call(identity, "lost")
       /\ UNCHANGED journals

\* Bad options: no identity is made of them and the cursor does not move.
OptionsRefused ==
    /\ "options" \in Faults
    /\ CanCall
    /\ Refused(None, "options")
    /\ UNCHANGED <<place, args, resume_from, cursorVars, live_agent_count, current_phase>>

\* Mutation: a call that was served is charged as if it had been executed.
CacheHitCharged(identity) ==
    /\ CanCall
    /\ Hit(identity)
    /\ live_agent_count < MaxAgents
    /\ live_agent_count' = live_agent_count + 1
    /\ position' = position + 1
    /\ Call(identity, "settled")
    /\ Append1(AgentRecord(Len(calls), identity, current_phase, "hit", entries[position + 1].value))
    /\ UNCHANGED <<place, args, resume_from, entries, active, current_phase>>

\* A hit is served by execute_agent in the same call, after its schema has been
\* checked again (which a journal edited by hand may fail).
CacheHit(identity) ==
    /\ CanCall
    /\ Hit(identity)
    /\ position' = position + 1
    /\ Call(identity, "settled")
    /\ \/ Append1(AgentRecord(Len(calls), identity, current_phase, "hit",
                              entries[position + 1].value))
       \/ /\ "cache" \in Faults
          /\ Append1(AgentRecord(Len(calls), identity, current_phase, "cache", NoValue))
    /\ UNCHANGED <<place, args, resume_from, entries, active, live_agent_count, current_phase>>

\* Mutation: a mismatch does not end caching.
MissKeepsCaching(identity) ==
    /\ CanCall
    /\ ~Hit(identity)
    /\ active' = active

\* Any miss ends caching for the rest of the run.
Miss(identity) ==
    /\ CanCall
    /\ ~Hit(identity)
    /\ active' = FALSE

LimitReached(identity) ==
    /\ Miss(identity)
    /\ live_agent_count >= MaxAgents
    /\ Refused(identity, "limit")
    /\ UNCHANGED <<place, args, resume_from, entries, position, live_agent_count, current_phase>>

\* The slot, the schema file, the argv or the artifacts fail ("setup" stands for
\* the four stages).
SetupFails(identity) ==
    /\ "setup" \in Faults
    /\ Miss(identity)
    /\ live_agent_count < MaxAgents
    /\ Refused(identity, "setup")
    /\ UNCHANGED <<place, args, resume_from, entries, position, live_agent_count, current_phase>>

\* Mutation: one agent too many.
AcceptPastLimit(identity) ==
    /\ Miss(identity)
    /\ live_agent_count <= MaxAgents
    /\ live_agent_count' = live_agent_count + 1
    /\ Call(identity, "waiting")
    /\ UNCHANGED <<journals, place, args, resume_from, entries, position, current_phase>>

Accept(identity) ==
    /\ Miss(identity)
    /\ live_agent_count < MaxAgents
    /\ live_agent_count' = live_agent_count + 1
    /\ Call(identity, "waiting")
    /\ UNCHANGED <<journals, place, args, resume_from, entries, position, current_phase>>

SetPhase ==
    /\ place = "open"
    /\ current_phase < MaxPhases
    /\ current_phase' = current_phase + 1
    /\ Append1(Phase(current_phase'))
    /\ UNCHANGED <<place, args, resume_from, cursorVars, calls, live_agent_count>>

-----------------------------------------------------------------------------
(* execute_agent, on a worker of the pump.                                 *)

Becomes(n, state) == calls' = [calls EXCEPT ![n].state = state]

Begin(n) ==
    /\ place = "open"
    /\ calls[n].state = "waiting"
    /\ Becomes(n, "working")
    /\ UNCHANGED <<journals, place, args, resume_from, cursorVars, live_agent_count, current_phase>>

\* Mutation: the record gets the phase of the moment the agent ends.
ExecuteInCurrentPhase(n) ==
    /\ calls[n].state = "working"
    /\ Becomes(n, "settled")
    /\ Append1(AgentRecord(n - 1, calls[n].identity, current_phase, "live", <<Latest, n - 1>>))
    /\ UNCHANGED <<place, args, resume_from, cursorVars, live_agent_count, current_phase>>

Execute(n) ==
    /\ calls[n].state = "working"
    /\ Becomes(n, "settled")
    /\ \/ Append1(AgentRecord(n - 1, calls[n].identity, calls[n].phase, "live", <<Latest, n - 1>>))
       \/ /\ "executor" \in Faults
          /\ Append1(AgentRecord(n - 1, calls[n].identity, calls[n].phase, "executor", NoValue))
    /\ UNCHANGED <<place, args, resume_from, cursorVars, live_agent_count, current_phase>>

\* The value cannot be written as JSON text (a NaN or a lone surrogate in it):
\* append raises, outside execute_agent's try, and the call fails unrecorded.
ExecuteUnwritable(n) ==
    /\ "value" \in Faults
    /\ calls[n].state = "working"
    /\ Becomes(n, "lost")
    /\ UNCHANGED <<journals, place, args, resume_from, cursorVars, live_agent_count, current_phase>>

-----------------------------------------------------------------------------
(* The end of a run.                                                       *)

InState(state) == {n \in 1 .. Len(calls) : calls[n].state = state}

\* run_script returns.
FinishWell ==
    /\ place = "open"
    /\ InState("waiting") \cup InState("working") = {}
    /\ Append1(Finished(TRUE))
    /\ place' = "ended"
    /\ UNCHANGED <<args, resume_from, cursorVars, callVars>>

\* The pump has failed: it cancels the executor and drops what no worker has
\* taken, among it what was submitted and not begun.
FailRun ==
    /\ place = "open"
    /\ place' = "cancelling"
    /\ calls' = [n \in 1 .. Len(calls) |->
                    [calls[n] EXCEPT !.state = IF @ = "waiting" THEN "lost" ELSE @]]
    /\ UNCHANGED <<journals, args, resume_from, cursorVars, live_agent_count, current_phase>>

\* Mutation: the workers are not waited for.
FinishBadlyAtOnce ==
    /\ place = "cancelling"
    /\ Append1(Finished(FALSE))
    /\ place' = "ended"
    /\ UNCHANGED <<args, resume_from, cursorVars, callVars>>

\* run_script raises, once the workers have been waited for.
FinishBadly ==
    /\ place = "cancelling"
    /\ InState("working") = {}
    /\ Append1(Finished(FALSE))
    /\ place' = "ended"
    /\ UNCHANGED <<args, resume_from, cursorVars, callVars>>

\* The runtime is killed, possibly half way through a line.
Kill ==
    /\ place \in {"created", "open", "cancelling"}
    /\ place' = "ended"
    /\ \/ UNCHANGED journals
       \/ Append1(Torn)
    /\ calls' = [n \in 1 .. Len(calls) |->
                    [calls[n] EXCEPT !.state = IF @ = "settled" THEN @ ELSE "lost"]]
    /\ UNCHANGED <<args, resume_from, cursorVars, live_agent_count, current_phase>>

-----------------------------------------------------------------------------
Next ==
    \/ \E given \in Args, r \in 0 .. Latest : StartRun(given, r)
    \/ RecordStart
    \/ OptionsRefused
    \/ \E identity \in Identities :
          CacheHit(identity) \/ LimitReached(identity) \/ SetupFails(identity) \/ Accept(identity)
    \/ SetPhase
    \/ \E n \in 1 .. Len(calls) : Begin(n) \/ Execute(n) \/ ExecuteUnwritable(n)
    \/ FinishWell \/ FailRun \/ FinishBadly \/ Kill

Spec == Init /\ [][Next]_vars

-----------------------------------------------------------------------------
(* Properties.                                                             *)

\* Nothing follows run.finished in a journal, and the calls it counts include
\* every one that has a record, also when the run failed with agents at work.
FinishedIsLast ==
    \A r \in 1 .. Latest : \A k \in 1 .. Len(journals[r]) :
        journals[r][k].event = "run.finished" =>
            /\ k = Len(journals[r])
            /\ \A line \in AgentRecords(r) : line.index < journals[r][k].agents

\* A call that is settled has one record and one that is not has none, whichever
\* thread wrote it, so that sorting the records by index restores the calls.
RecordsMatchCalls ==
    Latest > 0 =>
        \A n \in 1 .. Len(calls) :
            Cardinality({k \in 1 .. Len(Journal) :
                             Journal[k].event = "agent" /\ Journal[k].index = n - 1})
                = IF calls[n].state = "settled" THEN 1 ELSE 0

\* The records of r that took an entry of its cursor before this one did.
TakenBefore(r, line) ==
    {earlier \in AgentRecords(r) :
        earlier.stage \in {"hit", "cache"} /\ earlier.index < line.index}

\* The k-th call served from the predecessor is its k-th call: same arguments of
\* the run, same identity, same value, everything before it successful there;
\* and no call before it missed the cache.
ReplaysPrefix ==
    Latest > 0 =>
        \A line \in {record \in AgentRecords(Latest) : record.stage = "hit"} :
            LET k == Cardinality(TakenBefore(Latest, line))
            IN /\ resume_from # 0
               /\ journals[resume_from][1].args = args
               /\ \A index \in 0 .. k : RecordOk(resume_from, index)
               /\ \E old \in AgentRecords(resume_from) :
                     /\ old.index = k
                     /\ old.identity = line.identity
                     /\ old.value = line.value
               /\ \A other \in AgentRecords(Latest) :
                     other.stage \in {"live", "executor", "limit", "setup"} =>
                         other.index > line.index

\* Over any number of resumed runs, a value that is served comes from one call that
\* an earlier run executed, for the same identity under the same arguments and with
\* the same history: the calls the cache answered before the hit have, at the same
\* places before that call, successful records of the same identities.
OriginIsReal ==
    \A r \in 1 .. Latest : \A line \in {record \in AgentRecords(r) : record.stage = "hit"} :
        LET source == line.value[1]
        IN /\ source \in 1 .. r - 1
           /\ journals[source][1].args = journals[r][1].args
           /\ line.value[2] = Cardinality(TakenBefore(r, line))
           /\ \E origin \in AgentRecords(source) :
                 /\ origin.stage = "live"
                 /\ origin.identity = line.identity
                 /\ origin.value = line.value
           /\ \A earlier \in TakenBefore(r, line) : \E old \in AgentRecords(source) :
                 /\ old.index = Cardinality(TakenBefore(r, earlier))
                 /\ old.identity = earlier.identity
                 /\ old.stage \in Served

\* No work is done twice: as long as a resumed run makes the calls its
\* predecessor recorded as successful, in the same order, none is executed again,
\* in whatever order the workers completed them or the predecessor was killed.
PrefixReused ==
    (Latest > 0 /\ resume_from # 0) =>
        \A n \in 1 .. Len(calls) :
            /\ journals[resume_from][1].args = args
            /\ \A index \in 0 .. n - 1 :
                  \E old \in AgentRecords(resume_from) :
                      /\ old.index = index
                      /\ old.stage \in Served
                      /\ old.identity = calls[index + 1].identity
            => \E line \in AgentRecords(Latest) :
                  line.index = n - 1 /\ line.stage \in {"hit", "cache"}

\* A call is refused at the limit only if max_agents earlier calls of the run
\* were accepted: neither hits nor failed registrations are charged.
LimitIsReal ==
    Latest > 0 =>
        \A line \in AgentRecords(Latest) :
            line.stage = "limit" =>
                Cardinality({index \in 0 .. line.index - 1 :
                    \A other \in AgentRecords(Latest) :
                        other.index = index => other.stage \in {"live", "executor"}}) >= MaxAgents

\* Sorted by index the records show the phases in the order the script entered
\* them, although they are appended as the agents end.
PhasesInOrder ==
    \A r \in 1 .. Latest : \A early, late \in AgentRecords(r) :
        early.index < late.index => early.phase <= late.phase

\* JOURNAL.md:95, "A failed registration or execution has "ok": false, an error,
\* and a stage": when a run has finished well, every agent that was charged to it,
\* and so was executed, has the record of an execution in its journal.
EveryExecutionRecorded ==
    Latest > 0 => \A line \in ToSet(Journal) :
        (IF line.event = "run.finished" THEN line.ok ELSE FALSE) =>
            Cardinality({record \in AgentRecords(Latest) : record.stage \in {"live", "executor"}})
                = live_agent_count
=============================================================================
