------------------------------ MODULE RunProofs ------------------------------
(***************************************************************************)
(* Proofs about runs, their journals and their resume cursors, for any     *)
(* number of runs, calls and phases.                                       *)
(*                                                                         *)
(* The order: what an appended line and a changed call do; the shapes of   *)
(* a step, which the rest of the proofs distinguish in place of the        *)
(* actions; the invariant of records and types; then one property after    *)
(* the other: the end of a journal, the phases, the budget, what is        *)
(* replayed, what is reused.                                               *)
(***************************************************************************)
EXTENDS Run, TLAPS, FiniteSetTheorems, FunctionTheorems, SequenceTheorems, WellFoundedInduction

-----------------------------------------------------------------------------
(* Journals.                                                               *)

\* The records run.py writes: a served call has an identity and a value.
AgentLines ==
    {line \in [event : {"agent"}, index : 0 .. MaxCalls - 1, identity : Identities \cup {None},
               phase : 0 .. MaxPhases, stage : Stages, value : Values \cup {NoValue}] :
        line.stage \in Served => line.identity \in Identities /\ line.value \in Values}

Lines ==
    AgentLines
    \cup [event : {"run.started"}, args : Args \cup {None}]
    \cup [event : {"phase"}, title : Nat]
    \cup [event : {"run.finished"}, ok : BOOLEAN, agents : Nat]
    \cup {Torn}

JournalsTyped == journals \in Seq(Seq(Lines))

LEMMA LineIsAgent ==
  ASSUME NEW line \in Lines, line.event = "agent"
  PROVE  line \in AgentLines
<1>1. Torn.event # "agent"
  BY DEF Torn
<1>2. ASSUME line \in [event : {"run.started"}, args : Args \cup {None}]
      PROVE  FALSE
  BY <1>2
<1>3. ASSUME line \in [event : {"phase"}, title : Nat]
      PROVE  FALSE
  BY <1>3
<1>4. ASSUME line \in [event : {"run.finished"}, ok : BOOLEAN, agents : Nat]
      PROVE  FALSE
  BY <1>4
<1>5. QED
  BY <1>1, <1>2, <1>3, <1>4 DEF Lines

LEMMA AppendLine ==
  ASSUME JournalsTyped, Latest > 0, NEW line \in Lines, Append1(line)
  PROVE  /\ JournalsTyped'
         /\ Latest' = Latest
         /\ Len(Journal) \in Nat
         /\ Journal' = Append(Journal, line)
         /\ \A r \in 1 .. Latest : r # Latest => journals'[r] = journals[r]
<1>1. /\ Latest \in Nat /\ Latest \in 1 .. Len(journals)
      /\ Journal \in Seq(Lines)
  BY DEF JournalsTyped, Latest, Journal
<1>2. Append(Journal, line) \in Seq(Lines)
  BY <1>1
<1>3. journals' = [journals EXCEPT ![Latest] = Append(Journal, line)]
  BY DEF Append1, Journal
<1> HIDE DEF Journal
<1>4. /\ journals' \in Seq(Seq(Lines)) /\ Len(journals') = Len(journals)
      /\ journals'[Latest] = Append(Journal, line)
      /\ \A r \in 1 .. Latest : r # Latest => journals'[r] = journals[r]
  BY <1>1, <1>2, <1>3 DEF JournalsTyped, Latest
<1>5. Latest' = Latest
  BY <1>4 DEF Latest
<1>6. Journal' = journals'[Latest]
  BY <1>5 DEF Journal
<1>7. Len(Journal) \in Nat
  BY <1>1
<1>8. QED
  BY <1>4, <1>5, <1>6, <1>7 DEF JournalsTyped

LEMMA AppendRecords ==
  ASSUME JournalsTyped, Latest > 0, NEW line \in Lines, Append1(line)
  PROVE  /\ \A r \in 1 .. Latest : r # Latest => AgentRecords(r)' = AgentRecords(r)
         /\ AgentRecords(Latest)' = AgentRecords(Latest) \cup {l \in {line} : l.event = "agent"}
<1>1. /\ Latest' = Latest
      /\ Journal' = Append(Journal, line)
      /\ \A r \in 1 .. Latest : r # Latest => journals'[r] = journals[r]
  BY AppendLine
<1>2. Journal \in Seq(Lines)
  BY DEF JournalsTyped, Latest, Journal
<1>3. ToSet(Append(Journal, line)) = ToSet(Journal) \cup {line}
  <2> HIDE DEF Journal
  <2>1. /\ Len(Journal) \in Nat /\ DOMAIN Journal = 1 .. Len(Journal)
        /\ DOMAIN Append(Journal, line) = 1 .. Len(Journal) + 1
        /\ \A i \in 1 .. Len(Journal) : Append(Journal, line)[i] = Journal[i]
        /\ Append(Journal, line)[Len(Journal) + 1] = line
    BY <1>2
  <2>2. \A l : l \in ToSet(Append(Journal, line)) <=> l \in ToSet(Journal) \/ l = line
    BY <2>1 DEF ToSet
  <2>3. QED
    BY <2>2
<1>4. \A r \in 1 .. Latest : r # Latest => AgentRecords(r)' = AgentRecords(r)
  BY <1>1 DEF AgentRecords
<1>5. AgentRecords(Latest)' = {l \in ToSet(Journal') : l.event = "agent"}
  BY DEF AgentRecords, Journal
<1>6. AgentRecords(Latest) = {l \in ToSet(Journal) : l.event = "agent"}
  BY DEF AgentRecords, Journal
<1>7. QED
  BY <1>1, <1>3, <1>4, <1>5, <1>6

\* A new run leaves the journals that are there as they are.
LEMMA FreshJournal ==
  ASSUME JournalsTyped, journals' = Append(journals, <<>>)
  PROVE  /\ JournalsTyped'
         /\ Latest \in Nat /\ Latest' = Latest + 1
         /\ Journal' = <<>>
         /\ \A r \in 1 .. Latest : journals'[r] = journals[r] /\ AgentRecords(r)' = AgentRecords(r)
         /\ AgentRecords(Latest)' = {}
<1>1. <<>> \in Seq(Lines)
  OBVIOUS
<1>2. /\ journals' \in Seq(Seq(Lines)) /\ Len(journals) \in Nat
      /\ Len(journals') = Len(journals) + 1
      /\ journals'[Len(journals) + 1] = <<>>
      /\ \A r \in 1 .. Len(journals) : journals'[r] = journals[r]
  BY <1>1 DEF JournalsTyped
<1>3. Journal' = <<>>
  BY <1>2 DEF Journal, Latest
<1>4. AgentRecords(Latest)' = {l \in ToSet(Journal') : l.event = "agent"}
  BY DEF AgentRecords, Journal
<1>5. ToSet(<<>>) = {}
  BY DEF ToSet
<1>6. \A r \in 1 .. Latest : AgentRecords(r)' = AgentRecords(r)
  BY <1>2 DEF AgentRecords, Latest
<1>7. QED
  BY <1>2, <1>3, <1>4, <1>5, <1>6 DEF JournalsTyped, Latest

OneRecordEach(journal) ==
    \A j, k \in 1 .. Len(journal) :
        /\ journal[j].event = "agent" /\ journal[k].event = "agent"
        /\ journal[j].index = journal[k].index
        => j = k

OnePerIndex == \A r \in 1 .. Latest : OneRecordEach(journals[r])

LEMMA OneMore ==
  ASSUME NEW journal \in Seq(Lines), OneRecordEach(journal), NEW line \in Lines,
         \/ line.event # "agent"
         \/ \A k \in 1 .. Len(journal) :
               journal[k].event = "agent" => journal[k].index # line.index
  PROVE  OneRecordEach(Append(journal, line))
<1>1. /\ Len(journal) \in Nat /\ Len(Append(journal, line)) = Len(journal) + 1
      /\ \A k \in 1 .. Len(journal) : Append(journal, line)[k] = journal[k]
      /\ Append(journal, line)[Len(journal) + 1] = line
  OBVIOUS
<1>2. QED
  BY <1>1 DEF OneRecordEach

LEMMA RecordAt ==
  ASSUME JournalsTyped, NEW r \in 1 .. Latest
  PROVE  /\ journals[r] \in Seq(Lines)
         /\ \A k \in 1 .. Len(journals[r]) :
               journals[r][k].event = "agent" => journals[r][k] \in AgentRecords(r)
         /\ \A line \in AgentRecords(r) :
               /\ line \in AgentLines /\ line.event = "agent"
               /\ \E k \in 1 .. Len(journals[r]) : journals[r][k] = line
<1>1. journals[r] \in Seq(Lines)
  BY DEF JournalsTyped, Latest
<1>2. DOMAIN journals[r] = 1 .. Len(journals[r])
  BY <1>1
<1>3. \A k \in 1 .. Len(journals[r]) :
         journals[r][k].event = "agent" => journals[r][k] \in AgentRecords(r)
  BY <1>2 DEF AgentRecords, ToSet
<1>4. ASSUME NEW line \in AgentRecords(r)
      PROVE  /\ line \in AgentLines /\ line.event = "agent"
             /\ \E k \in 1 .. Len(journals[r]) : journals[r][k] = line
  <2>1. line.event = "agent" /\ \E k \in 1 .. Len(journals[r]) : journals[r][k] = line
    BY <1>2 DEF AgentRecords, ToSet
  <2>2. line \in Lines
    BY <2>1, <1>1
  <2>3. QED
    BY <2>1, <2>2, LineIsAgent
<1>5. QED
  BY <1>1, <1>3, <1>4

LEMMA RecordsAreUnique ==
  ASSUME JournalsTyped, OnePerIndex, NEW r \in 1 .. Latest,
         NEW a \in AgentRecords(r), NEW b \in AgentRecords(r), a.index = b.index
  PROVE  a = b
<1>1. PICK j \in 1 .. Len(journals[r]) : journals[r][j] = a
  BY RecordAt
<1>2. PICK k \in 1 .. Len(journals[r]) : journals[r][k] = b
  BY RecordAt
<1>3. a.event = "agent" /\ b.event = "agent"
  BY RecordAt
<1>4. QED
  BY <1>1, <1>2, <1>3 DEF OnePerIndex, OneRecordEach

LEMMA StillOnePerIndex ==
  ASSUME JournalsTyped, OnePerIndex, Latest > 0, NEW line \in Lines, Append1(line),
         line.event # "agent" \/ \A old \in AgentRecords(Latest) : old.index # line.index
  PROVE  OnePerIndex'
<1>1. Latest \in Nat /\ Latest \in 1 .. Latest
  BY DEF JournalsTyped, Latest
<1>2. Latest' = Latest /\ Journal' = Append(Journal, line)
      /\ \A r \in 1 .. Latest : r # Latest => journals'[r] = journals[r]
  BY AppendLine
<1>3. Journal \in Seq(Lines) /\ OneRecordEach(Journal)
      /\ \A k \in 1 .. Len(Journal) : Journal[k].event = "agent" => Journal[k] \in AgentRecords(Latest)
  BY <1>1, RecordAt DEF Journal, OnePerIndex
<1>4. OneRecordEach(Append(Journal, line))
  BY <1>3, OneMore
<1>5. journals'[Latest] = Append(Journal, line)
  BY <1>2 DEF Journal
<1>6. \A r \in 1 .. Latest : OneRecordEach(journals'[r])
  BY <1>2, <1>4, <1>5 DEF OnePerIndex
<1>7. QED
  BY <1>2, <1>6 DEF OnePerIndex

\* A line that is not the record of a call is appended.
Inscribed == \E line \in Lines : line.event # "agent" /\ Append1(line)

LEMMA NoAgentLine ==
  ASSUME JournalsTyped, Latest > 0, Inscribed \/ UNCHANGED journals
  PROVE  /\ JournalsTyped' /\ Latest' = Latest
         /\ \A r \in 1 .. Latest : AgentRecords(r)' = AgentRecords(r)
         /\ OnePerIndex => OnePerIndex'
<1>1. CASE UNCHANGED journals
  BY <1>1 DEF JournalsTyped, Latest, AgentRecords, OnePerIndex
<1>2. CASE Inscribed
  <2>1. PICK line \in Lines : line.event # "agent" /\ Append1(line)
    BY <1>2 DEF Inscribed
  <2>2. {l \in {line} : l.event = "agent"} = {}
    BY <2>1
  <2>3. JournalsTyped' /\ Latest' = Latest
    BY <2>1, AppendLine
  <2>4. \A r \in 1 .. Latest : AgentRecords(r)' = AgentRecords(r)
    <3>1. AgentRecords(Latest)' = AgentRecords(Latest)
      BY <2>1, <2>2, AppendRecords
    <3>2. \A r \in 1 .. Latest : r = Latest => AgentRecords(r)' = AgentRecords(Latest)'
      BY <2>3 DEF AgentRecords
    <3>3. \A r \in 1 .. Latest : r # Latest => AgentRecords(r)' = AgentRecords(r)
      BY <2>1, AppendRecords
    <3>4. QED
      BY <3>1, <3>2, <3>3
  <2>5. OnePerIndex => OnePerIndex'
    BY <2>1, StillOnePerIndex
  <2>6. QED
    BY <2>3, <2>4, <2>5
<1>3. QED
  BY <1>1, <1>2

-----------------------------------------------------------------------------
(* Calls.                                                                  *)

CallStates == {"waiting", "working", "settled", "lost"}

CallType == [identity : Identities \cup {None}, phase : 0 .. MaxPhases, state : CallStates]

CallsTyped == calls \in Seq(CallType) /\ Len(calls) <= MaxCalls

LEMMA CallAppended ==
  ASSUME CallsTyped, NEW identity \in Identities \cup {None}, NEW state \in CallStates,
         Len(calls) < MaxCalls, current_phase \in 0 .. MaxPhases,
         Call(identity, state)
  PROVE  /\ CallsTyped'
         /\ Len(calls) \in Nat
         /\ Len(calls') = Len(calls) + 1
         /\ \A n \in 1 .. Len(calls) : calls'[n] = calls[n]
         /\ calls'[Len(calls) + 1].identity = identity
         /\ calls'[Len(calls) + 1].phase = current_phase
         /\ calls'[Len(calls) + 1].state = state
<1> DEFINE call == [identity |-> identity, phase |-> current_phase, state |-> state]
<1>1. call \in CallType
  BY DEF CallType
<1>2. calls' = Append(calls, call)
  BY DEF Call
<1>3. calls \in Seq(CallType) /\ MaxCalls \in Nat
  BY RunBounds DEF CallsTyped
<1>4. call.identity = identity /\ call.phase = current_phase /\ call.state = state
  OBVIOUS
<1> HIDE DEF call
<1>5. QED
  BY <1>1, <1>2, <1>3, <1>4 DEF CallsTyped

LEMMA CallBecame ==
  ASSUME CallsTyped, NEW n \in 1 .. Len(calls), NEW state \in CallStates, Becomes(n, state)
  PROVE  /\ CallsTyped'
         /\ Len(calls') = Len(calls)
         /\ \A m \in 1 .. Len(calls) : /\ calls'[m].identity = calls[m].identity
                                       /\ calls'[m].phase = calls[m].phase
                                       /\ m # n => calls'[m].state = calls[m].state
         /\ calls'[n].state = state
<1>1. calls \in Seq(CallType) /\ MaxCalls \in Nat /\ Len(calls) \in Nat
  BY RunBounds DEF CallsTyped
<1>2. calls[n] \in CallType
  BY <1>1
<1> DEFINE call == [calls[n] EXCEPT !.state = state]
<1>3. /\ call \in CallType /\ call.state = state
      /\ call.identity = calls[n].identity /\ call.phase = calls[n].phase
  BY <1>2 DEF CallType
<1>4. calls' = [calls EXCEPT ![n] = call]
  BY DEF Becomes
<1> HIDE DEF call
<1>5. /\ calls' \in Seq(CallType) /\ Len(calls') = Len(calls) /\ calls'[n] = call
      /\ \A m \in 1 .. Len(calls) : m # n => calls'[m] = calls[m]
  BY <1>1, <1>3, <1>4
<1>6. QED
  BY <1>1, <1>3, <1>5 DEF CallsTyped

LEMMA CallsRelabelled ==
  ASSUME CallsTyped, NEW relabel \in [CallStates -> CallStates],
         calls' = [n \in 1 .. Len(calls) |-> [calls[n] EXCEPT !.state = relabel[calls[n].state]]]
  PROVE  /\ CallsTyped'
         /\ Len(calls') = Len(calls)
         /\ \A m \in 1 .. Len(calls) : /\ calls'[m].identity = calls[m].identity
                                       /\ calls'[m].phase = calls[m].phase
                                       /\ calls'[m].state = relabel[calls[m].state]
<1>1. calls \in Seq(CallType) /\ MaxCalls \in Nat /\ Len(calls) \in Nat
  BY RunBounds DEF CallsTyped
<1> DEFINE call(n) == [calls[n] EXCEPT !.state = relabel[calls[n].state]]
<1>2. \A n \in 1 .. Len(calls) :
         /\ call(n) \in CallType /\ call(n).state = relabel[calls[n].state]
         /\ call(n).identity = calls[n].identity /\ call(n).phase = calls[n].phase
  <2> TAKE n \in 1 .. Len(calls)
  <2>1. calls[n] \in CallType
    BY <1>1
  <2>2. QED
    BY <2>1 DEF CallType
<1>3. calls' = [n \in 1 .. Len(calls) |-> call(n)]
  OBVIOUS
<1> HIDE DEF call
<1>4. calls' \in Seq(CallType) /\ Len(calls') = Len(calls)
  BY <1>1, <1>2, <1>3
<1>5. QED
  BY <1>1, <1>2, <1>3, <1>4 DEF CallsTyped

LEMMA CallsDropped ==
  ASSUME CallsTyped, FailRun
  PROVE  /\ CallsTyped'
         /\ Len(calls') = Len(calls)
         /\ \A n \in 1 .. Len(calls) :
               /\ calls'[n].identity = calls[n].identity
               /\ calls'[n].phase = calls[n].phase
               /\ calls'[n].state = IF calls[n].state = "waiting" THEN "lost" ELSE calls[n].state
<1> DEFINE relabel == [s \in CallStates |-> IF s = "waiting" THEN "lost" ELSE s]
<1>1. \A n \in 1 .. Len(calls) : calls[n].state \in CallStates
  <2> TAKE n \in 1 .. Len(calls)
  <2>1. calls[n] \in CallType
    BY DEF CallsTyped
  <2>2. QED
    BY <2>1 DEF CallType
<1>2. relabel \in [CallStates -> CallStates]
  BY DEF CallStates
<1>3. \A s \in CallStates : relabel[s] = IF s = "waiting" THEN "lost" ELSE s
  OBVIOUS
<1>4. calls' = [n \in 1 .. Len(calls) |-> [calls[n] EXCEPT !.state = relabel[calls[n].state]]]
  BY <1>1 DEF FailRun
<1> HIDE DEF relabel
<1>5. /\ CallsTyped' /\ Len(calls') = Len(calls)
      /\ \A n \in 1 .. Len(calls) : /\ calls'[n].identity = calls[n].identity
                                    /\ calls'[n].phase = calls[n].phase
                                    /\ calls'[n].state = relabel[calls[n].state]
  BY <1>2, <1>4, CallsRelabelled
<1>6. QED
  BY <1>1, <1>3, <1>5

LEMMA CallsKilled ==
  ASSUME CallsTyped, Kill
  PROVE  /\ CallsTyped'
         /\ Len(calls') = Len(calls)
         /\ \A n \in 1 .. Len(calls) :
               /\ calls'[n].identity = calls[n].identity
               /\ calls'[n].phase = calls[n].phase
               /\ calls'[n].state = IF calls[n].state = "settled" THEN "settled" ELSE "lost"
<1> DEFINE relabel == [s \in CallStates |-> IF s = "settled" THEN "settled" ELSE "lost"]
<1>1. \A n \in 1 .. Len(calls) : calls[n].state \in CallStates
  <2> TAKE n \in 1 .. Len(calls)
  <2>1. calls[n] \in CallType
    BY DEF CallsTyped
  <2>2. QED
    BY <2>1 DEF CallType
<1>2. relabel \in [CallStates -> CallStates]
  BY DEF CallStates
<1>3. \A s \in CallStates : relabel[s] = IF s = "settled" THEN "settled" ELSE "lost"
  OBVIOUS
<1>4. calls' = [n \in 1 .. Len(calls) |-> [calls[n] EXCEPT !.state = relabel[calls[n].state]]]
  BY <1>1 DEF Kill
<1> HIDE DEF relabel
<1>5. /\ CallsTyped' /\ Len(calls') = Len(calls)
      /\ \A n \in 1 .. Len(calls) : /\ calls'[n].identity = calls[n].identity
                                    /\ calls'[n].phase = calls[n].phase
                                    /\ calls'[n].state = relabel[calls[n].state]
  BY <1>2, <1>4, CallsRelabelled
<1>6. QED
  BY <1>1, <1>3, <1>5

-----------------------------------------------------------------------------
(* The invariant of records and types.                                     *)

\* The records of the latest run are those of settled calls, with their phase ...
LinesSettled ==
    Latest > 0 => \A line \in AgentRecords(Latest) :
        /\ line.index + 1 \in 1 .. Len(calls)
        /\ calls[line.index + 1].state = "settled"
        /\ line.phase = calls[line.index + 1].phase

\* ... every settled call has one ...
SettledRecorded ==
    Latest > 0 => \A n \in 1 .. Len(calls) :
        calls[n].state = "settled" => \E line \in AgentRecords(Latest) : line.index = n - 1

\* ... and only calls with an identity are executed.
RunningNamed ==
    \A n \in 1 .. Len(calls) :
        calls[n].state \in {"waiting", "working"} => calls[n].identity \in Identities

Begun == Latest = 0 => place = "none" /\ Len(calls) = 0

RecordInv ==
    /\ JournalsTyped /\ CallsTyped
    /\ OnePerIndex /\ LinesSettled /\ SettledRecorded /\ RunningNamed /\ Begun

EntryType == [identity : Identities, value : Values]

ScalarsTyped ==
    /\ Len(journals) <= MaxRuns
    /\ place \in {"none", "created", "open", "cancelling", "ended"}
    /\ args \in Args \cup {None}
    /\ resume_from \in 0 .. MaxRuns
    /\ entries \in Seq(EntryType)
    /\ position \in 0 .. Len(entries)
    /\ active \in BOOLEAN
    /\ live_agent_count \in 0 .. MaxAgents
    /\ current_phase \in 0 .. MaxPhases

RunInv == RecordInv /\ ScalarsTyped

LEMMA IndexOfRecord ==
  ASSUME RecordInv, Latest > 0
  PROVE  /\ Latest \in 1 .. Latest /\ Len(calls) \in Nat
         /\ \A line \in AgentRecords(Latest) :
               line \in AgentLines /\ line.index \in 0 .. Len(calls) - 1
<1>1. Latest \in 1 .. Latest /\ Len(calls) \in Nat
  BY DEF RecordInv, JournalsTyped, Latest, CallsTyped
<1>2. ASSUME NEW line \in AgentRecords(Latest)
      PROVE  line \in AgentLines /\ line.index \in 0 .. Len(calls) - 1
  <2>1. line \in AgentLines
    BY <1>1, RecordAt DEF RecordInv
  <2>2. line.index \in Int
    BY <2>1 DEF AgentLines
  <2>3. QED
    BY <1>1, <2>1, <2>2 DEF RecordInv, LinesSettled
<1>3. QED
  BY <1>1, <1>2

LEMMA HitEntry ==
  ASSUME ScalarsTyped, NEW identity, Hit(identity)
  PROVE  /\ position \in Nat /\ Len(entries) \in Nat /\ position + 1 \in 1 .. Len(entries)
         /\ entries[position + 1].identity = identity
         /\ identity \in Identities /\ entries[position + 1].value \in Values
<1>1. position \in Nat /\ Len(entries) \in Nat /\ position + 1 \in 1 .. Len(entries)
  BY DEF ScalarsTyped, Hit
<1>2. entries[position + 1] \in EntryType
  BY <1>1 DEF ScalarsTyped
<1>3. QED
  BY <1>1, <1>2 DEF EntryType, Hit

-----------------------------------------------------------------------------
(* The shapes of a step.                                                   *)

\* A step that neither makes a call nor records one.
Same ==
    /\ Latest > 0
    /\ Inscribed \/ UNCHANGED journals
    /\ CallsTyped' /\ Len(calls') = Len(calls)
    /\ \A n \in 1 .. Len(calls) :
          /\ calls'[n].identity = calls[n].identity
          /\ calls'[n].phase = calls[n].phase
          /\ calls'[n].state = "settled" <=> calls[n].state = "settled"
          /\ calls'[n].state \in {"waiting", "working"} => calls[n].state \in {"waiting", "working"}
    /\ current_phase' \in current_phase .. MaxPhases
    /\ UNCHANGED <<args, resume_from, cursorVars, live_agent_count>>

\* A call is made and recorded in the same step.
Registered(identity, stage, value) ==
    /\ Latest > 0 /\ Len(calls) < MaxCalls
    /\ stage \in Served => identity \in Identities /\ value \in Values
    /\ Call(identity, "settled")
    /\ Append1(AgentRecord(Len(calls), identity, current_phase, stage, value))
    /\ CASE stage \in {"hit", "cache"} ->
               /\ Hit(identity) /\ position' = position + 1 /\ active' = active
               /\ stage = "hit" => value = entries[position + 1].value
         [] stage \in {"limit", "setup"} ->
               /\ ~Hit(identity) /\ position' = position /\ active' = FALSE
               /\ identity \in Identities
               /\ stage = "limit" => live_agent_count >= MaxAgents
         [] OTHER -> stage = "options" /\ identity = None /\ UNCHANGED <<position, active>>
    /\ UNCHANGED <<args, resume_from, entries, live_agent_count, current_phase>>

\* A call is accepted, or made and lost.
Unrecorded(identity, state) ==
    /\ Latest > 0 /\ Len(calls) < MaxCalls
    /\ Call(identity, state)
    /\ IF identity = None THEN state = "lost" /\ active' = active
       ELSE ~Hit(identity) /\ active' = FALSE
    /\ live_agent_count' = IF state = "waiting" THEN live_agent_count + 1 ELSE live_agent_count
    /\ live_agent_count' <= MaxAgents
    /\ UNCHANGED <<journals, args, resume_from, entries, position, current_phase>>

\* A worker records its call.
Executed(n, stage, value) ==
    /\ Latest > 0
    /\ calls[n].state = "working"
    /\ stage \in Served => value \in Values
    /\ stage = "live" => value = <<Latest, n - 1>>
    /\ Becomes(n, "settled")
    /\ Append1(AgentRecord(n - 1, calls[n].identity, calls[n].phase, stage, value))
    /\ UNCHANGED <<args, resume_from, cursorVars, live_agent_count, current_phase>>

LEMMA SameStates ==
  ASSUME RunInv,
         RecordStart \/ SetPhase \/ FinishWell \/ FinishBadly
  PROVE  Same
<1>1. Latest > 0
  <2>1. place # "none"
    BY DEF RecordStart, SetPhase, FinishWell, FinishBadly
  <2>2. QED
    BY <2>1 DEF RunInv, RecordInv, Begun, JournalsTyped, Latest
<1>2. UNCHANGED <<calls, args, resume_from, cursorVars, live_agent_count>>
  BY DEF RecordStart, SetPhase, FinishWell, FinishBadly, callVars
<1>3. current_phase' \in current_phase .. MaxPhases
  <2>1. current_phase \in 0 .. MaxPhases /\ MaxPhases \in Nat
    BY RunBounds DEF RunInv, ScalarsTyped
  <2>2. \/ current_phase' = current_phase
        \/ current_phase < MaxPhases /\ current_phase' = current_phase + 1
    BY DEF RecordStart, SetPhase, FinishWell, FinishBadly, callVars
  <2>3. QED
    BY <2>1, <2>2
<1>4. Inscribed
  <2>1. CASE RecordStart
    <3>1. Started \in Lines /\ Started.event # "agent"
      BY DEF Started, Lines, RunInv, ScalarsTyped
    <3>2. QED
      BY <2>1, <3>1 DEF RecordStart, Inscribed
  <2>2. CASE SetPhase
    <3>1. Phase(current_phase') \in Lines /\ Phase(current_phase').event # "agent"
      BY <1>3, RunBounds DEF Phase, Lines, RunInv, ScalarsTyped
    <3>2. QED
      BY <2>2, <3>1 DEF SetPhase, Inscribed
  <2>3. ASSUME NEW ok \in BOOLEAN
        PROVE  Finished(ok) \in Lines /\ Finished(ok).event # "agent"
    BY DEF Finished, Lines, RunInv, RecordInv, CallsTyped
  <2>4. CASE FinishWell \/ FinishBadly
    BY <2>3, <2>4 DEF FinishWell, FinishBadly, Inscribed
  <2>5. QED
    BY <2>1, <2>2, <2>4
<1>5. CallsTyped'
  BY <1>2 DEF RunInv, RecordInv, CallsTyped
<1>6. QED
  BY <1>1, <1>2, <1>3, <1>4, <1>5 DEF Same

LEMMA SameRelabelled ==
  ASSUME RunInv,
         FailRun \/ Kill \/ \E n \in 1 .. Len(calls) : Begin(n) \/ ExecuteUnwritable(n)
  PROVE  Same
<1>1. Latest > 0
  <2>1. place # "none" \/ Len(calls) # 0
    BY DEF FailRun, Kill
  <2>2. QED
    BY <2>1 DEF RunInv, RecordInv, Begun, JournalsTyped, Latest
<1>2. UNCHANGED <<args, resume_from, cursorVars, live_agent_count, current_phase>>
  BY DEF FailRun, Kill, Begin, ExecuteUnwritable
<1>3. current_phase' \in current_phase .. MaxPhases
  BY <1>2, RunBounds DEF RunInv, ScalarsTyped
<1>4. Inscribed \/ UNCHANGED journals
  <2>1. Torn \in Lines /\ Torn.event # "agent"
    BY DEF Torn, Lines
  <2>2. QED
    BY <2>1 DEF FailRun, Kill, Begin, ExecuteUnwritable, Inscribed
<1>5. /\ CallsTyped' /\ Len(calls') = Len(calls)
      /\ \A n \in 1 .. Len(calls) :
            /\ calls'[n].identity = calls[n].identity
            /\ calls'[n].phase = calls[n].phase
            /\ calls'[n].state = "settled" <=> calls[n].state = "settled"
            /\ calls'[n].state \in {"waiting", "working"} => calls[n].state \in {"waiting", "working"}
  <2>1. ASSUME NEW n \in 1 .. Len(calls)
        PROVE  calls[n].state \in CallStates
    <3>1. calls[n] \in CallType
      BY DEF RunInv, RecordInv, CallsTyped
    <3>2. QED
      BY <3>1 DEF CallType
  <2>2. CASE FailRun
    BY <2>1, <2>2, CallsDropped DEF RunInv, RecordInv
  <2>3. CASE Kill
    BY <2>1, <2>3, CallsKilled DEF RunInv, RecordInv
  <2>4. CASE \E n \in 1 .. Len(calls) : Begin(n) \/ ExecuteUnwritable(n)
    <3>1. PICK n \in 1 .. Len(calls) : Begin(n) \/ ExecuteUnwritable(n)
      BY <2>4
    <3>2. PICK state \in {"working", "lost"} : Becomes(n, state)
      BY <3>1 DEF Begin, ExecuteUnwritable
    <3>3. calls[n].state \in {"waiting", "working"}
      BY <3>1 DEF Begin, ExecuteUnwritable
    <3>4. /\ CallsTyped' /\ Len(calls') = Len(calls)
          /\ \A m \in 1 .. Len(calls) : /\ calls'[m].identity = calls[m].identity
                                        /\ calls'[m].phase = calls[m].phase
                                        /\ m # n => calls'[m].state = calls[m].state
          /\ calls'[n].state = state
      BY <3>2, CallBecame DEF RunInv, RecordInv, CallStates
    <3>5. QED
      BY <3>2, <3>3, <3>4
  <2>5. QED
    BY <2>2, <2>3, <2>4
<1>6. QED
  BY <1>1, <1>2, <1>3, <1>4, <1>5 DEF Same

LEMMA SomeRegistered ==
  ASSUME RunInv,
         \/ OptionsRefused
         \/ \E identity \in Identities :
               CacheHit(identity) \/ LimitReached(identity) \/ SetupFails(identity) \/ Accept(identity)
  PROVE  \/ \E identity \in Identities \cup {None}, stage \in Stages, value \in Values \cup {NoValue} :
               Registered(identity, stage, value)
         \/ \E identity \in Identities \cup {None}, state \in {"waiting", "lost"} :
                Unrecorded(identity, state)
<1>1. Latest > 0 /\ Len(calls) < MaxCalls
  <2>1. place = "open" /\ Len(calls) < MaxCalls
    BY DEF OptionsRefused, CacheHit, LimitReached, SetupFails, Accept, Miss, CanCall
  <2>2. QED
    BY <2>1 DEF RunInv, RecordInv, Begun, JournalsTyped, Latest
<1>2. CASE OptionsRefused
  <2>1. live_agent_count <= MaxAgents
    BY RunBounds DEF RunInv, ScalarsTyped
  <2>2. Registered(None, "options", NoValue) \/ Unrecorded(None, "lost")
    BY <1>1, <1>2, <2>1
    DEF OptionsRefused, Refused, CanCall, Registered, Unrecorded, Served, cursorVars
  <2>3. QED
    BY <2>2 DEF Stages, Refusals
<1>3. ASSUME NEW identity \in Identities, CacheHit(identity)
      PROVE  \E stage \in Stages, value \in Values \cup {NoValue} : Registered(identity, stage, value)
  <2>1. entries[position + 1].value \in Values
    BY <1>3, HitEntry DEF RunInv, CacheHit
  <2>2. CASE Append1(AgentRecord(Len(calls), identity, current_phase, "hit", entries[position + 1].value))
    <3>1. Registered(identity, "hit", entries[position + 1].value)
      BY <1>1, <1>3, <2>1, <2>2 DEF CacheHit, Registered, Served
    <3>2. QED
      BY <2>1, <3>1 DEF Stages, Served
  <2>3. CASE Append1(AgentRecord(Len(calls), identity, current_phase, "cache", NoValue))
    <3>1. Registered(identity, "cache", NoValue)
      BY <1>1, <1>3, <2>3 DEF CacheHit, Registered, Served
    <3>2. QED
      BY <3>1 DEF Stages, Refusals
  <2>4. QED
    BY <1>3, <2>2, <2>3 DEF CacheHit
<1>4. ASSUME NEW identity \in Identities, LimitReached(identity)
      PROVE  Registered(identity, "limit", NoValue) \/ Unrecorded(identity, "lost")
  <2>1. live_agent_count <= MaxAgents /\ identity # None
    BY RunBounds DEF RunInv, ScalarsTyped
  <2>2. QED
    BY <1>1, <1>4, <2>1 DEF LimitReached, Refused, Miss, Registered, Unrecorded, Served
<1>5. ASSUME NEW identity \in Identities, SetupFails(identity)
      PROVE  Registered(identity, "setup", NoValue) \/ Unrecorded(identity, "lost")
  <2>1. live_agent_count <= MaxAgents /\ identity # None
    BY RunBounds DEF RunInv, ScalarsTyped
  <2>2. QED
    BY <1>1, <1>5, <2>1 DEF SetupFails, Refused, Miss, Registered, Unrecorded, Served
<1>6. ASSUME NEW identity \in Identities, Accept(identity)
      PROVE  Unrecorded(identity, "waiting")
  <2>1. live_agent_count \in Nat /\ MaxAgents \in Nat /\ live_agent_count < MaxAgents
        /\ live_agent_count' = live_agent_count + 1
    BY <1>6, RunBounds DEF RunInv, ScalarsTyped, Accept
  <2>2. live_agent_count' <= MaxAgents
    BY <2>1
  <2>3. QED
    BY <1>1, <1>6, <2>1, <2>2, RunBounds DEF Accept, Miss, Unrecorded
<1>7. {"limit", "setup"} \subseteq Stages
  BY DEF Stages, Refusals
<1>8. QED
  BY <1>2, <1>3, <1>4, <1>5, <1>6, <1>7

LEMMA SomeExecuted ==
  ASSUME RunInv, NEW n \in 1 .. Len(calls), Execute(n)
  PROVE  \E stage \in {"live", "executor"}, value \in Values \cup {NoValue} : Executed(n, stage, value)
<1>1. Latest > 0
  BY DEF RunInv, RecordInv, Begun, JournalsTyped, Latest
<1>2. <<Latest, n - 1>> \in Values
  BY <1>1, RunBounds DEF Values, RunInv, ScalarsTyped, Latest, RecordInv, CallsTyped, JournalsTyped
<1>3. CASE Append1(AgentRecord(n - 1, calls[n].identity, calls[n].phase, "live", <<Latest, n - 1>>))
  <2>1. Executed(n, "live", <<Latest, n - 1>>)
    BY <1>1, <1>2, <1>3 DEF Execute, Executed
  <2>2. QED
    BY <1>2, <2>1
<1>4. CASE Append1(AgentRecord(n - 1, calls[n].identity, calls[n].phase, "executor", NoValue))
  <2>1. Executed(n, "executor", NoValue)
    BY <1>1, <1>4 DEF Execute, Executed, Served
  <2>2. QED
    BY <2>1
<1>5. QED
  BY <1>3, <1>4 DEF Execute

LEMMA Shapes ==
  ASSUME RunInv, [Next]_vars
  PROVE  \/ UNCHANGED vars
         \/ \E given \in Args, r \in 0 .. Latest : StartRun(given, r)
         \/ Same
         \/ \E identity \in Identities \cup {None}, stage \in Stages, value \in Values \cup {NoValue} :
               Registered(identity, stage, value)
         \/ \E identity \in Identities \cup {None}, state \in {"waiting", "lost"} :
                Unrecorded(identity, state)
         \/ \E n \in 1 .. Len(calls), stage \in {"live", "executor"}, value \in Values \cup {NoValue} :
               Executed(n, stage, value)
<1>1. CASE RecordStart \/ SetPhase \/ FinishWell \/ FinishBadly
  BY <1>1, SameStates
<1>2. CASE FailRun \/ Kill \/ \E n \in 1 .. Len(calls) : Begin(n) \/ ExecuteUnwritable(n)
  BY <1>2, SameRelabelled
<1>3. CASE \/ OptionsRefused
           \/ \E identity \in Identities :
                 CacheHit(identity) \/ LimitReached(identity) \/ SetupFails(identity) \/ Accept(identity)
  BY <1>3, SomeRegistered
<1>4. CASE \E n \in 1 .. Len(calls) : Execute(n)
  BY <1>4, SomeExecuted
<1>5. QED
  BY <1>1, <1>2, <1>3, <1>4 DEF Next

\* A step of the latest run leaves the journals of the earlier ones alone.
Older ==
    /\ Latest' = Latest
    /\ \A r \in 1 .. Latest : r # Latest =>
          journals'[r] = journals[r] /\ AgentRecords(r)' = AgentRecords(r)

LEMMA RegisteredLine ==
  ASSUME RunInv, NEW identity \in Identities \cup {None}, NEW stage \in Stages,
         NEW value \in Values \cup {NoValue}, Registered(identity, stage, value)
  PROVE  AgentRecord(Len(calls), identity, current_phase, stage, value) \in AgentLines
BY RunBounds DEF AgentLines, AgentRecord, Registered, RunInv, RecordInv, ScalarsTyped, CallsTyped

LEMMA ExecutedLine ==
  ASSUME RunInv, NEW n \in 1 .. Len(calls), NEW stage \in {"live", "executor"},
         NEW value \in Values \cup {NoValue}, Executed(n, stage, value)
  PROVE  AgentRecord(n - 1, calls[n].identity, calls[n].phase, stage, value) \in AgentLines
<1>1. calls[n] \in CallType /\ calls[n].identity \in Identities
  BY DEF Executed, RunInv, RecordInv, CallsTyped, RunningNamed
<1>2. n - 1 \in 0 .. MaxCalls - 1
  BY RunBounds DEF RunInv, RecordInv, CallsTyped
<1>3. QED
  BY <1>1, <1>2 DEF AgentLines, AgentRecord, Executed, CallType, Stages, Served

LEMMA AgentAppended ==
  ASSUME RunInv, Latest > 0, NEW line \in AgentLines, Append1(line),
         \A old \in AgentRecords(Latest) : old.index # line.index
  PROVE  /\ Older
         /\ JournalsTyped' /\ OnePerIndex'
         /\ AgentRecords(Latest)' = AgentRecords(Latest) \cup {line}
<1>1. line \in Lines /\ line.event = "agent"
  BY DEF Lines, AgentLines
<1>2. AgentRecords(Latest)' = AgentRecords(Latest) \cup {line}
  BY <1>1, AppendRecords DEF RunInv, RecordInv
<1>3. Older /\ JournalsTyped'
  BY <1>1, AppendLine, AppendRecords DEF RunInv, RecordInv, Older
<1>4. OnePerIndex'
  BY <1>1, StillOnePerIndex DEF RunInv, RecordInv
<1>5. QED
  BY <1>2, <1>3, <1>4

LEMMA RegisteredRecords ==
  ASSUME RunInv, NEW identity \in Identities \cup {None}, NEW stage \in Stages,
         NEW value \in Values \cup {NoValue}, Registered(identity, stage, value)
  PROVE  /\ Older /\ JournalsTyped' /\ OnePerIndex'
         /\ AgentRecords(Latest)' = AgentRecords(Latest)
               \cup {AgentRecord(Len(calls), identity, current_phase, stage, value)}
         /\ CallsTyped' /\ Len(calls') = Len(calls) + 1
         /\ \A n \in 1 .. Len(calls) : calls'[n] = calls[n]
         /\ calls'[Len(calls) + 1].identity = identity
         /\ calls'[Len(calls) + 1].phase = current_phase
         /\ calls'[Len(calls) + 1].state = "settled"
<1> DEFINE line == AgentRecord(Len(calls), identity, current_phase, stage, value)
<1>1. line \in AgentLines
  BY RegisteredLine
<1>2. Append1(line) /\ Latest > 0 /\ line.index = Len(calls)
  BY DEF Registered, AgentRecord
<1>3. Len(calls) < MaxCalls /\ current_phase \in 0 .. MaxPhases /\ Call(identity, "settled")
  BY DEF Registered, RunInv, ScalarsTyped
<1> HIDE DEF line
<1>4. \A old \in AgentRecords(Latest) : old.index # line.index
  BY <1>2, IndexOfRecord DEF RunInv
<1>5. /\ Older /\ JournalsTyped' /\ OnePerIndex'
      /\ AgentRecords(Latest)' = AgentRecords(Latest) \cup {line}
  BY <1>1, <1>2, <1>4, AgentAppended
<1>6. /\ CallsTyped' /\ Len(calls') = Len(calls) + 1
      /\ \A n \in 1 .. Len(calls) : calls'[n] = calls[n]
      /\ calls'[Len(calls) + 1].identity = identity
      /\ calls'[Len(calls) + 1].phase = current_phase
      /\ calls'[Len(calls) + 1].state = "settled"
  BY <1>3, CallAppended DEF RunInv, RecordInv, CallStates
<1>7. QED
  BY <1>5, <1>6 DEF line

LEMMA UnrecordedRecords ==
  ASSUME RunInv, NEW identity \in Identities \cup {None}, NEW state \in {"waiting", "lost"},
         Unrecorded(identity, state)
  PROVE  /\ Older /\ JournalsTyped' /\ OnePerIndex'
         /\ AgentRecords(Latest)' = AgentRecords(Latest)
         /\ CallsTyped' /\ Len(calls') = Len(calls) + 1
         /\ \A n \in 1 .. Len(calls) : calls'[n] = calls[n]
         /\ calls'[Len(calls) + 1].identity = identity
         /\ calls'[Len(calls) + 1].phase = current_phase
         /\ calls'[Len(calls) + 1].state = state
<1>1. UNCHANGED journals
  BY DEF Unrecorded
<1>2. /\ Older /\ JournalsTyped' /\ OnePerIndex'
      /\ AgentRecords(Latest)' = AgentRecords(Latest)
  BY <1>1 DEF Older, Latest, AgentRecords, RunInv, RecordInv, JournalsTyped, OnePerIndex
<1>3. Len(calls) < MaxCalls /\ current_phase \in 0 .. MaxPhases /\ Call(identity, state)
  BY DEF Unrecorded, RunInv, ScalarsTyped
<1>4. QED
  BY <1>2, <1>3, CallAppended DEF RunInv, RecordInv, CallStates

LEMMA ExecutedRecords ==
  ASSUME RunInv, NEW n \in 1 .. Len(calls), NEW stage \in {"live", "executor"},
         NEW value \in Values \cup {NoValue}, Executed(n, stage, value)
  PROVE  /\ Older /\ JournalsTyped' /\ OnePerIndex'
         /\ AgentRecords(Latest)' = AgentRecords(Latest)
               \cup {AgentRecord(n - 1, calls[n].identity, calls[n].phase, stage, value)}
         /\ CallsTyped' /\ Len(calls') = Len(calls)
         /\ \A m \in 1 .. Len(calls) : /\ calls'[m].identity = calls[m].identity
                                       /\ calls'[m].phase = calls[m].phase
                                       /\ m # n => calls'[m].state = calls[m].state
         /\ calls'[n].state = "settled"
<1> DEFINE line == AgentRecord(n - 1, calls[n].identity, calls[n].phase, stage, value)
<1>1. line \in AgentLines
  BY ExecutedLine
<1>2. /\ Append1(line) /\ Latest > 0 /\ Becomes(n, "settled")
      /\ line.index = n - 1 /\ calls[n].state = "working"
  BY DEF Executed, AgentRecord
<1> HIDE DEF line
<1>3. ASSUME NEW old \in AgentRecords(Latest), old.index = line.index
      PROVE  FALSE
  <2>1. old.index + 1 = n
    BY <1>2, <1>3, IndexOfRecord DEF RunInv
  <2>2. calls[old.index + 1].state = "settled"
    BY <1>2 DEF RunInv, RecordInv, LinesSettled
  <2>3. QED
    BY <1>2, <2>1, <2>2
<1>4. /\ Older /\ JournalsTyped' /\ OnePerIndex'
      /\ AgentRecords(Latest)' = AgentRecords(Latest) \cup {line}
  BY <1>1, <1>2, <1>3, AgentAppended
<1>5. /\ CallsTyped' /\ Len(calls') = Len(calls)
      /\ \A m \in 1 .. Len(calls) : /\ calls'[m].identity = calls[m].identity
                                    /\ calls'[m].phase = calls[m].phase
                                    /\ m # n => calls'[m].state = calls[m].state
      /\ calls'[n].state = "settled"
  BY <1>2, CallBecame DEF RunInv, RecordInv, CallStates
<1>6. QED
  BY <1>4, <1>5 DEF line

LEMMA SameRecords ==
  ASSUME RunInv, Same
  PROVE  /\ Older /\ JournalsTyped' /\ OnePerIndex'
         /\ AgentRecords(Latest)' = AgentRecords(Latest)
<1>1. /\ Latest' = Latest /\ JournalsTyped' /\ OnePerIndex'
      /\ \A r \in 1 .. Latest : AgentRecords(r)' = AgentRecords(r)
  BY NoAgentLine DEF RunInv, RecordInv, Same
<1>2. \A r \in 1 .. Latest : r # Latest => journals'[r] = journals[r]
  <2>1. CASE UNCHANGED journals
    BY <2>1
  <2>2. CASE Inscribed
    BY <2>2, AppendLine DEF Inscribed, RunInv, RecordInv, Same
  <2>3. QED
    BY <2>1, <2>2 DEF Same
<1>3. Latest \in 1 .. Latest
  BY IndexOfRecord DEF RunInv, Same
<1>4. AgentRecords(Latest)' = AgentRecords(Latest)
  BY <1>1, <1>3 DEF AgentRecords
<1>5. QED
  BY <1>1, <1>2, <1>4 DEF Older

LEMMA StartRecords ==
  ASSUME RunInv, NEW given \in Args, NEW r \in 0 .. Latest, StartRun(given, r)
  PROVE  /\ Latest \in Nat /\ Latest' = Latest + 1 /\ JournalsTyped'
         /\ \A i \in 1 .. Latest : journals'[i] = journals[i] /\ AgentRecords(i)' = AgentRecords(i)
         /\ Journal' = <<>> /\ AgentRecords(Latest)' = {}
         /\ CallsTyped' /\ Len(calls') = 0
<1>1. Len(<<>>) = 0
  BY Zenon, EmptySeq
<1>2. calls' = <<>>
  BY DEF StartRun
<1>3. CallsTyped' /\ Len(calls') = 0
  BY <1>1, <1>2, RunBounds DEF CallsTyped
<1>4. QED
  BY <1>3, FreshJournal DEF RunInv, RecordInv, StartRun

-----------------------------------------------------------------------------
(* Records and types are preserved.                                        *)

LEMMA RecordSame ==
  ASSUME RunInv, Same
  PROVE  RecordInv'
<1>1. /\ Latest' = Latest /\ JournalsTyped' /\ OnePerIndex'
      /\ AgentRecords(Latest)' = AgentRecords(Latest)
  BY SameRecords DEF Older
<1>2. /\ CallsTyped' /\ Len(calls') = Len(calls) /\ Latest > 0
      /\ \A n \in 1 .. Len(calls) :
            /\ calls'[n].identity = calls[n].identity
            /\ calls'[n].phase = calls[n].phase
            /\ calls'[n].state = "settled" <=> calls[n].state = "settled"
            /\ calls'[n].state \in {"waiting", "working"} => calls[n].state \in {"waiting", "working"}
  BY DEF Same
<1>3. LinesSettled'
  BY <1>1, <1>2 DEF RunInv, RecordInv, LinesSettled
<1>4. SettledRecorded'
  BY <1>1, <1>2 DEF RunInv, RecordInv, SettledRecorded
<1>5. RunningNamed' /\ Begun'
  BY <1>1, <1>2 DEF RunInv, RecordInv, RunningNamed, Begun
<1>6. QED
  BY <1>1, <1>2, <1>3, <1>4, <1>5 DEF RecordInv

LEMMA RecordRegister ==
  ASSUME RunInv, NEW identity \in Identities \cup {None}, NEW stage \in Stages,
         NEW value \in Values \cup {NoValue}, Registered(identity, stage, value)
  PROVE  RecordInv'
<1> DEFINE line == AgentRecord(Len(calls), identity, current_phase, stage, value)
<1>1. /\ Latest > 0 /\ Latest' = Latest /\ JournalsTyped' /\ OnePerIndex'
      /\ AgentRecords(Latest)' = AgentRecords(Latest) \cup {line}
      /\ CallsTyped' /\ Len(calls') = Len(calls) + 1
      /\ \A n \in 1 .. Len(calls) : calls'[n] = calls[n]
      /\ calls'[Len(calls) + 1].phase = current_phase
      /\ calls'[Len(calls) + 1].state = "settled"
  BY RegisteredRecords DEF Older, Registered
<1>2. line.index = Len(calls) /\ line.phase = current_phase
  BY DEF AgentRecord
<1> HIDE DEF line
<1>3. /\ Len(calls) \in Nat
      /\ \A old \in AgentRecords(Latest) : old.index \in 0 .. Len(calls) - 1
  BY <1>1, IndexOfRecord DEF RunInv
<1>4. LinesSettled'
  BY <1>1, <1>2, <1>3 DEF RunInv, RecordInv, LinesSettled
<1>5. SettledRecorded'
  <2>1. ASSUME NEW n \in 1 .. Len(calls) + 1, calls'[n].state = "settled"
        PROVE  \E l \in AgentRecords(Latest) \cup {line} : l.index = n - 1
    <3>1. CASE n = Len(calls) + 1
      BY <1>2, <1>3, <3>1
    <3>2. CASE n \in 1 .. Len(calls)
      BY <1>1, <2>1, <3>2 DEF RunInv, RecordInv, SettledRecorded
    <3>3. QED
      BY <1>3, <3>1, <3>2
  <2>2. QED
    BY <1>1, <2>1 DEF SettledRecorded
<1>6. RunningNamed' /\ Begun'
  BY <1>1, <1>3 DEF RunInv, RecordInv, RunningNamed, Begun
<1>7. QED
  BY <1>1, <1>4, <1>5, <1>6 DEF RecordInv

LEMMA RecordAccept ==
  ASSUME RunInv, NEW identity \in Identities \cup {None}, NEW state \in {"waiting", "lost"},
         Unrecorded(identity, state)
  PROVE  RecordInv'
<1>1. /\ Latest > 0 /\ Latest' = Latest /\ JournalsTyped' /\ OnePerIndex'
      /\ AgentRecords(Latest)' = AgentRecords(Latest)
      /\ CallsTyped' /\ Len(calls') = Len(calls) + 1
      /\ \A n \in 1 .. Len(calls) : calls'[n] = calls[n]
      /\ calls'[Len(calls) + 1].identity = identity
      /\ calls'[Len(calls) + 1].state = state
  BY UnrecordedRecords DEF Older, Unrecorded
<1>2. /\ Len(calls) \in Nat
      /\ \A old \in AgentRecords(Latest) : old.index \in 0 .. Len(calls) - 1
  BY <1>1, IndexOfRecord DEF RunInv
<1>3. LinesSettled'
  BY <1>1, <1>2 DEF RunInv, RecordInv, LinesSettled
<1>4. SettledRecorded'
  BY <1>1, <1>2 DEF RunInv, RecordInv, SettledRecorded
<1>5. state = "waiting" => identity \in Identities
  BY DEF Unrecorded
<1>6. RunningNamed' /\ Begun'
  BY <1>1, <1>2, <1>5 DEF RunInv, RecordInv, RunningNamed, Begun
<1>7. QED
  BY <1>1, <1>3, <1>4, <1>6 DEF RecordInv

LEMMA RecordExecute ==
  ASSUME RunInv, NEW n \in 1 .. Len(calls), NEW stage \in {"live", "executor"},
         NEW value \in Values \cup {NoValue}, Executed(n, stage, value)
  PROVE  RecordInv'
<1> DEFINE line == AgentRecord(n - 1, calls[n].identity, calls[n].phase, stage, value)
<1>1. /\ Latest > 0 /\ Latest' = Latest /\ JournalsTyped' /\ OnePerIndex'
      /\ AgentRecords(Latest)' = AgentRecords(Latest) \cup {line}
      /\ CallsTyped' /\ Len(calls') = Len(calls)
      /\ \A m \in 1 .. Len(calls) : /\ calls'[m].identity = calls[m].identity
                                    /\ calls'[m].phase = calls[m].phase
                                    /\ m # n => calls'[m].state = calls[m].state
      /\ calls'[n].state = "settled"
  BY ExecutedRecords DEF Older, Executed
<1>2. line.index = n - 1 /\ line.phase = calls[n].phase
  BY DEF AgentRecord
<1> HIDE DEF line
<1>3. Len(calls) \in Nat /\ \A old \in AgentRecords(Latest) : old.index \in 0 .. Len(calls) - 1
  BY <1>1, IndexOfRecord DEF RunInv
<1>4. LinesSettled'
  <2>1. ASSUME NEW l \in AgentRecords(Latest) \cup {line}
        PROVE  /\ l.index + 1 \in 1 .. Len(calls)
               /\ calls'[l.index + 1].state = "settled"
               /\ l.phase = calls'[l.index + 1].phase
    <3>1. CASE l = line
      <4>1. l.index + 1 = n
        BY <1>2, <1>3, <3>1
      <4>2. QED
        BY <1>1, <1>2, <3>1, <4>1
    <3>2. CASE l \in AgentRecords(Latest)
      BY <1>1, <3>2 DEF RunInv, RecordInv, LinesSettled
    <3>3. QED
      BY <2>1, <3>1, <3>2
  <2>2. QED
    BY <1>1, <2>1 DEF LinesSettled
<1>5. SettledRecorded'
  <2>1. ASSUME NEW m \in 1 .. Len(calls), calls'[m].state = "settled"
        PROVE  \E l \in AgentRecords(Latest) \cup {line} : l.index = m - 1
    <3>1. CASE m = n
      BY <1>2, <3>1
    <3>2. CASE m # n
      BY <1>1, <2>1, <3>2 DEF RunInv, RecordInv, SettledRecorded
    <3>3. QED
      BY <3>1, <3>2
  <2>2. QED
    BY <1>1, <2>1 DEF SettledRecorded
<1>6. RunningNamed' /\ Begun'
  BY <1>1 DEF RunInv, RecordInv, RunningNamed, Begun
<1>7. QED
  BY <1>1, <1>4, <1>5, <1>6 DEF RecordInv

LEMMA RecordStartRun ==
  ASSUME RunInv, NEW given \in Args, NEW r \in 0 .. Latest, StartRun(given, r)
  PROVE  RecordInv'
<1>1. /\ Latest \in Nat /\ Latest' = Latest + 1 /\ JournalsTyped'
      /\ \A i \in 1 .. Latest : journals'[i] = journals[i]
      /\ Journal' = <<>> /\ AgentRecords(Latest)' = {}
      /\ CallsTyped' /\ Len(calls') = 0
  BY StartRecords
<1>2. OneRecordEach(<<>>)
  BY DEF OneRecordEach
<1>3. journals'[Latest + 1] = <<>>
  BY <1>1 DEF Journal
<1>4. OnePerIndex'
  BY <1>1, <1>2, <1>3 DEF RunInv, RecordInv, OnePerIndex
<1>5. LinesSettled' /\ SettledRecorded' /\ RunningNamed' /\ Begun'
  BY <1>1 DEF LinesSettled, SettledRecorded, RunningNamed, Begun
<1>6. QED
  BY <1>1, <1>4, <1>5 DEF RecordInv

LEMMA RecordStep ==
  ASSUME RunInv, [Next]_vars
  PROVE  RecordInv'
<1>1. CASE UNCHANGED vars
  BY <1>1 DEF vars, callVars, RunInv, RecordInv, JournalsTyped, CallsTyped, OnePerIndex, LinesSettled,
              SettledRecorded, RunningNamed, Begun, Latest, AgentRecords
<1>2. QED
  BY <1>1, Shapes, RecordStartRun, RecordSame, RecordRegister, RecordAccept, RecordExecute

\* The least element of a set of numbers, for the length of the loaded prefix.
LEMMA Least ==
  ASSUME NEW T, T \subseteq Nat, T # {}
  PROVE  \E n \in T : \A m \in T : n <= m
<1> DEFINE R == OpToRel(<, Nat)
<1>1. IsWellFoundedOn(R, Nat)
  BY NatLessThanWellFounded
<1>2. ASSUME NEW m \in Nat, NEW n \in Nat, m < n
      PROVE  <<m, n>> \in R
  <2>1. <<m, n>>[1] < <<m, n>>[2] /\ <<m, n>> \in Nat \X Nat
    BY <1>2
  <2>2. QED
    BY <2>1 DEF OpToRel
<1> HIDE DEF R
<1>3. PICK x \in T : \A y \in T : ~ (<<y, x>> \in R)
  BY <1>1, WFMin
<1>4. ASSUME NEW y \in T
      PROVE  x <= y
  <2>1. ~ (y < x)
    BY <1>2, <1>3
  <2>2. QED
    BY <2>1
<1>5. QED
  BY <1>4

Serves(entry, r, index) ==
    \E old \in AgentRecords(r) :
        /\ old.index = index /\ old.stage \in Served
        /\ old.identity = entry.identity /\ old.value = entry.value

\* What ResumeCursor.load takes from journal r: its consecutive prefix, and all of it.
LoadedFrom(prefix, r) ==
    /\ \A k \in 1 .. Len(prefix) : Serves(prefix[k], r, k - 1)
    /\ ~RecordOk(r, Len(prefix))

LEMMA LoadedPrefix ==
  ASSUME RunInv, NEW r \in 1 .. Latest
  PROVE  Loaded(r) \in Seq(EntryType) /\ LoadedFrom(Loaded(r), r)
<1> DEFINE Fits(n) == (\A index \in 0 .. n - 1 : RecordOk(r, index)) /\ ~RecordOk(r, n)
           length == CHOOSE n \in 0 .. MaxCalls : Fits(n)
           Record(index) == CHOOSE line \in AgentRecords(r) : line.index = index
           entry(k) == [identity |-> Record(k - 1).identity, value |-> Record(k - 1).value]
<1>1. /\ MaxCalls \in Nat
      /\ \A line \in AgentRecords(r) : line \in AgentLines /\ line.index \in 0 .. MaxCalls - 1
  <2>1. \A line \in AgentRecords(r) : line \in AgentLines
    BY RecordAt DEF RunInv, RecordInv
  <2>2. \A line \in AgentLines : line.index \in 0 .. MaxCalls - 1
    BY DEF AgentLines
  <2>3. QED
    BY <2>1, <2>2, RunBounds
<1>2. ~RecordOk(r, MaxCalls)
  BY <1>1 DEF RecordOk
<1>3. \E n \in 0 .. MaxCalls : Fits(n)
  <2> DEFINE T == {n \in Nat : ~RecordOk(r, n)}
  <2>1. T \subseteq Nat /\ MaxCalls \in T
    BY <1>1, <1>2
  <2> HIDE DEF T
  <2>2. PICK n \in T : \A m \in T : n <= m
    BY <2>1, Least
  <2>3. n \in 0 .. MaxCalls
    BY <1>1, <2>1, <2>2
  <2>4. ASSUME NEW index \in 0 .. n - 1
        PROVE  RecordOk(r, index)
    <3>1. index \in Nat /\ ~ (n <= index)
      BY <2>3
    <3>2. index \notin T
      BY <2>2, <3>1
    <3>3. QED
      BY <3>1, <3>2 DEF T
  <2>5. QED
    BY <2>2, <2>3, <2>4 DEF T
<1>4. length \in 0 .. MaxCalls /\ Fits(length)
  BY <1>3
<1>5. Loaded(r) = [k \in 1 .. length |-> entry(k)]
  BY DEF Loaded
<1> HIDE DEF length
<1>6. ASSUME NEW k \in 1 .. length
      PROVE  /\ entry(k) \in EntryType
             /\ Serves(entry(k), r, k - 1)
  <2>1. k - 1 \in 0 .. length - 1
    BY <1>4
  <2>2. PICK line \in AgentRecords(r) : line.index = k - 1 /\ line.stage \in Served
    BY <1>4, <2>1 DEF RecordOk
  <2>3. Record(k - 1) \in AgentRecords(r) /\ Record(k - 1).index = k - 1
    BY <2>2
  <2>4. Record(k - 1) = line
    BY <2>2, <2>3, RecordsAreUnique DEF RunInv, RecordInv
  <2>5. line.identity \in Identities /\ line.value \in Values
    BY <1>1, <2>2 DEF AgentLines
  <2> HIDE DEF Record
  <2>6. entry(k).identity = line.identity /\ entry(k).value = line.value
    BY <2>4
  <2>7. entry(k) \in EntryType
    BY <2>4, <2>5 DEF EntryType
  <2>8. QED
    BY <2>2, <2>6, <2>7 DEF Serves
<1> HIDE DEF entry
<1>7. /\ Loaded(r) \in Seq(EntryType) /\ Len(Loaded(r)) = length
      /\ \A k \in 1 .. length : Loaded(r)[k] = entry(k)
  BY <1>4, <1>5, <1>6
<1>8. QED
  BY <1>4, <1>6, <1>7 DEF LoadedFrom

LEMMA ScalarsStep ==
  ASSUME RunInv, [Next]_vars
  PROVE  ScalarsTyped'
<1>1. place' \in {"none", "created", "open", "cancelling", "ended"}
  BY DEF RunInv, ScalarsTyped, Next, StartRun, RecordStart, OptionsRefused, CacheHit, LimitReached, SetupFails,
         Accept, SetPhase, Begin, Execute, ExecuteUnwritable, FinishWell, FailRun, FinishBadly, Kill, vars
<1>2. Latest \in Nat /\ {MaxRuns, MaxCalls, MaxPhases, MaxAgents} \subseteq Nat
  BY RunBounds DEF RunInv, RecordInv, JournalsTyped, Latest
<1>3. Latest > 0 /\ (Inscribed \/ UNCHANGED journals) => Len(journals') = Len(journals)
  BY NoAgentLine DEF RunInv, RecordInv, Latest
<1>4. CASE UNCHANGED vars
  BY <1>4 DEF vars, callVars, cursorVars, RunInv, ScalarsTyped
<1>5. ASSUME NEW given \in Args, NEW r \in 0 .. Latest, StartRun(given, r)
      PROVE  ScalarsTyped'
  <2>1. Len(journals') = Len(journals) + 1 /\ Latest < MaxRuns
    BY <1>5, FreshJournal DEF StartRun, RunInv, RecordInv, Latest
  <2>2. entries' \in Seq(EntryType)
    <3>1. CASE r = 0
      BY <1>5, <3>1 DEF StartRun
    <3>2. CASE r # 0
      BY <1>5, <3>2, LoadedPrefix DEF StartRun
    <3>3. QED
      BY <3>1, <3>2
  <2>3. Len(entries') \in Nat
    BY <2>2
  <2>4. resume_from' \in 0 .. MaxRuns /\ Len(journals') <= MaxRuns
    BY <1>2, <1>5, <2>1 DEF StartRun, Latest
  <2>5. active' \in BOOLEAN
    BY <1>5 DEF StartRun
  <2>6. QED
    BY <1>1, <1>2, <1>5, <2>2, <2>3, <2>4, <2>5 DEF StartRun, ScalarsTyped
<1>6. CASE Same
  BY <1>1, <1>2, <1>3, <1>6 DEF Same, RunInv, ScalarsTyped, cursorVars
<1>7. ASSUME NEW identity \in Identities \cup {None}, NEW stage \in Stages,
             NEW value \in Values \cup {NoValue}, Registered(identity, stage, value)
      PROVE  ScalarsTyped'
  <2>1. Len(journals') = Len(journals)
    BY <1>7 DEF Registered, Append1, RunInv, RecordInv, JournalsTyped, Latest
  <2>2. Len(entries) \in Nat /\ position \in Nat
    BY DEF RunInv, ScalarsTyped
  <2>3. position' \in 0 .. Len(entries) /\ active' \in BOOLEAN
    <3>1. CASE stage \in {"hit", "cache"}
      BY <1>7, <2>2, <3>1 DEF Registered, Hit, RunInv, ScalarsTyped
    <3>2. CASE stage \notin {"hit", "cache"}
      BY <1>7, <3>2 DEF Registered, RunInv, ScalarsTyped
    <3>3. QED
      BY <3>1, <3>2
  <2>4. UNCHANGED <<args, resume_from, entries, live_agent_count, current_phase>>
    BY <1>7 DEF Registered
  <2>5. QED
    BY <1>1, <2>1, <2>3, <2>4 DEF RunInv, ScalarsTyped
<1>8. ASSUME NEW identity \in Identities \cup {None}, NEW state \in {"waiting", "lost"},
             Unrecorded(identity, state)
      PROVE  ScalarsTyped'
  <2>1. live_agent_count' \in 0 .. MaxAgents
    BY <1>2, <1>8 DEF Unrecorded, RunInv, ScalarsTyped
  <2>2. QED
    BY <1>1, <1>8, <2>1 DEF Unrecorded, RunInv, ScalarsTyped
<1>9. ASSUME NEW n \in 1 .. Len(calls), NEW stage \in {"live", "executor"},
             NEW value \in Values \cup {NoValue}, Executed(n, stage, value)
      PROVE  ScalarsTyped'
  <2>1. Len(journals') = Len(journals)
    BY <1>9 DEF Executed, Append1, RunInv, RecordInv, JournalsTyped, Latest
  <2>2. QED
    BY <1>1, <1>9, <2>1 DEF Executed, RunInv, ScalarsTyped, cursorVars
<1>10. QED
  BY <1>4, <1>5, <1>6, <1>7, <1>8, <1>9, Shapes

LEMMA RunInvInit == Init => RunInv
<1> SUFFICES ASSUME Init PROVE RunInv
  OBVIOUS
<1>1. Len(<<>>) = 0
  BY Zenon, EmptySeq
<1>2. journals = <<>> /\ calls = <<>> /\ entries = <<>> /\ position = 0
  BY DEF Init
<1>3. Len(journals) = 0 /\ Len(calls) = 0 /\ Len(entries) = 0
  BY <1>1, <1>2
<1>4. JournalsTyped /\ CallsTyped
  BY <1>2, <1>3, RunBounds DEF JournalsTyped, CallsTyped
<1>5. RecordInv
  BY <1>3, <1>4 DEF Init, RecordInv, OnePerIndex, LinesSettled, SettledRecorded, RunningNamed, Begun, Latest
<1>6. ScalarsTyped
  <2>1. <<>> \in Seq(EntryType)
    OBVIOUS
  <2>2. {MaxRuns, MaxPhases, MaxAgents} \subseteq Nat
    BY RunBounds
  <2>3. entries \in Seq(EntryType) /\ Len(journals) <= MaxRuns /\ position \in 0 .. Len(entries)
    BY <1>2, <1>3, <2>1, <2>2
  <2>4. place = "none" /\ args = None /\ resume_from = 0 /\ live_agent_count = 0 /\ current_phase = 0
    BY DEF Init
  <2>5. active \in BOOLEAN
    BY DEF Init
  <2>6. QED
    BY <2>2, <2>3, <2>4, <2>5 DEF ScalarsTyped
<1>7. QED
  BY <1>5, <1>6 DEF RunInv

LEMMA RunStep == RunInv /\ [Next]_vars => RunInv'
BY RecordStep, ScalarsStep DEF RunInv

\* The invariant every other proof about a run starts from.
THEOREM RunInvariant == Spec => []RunInv
BY RunInvInit, RunStep, PTL DEF Spec

LEMMA RunTypes == RunInv => TypeOK
<1> SUFFICES ASSUME RunInv PROVE TypeOK
  OBVIOUS
<1>1. \A r \in 1 .. Latest : \A line \in AgentRecords(r) : line \in AgentLines
  BY RecordAt DEF RunInv, RecordInv
<1>2. \A line \in AgentLines :
         line \in [event : {"agent"}, index : 0 .. MaxCalls - 1,
                   identity : Identities \cup {None}, phase : 0 .. MaxPhases,
                   stage : Stages, value : Values \cup {NoValue}]
  BY DEF AgentLines
<1>3. Len(journals) \in Nat
  BY DEF RunInv, RecordInv, JournalsTyped
<1>4. QED
  BY <1>1, <1>2, <1>3, RunBounds
     DEF RunInv, RecordInv, ScalarsTyped, CallsTyped, CallType, CallStates, EntryType, TypeOK

\* The types of the journals and of the run's state.
THEOREM RunTypeCorrect == Spec => []TypeOK
BY RunInvariant, RunTypes, PTL

LEMMA RecordsMatch == RunInv => RecordsMatchCalls
<1> SUFFICES ASSUME RunInv, Latest > 0, NEW n \in 1 .. Len(calls)
             PROVE  Cardinality({k \in 1 .. Len(Journal) :
                                    Journal[k].event = "agent" /\ Journal[k].index = n - 1})
                        = IF calls[n].state = "settled" THEN 1 ELSE 0
  BY DEF RecordsMatchCalls
<1> DEFINE places == {k \in 1 .. Len(Journal) : Journal[k].event = "agent" /\ Journal[k].index = n - 1}
<1>1. Latest \in 1 .. Latest /\ Len(calls) \in Nat
  BY IndexOfRecord DEF RunInv
<1>2. OneRecordEach(Journal)
  BY <1>1 DEF RunInv, RecordInv, OnePerIndex, Journal
<1>3. \A k \in 1 .. Len(Journal) : Journal[k].event = "agent" => Journal[k] \in AgentRecords(Latest)
  BY <1>1, RecordAt DEF RunInv, RecordInv, Journal
<1>4. CASE calls[n].state = "settled"
  <2>1. PICK line \in AgentRecords(Latest) : line.index = n - 1
    BY <1>4 DEF RunInv, RecordInv, SettledRecorded
  <2>2. PICK k \in 1 .. Len(Journal) : Journal[k] = line /\ line.event = "agent"
    BY <1>1, RecordAt DEF RunInv, RecordInv, Journal
  <2>3. places = {k}
    BY <1>2, <2>1, <2>2 DEF OneRecordEach
  <2>4. Cardinality({k}) = 1
    BY FS_Singleton
  <2>5. QED
    BY <1>4, <2>3, <2>4
<1>5. CASE calls[n].state # "settled"
  <2>1. ASSUME NEW k \in places
        PROVE  FALSE
    <3>1. Journal[k] \in AgentRecords(Latest) /\ Journal[k].index = n - 1
      BY <1>3
    <3>2. calls[(n - 1) + 1].state = "settled"
      BY <3>1 DEF RunInv, RecordInv, LinesSettled
    <3>3. (n - 1) + 1 = n
      BY <1>1
    <3>4. QED
      BY <1>5, <3>2, <3>3
  <2>2. places = {}
    BY <2>1
  <2>3. Cardinality({}) = 0
    BY FS_EmptySet
  <2>4. QED
    BY <1>5, <2>2, <2>3
<1>6. QED
  BY <1>4, <1>5

\* Property RecordsMatchCalls for runs of any length: a call has one record when it
\* is settled and none before.
THEOREM RecordsAlwaysMatchCalls == Spec => []RecordsMatchCalls
BY RunInvariant, RecordsMatch, PTL

-----------------------------------------------------------------------------
(* The end of a journal.                                                   *)

\* An ended run has no call that could still be recorded.
NoneAtRest ==
    \A n \in 1 .. Len(calls) :
        /\ calls[n].state = "waiting" => place = "open"
        /\ calls[n].state = "working" => place \in {"open", "cancelling"}

NotYetFinished ==
    (Latest > 0 /\ place # "ended") =>
        \A k \in 1 .. Len(Journal) : Journal[k].event # "run.finished"

FinishInv == FinishedIsLast /\ NotYetFinished /\ NoneAtRest

LEMMA NoneAtRestStep ==
  ASSUME RunInv, NoneAtRest, [Next]_vars
  PROVE  NoneAtRest'
<1>1. CallsTyped /\ Len(calls) \in Nat
  BY DEF RunInv, RecordInv, CallsTyped
<1>2. CASE UNCHANGED vars
  BY <1>2 DEF vars, callVars, NoneAtRest
<1>3. ASSUME NEW given \in Args, NEW r \in 0 .. Latest, StartRun(given, r)
      PROVE  NoneAtRest'
  <2>1. Len(<<>>) = 0
    BY Zenon, EmptySeq
  <2>2. calls' = <<>>
    BY <1>3 DEF StartRun
  <2>3. Len(calls') = 0
    BY <2>1, <2>2
  <2>4. QED
    BY <2>3 DEF NoneAtRest
<1>4. CASE RecordStart \/ SetPhase
  BY <1>4 DEF RecordStart, SetPhase, callVars, NoneAtRest
<1>5. ASSUME NEW identity \in Identities \cup {None}, NEW state \in {"settled", "waiting", "lost"},
             CanCall, Call(identity, state), place' = place
      PROVE  NoneAtRest'
  <2>1. /\ Len(calls') = Len(calls) + 1
        /\ \A n \in 1 .. Len(calls) : calls'[n] = calls[n]
        /\ calls'[Len(calls) + 1].state = state
    BY <1>5, CallAppended DEF RunInv, RecordInv, ScalarsTyped, CallStates, CanCall
  <2>2. place' = "open"
    BY <1>5 DEF CanCall
  <2>3. QED
    BY <1>1, <2>1, <2>2 DEF NoneAtRest
<1>6. CASE OptionsRefused
  BY <1>5, <1>6 DEF OptionsRefused, Refused
<1>7. ASSUME NEW identity \in Identities,
             CacheHit(identity) \/ LimitReached(identity) \/ SetupFails(identity) \/ Accept(identity)
      PROVE  NoneAtRest'
  BY <1>5, <1>7 DEF CacheHit, LimitReached, SetupFails, Refused, Accept, Miss
<1>8. ASSUME NEW n \in 1 .. Len(calls), Begin(n) \/ Execute(n) \/ ExecuteUnwritable(n)
      PROVE  NoneAtRest'
  <2>1. PICK state \in {"working", "settled", "lost"} :
           Becomes(n, state) /\ (state = "working" => place = "open") /\ place' = place
    BY <1>8 DEF Begin, Execute, ExecuteUnwritable
  <2>2. /\ Len(calls') = Len(calls) /\ calls'[n].state = state
        /\ \A m \in 1 .. Len(calls) : m # n => calls'[m].state = calls[m].state
    BY <1>1, <2>1, CallBecame DEF CallStates
  <2>3. QED
    BY <2>1, <2>2 DEF NoneAtRest
<1>9. CASE FinishWell \/ FinishBadly
  BY <1>9 DEF FinishWell, FinishBadly, InState, callVars, NoneAtRest
<1>10. CASE FailRun
  <2>1. /\ Len(calls') = Len(calls)
        /\ \A n \in 1 .. Len(calls) :
              calls'[n].state = IF calls[n].state = "waiting" THEN "lost" ELSE calls[n].state
    BY <1>1, <1>10, CallsDropped
  <2>2. place = "open" /\ place' = "cancelling"
    BY <1>10 DEF FailRun
  <2>3. QED
    BY <2>1, <2>2 DEF NoneAtRest
<1>11. CASE Kill
  <2>1. /\ Len(calls') = Len(calls)
        /\ \A n \in 1 .. Len(calls) :
              calls'[n].state = IF calls[n].state = "settled" THEN "settled" ELSE "lost"
    BY <1>1, <1>11, CallsKilled
  <2>2. QED
    BY <2>1 DEF NoneAtRest
<1>12. QED
  BY <1>2, <1>3, <1>4, <1>6, <1>7, <1>8, <1>9, <1>10, <1>11 DEF Next

LEMMA FinishAppend ==
  ASSUME RunInv, FinishInv, Latest > 0, place # "ended", NEW line \in Lines, Append1(line),
         line.event = "run.finished" => line.agents = Len(calls)
  PROVE  /\ FinishedIsLast'
         /\ line.event # "run.finished" => NotYetFinished'
<1>1. /\ Latest \in Nat /\ Latest \in 1 .. Latest /\ Len(calls) \in Nat
      /\ \A old \in AgentRecords(Latest) : old.index \in 0 .. Len(calls) - 1
  BY IndexOfRecord DEF RunInv, RecordInv, JournalsTyped, Latest
<1>2. /\ Latest' = Latest /\ Len(Journal) \in Nat
      /\ Journal' = Append(Journal, line)
      /\ \A r \in 1 .. Latest : r # Latest => journals'[r] = journals[r]
  BY AppendLine DEF RunInv, RecordInv
<1>3. Journal \in Seq(Lines)
  BY <1>1, RecordAt DEF RunInv, RecordInv, Journal
<1>4. /\ Len(Journal') = Len(Journal) + 1 /\ Journal'[Len(Journal) + 1] = line
      /\ \A k \in 1 .. Len(Journal) : Journal'[k] = Journal[k]
  BY <1>2, <1>3
<1>5. journals'[Latest] = Journal'
  BY <1>2 DEF Journal
<1>6. \A k \in 1 .. Len(Journal) : Journal[k].event # "run.finished"
  BY DEF FinishInv, NotYetFinished
<1>7. ASSUME NEW r \in 1 .. Latest, r # Latest
      PROVE  AgentRecords(r)' = AgentRecords(r) /\ journals'[r] = journals[r]
  BY <1>2, <1>7, AppendRecords DEF RunInv, RecordInv
<1>8. ASSUME line.event = "run.finished"
      PROVE  AgentRecords(Latest)' = AgentRecords(Latest)
  <2>1. {l \in {line} : l.event = "agent"} = {}
    BY <1>8
  <2>2. QED
    BY <2>1, AppendRecords DEF RunInv, RecordInv
<1>9. ASSUME NEW r \in 1 .. Latest, NEW k \in 1 .. Len(journals'[r]),
             journals'[r][k].event = "run.finished"
      PROVE  /\ k = Len(journals'[r])
             /\ \A l \in AgentRecords(r)' : l.index < journals'[r][k].agents
  <2>1. CASE r # Latest
    BY <1>7, <1>9, <2>1 DEF FinishInv, FinishedIsLast
  <2>2. CASE r = Latest
    <3>1. k = Len(Journal) + 1 /\ journals'[r][k] = line
      BY <1>2, <1>4, <1>5, <1>6, <1>9, <2>2
    <3>2. AgentRecords(r)' = AgentRecords(Latest)'
      BY <1>2, <2>2 DEF AgentRecords
    <3>3. AgentRecords(r)' = AgentRecords(Latest) /\ line.agents = Len(calls)
      BY <1>8, <1>9, <3>1, <3>2
    <3>4. \A l \in AgentRecords(r)' : l.index < line.agents
      BY <1>1, <3>3
    <3>5. QED
      BY <1>4, <1>5, <2>2, <3>1, <3>4
  <2>3. QED
    BY <2>1, <2>2
<1>10. FinishedIsLast'
  BY <1>2, <1>9 DEF FinishedIsLast
<1>11. line.event # "run.finished" => NotYetFinished'
  BY <1>2, <1>4, <1>6 DEF NotYetFinished
<1>12. QED
  BY <1>10, <1>11

LEMMA FinishRecord ==
  ASSUME RunInv, FinishInv, Latest > 0, place # "ended", NEW line \in AgentLines, Append1(line)
  PROVE  FinishedIsLast' /\ NotYetFinished'
<1>1. line.event = "agent" /\ line \in Lines
  BY DEF AgentLines, Lines
<1>2. line.event # "run.finished"
  BY <1>1
<1>3. QED
  BY <1>1, <1>2, FinishAppend

LEMMA FinishQuiet ==
  ASSUME FinishInv, UNCHANGED journals, place = "ended" => place' = "ended"
  PROVE  FinishedIsLast' /\ NotYetFinished'
BY DEF FinishInv, FinishedIsLast, NotYetFinished, Latest, Journal, AgentRecords

LEMMA FinishRegistered ==
  ASSUME RunInv, FinishInv, place # "ended",
         NEW identity \in Identities \cup {None}, NEW stage \in Stages, NEW value \in Values \cup {NoValue},
         Registered(identity, stage, value)
  PROVE  FinishedIsLast' /\ NotYetFinished'
BY RegisteredLine, FinishRecord DEF Registered

LEMMA FinishExecuted ==
  ASSUME RunInv, FinishInv, place # "ended",
         NEW n \in 1 .. Len(calls), NEW stage \in {"live", "executor"}, NEW value \in Values \cup {NoValue},
         Executed(n, stage, value)
  PROVE  FinishedIsLast' /\ NotYetFinished'
BY ExecutedLine, FinishRecord DEF Executed

LEMMA FinishStep ==
  ASSUME RunInv, FinishInv, [Next]_vars
  PROVE  FinishInv'
<1>1. NoneAtRest'
  BY NoneAtRestStep DEF FinishInv
<1> SUFFICES FinishedIsLast' /\ NotYetFinished'
  BY <1>1 DEF FinishInv
<1>2. CASE UNCHANGED vars
  BY <1>2, FinishQuiet DEF vars
<1>3. ASSUME NEW given \in Args, NEW r \in 0 .. Latest, StartRun(given, r)
      PROVE  FinishedIsLast' /\ NotYetFinished'
  <2>1. /\ Latest \in Nat /\ Latest' = Latest + 1
        /\ Journal' = <<>>
        /\ \A i \in 1 .. Latest : journals'[i] = journals[i] /\ AgentRecords(i)' = AgentRecords(i)
    BY <1>3, FreshJournal DEF RunInv, RecordInv, StartRun
  <2>2. Len(<<>>) = 0
    BY Zenon, EmptySeq
  <2>3. Len(Journal') = 0 /\ journals'[Latest + 1] = Journal'
    BY <2>1, <2>2 DEF Journal
  <2>4. NotYetFinished'
    BY <2>3 DEF NotYetFinished
  <2>5. ASSUME NEW i \in 1 .. Latest + 1, NEW k \in 1 .. Len(journals'[i]),
               journals'[i][k].event = "run.finished"
        PROVE  /\ k = Len(journals'[i])
               /\ \A l \in AgentRecords(i)' : l.index < journals'[i][k].agents
    <3>1. i \in 1 .. Latest
      BY <2>1, <2>3
    <3>2. QED
      BY <2>1, <2>5, <3>1 DEF FinishInv, FinishedIsLast
  <2>6. FinishedIsLast'
    BY <2>1, <2>5 DEF FinishedIsLast
  <2>7. QED
    BY <2>4, <2>6
<1>4. place \notin {"none", "ended"} => Latest > 0
  BY DEF RunInv, RecordInv, Begun, JournalsTyped, Latest
<1>5. CASE RecordStart \/ SetPhase
  <2>1. PICK line \in Lines : line.event # "run.finished" /\ Append1(line)
    <3>1. Started \in Lines /\ Started.event # "run.finished"
      BY DEF Started, Lines, RunInv, ScalarsTyped
    <3>2. CASE RecordStart
      BY <3>1, <3>2 DEF RecordStart
    <3>3. current_phase \in Nat
      BY DEF RunInv, ScalarsTyped
    <3>4. CASE SetPhase
      <4>1. Phase(current_phase') \in Lines /\ Phase(current_phase').event # "run.finished"
        BY <3>3, <3>4 DEF SetPhase, Phase, Lines
      <4>2. QED
        BY <3>4, <4>1 DEF SetPhase
    <3>5. QED
      BY <1>5, <3>2, <3>4
  <2>2. place \notin {"none", "ended"}
    BY <1>5 DEF RecordStart, SetPhase
  <2>3. QED
    BY <1>4, <2>1, <2>2, FinishAppend
<1>6. CASE \/ OptionsRefused
           \/ \E identity \in Identities :
                 CacheHit(identity) \/ LimitReached(identity) \/ SetupFails(identity) \/ Accept(identity)
  <2>1. place = "open" /\ place' = place
    BY <1>6 DEF OptionsRefused, CacheHit, LimitReached, SetupFails, Accept, Miss, CanCall
  <2>2. CASE \E identity \in Identities \cup {None}, stage \in Stages, value \in Values \cup {NoValue} :
               Registered(identity, stage, value)
    BY <2>1, <2>2, FinishRegistered
  <2>3. CASE \E identity \in Identities \cup {None}, state \in {"waiting", "lost"} :
                 Unrecorded(identity, state)
    <3>1. UNCHANGED journals
      BY <2>3 DEF Unrecorded
    <3>2. QED
      BY <2>1, <3>1, FinishQuiet
  <2>4. QED
    BY <1>6, <2>2, <2>3, SomeRegistered
<1>7. ASSUME NEW n \in 1 .. Len(calls), Execute(n)
      PROVE  FinishedIsLast' /\ NotYetFinished'
  <2>1. place # "ended"
    BY <1>7 DEF Execute, FinishInv, NoneAtRest
  <2>2. QED
    BY <1>7, <2>1, SomeExecuted, FinishExecuted
<1>8. ASSUME NEW n \in 1 .. Len(calls), Begin(n) \/ ExecuteUnwritable(n)
      PROVE  FinishedIsLast' /\ NotYetFinished'
  BY <1>8, FinishQuiet DEF Begin, ExecuteUnwritable
<1>9. CASE FailRun
  BY <1>9, FinishQuiet DEF FailRun
<1>10. CASE FinishWell \/ FinishBadly
  <2>1. ASSUME NEW ok \in BOOLEAN
        PROVE  Finished(ok) \in Lines /\ Finished(ok).agents = Len(calls)
    BY DEF Finished, Lines, RunInv, RecordInv, CallsTyped
  <2>2. PICK ok \in BOOLEAN : Append1(Finished(ok))
    BY <1>10 DEF FinishWell, FinishBadly
  <2>3. place \notin {"none", "ended"} /\ place' = "ended"
    BY <1>10 DEF FinishWell, FinishBadly
  <2>4. FinishedIsLast'
    BY <1>4, <2>1, <2>2, <2>3, FinishAppend
  <2>5. QED
    BY <2>3, <2>4 DEF NotYetFinished
<1>11. CASE Kill
  <2>1. place \notin {"none", "ended"} /\ place' = "ended"
    BY <1>11 DEF Kill
  <2>2. Torn \in Lines /\ Torn.event # "run.finished"
    BY DEF Torn, Lines
  <2>3. CASE Append1(Torn)
    BY <1>4, <2>1, <2>2, <2>3, FinishAppend
  <2>4. CASE UNCHANGED journals
    BY <2>1, <2>4, FinishQuiet
  <2>5. QED
    BY <1>11, <2>3, <2>4 DEF Kill
<1>12. QED
  BY <1>1, <1>2, <1>3, <1>5, <1>6, <1>7, <1>8, <1>9, <1>10, <1>11 DEF Next, FinishInv

\* Property FinishedIsLast for any number of runs and calls: nothing follows the
\* line that closes a journal, and it counts every call with a record.
THEOREM FinishedIsAlwaysLast == Spec => []FinishedIsLast
<1>1. Init => FinishInv
  <2> SUFFICES ASSUME Init PROVE FinishInv
    OBVIOUS
  <2>1. Len(<<>>) = 0
    BY Zenon, EmptySeq
  <2>2. journals = <<>> /\ calls = <<>>
    BY DEF Init
  <2>3. Latest = 0 /\ Len(calls) = 0
    BY <2>1, <2>2 DEF Latest
  <2>4. QED
    BY <2>3 DEF FinishInv, FinishedIsLast, NotYetFinished, NoneAtRest
<1>2. RunInv /\ FinishInv /\ [Next]_vars => FinishInv'
  BY FinishStep
<1>3. FinishInv => FinishedIsLast
  BY DEF FinishInv
<1>4. QED
  BY <1>1, <1>2, <1>3, RunInvariant, PTL DEF Spec

-----------------------------------------------------------------------------
(* Phases.                                                                 *)

\* The calls have the phases in which they were made, in order.
CallPhases ==
    /\ \A n \in 1 .. Len(calls) : calls[n].phase <= current_phase
    /\ \A m, n \in 1 .. Len(calls) : m <= n => calls[m].phase <= calls[n].phase

LEMMA CallPhasesStep ==
  ASSUME RunInv, CallPhases, [Next]_vars
  PROVE  CallPhases'
<1>1. /\ Len(calls) \in Nat /\ current_phase \in Nat
      /\ \A n \in 1 .. Len(calls) : calls[n].phase \in Nat
  <2>1. \A n \in 1 .. Len(calls) : calls[n] \in CallType
    BY DEF RunInv, RecordInv, CallsTyped
  <2>2. QED
    BY <2>1 DEF RunInv, RecordInv, ScalarsTyped, CallsTyped, CallType
<1>2. CASE UNCHANGED vars
  BY <1>2 DEF vars, callVars, CallPhases
<1>3. ASSUME NEW given \in Args, NEW r \in 0 .. Latest, StartRun(given, r)
      PROVE  CallPhases'
  BY <1>3, StartRecords DEF CallPhases
<1>4. ASSUME Len(calls') = Len(calls) + 1, calls'[Len(calls) + 1].phase = current_phase,
             \A n \in 1 .. Len(calls) : calls'[n] = calls[n], current_phase' = current_phase
      PROVE  CallPhases'
  BY <1>1, <1>4 DEF CallPhases
<1>5. ASSUME Len(calls') = Len(calls), \A n \in 1 .. Len(calls) : calls'[n].phase = calls[n].phase,
             current_phase' \in Nat, current_phase <= current_phase'
      PROVE  CallPhases'
  BY <1>1, <1>5 DEF CallPhases
<1>6. CASE Same
  BY <1>1, <1>5, <1>6 DEF Same
<1>7. ASSUME NEW identity \in Identities \cup {None}, NEW stage \in Stages,
             NEW value \in Values \cup {NoValue}, Registered(identity, stage, value)
      PROVE  CallPhases'
  <2>1. current_phase' = current_phase
    BY <1>7 DEF Registered
  <2>2. QED
    BY <1>4, <1>7, <2>1, RegisteredRecords
<1>8. ASSUME NEW identity \in Identities \cup {None}, NEW state \in {"waiting", "lost"},
             Unrecorded(identity, state)
      PROVE  CallPhases'
  <2>1. current_phase' = current_phase
    BY <1>8 DEF Unrecorded
  <2>2. QED
    BY <1>4, <1>8, <2>1, UnrecordedRecords
<1>9. ASSUME NEW n \in 1 .. Len(calls), NEW stage \in {"live", "executor"},
             NEW value \in Values \cup {NoValue}, Executed(n, stage, value)
      PROVE  CallPhases'
  <2>1. current_phase' = current_phase
    BY <1>9 DEF Executed
  <2>2. QED
    BY <1>1, <1>5, <1>9, <2>1, ExecutedRecords
<1>10. QED
  BY <1>2, <1>3, <1>6, <1>7, <1>8, <1>9, Shapes

LatestInOrder ==
    Latest > 0 => \A early, late \in AgentRecords(Latest) :
        early.index < late.index => early.phase <= late.phase

LEMMA LatestPhases ==
  ASSUME RunInv, CallPhases
  PROVE  LatestInOrder
<1> SUFFICES ASSUME Latest > 0, NEW early \in AgentRecords(Latest), NEW late \in AgentRecords(Latest),
                    early.index < late.index
             PROVE  early.phase <= late.phase
  BY DEF LatestInOrder
<1>1. early.index \in 0 .. Len(calls) - 1 /\ late.index \in 0 .. Len(calls) - 1 /\ Len(calls) \in Nat
  BY IndexOfRecord DEF RunInv
<1>2. early.phase = calls[early.index + 1].phase /\ late.phase = calls[late.index + 1].phase
  BY DEF RunInv, RecordInv, LinesSettled
<1>3. early.index + 1 \in 1 .. Len(calls) /\ late.index + 1 \in 1 .. Len(calls)
      /\ early.index + 1 <= late.index + 1
  BY <1>1
<1>4. calls[early.index + 1].phase <= calls[late.index + 1].phase
  BY <1>3 DEF CallPhases
<1>5. QED
  BY <1>2, <1>4

LEMMA OlderOrStart ==
  ASSUME RunInv, [Next]_vars
  PROVE  \/ Older
         \/ /\ Latest \in Nat /\ Latest' = Latest + 1
            /\ \A i \in 1 .. Latest : journals'[i] = journals[i] /\ AgentRecords(i)' = AgentRecords(i)
            /\ AgentRecords(Latest)' = {}
<1>1. CASE UNCHANGED vars
  BY <1>1 DEF vars, Older, Latest, AgentRecords
<1>2. QED
  BY <1>1, Shapes, StartRecords, SameRecords, RegisteredRecords, UnrecordedRecords, ExecutedRecords

LEMMA PhasesInOrderStep ==
  ASSUME RunInv, CallPhases, PhasesInOrder, [Next]_vars, RunInv', CallPhases', LatestInOrder'
  PROVE  PhasesInOrder'
<1>1. Latest \in Nat
  BY DEF RunInv, RecordInv, JournalsTyped, Latest
<1>2. ASSUME NEW r \in 1 .. Latest'
      PROVE  \A early, late \in AgentRecords(r)' : early.index < late.index => early.phase <= late.phase
  <2>1. CASE r = Latest'
    <3>1. AgentRecords(r)' = AgentRecords(Latest)'
      BY <2>1 DEF AgentRecords
    <3>2. Latest' > 0
      BY <1>1, <2>1, OlderOrStart DEF Older
    <3>3. QED
      BY <3>1, <3>2 DEF LatestInOrder
  <2>2. CASE r # Latest'
    <3>1. r \in 1 .. Latest /\ AgentRecords(r)' = AgentRecords(r)
      BY <1>1, <2>2, OlderOrStart DEF Older
    <3>2. QED
      BY <3>1 DEF PhasesInOrder
  <2>3. QED
    BY <2>1, <2>2
<1>3. QED
  BY <1>2 DEF PhasesInOrder

PhaseInv == RunInv /\ CallPhases /\ LatestInOrder /\ PhasesInOrder

\* Property PhasesInOrder for any number of runs, calls and phases.
THEOREM PhasesAlwaysInOrder == Spec => []PhasesInOrder
<1>1. Init => PhaseInv
  <2> SUFFICES ASSUME Init PROVE PhaseInv
    OBVIOUS
  <2>1. Len(<<>>) = 0
    BY Zenon, EmptySeq
  <2>2. journals = <<>> /\ calls = <<>>
    BY DEF Init
  <2>3. Latest = 0 /\ Len(calls) = 0
    BY <2>1, <2>2 DEF Latest
  <2>4. QED
    BY <2>3, RunInvInit DEF PhaseInv, CallPhases, LatestInOrder, PhasesInOrder
<1>2. PhaseInv /\ [Next]_vars => PhaseInv'
  <2> SUFFICES ASSUME PhaseInv, [Next]_vars PROVE PhaseInv'
    OBVIOUS
  <2>1. RunInv' /\ CallPhases'
    BY RunStep, CallPhasesStep DEF PhaseInv
  <2>2. (RunInv /\ CallPhases => LatestInOrder)'
    BY LatestPhases, PTL
  <2>3. LatestInOrder'
    BY <2>1, <2>2
  <2>4. QED
    BY <2>1, <2>3, PhasesInOrderStep DEF PhaseInv
<1>3. PhaseInv => PhasesInOrder
  BY DEF PhaseInv
<1>4. QED
  BY <1>1, <1>2, <1>3, PTL DEF Spec

-----------------------------------------------------------------------------
(* The budget.                                                             *)

\* The calls before call i that were accepted, so far as the records tell:
\* a call without a record counts.
Charged(records, i) ==
    {index \in 0 .. i - 1 :
        \A other \in records : other.index = index => other.stage \in {"live", "executor"}}

\* Each accepted call was charged once, and no call is refused below the limit.
BudgetInv ==
    Latest > 0 =>
        /\ live_agent_count <= Cardinality(Charged(AgentRecords(Latest), Len(calls)))
        /\ \A line \in AgentRecords(Latest) :
              line.stage = "limit" =>
                  Cardinality(Charged(AgentRecords(Latest), line.index)) >= MaxAgents

LEMMA ChargedFinite ==
  ASSUME NEW records, NEW i \in Nat
  PROVE  IsFiniteSet(Charged(records, i)) /\ Cardinality(Charged(records, i)) \in Nat
<1>1. IsFiniteSet(0 .. i - 1)
  BY FS_Interval
<1>2. Charged(records, i) \subseteq 0 .. i - 1
  BY DEF Charged
<1>3. IsFiniteSet(Charged(records, i))
  BY <1>1, <1>2, FS_Subset
<1>4. QED
  BY <1>3, FS_CardinalityType

LEMMA ChargedGrows ==
  ASSUME NEW records, NEW more, NEW i \in Nat, NEW j \in Nat,
         Charged(records, i) \subseteq Charged(more, j)
  PROVE  Cardinality(Charged(records, i)) <= Cardinality(Charged(more, j))
BY ChargedFinite, FS_Subset

LEMMA BudgetRegister ==
  ASSUME RunInv, BudgetInv, NEW identity \in Identities \cup {None}, NEW stage \in Stages,
         NEW value \in Values \cup {NoValue}, Registered(identity, stage, value)
  PROVE  BudgetInv'
<1> DEFINE line == AgentRecord(Len(calls), identity, current_phase, stage, value)
<1>1. /\ Latest > 0 /\ Latest' = Latest
      /\ AgentRecords(Latest)' = AgentRecords(Latest) \cup {line}
      /\ Len(calls') = Len(calls) + 1 /\ live_agent_count' = live_agent_count
  BY RegisteredRecords DEF Older, Registered
<1>2. line.index = Len(calls) /\ line.stage = stage
  BY DEF AgentRecord
<1>3. /\ Len(calls) \in Nat
      /\ \A old \in AgentRecords(Latest) : old.index \in 0 .. Len(calls) - 1
  BY <1>1, IndexOfRecord DEF RunInv
<1>4. live_agent_count \in Nat /\ MaxAgents \in Nat
  BY RunBounds DEF RunInv, ScalarsTyped
<1> DEFINE old == AgentRecords(Latest)
           new == AgentRecords(Latest) \cup {line}
<1>5. stage = "limit" => live_agent_count >= MaxAgents
  BY DEF Registered
<1>6. ASSUME NEW i \in 0 .. Len(calls)
      PROVE  Charged(old, i) \subseteq Charged(new, i)
  BY <1>2, <1>3 DEF Charged
<1>7. Charged(old, Len(calls)) \subseteq Charged(new, Len(calls) + 1)
  BY <1>2, <1>3 DEF Charged
<1> HIDE DEF line, old, new
<1>8. live_agent_count <= Cardinality(Charged(new, Len(calls) + 1))
  <2>1. live_agent_count <= Cardinality(Charged(old, Len(calls)))
    BY <1>1 DEF BudgetInv, old
  <2>2. Cardinality(Charged(old, Len(calls))) <= Cardinality(Charged(new, Len(calls) + 1))
    BY <1>3, <1>7, ChargedGrows
  <2>3. QED
    BY <1>3, <1>4, <2>1, <2>2, ChargedFinite
<1>9. ASSUME NEW l \in new, l.stage = "limit"
      PROVE  Cardinality(Charged(new, l.index)) >= MaxAgents
  <2>1. CASE l \in old
    <3>1. l.index \in 0 .. Len(calls)
      BY <1>3, <2>1 DEF old
    <3>2. Cardinality(Charged(old, l.index)) >= MaxAgents
      BY <1>1, <1>9, <2>1 DEF BudgetInv, old
    <3>3. Cardinality(Charged(old, l.index)) <= Cardinality(Charged(new, l.index))
      BY <1>6, <3>1, ChargedGrows
    <3>4. QED
      BY <1>4, <3>1, <3>2, <3>3, ChargedFinite
  <2>2. CASE l = line
    <3>1. live_agent_count <= Cardinality(Charged(old, Len(calls)))
      BY <1>1 DEF BudgetInv, old
    <3>2. Cardinality(Charged(old, Len(calls))) <= Cardinality(Charged(new, Len(calls)))
      BY <1>3, <1>6, ChargedGrows
    <3>3. live_agent_count >= MaxAgents /\ l.index = Len(calls)
      BY <1>2, <1>5, <1>9, <2>2
    <3>4. QED
      BY <1>3, <1>4, <3>1, <3>2, <3>3, ChargedFinite
  <2>3. QED
    BY <1>9, <2>1, <2>2 DEF old, new
<1>10. AgentRecords(Latest)' = new
  BY <1>1 DEF new
<1>11. QED
  BY <1>1, <1>8, <1>9, <1>10 DEF BudgetInv

LEMMA BudgetAccept ==
  ASSUME RunInv, BudgetInv, NEW identity \in Identities \cup {None}, NEW state \in {"waiting", "lost"},
         Unrecorded(identity, state)
  PROVE  BudgetInv'
<1> DEFINE records == AgentRecords(Latest)
<1>1. /\ Latest > 0 /\ Latest' = Latest
      /\ AgentRecords(Latest)' = records
      /\ Len(calls') = Len(calls) + 1
      /\ live_agent_count' \in {live_agent_count, live_agent_count + 1}
  BY UnrecordedRecords DEF Older, Unrecorded
<1>2. /\ Len(calls) \in Nat
      /\ \A old \in records : old.index \in 0 .. Len(calls) - 1
  BY <1>1, IndexOfRecord DEF RunInv
<1>3. live_agent_count \in Nat
  BY RunBounds DEF RunInv, ScalarsTyped
<1>4. live_agent_count <= Cardinality(Charged(records, Len(calls)))
  BY <1>1 DEF BudgetInv
<1>5. \A line \in records : line.stage = "limit" => Cardinality(Charged(records, line.index)) >= MaxAgents
  BY <1>1 DEF BudgetInv
<1> HIDE DEF records
<1>6. Charged(records, Len(calls) + 1) = Charged(records, Len(calls)) \cup {Len(calls)}
  BY <1>2 DEF Charged
<1>7. Len(calls) \notin Charged(records, Len(calls))
  BY <1>2 DEF Charged
<1>8. Cardinality(Charged(records, Len(calls) + 1)) = Cardinality(Charged(records, Len(calls))) + 1
  BY <1>2, <1>6, <1>7, ChargedFinite, FS_AddElement
<1>9. live_agent_count' <= Cardinality(Charged(records, Len(calls) + 1))
  BY <1>1, <1>2, <1>3, <1>4, <1>8, ChargedFinite
<1>10. QED
  BY <1>1, <1>5, <1>9 DEF BudgetInv

LEMMA BudgetExecute ==
  ASSUME RunInv, BudgetInv, NEW n \in 1 .. Len(calls), NEW stage \in {"live", "executor"},
         NEW value \in Values \cup {NoValue}, Executed(n, stage, value)
  PROVE  BudgetInv'
<1> DEFINE line == AgentRecord(n - 1, calls[n].identity, calls[n].phase, stage, value)
           old == AgentRecords(Latest)
           new == AgentRecords(Latest) \cup {line}
<1>1. /\ Latest > 0 /\ Latest' = Latest
      /\ AgentRecords(Latest)' = new
      /\ Len(calls') = Len(calls) /\ live_agent_count' = live_agent_count
  BY ExecutedRecords DEF Older, Executed
<1>2. line.stage \in {"live", "executor"}
  BY DEF AgentRecord
<1>3. /\ Len(calls) \in Nat
      /\ \A l \in AgentRecords(Latest) : l.index \in 0 .. Len(calls) - 1
  BY <1>1, IndexOfRecord DEF RunInv
<1>4. live_agent_count \in Nat /\ MaxAgents \in Nat
  BY RunBounds DEF RunInv, ScalarsTyped
<1>5. ASSUME NEW i \in Nat
      PROVE  Charged(old, i) \subseteq Charged(new, i)
  BY <1>2 DEF Charged
<1> HIDE DEF line
<1>6. live_agent_count <= Cardinality(Charged(new, Len(calls)))
  <2>1. live_agent_count <= Cardinality(Charged(old, Len(calls)))
    BY <1>1 DEF BudgetInv
  <2> HIDE DEF old, new
  <2>2. Cardinality(Charged(old, Len(calls))) <= Cardinality(Charged(new, Len(calls)))
    BY <1>3, <1>5, ChargedGrows
  <2>3. QED
    BY <1>3, <1>4, <2>1, <2>2, ChargedFinite
<1>7. ASSUME NEW l \in new, l.stage = "limit"
      PROVE  Cardinality(Charged(new, l.index)) >= MaxAgents
  <2>1. l \in old
    BY <1>2, <1>7
  <2>2. l.index \in Nat
    BY <1>3, <2>1
  <2>3. Cardinality(Charged(old, l.index)) >= MaxAgents
    BY <1>1, <1>7, <2>1 DEF BudgetInv
  <2> HIDE DEF old, new
  <2>4. Cardinality(Charged(old, l.index)) <= Cardinality(Charged(new, l.index))
    BY <1>5, <2>2, ChargedGrows
  <2>5. QED
    BY <1>4, <2>2, <2>3, <2>4, ChargedFinite
<1> HIDE DEF old, new
<1>8. QED
  BY <1>1, <1>6, <1>7 DEF BudgetInv

LEMMA BudgetStep ==
  ASSUME RunInv, BudgetInv, [Next]_vars
  PROVE  BudgetInv'
<1>1. CASE UNCHANGED vars
  BY <1>1 DEF vars, callVars, BudgetInv, Latest, AgentRecords
<1>2. ASSUME NEW given \in Args, NEW r \in 0 .. Latest, StartRun(given, r)
      PROVE  BudgetInv'
  <2>1. Latest' > 0 /\ AgentRecords(Latest)' = {} /\ Len(calls') = 0
    BY <1>2, StartRecords
  <2>2. live_agent_count' = 0
    BY <1>2 DEF StartRun
  <2>3. Cardinality(Charged({}, 0)) \in Nat
    BY ChargedFinite
  <2>4. QED
    BY <2>1, <2>2, <2>3 DEF BudgetInv
<1>3. CASE Same
  <2>1. AgentRecords(Latest)' = AgentRecords(Latest) /\ Latest' = Latest
    BY <1>3, SameRecords DEF Older
  <2>2. Len(calls') = Len(calls) /\ live_agent_count' = live_agent_count
    BY <1>3 DEF Same
  <2>3. QED
    BY <2>1, <2>2 DEF BudgetInv
<1>4. QED
  BY <1>1, <1>2, <1>3, Shapes, BudgetRegister, BudgetAccept, BudgetExecute

\* Property LimitIsReal for any max_agents and any number of calls.
THEOREM LimitIsAlwaysReal == Spec => []LimitIsReal
<1>1. Init => BudgetInv
  <2> SUFFICES ASSUME Init PROVE BudgetInv
    OBVIOUS
  <2>1. Len(<<>>) = 0
    BY Zenon, EmptySeq
  <2>2. Latest = 0
    BY <2>1 DEF Init, Latest
  <2>3. QED
    BY <2>2 DEF BudgetInv
<1>2. RunInv /\ BudgetInv /\ [Next]_vars => BudgetInv'
  BY BudgetStep
<1>3. BudgetInv => LimitIsReal
  BY DEF BudgetInv, LimitIsReal, Charged
<1>4. QED
  BY <1>1, <1>2, <1>3, RunInvariant, PTL DEF Spec

-----------------------------------------------------------------------------
(* What is replayed.                                                       *)

ArgsMatch == resume_from # 0 /\ journals[resume_from][1].args = args

\* Where the cursor of a resumed run has come from; it is only active for the
\* same arguments.
OriginInv ==
    /\ resume_from # 0 => resume_from \in 1 .. Latest - 1 /\ LoadedFrom(entries, resume_from)
    /\ active => ArgsMatch

LEMMA OriginFrame ==
  ASSUME RunInv, OriginInv, Older, UNCHANGED <<args, resume_from, entries>>, active' => active
  PROVE  /\ OriginInv'
         /\ resume_from # 0 => journals'[resume_from] = journals[resume_from]
         /\ ArgsMatch' <=> ArgsMatch
<1>1. CASE resume_from = 0
  BY <1>1 DEF OriginInv, ArgsMatch
<1>2. CASE resume_from # 0
  <2>1. resume_from \in 1 .. Latest - 1 /\ LoadedFrom(entries, resume_from)
    BY <1>2 DEF OriginInv
  <2>2. resume_from \in 1 .. Latest /\ resume_from # Latest
    BY <2>1 DEF RunInv, RecordInv, JournalsTyped, Latest
  <2>3. journals'[resume_from] = journals[resume_from] /\ Latest' = Latest
    BY <2>2 DEF Older
  <2>4. AgentRecords(resume_from)' = AgentRecords(resume_from)
    BY <2>3 DEF AgentRecords
  <2>5. LoadedFrom(entries, resume_from)'
    BY <2>1, <2>4 DEF LoadedFrom, Serves, RecordOk
  <2>6. QED
    BY <1>2, <2>1, <2>3, <2>5 DEF OriginInv, ArgsMatch
<1>3. QED
  BY <1>1, <1>2

LEMMA OriginStart ==
  ASSUME RunInv, NEW given \in Args, NEW r \in 0 .. Latest, StartRun(given, r)
  PROVE  OriginInv' /\ (active' <=> ArgsMatch')
<1>1. /\ Latest \in Nat /\ Latest' = Latest + 1
      /\ \A i \in 1 .. Latest : journals'[i] = journals[i] /\ AgentRecords(i)' = AgentRecords(i)
  BY StartRecords
<1>2. CASE r = 0
  BY <1>2 DEF StartRun, OriginInv, ArgsMatch
<1>3. CASE r # 0
  <2>1. r \in 1 .. Latest /\ resume_from' = r /\ entries' = Loaded(r) /\ args' = given
    BY <1>3 DEF StartRun
  <2>2. LoadedFrom(Loaded(r), r)
    BY <2>1, LoadedPrefix
  <2>3. journals'[r] = journals[r] /\ AgentRecords(r)' = AgentRecords(r)
    BY <1>1, <2>1
  <2>4. AgentRecords(resume_from)' = AgentRecords(r)
    BY <2>1, <2>3 DEF AgentRecords
  <2> DEFINE prefix == Loaded(r)
  <2>5. LoadedFrom(prefix, r) /\ entries' = prefix
    BY <2>1, <2>2
  <2> HIDE DEF prefix
  <2>6. LoadedFrom(entries, resume_from)'
    BY <2>1, <2>4, <2>5 DEF LoadedFrom, Serves, RecordOk
  <2>7. active' <=> ArgsMatch'
    BY <1>3, <2>1, <2>3 DEF StartRun, ArgsMatch
  <2>8. QED
    BY <1>1, <2>1, <2>6, <2>7 DEF OriginInv
<1>4. QED
  BY <1>2, <1>3

LEMMA OriginStep ==
  ASSUME RunInv, OriginInv, [Next]_vars
  PROVE  OriginInv'
<1>1. CASE UNCHANGED vars
  BY <1>1 DEF vars, cursorVars, OriginInv, ArgsMatch, LoadedFrom, Serves, RecordOk, AgentRecords, Latest
<1>2. ASSUME NEW given \in Args, NEW r \in 0 .. Latest, StartRun(given, r)
      PROVE  OriginInv'
  BY <1>2, OriginStart
<1>3. CASE Same
  <2>1. Older /\ UNCHANGED <<args, resume_from, entries, active>>
    BY <1>3, SameRecords DEF Same, cursorVars
  <2>2. QED
    BY <2>1, OriginFrame
<1>4. ASSUME NEW identity \in Identities \cup {None}, NEW stage \in Stages,
             NEW value \in Values \cup {NoValue}, Registered(identity, stage, value)
      PROVE  OriginInv'
  <2>1. Older /\ UNCHANGED <<args, resume_from, entries>>
    BY <1>4, RegisteredRecords DEF Registered
  <2>2. active' = active \/ active' = FALSE
    BY <1>4 DEF Registered
  <2>3. QED
    BY <2>1, <2>2, OriginFrame
<1>5. ASSUME NEW identity \in Identities \cup {None}, NEW state \in {"waiting", "lost"},
             Unrecorded(identity, state)
      PROVE  OriginInv'
  <2>1. Older /\ UNCHANGED <<args, resume_from, entries>>
    BY <1>5, UnrecordedRecords DEF Unrecorded
  <2>2. active' = active \/ active' = FALSE
    BY <1>5 DEF Unrecorded
  <2>3. QED
    BY <2>1, <2>2, OriginFrame
<1>6. ASSUME NEW n \in 1 .. Len(calls), NEW stage \in {"live", "executor"},
             NEW value \in Values \cup {NoValue}, Executed(n, stage, value)
      PROVE  OriginInv'
  <2>1. Older /\ UNCHANGED <<args, resume_from, entries, active>>
    BY <1>6, ExecutedRecords DEF Executed, cursorVars
  <2>2. QED
    BY <2>1, OriginFrame
<1>7. QED
  BY <1>1, <1>2, <1>3, <1>4, <1>5, <1>6, Shapes

Used(records) == {line \in records : line.stage \in {"hit", "cache"}}

Earlier(records, line) == {earlier \in Used(records) : earlier.index < line.index}

LEMMA TakenIsEarlier ==
  ASSUME NEW r, NEW line
  PROVE  TakenBefore(r, line) = Earlier(AgentRecords(r), line)
BY DEF TakenBefore, Earlier, Used

Missed == {"live", "executor", "limit", "setup"}

\* The k-th record that took an entry took the k-th one.
UsedInOrder(records, prefix) ==
    \A line \in Used(records) :
        LET k == Cardinality(Earlier(records, line))
        IN /\ k \in 0 .. Len(prefix) - 1
           /\ prefix[k + 1].identity = line.identity
           /\ line.stage = "hit" => prefix[k + 1].value = line.value

\* No call is served behind one that was not.
HitsBeforeMisses(records, made) ==
    \A line \in records : line.stage = "hit" =>
        /\ \A other \in records : other.stage \in Missed => other.index > line.index
        /\ \A n \in 1 .. Len(made) :
              made[n].state \in {"waiting", "working"} => n - 1 > line.index

NoMissYet(records, made) ==
    /\ \A line \in records : line.stage \notin Missed
    /\ \A n \in 1 .. Len(made) : made[n].state \notin {"waiting", "working"}

CursorInv ==
    Latest > 0 =>
        /\ position = Cardinality(Used(AgentRecords(Latest)))
        /\ IsFiniteSet(Used(AgentRecords(Latest)))
        /\ UsedInOrder(AgentRecords(Latest), entries)
        /\ HitsBeforeMisses(AgentRecords(Latest), calls)
        /\ active => NoMissYet(AgentRecords(Latest), calls)
        /\ (\E line \in AgentRecords(Latest) : line.stage = "hit") => ArgsMatch

LEMMA OneMoreUsed ==
  ASSUME NEW records, NEW line, IsFiniteSet(Used(records)), NEW count \in Nat,
         \A old \in records : old.index \in Nat /\ old.index < count,
         line.index = count
  PROVE  /\ Earlier(records \cup {line}, line) = Used(records)
         /\ \A old \in records : Earlier(records \cup {line}, old) = Earlier(records, old)
         /\ line.stage \in {"hit", "cache"} =>
               /\ IsFiniteSet(Used(records \cup {line}))
               /\ Cardinality(Used(records \cup {line})) = Cardinality(Used(records)) + 1
         /\ line.stage \notin {"hit", "cache"} => Used(records \cup {line}) = Used(records)
<1>1. Earlier(records \cup {line}, line) = Used(records)
  BY DEF Earlier, Used
<1>2. \A old \in records : Earlier(records \cup {line}, old) = Earlier(records, old)
  BY DEF Earlier, Used
<1>3. line \notin Used(records)
  BY DEF Used
<1>4. line.stage \in {"hit", "cache"} => Used(records \cup {line}) = Used(records) \cup {line}
  BY DEF Used
<1>5. line.stage \notin {"hit", "cache"} => Used(records \cup {line}) = Used(records)
  BY DEF Used
<1>6. /\ IsFiniteSet(Used(records) \cup {line})
      /\ Cardinality(Used(records) \cup {line}) = Cardinality(Used(records)) + 1
  BY <1>3, FS_AddElement
<1>7. QED
  BY <1>1, <1>2, <1>4, <1>5, <1>6

LEMMA CursorRegister ==
  ASSUME RunInv, OriginInv, CursorInv, NEW identity \in Identities \cup {None}, NEW stage \in Stages,
         NEW value \in Values \cup {NoValue}, Registered(identity, stage, value)
  PROVE  CursorInv'
<1> DEFINE line == AgentRecord(Len(calls), identity, current_phase, stage, value)
           old == AgentRecords(Latest)
           new == AgentRecords(Latest) \cup {line}
<1>1. /\ Latest > 0 /\ Latest' = Latest /\ Older
      /\ AgentRecords(Latest)' = new
      /\ Len(calls') = Len(calls) + 1
      /\ \A n \in 1 .. Len(calls) : calls'[n] = calls[n]
      /\ calls'[Len(calls) + 1].state = "settled"
  BY RegisteredRecords DEF Older, Registered
<1>2. line.index = Len(calls) /\ line.stage = stage /\ line.identity = identity /\ line.value = value
  BY DEF AgentRecord
<1>3. /\ Len(calls) \in Nat
      /\ \A l \in old : l.index \in Nat /\ l.index < Len(calls)
  BY <1>1, IndexOfRecord DEF RunInv
<1>4. /\ position = Cardinality(Used(old)) /\ IsFiniteSet(Used(old))
      /\ UsedInOrder(old, entries) /\ HitsBeforeMisses(old, calls)
      /\ active => NoMissYet(old, calls)
      /\ (\E l \in old : l.stage = "hit") => ArgsMatch
  BY <1>1 DEF CursorInv
<1>5. /\ UNCHANGED <<args, resume_from, entries>>
      /\ active' => active
      /\ stage \in {"hit", "cache"} => Hit(identity) /\ position' = position + 1
      /\ stage \notin {"hit", "cache"} => position' = position
      /\ stage = "hit" => value = entries[position + 1].value
      /\ stage \in Missed => active' = FALSE
  BY DEF Registered, Missed
<1>6. ArgsMatch' <=> ArgsMatch
  BY <1>1, <1>5, OriginFrame
<1> HIDE DEF line, old
<1>7. /\ Earlier(new, line) = Used(old)
      /\ \A l \in old : Earlier(new, l) = Earlier(old, l)
      /\ stage \in {"hit", "cache"} =>
            IsFiniteSet(Used(new)) /\ Cardinality(Used(new)) = Cardinality(Used(old)) + 1
      /\ stage \notin {"hit", "cache"} => Used(new) = Used(old)
  BY <1>2, <1>3, <1>4, OneMoreUsed DEF old
<1>8. \A l : l \in new <=> l \in old \/ l = line
  BY DEF old
<1> HIDE DEF new
<1>9. position' = Cardinality(Used(new)) /\ IsFiniteSet(Used(new))
  BY <1>4, <1>5, <1>7
<1>10. UsedInOrder(new, entries)
  <2>1. ASSUME NEW l \in new, l.stage \in {"hit", "cache"}
        PROVE  /\ Cardinality(Earlier(new, l)) \in 0 .. Len(entries) - 1
               /\ entries[Cardinality(Earlier(new, l)) + 1].identity = l.identity
               /\ l.stage = "hit" => entries[Cardinality(Earlier(new, l)) + 1].value = l.value
    <3>1. CASE l \in old
      <4>1. l \in Used(old)
        BY <2>1, <3>1 DEF Used
      <4>2. QED
        BY <1>4, <1>7, <3>1, <4>1 DEF UsedInOrder
    <3>2. CASE l = line
      <4>1. Cardinality(Earlier(new, l)) = position
        BY <1>4, <1>7, <3>2
      <4>2. stage \in {"hit", "cache"} /\ Hit(identity)
        BY <1>2, <1>5, <2>1, <3>2
      <4>3. position \in 0 .. Len(entries) - 1 /\ entries[position + 1].identity = identity
        BY <4>2, HitEntry DEF RunInv
      <4>4. QED
        BY <1>2, <1>5, <3>2, <4>1, <4>2, <4>3
    <3>3. QED
      BY <1>8, <2>1, <3>1, <3>2
  <2>2. QED
    BY <2>1 DEF UsedInOrder, Used
<1>11. active /\ stage \in {"hit", "cache", "options"} => NoMissYet(new, calls')
  <2>1. ASSUME active, stage \notin Missed
        PROVE  /\ \A l \in new : l.stage \notin Missed
               /\ \A n \in 1 .. Len(calls) + 1 : calls'[n].state \notin {"waiting", "working"}
    BY <1>1, <1>2, <1>3, <1>4, <1>8, <2>1 DEF NoMissYet
  <2>2. QED
    BY <1>1, <2>1 DEF NoMissYet, Missed
<1>12. stage \in {"hit", "cache", "options"} \/ stage \in Missed
  BY DEF Registered, Missed
<1>13. HitsBeforeMisses(new, calls')
  <2>1. ASSUME NEW l \in new, l.stage = "hit"
        PROVE  /\ \A other \in new : other.stage \in Missed => other.index > l.index
               /\ \A n \in 1 .. Len(calls) + 1 :
                     calls'[n].state \in {"waiting", "working"} => n - 1 > l.index
    <3>1. CASE l \in old
      BY <1>1, <1>2, <1>3, <1>4, <1>8, <2>1, <3>1 DEF HitsBeforeMisses
    <3>2. CASE l = line
      <4>1. stage = "hit" /\ active
        BY <1>2, <1>5, <2>1, <3>2 DEF Hit
      <4>2. stage \notin Missed
        BY <4>1 DEF Missed
      <4>3. QED
        BY <1>1, <1>2, <1>3, <1>4, <1>8, <4>1, <4>2 DEF NoMissYet
    <3>3. QED
      BY <1>8, <2>1, <3>1, <3>2
  <2>2. QED
    BY <1>1, <2>1 DEF HitsBeforeMisses
<1>14. (\E l \in new : l.stage = "hit") => ArgsMatch
  <2>1. stage = "hit" => ArgsMatch
    BY <1>5 DEF Hit, OriginInv
  <2>2. QED
    BY <1>2, <1>4, <1>8, <2>1
<1>15. active' => NoMissYet(new, calls')
  BY <1>5, <1>11, <1>12
<1>16. QED
  BY <1>1, <1>6, <1>9, <1>10, <1>5, <1>13, <1>14, <1>15 DEF CursorInv

LEMMA CursorAccept ==
  ASSUME RunInv, OriginInv, CursorInv, NEW identity \in Identities \cup {None},
         NEW state \in {"waiting", "lost"},
         Unrecorded(identity, state)
  PROVE  CursorInv'
<1> DEFINE records == AgentRecords(Latest)
<1>1. /\ Latest > 0 /\ Latest' = Latest /\ Older
      /\ AgentRecords(Latest)' = records
      /\ Len(calls') = Len(calls) + 1
      /\ \A n \in 1 .. Len(calls) : calls'[n] = calls[n]
      /\ UNCHANGED <<args, resume_from, entries, position>> /\ (active' => active)
      /\ active' => calls'[Len(calls) + 1].state = "lost"
  BY UnrecordedRecords DEF Older, Unrecorded
<1>2. ArgsMatch' <=> ArgsMatch
  BY <1>1, OriginFrame
<1>3. /\ Len(calls) \in Nat
      /\ \A l \in records : l.index \in 0 .. Len(calls) - 1
  BY <1>1, IndexOfRecord DEF RunInv
<1>4. /\ position = Cardinality(Used(records)) /\ IsFiniteSet(Used(records))
      /\ UsedInOrder(records, entries) /\ HitsBeforeMisses(records, calls)
      /\ (\E l \in records : l.stage = "hit") => ArgsMatch
      /\ active => NoMissYet(records, calls)
  BY <1>1 DEF CursorInv
<1> HIDE DEF records
<1>5. HitsBeforeMisses(records, calls')
  BY <1>1, <1>3, <1>4 DEF HitsBeforeMisses
<1>6. active' => NoMissYet(records, calls')
  BY <1>1, <1>3, <1>4 DEF NoMissYet
<1>7. QED
  BY <1>1, <1>2, <1>4, <1>5, <1>6 DEF CursorInv

LEMMA CursorExecute ==
  ASSUME RunInv, OriginInv, CursorInv, NEW n \in 1 .. Len(calls), NEW stage \in {"live", "executor"},
         NEW value \in Values \cup {NoValue}, Executed(n, stage, value)
  PROVE  CursorInv'
<1> DEFINE line == AgentRecord(n - 1, calls[n].identity, calls[n].phase, stage, value)
           old == AgentRecords(Latest)
           new == AgentRecords(Latest) \cup {line}
<1>1. /\ Latest > 0 /\ Latest' = Latest /\ Older
      /\ AgentRecords(Latest)' = new
      /\ Len(calls') = Len(calls)
      /\ \A m \in 1 .. Len(calls) : m # n => calls'[m].state = calls[m].state
      /\ calls'[n].state = "settled" /\ calls[n].state = "working"
      /\ UNCHANGED <<args, resume_from, entries, position, active>>
  BY ExecutedRecords DEF Older, Executed, cursorVars
<1>2. line.index = n - 1 /\ line.stage = stage
  BY DEF AgentRecord
<1>3. ArgsMatch' <=> ArgsMatch
  BY <1>1, OriginFrame
<1>4. /\ position = Cardinality(Used(old)) /\ IsFiniteSet(Used(old))
      /\ UsedInOrder(old, entries) /\ HitsBeforeMisses(old, calls)
      /\ active => NoMissYet(old, calls)
      /\ (\E l \in old : l.stage = "hit") => ArgsMatch
  BY <1>1 DEF CursorInv
<1> HIDE DEF line
<1>5. Used(new) = Used(old) /\ \A l : Earlier(new, l) = Earlier(old, l)
  BY <1>2 DEF Used, Earlier
<1>6. \A l : l \in new <=> l \in old \/ l = line
  OBVIOUS
<1> HIDE DEF old, new
<1>7. UsedInOrder(new, entries)
  BY <1>4, <1>5 DEF UsedInOrder
<1>8. HitsBeforeMisses(new, calls')
  BY <1>1, <1>2, <1>4, <1>6 DEF HitsBeforeMisses
<1>9. ~active
  BY <1>1, <1>4 DEF NoMissYet
<1>10. (\E l \in new : l.stage = "hit") => ArgsMatch
  BY <1>2, <1>4, <1>6
<1>11. QED
  BY <1>1, <1>3, <1>4, <1>5, <1>7, <1>8, <1>9, <1>10 DEF CursorInv

LEMMA CursorStep ==
  ASSUME RunInv, OriginInv, CursorInv, [Next]_vars
  PROVE  CursorInv'
<1>1. CASE UNCHANGED vars
  BY <1>1 DEF vars, cursorVars, callVars, CursorInv, ArgsMatch, AgentRecords, Latest
<1>2. ASSUME NEW given \in Args, NEW r \in 0 .. Latest, StartRun(given, r)
      PROVE  CursorInv'
  <2>1. AgentRecords(Latest)' = {} /\ Len(calls') = 0
    BY <1>2, StartRecords
  <2>2. position' = 0
    BY <1>2 DEF StartRun
  <2>3. Used({}) = {} /\ IsFiniteSet({}) /\ Cardinality({}) = 0
    BY FS_EmptySet DEF Used
  <2>4. UsedInOrder({}, entries') /\ HitsBeforeMisses({}, calls') /\ NoMissYet({}, calls')
    BY <2>1, <2>3 DEF UsedInOrder, HitsBeforeMisses, NoMissYet
  <2>5. QED
    BY <2>1, <2>2, <2>3, <2>4 DEF CursorInv
<1>3. CASE Same
  <2> DEFINE records == AgentRecords(Latest)
  <2>1. /\ Older /\ AgentRecords(Latest)' = records /\ Latest' = Latest /\ Latest > 0
        /\ UNCHANGED <<args, resume_from, entries, position, active>>
        /\ Len(calls') = Len(calls)
        /\ \A n \in 1 .. Len(calls) :
              calls'[n].state \in {"waiting", "working"} => calls[n].state \in {"waiting", "working"}
    BY <1>3, SameRecords DEF Same, cursorVars, Older
  <2>2. ArgsMatch' <=> ArgsMatch
    BY <2>1, OriginFrame
  <2>3. /\ HitsBeforeMisses(records, calls) => HitsBeforeMisses(records, calls')
        /\ NoMissYet(records, calls) => NoMissYet(records, calls')
    <3> HIDE DEF records
    <3>1. QED
      BY <2>1 DEF HitsBeforeMisses, NoMissYet
  <2>4. QED
    BY <2>1, <2>2, <2>3 DEF CursorInv
<1>4. QED
  BY <1>1, <1>2, <1>3, Shapes, CursorRegister, CursorAccept, CursorExecute

ResumeInv == RunInv /\ OriginInv /\ CursorInv

LEMMA ResumeInvInit == Init => ResumeInv
<1> SUFFICES ASSUME Init PROVE ResumeInv
  OBVIOUS
<1>1. Len(<<>>) = 0
  BY Zenon, EmptySeq
<1>2. Latest = 0
  BY <1>1 DEF Init, Latest
<1>3. OriginInv
  BY DEF Init, OriginInv
<1>4. QED
  BY <1>2, <1>3, RunInvInit DEF ResumeInv, CursorInv

\* The invariant of a resumed run: where its cursor has come from and how far it is.
THEOREM ResumeInvariant == Spec => []ResumeInv
<1>1. ResumeInv /\ [Next]_vars => ResumeInv'
  BY RunStep, OriginStep, CursorStep DEF ResumeInv
<1>2. QED
  BY ResumeInvInit, <1>1, PTL DEF Spec

LEMMA ReplayIsPrefix == ResumeInv => ReplaysPrefix
<1> SUFFICES ASSUME ResumeInv, Latest > 0 PROVE ReplaysPrefix
  BY DEF ReplaysPrefix
<1> DEFINE records == AgentRecords(Latest)
<1>1. ASSUME NEW line \in records, line.stage = "hit"
      PROVE  LET k == Cardinality(Earlier(records, line))
             IN /\ resume_from # 0
                /\ journals[resume_from][1].args = args
                /\ \A index \in 0 .. k : RecordOk(resume_from, index)
                /\ \E old \in AgentRecords(resume_from) :
                      /\ old.index = k
                      /\ old.identity = line.identity
                      /\ old.value = line.value
                /\ \A other \in records : other.stage \in Missed => other.index > line.index
  <2>1. /\ UsedInOrder(records, entries) /\ HitsBeforeMisses(records, calls) /\ ArgsMatch
        /\ LoadedFrom(entries, resume_from)
    BY <1>1 DEF ResumeInv, CursorInv, OriginInv, ArgsMatch
  <2> HIDE DEF records
  <2>2. PICK k : k = Cardinality(Earlier(records, line))
    OBVIOUS
  <2>3. /\ Len(entries) \in Nat
        /\ k \in 0 .. Len(entries) - 1
        /\ entries[k + 1].identity = line.identity
        /\ entries[k + 1].value = line.value
    BY <1>1, <2>1, <2>2 DEF UsedInOrder, Used, ResumeInv, RunInv, ScalarsTyped
  <2>4. ASSUME NEW index \in 0 .. k
        PROVE  Serves(entries[index + 1], resume_from, index)
    <3>1. index + 1 \in 1 .. Len(entries) /\ (index + 1) - 1 = index
      BY <2>3
    <3>2. Serves(entries[index + 1], resume_from, (index + 1) - 1)
      BY <2>1, <3>1 DEF LoadedFrom
    <3>3. QED
      BY <3>1, <3>2
  <2>5. \A index \in 0 .. k : RecordOk(resume_from, index)
    BY <2>4 DEF Serves, RecordOk
  <2>6. Serves(entries[k + 1], resume_from, k)
    BY <2>3, <2>4
  <2>7. QED
    BY <1>1, <2>1, <2>2, <2>3, <2>5, <2>6 DEF Serves, ArgsMatch, HitsBeforeMisses
<1>2. QED
  BY <1>1, TakenIsEarlier DEF ReplaysPrefix, Missed

\* Property ReplaysPrefix for any number of runs and calls.
THEOREM AlwaysReplaysPrefix == Spec => []ReplaysPrefix
BY ResumeInvariant, ReplayIsPrefix, PTL

-----------------------------------------------------------------------------
(* What is reused.                                                         *)

\* The first n calls are those of the prefix.
Agree(prefix, made, n) ==
    n <= Len(prefix) /\ \A m \in 1 .. n : prefix[m].identity = made[m].identity

Reused(records, n) ==
    \E line \in records : line.index = n - 1 /\ line.stage \in {"hit", "cache"}

\* Calls that agree with the prefix were served, caching ends only when one does
\* not, and the cursor stands at the number of calls while all were served.
ReuseInv ==
    Latest > 0 =>
        /\ \A n \in 1 .. Len(calls) :
              ArgsMatch /\ Agree(entries, calls, n) => Reused(AgentRecords(Latest), n)
        /\ ArgsMatch /\ ~active => ~Agree(entries, calls, Len(calls))
        /\ (\A n \in 1 .. Len(calls) : Reused(AgentRecords(Latest), n)) => position = Len(calls)

LEMMA AgreeEarlier ==
  ASSUME NEW prefix, Len(prefix) \in Nat, NEW made, NEW n \in Nat, NEW m \in 0 .. n,
         Agree(prefix, made, n)
  PROVE  Agree(prefix, made, m)
BY DEF Agree

LEMMA AllReused ==
  ASSUME RunInv, ReuseInv, Latest > 0, ArgsMatch, Agree(entries, calls, Len(calls))
  PROVE  active /\ position = Len(calls)
<1>1. Len(calls) \in Nat /\ Len(entries) \in Nat
  BY DEF RunInv, RecordInv, CallsTyped, ScalarsTyped
<1>2. active
  BY DEF ReuseInv
<1>3. \A n \in 1 .. Len(calls) : Reused(AgentRecords(Latest), n)
  BY <1>1, AgreeEarlier DEF ReuseInv
<1>4. QED
  BY <1>2, <1>3 DEF ReuseInv

LEMMA ReuseUnserved ==
  ASSUME RunInv, ReuseInv, Latest > 0, Latest' = Latest, ArgsMatch' <=> ArgsMatch,
         UNCHANGED <<entries, position>>,
         CallsTyped', Len(calls') = Len(calls) + 1,
         \A n \in 1 .. Len(calls) : calls'[n] = calls[n],
         ~Hit(calls'[Len(calls) + 1].identity), active' => active,
         NEW new, AgentRecords(Latest)' = new,
         \A n \in 1 .. Len(calls) : Reused(AgentRecords(Latest), n) => Reused(new, n),
         ~Reused(new, Len(calls) + 1)
  PROVE  ReuseInv'
<1>1. Len(calls) \in Nat /\ Len(entries) \in Nat
  BY DEF RunInv, RecordInv, CallsTyped, ScalarsTyped
<1>2. /\ \A n \in 0 .. Len(calls) : Agree(entries, calls', n) <=> Agree(entries, calls, n)
      /\ Agree(entries, calls', Len(calls) + 1) <=>
            /\ Agree(entries, calls, Len(calls))
            /\ Len(calls) + 1 <= Len(entries)
            /\ entries[Len(calls) + 1].identity = calls'[Len(calls) + 1].identity
  <2>1. \A n \in 1 .. Len(calls) : calls'[n].identity = calls[n].identity
    OBVIOUS
  <2>2. QED
    <3>1. \A n \in 0 .. Len(calls) : Agree(entries, calls', n) <=> Agree(entries, calls, n)
      BY <1>1, <2>1 DEF Agree
    <3>2. Agree(entries, calls', Len(calls) + 1) <=>
             /\ Agree(entries, calls', Len(calls))
             /\ Len(calls) + 1 <= Len(entries)
             /\ entries[Len(calls) + 1].identity = calls'[Len(calls) + 1].identity
      BY <1>1 DEF Agree
    <3>3. QED
      BY <1>1, <3>1, <3>2
<1>3. ArgsMatch => ~Agree(entries, calls', Len(calls) + 1)
  <2>1. SUFFICES ASSUME ArgsMatch, Agree(entries, calls', Len(calls) + 1) PROVE FALSE
    OBVIOUS
  <2>2. active /\ position = Len(calls)
    BY <1>2, <2>1, AllReused
  <2>3. position < Len(entries) /\ entries[position + 1].identity = calls'[Len(calls) + 1].identity
    BY <1>1, <1>2, <2>1, <2>2
  <2>4. QED
    BY <2>2, <2>3 DEF Hit
<1>4. \A n \in 1 .. Len(calls) : ArgsMatch /\ Agree(entries, calls, n) => Reused(new, n)
  BY DEF ReuseInv
<1>5. ASSUME NEW n \in 1 .. Len(calls) + 1, ArgsMatch, Agree(entries, calls', n)
      PROVE  Reused(new, n)
  <2>1. n \in 1 .. Len(calls)
    BY <1>1, <1>3, <1>5
  <2>2. QED
    BY <1>1, <1>2, <1>4, <1>5, <2>1
<1>6. Len(calls) + 1 \in 1 .. Len(calls) + 1
  BY <1>1
<1>7. QED
  BY <1>3, <1>5, <1>6 DEF ReuseInv

LEMMA ReuseServed ==
  ASSUME RunInv, ReuseInv, Latest > 0, Latest' = Latest, ArgsMatch' <=> ArgsMatch,
         UNCHANGED entries, active, active', position' = position + 1,
         Len(calls') = Len(calls) + 1,
         \A n \in 1 .. Len(calls) : calls'[n] = calls[n],
         NEW line, AgentRecords(Latest)' = AgentRecords(Latest) \cup {line},
         line.index = Len(calls), line.stage \in {"hit", "cache"}
  PROVE  ReuseInv'
<1> DEFINE old == AgentRecords(Latest)
           new == AgentRecords(Latest) \cup {line}
<1>1. Len(calls) \in Nat /\ Len(entries) \in Nat
  BY DEF RunInv, RecordInv, CallsTyped, ScalarsTyped
<1>2. \A n \in 0 .. Len(calls) : Agree(entries, calls', n) <=> Agree(entries, calls, n)
  BY <1>1 DEF Agree
<1>3. Reused(new, Len(calls) + 1)
  BY <1>1 DEF Reused
<1>4. \A n \in 1 .. Len(calls) : Reused(old, n) <=> Reused(new, n)
  BY <1>1 DEF Reused
<1>5. /\ \A n \in 1 .. Len(calls) : ArgsMatch /\ Agree(entries, calls, n) => Reused(old, n)
      /\ (\A n \in 1 .. Len(calls) : Reused(old, n)) => position = Len(calls)
  BY DEF ReuseInv
<1>6. AgentRecords(Latest)' = new
  OBVIOUS
<1> HIDE DEF old, new
<1>7. ASSUME NEW n \in 1 .. Len(calls) + 1, ArgsMatch, Agree(entries, calls', n)
      PROVE  Reused(new, n)
  <2>1. CASE n = Len(calls) + 1
    BY <1>3, <2>1
  <2>2. CASE n \in 1 .. Len(calls)
    BY <1>1, <1>2, <1>4, <1>5, <1>7, <2>2
  <2>3. QED
    BY <1>1, <2>1, <2>2
<1>8. (\A n \in 1 .. Len(calls) + 1 : Reused(new, n)) => position' = Len(calls) + 1
  BY <1>1, <1>4, <1>5
<1>9. QED
  BY <1>6, <1>7, <1>8 DEF ReuseInv

LEMMA ReuseStep ==
  ASSUME RunInv, OriginInv, ReuseInv, [Next]_vars
  PROVE  ReuseInv'
<1>1. CASE UNCHANGED vars
  BY <1>1 DEF vars, cursorVars, callVars, ReuseInv, ArgsMatch, AgentRecords, Latest
<1>2. ASSUME NEW given \in Args, NEW r \in 0 .. Latest, StartRun(given, r)
      PROVE  ReuseInv'
  <2>1. Len(calls') = 0
    BY <1>2, StartRecords
  <2>2. position' = 0
    BY <1>2 DEF StartRun
  <2>3. active' <=> ArgsMatch'
    BY <1>2, OriginStart
  <2>4. QED
    BY <2>1, <2>2, <2>3 DEF ReuseInv
<1>3. ASSUME Latest > 0, Older, UNCHANGED <<args, resume_from, entries, position, active>>,
             Len(calls') = Len(calls),
             \A n \in 1 .. Len(calls) : calls'[n].identity = calls[n].identity,
             NEW new, AgentRecords(Latest)' = new,
             \A n \in 1 .. Len(calls) : Reused(new, n) <=> Reused(AgentRecords(Latest), n)
      PROVE  ReuseInv'
  <2> DEFINE old == AgentRecords(Latest)
  <2>1. (ArgsMatch' <=> ArgsMatch) /\ Latest' = Latest
    BY <1>3, OriginFrame DEF Older
  <2>2. \A n \in 1 .. Len(calls) : Reused(new, n) <=> Reused(old, n)
    BY <1>3
  <2>3. Len(calls) \in Nat
    BY DEF RunInv, RecordInv, CallsTyped
  <2>4. \A n \in 0 .. Len(calls) : Agree(entries, calls', n) <=> Agree(entries, calls, n)
    BY <1>3, <2>3 DEF Agree
  <2>5. /\ \A n \in 1 .. Len(calls) : ArgsMatch /\ Agree(entries, calls, n) => Reused(old, n)
        /\ ArgsMatch /\ ~active => ~Agree(entries, calls, Len(calls))
        /\ (\A n \in 1 .. Len(calls) : Reused(old, n)) => position = Len(calls)
    BY <1>3 DEF ReuseInv
  <2>6. AgentRecords(Latest)' = new
    BY <1>3
  <2> HIDE DEF old
  <2>7. Agree(entries, calls', Len(calls)) <=> Agree(entries, calls, Len(calls))
    BY <2>3, <2>4
  <2>8. \A n \in 1 .. Len(calls) : ArgsMatch /\ Agree(entries, calls', n) => Reused(new, n)
    BY <2>2, <2>3, <2>4, <2>5
  <2>9. (\A n \in 1 .. Len(calls) : Reused(new, n)) => position = Len(calls)
    BY <2>2, <2>5
  <2>10. /\ Len(calls') = Len(calls) /\ entries' = entries /\ position' = position
         /\ active' = active
    BY <1>3
  <2>11. QED
    BY <2>1, <2>5, <2>6, <2>7, <2>8, <2>9, <2>10 DEF ReuseInv
<1>4. CASE Same
  <2>1. /\ Older /\ Latest > 0 /\ AgentRecords(Latest)' = AgentRecords(Latest)
        /\ UNCHANGED <<args, resume_from, entries, position, active>>
        /\ Len(calls') = Len(calls)
        /\ \A n \in 1 .. Len(calls) : calls'[n].identity = calls[n].identity
    BY <1>4, SameRecords DEF Same, cursorVars
  <2>2. QED
    BY <1>3, <2>1
<1>5. ASSUME NEW n \in 1 .. Len(calls), NEW stage \in {"live", "executor"},
             NEW value \in Values \cup {NoValue}, Executed(n, stage, value)
      PROVE  ReuseInv'
  <2> DEFINE line == AgentRecord(n - 1, calls[n].identity, calls[n].phase, stage, value)
  <2>1. /\ Older /\ Latest > 0 /\ AgentRecords(Latest)' = AgentRecords(Latest) \cup {line}
        /\ UNCHANGED <<args, resume_from, entries, position, active>>
        /\ Len(calls') = Len(calls)
        /\ \A m \in 1 .. Len(calls) : calls'[m].identity = calls[m].identity
    BY <1>5, ExecutedRecords DEF Executed, cursorVars
  <2>2. line.stage \notin {"hit", "cache"}
    BY DEF AgentRecord
  <2> HIDE DEF line
  <2> DEFINE new == AgentRecords(Latest) \cup {line}
  <2>3. \A m \in 1 .. Len(calls) : Reused(new, m) <=> Reused(AgentRecords(Latest), m)
    BY <2>2 DEF Reused
  <2>4. AgentRecords(Latest)' = new
    BY <2>1
  <2> HIDE DEF new
  <2>5. QED
    BY <1>3, <2>1, <2>3, <2>4
<1>6. ASSUME NEW identity \in Identities \cup {None}, NEW state \in {"waiting", "lost"},
             Unrecorded(identity, state)
      PROVE  ReuseInv'
  <2>1. /\ Older /\ Latest > 0 /\ AgentRecords(Latest)' = AgentRecords(Latest)
        /\ UNCHANGED <<args, resume_from, entries, position>> /\ (active' => active)
        /\ CallsTyped' /\ Len(calls') = Len(calls) + 1
        /\ \A n \in 1 .. Len(calls) : calls'[n] = calls[n]
        /\ calls'[Len(calls) + 1].identity = identity
    BY <1>6, UnrecordedRecords DEF Unrecorded
  <2>2. (ArgsMatch' <=> ArgsMatch) /\ Latest' = Latest
    BY <2>1, OriginFrame DEF Older
  <2>3. ~Reused(AgentRecords(Latest), Len(calls) + 1)
    <3>1. /\ Len(calls) \in Nat
          /\ \A line \in AgentRecords(Latest) : line.index \in 0 .. Len(calls) - 1
      BY <2>1, IndexOfRecord DEF RunInv
    <3>2. QED
      BY <3>1 DEF Reused
  <2>4. ~Hit(identity)
    <3>1. CASE identity = None
      BY <3>1, HitEntry, RunBounds DEF RunInv
    <3>2. CASE identity # None
      BY <1>6, <3>2 DEF Unrecorded
    <3>3. QED
      BY <3>1, <3>2
  <2>5. QED
    BY <2>1, <2>2, <2>3, <2>4, ReuseUnserved
<1>7. ASSUME NEW identity \in Identities \cup {None}, NEW stage \in Stages,
             NEW value \in Values \cup {NoValue}, Registered(identity, stage, value)
      PROVE  ReuseInv'
  <2> DEFINE line == AgentRecord(Len(calls), identity, current_phase, stage, value)
  <2>1. /\ Older /\ Latest > 0 /\ AgentRecords(Latest)' = AgentRecords(Latest) \cup {line}
        /\ UNCHANGED <<args, resume_from, entries>>
        /\ CallsTyped' /\ Len(calls') = Len(calls) + 1
        /\ \A n \in 1 .. Len(calls) : calls'[n] = calls[n]
        /\ calls'[Len(calls) + 1].identity = identity
    BY <1>7, RegisteredRecords DEF Registered
  <2>2. line.index = Len(calls) /\ line.stage = stage
    BY DEF AgentRecord
  <2> HIDE DEF line
  <2>3. active' => active
    BY <1>7 DEF Registered
  <2>4. (ArgsMatch' <=> ArgsMatch) /\ Latest' = Latest
    BY <2>1, <2>3, OriginFrame DEF Older
  <2>5. CASE stage \in {"hit", "cache"}
    <3>1. active /\ active' /\ position' = position + 1
      BY <1>7, <2>5 DEF Registered, Hit
    <3>2. QED
      BY <2>1, <2>2, <2>4, <2>5, <3>1, ReuseServed
  <2>6. CASE stage \notin {"hit", "cache"}
    <3>1. position' = position
      BY <1>7, <2>6 DEF Registered
    <3>2. ~Hit(identity)
      <4>1. CASE stage \in {"limit", "setup"}
        BY <1>7, <2>6, <4>1 DEF Registered
      <4>2. CASE stage \notin {"limit", "setup"}
        <5>1. identity = None
          BY <1>7, <2>6, <4>2 DEF Registered
        <5>2. QED
          BY <5>1, HitEntry, RunBounds DEF RunInv
      <4>3. QED
        BY <4>1, <4>2
    <3> DEFINE new == AgentRecords(Latest) \cup {line}
    <3>3. \A n \in 1 .. Len(calls) : Reused(AgentRecords(Latest), n) => Reused(new, n)
      BY DEF Reused
    <3>4. ~Reused(new, Len(calls) + 1)
      <4>1. /\ Len(calls) \in Nat
            /\ \A l \in AgentRecords(Latest) : l.index \in 0 .. Len(calls) - 1
        BY <2>1, IndexOfRecord DEF RunInv
      <4>2. QED
        BY <2>2, <2>6, <4>1 DEF Reused
    <3>5. ~Hit(calls'[Len(calls) + 1].identity)
      BY <2>1, <3>2
    <3>6. AgentRecords(Latest)' = new
      BY <2>1
    <3> HIDE DEF new
    <3>7. QED
      BY <2>1, <2>3, <2>4, <3>1, <3>3, <3>4, <3>5, <3>6, ReuseUnserved
  <2>7. QED
    BY <2>5, <2>6
<1>8. QED
  BY <1>1, <1>2, <1>4, <1>5, <1>6, <1>7, Shapes

LEMMA PrefixIsReused ==
  ASSUME ResumeInv, ReuseInv
  PROVE  PrefixReused
<1> SUFFICES ASSUME Latest > 0, resume_from # 0, NEW n \in 1 .. Len(calls),
                    journals[resume_from][1].args = args,
                    \A index \in 0 .. n - 1 :
                       \E old \in AgentRecords(resume_from) :
                          /\ old.index = index
                          /\ old.stage \in Served
                          /\ old.identity = calls[index + 1].identity
             PROVE  \E line \in AgentRecords(Latest) : line.index = n - 1 /\ line.stage \in {"hit", "cache"}
  BY DEF PrefixReused
<1>1. /\ ArgsMatch /\ LoadedFrom(entries, resume_from)
      /\ resume_from \in 1 .. Latest /\ Len(entries) \in Nat /\ Len(calls) \in Nat
  BY DEF ResumeInv, OriginInv, ArgsMatch, RunInv, RecordInv, JournalsTyped, Latest, ScalarsTyped, CallsTyped
<1>2. n <= Len(entries)
  <2>1. SUFFICES ASSUME Len(entries) \in 0 .. n - 1 PROVE FALSE
    BY <1>1
  <2>2. RecordOk(resume_from, Len(entries))
    BY <2>1 DEF RecordOk
  <2>3. QED
    BY <1>1, <2>2 DEF LoadedFrom
<1>3. ASSUME NEW m \in 1 .. n
      PROVE  entries[m].identity = calls[m].identity
  <2>1. m - 1 \in 0 .. n - 1 /\ (m - 1) + 1 = m /\ m \in 1 .. Len(entries)
    BY <1>1, <1>2
  <2>2. PICK a \in AgentRecords(resume_from) : a.index = m - 1 /\ a.identity = calls[m].identity
    <3>1. \E a \in AgentRecords(resume_from) : a.index = m - 1 /\ a.identity = calls[(m - 1) + 1].identity
      BY <2>1
    <3>2. QED
      BY <2>1, <3>1
  <2>3. PICK b \in AgentRecords(resume_from) : b.index = m - 1 /\ b.identity = entries[m].identity
    BY <1>1, <2>1 DEF LoadedFrom, Serves
  <2>4. a = b
    BY <1>1, <2>2, <2>3, RecordsAreUnique DEF ResumeInv, RunInv, RecordInv
  <2>5. QED
    BY <2>2, <2>3, <2>4
<1>4. Agree(entries, calls, n)
  BY <1>2, <1>3 DEF Agree
<1>5. Reused(AgentRecords(Latest), n)
  BY <1>1, <1>4 DEF ReuseInv
<1>6. QED
  BY <1>5 DEF Reused

\* Property PrefixReused for any number of runs and calls: what its predecessor has
\* recorded is never executed again.
THEOREM PrefixIsAlwaysReused == Spec => []PrefixReused
<1>1. Init => ReuseInv
  <2> SUFFICES ASSUME Init PROVE ReuseInv
    OBVIOUS
  <2>1. Len(<<>>) = 0
    BY Zenon, EmptySeq
  <2>2. Latest = 0
    BY <2>1 DEF Init, Latest
  <2>3. QED
    BY <2>2 DEF ReuseInv
<1>2. ResumeInv /\ ReuseInv /\ [Next]_vars => ReuseInv'
  BY ReuseStep DEF ResumeInv
<1>3. ResumeInv /\ ReuseInv => PrefixReused
  BY PrefixIsReused
<1>4. QED
  BY <1>1, <1>2, <1>3, ResumeInvariant, PTL DEF Spec

-----------------------------------------------------------------------------
(* Where a served value comes from, over any number of resumed runs.       *)

LiveIsOwn ==
    \A r \in 1 .. Latest : \A line \in AgentRecords(r) :
        line.stage = "live" => line.value = <<r, line.index>>

LEMMA LiveIsOwnStep ==
  ASSUME RunInv, LiveIsOwn, [Next]_vars
  PROVE  LiveIsOwn'
<1>1. Latest \in Nat /\ (Latest > 0 => Latest \in 1 .. Latest)
  BY DEF RunInv, RecordInv, JournalsTyped, Latest
<1>2. ASSUME Older,
             \A l \in AgentRecords(Latest)' :
                l \in AgentRecords(Latest) \/ (l.stage = "live" => l.value = <<Latest, l.index>>)
      PROVE  LiveIsOwn'
  <2>1. ASSUME NEW r \in 1 .. Latest, NEW l \in AgentRecords(r)', l.stage = "live"
        PROVE  l.value = <<r, l.index>>
    <3>1. CASE r # Latest
      BY <1>2, <2>1, <3>1 DEF Older, LiveIsOwn
    <3>2. CASE r = Latest
      <4>1. AgentRecords(r)' = AgentRecords(Latest)'
        BY <1>2, <3>2 DEF AgentRecords, Older
      <4>2. QED
        BY <1>1, <1>2, <2>1, <3>2, <4>1 DEF LiveIsOwn
    <3>3. QED
      BY <3>1, <3>2
  <2>2. QED
    BY <1>2, <2>1 DEF LiveIsOwn, Older
<1>3. CASE UNCHANGED vars
  BY <1>3 DEF vars, LiveIsOwn, Latest, AgentRecords
<1>4. ASSUME NEW given \in Args, NEW r \in 0 .. Latest, StartRun(given, r)
      PROVE  LiveIsOwn'
  <2>1. /\ Latest' = Latest + 1
        /\ \A i \in 1 .. Latest : AgentRecords(i)' = AgentRecords(i)
        /\ AgentRecords(Latest)' = {}
    BY <1>4, StartRecords
  <2>2. ASSUME NEW i \in 1 .. Latest', NEW l \in AgentRecords(i)', l.stage = "live"
        PROVE  l.value = <<i, l.index>>
    <3>1. CASE i = Latest'
      <4>1. AgentRecords(i)' = AgentRecords(Latest)'
        BY <3>1 DEF AgentRecords
      <4>2. QED
        BY <2>1, <2>2, <4>1
    <3>2. CASE i # Latest'
      BY <1>1, <2>1, <2>2, <3>2 DEF LiveIsOwn
    <3>3. QED
      BY <3>1, <3>2
  <2>3. QED
    BY <2>2 DEF LiveIsOwn
<1>5. CASE Same
  BY <1>2, <1>5, SameRecords
<1>6. ASSUME NEW identity \in Identities \cup {None}, NEW stage \in Stages,
             NEW value \in Values \cup {NoValue}, Registered(identity, stage, value)
      PROVE  LiveIsOwn'
  <2> DEFINE line == AgentRecord(Len(calls), identity, current_phase, stage, value)
  <2>1. Older /\ AgentRecords(Latest)' = AgentRecords(Latest) \cup {line}
    BY <1>6, RegisteredRecords
  <2>2. line.stage # "live"
    BY <1>6 DEF Registered, AgentRecord
  <2> HIDE DEF line
  <2>3. QED
    BY <1>2, <2>1, <2>2
<1>7. ASSUME NEW identity \in Identities \cup {None}, NEW state \in {"waiting", "lost"},
             Unrecorded(identity, state)
      PROVE  LiveIsOwn'
  BY <1>2, <1>7, UnrecordedRecords
<1>8. ASSUME NEW n \in 1 .. Len(calls), NEW stage \in {"live", "executor"},
             NEW value \in Values \cup {NoValue}, Executed(n, stage, value)
      PROVE  LiveIsOwn'
  <2> DEFINE line == AgentRecord(n - 1, calls[n].identity, calls[n].phase, stage, value)
  <2>1. Older /\ AgentRecords(Latest)' = AgentRecords(Latest) \cup {line}
    BY <1>8, ExecutedRecords
  <2>2. line.stage = "live" => line.value = <<Latest, line.index>>
    BY <1>8 DEF Executed, AgentRecord
  <2> HIDE DEF line
  <2>3. QED
    BY <1>2, <2>1, <2>2
<1>9. QED
  BY <1>3, <1>4, <1>5, <1>6, <1>7, <1>8, Shapes

\* A run that makes calls has begun its journal with its arguments.
Heading ==
    Latest > 0 =>
        IF place = "created"
        THEN Journal = <<>> /\ Len(calls) = 0
        ELSE place \in {"open", "cancelling"} \/ Len(calls) > 0 =>
                 Len(Journal) > 0 /\ Journal[1] = Started

LEMMA HeadingKept ==
  ASSUME RunInv, Heading, Latest > 0, Latest' = Latest, args' = args,
         \/ UNCHANGED journals
         \/ \E line \in Lines : Append1(line),
         place # "created", place' # "created",
         place \in {"open", "cancelling"} \/ Len(calls) > 0
  PROVE  Heading'
<1>1. Journal \in Seq(Lines) /\ Len(Journal) > 0 /\ Journal[1] = Started
  <2>1. Journal \in Seq(Lines)
    BY DEF Journal, Latest, RunInv, RecordInv, JournalsTyped
  <2>2. QED
    BY <2>1 DEF Heading
<1>2. \/ Journal' = Journal
      \/ \E line \in Lines : Journal' = Append(Journal, line)
  BY AppendLine DEF Journal, RunInv, RecordInv
<1>3. Len(Journal') > 0 /\ Journal'[1] = Journal[1]
  <2> HIDE DEF Journal
  <2>1. QED
    BY <1>1, <1>2
<1>4. Started' = Started
  BY DEF Started
<1>5. QED
  BY <1>1, <1>3, <1>4 DEF Heading

LEMMA HeadingStep ==
  ASSUME RunInv, Heading, [Next]_vars
  PROVE  Heading'
<1>1. CASE UNCHANGED vars
  BY <1>1 DEF vars, callVars, Heading, Journal, Latest, Started
<1>2. ASSUME NEW given \in Args, NEW r \in 0 .. Latest, StartRun(given, r)
      PROVE  Heading'
  BY <1>2, StartRecords DEF StartRun, Heading
<1>3. CASE RecordStart
  <2>1. Same
    BY <1>3, SameStates
  <2>2. place = "created" /\ Latest > 0 /\ Latest' = Latest /\ Append1(Started) /\ args' = args
    BY <1>3, <2>1, SameRecords DEF RecordStart, Same, Older
  <2>3. Started \in Lines /\ Started' = Started
    BY <2>2 DEF Started, Lines, RunInv, ScalarsTyped
  <2>4. Journal = <<>> /\ Journal' = Append(Journal, Started)
    BY <2>2, <2>3, AppendLine DEF Heading, RunInv, RecordInv
  <2>5. Len(Journal') > 0 /\ Journal'[1] = Started
    BY <2>4
  <2>6. place' = "open"
    BY <1>3 DEF RecordStart
  <2>7. QED
    BY <2>3, <2>5, <2>6 DEF Heading
<1>4. CASE Kill /\ place = "created"
  <2>1. Same
    BY <1>4, SameRelabelled
  <2>2. place' = "ended" /\ Len(calls') = Len(calls) /\ Latest > 0 /\ Latest' = Latest
    BY <1>4, <2>1, SameRecords DEF Kill, Same, Older
  <2>3. Len(calls) = 0
    BY <1>4, <2>2 DEF Heading
  <2>4. QED
    BY <2>2, <2>3 DEF Heading
<1>5. ASSUME \/ OptionsRefused \/ SetPhase \/ FinishWell \/ FailRun \/ FinishBadly
             \/ Kill /\ place # "created"
             \/ \E identity \in Identities :
                   \/ CacheHit(identity) \/ LimitReached(identity)
                   \/ SetupFails(identity) \/ Accept(identity)
             \/ \E n \in 1 .. Len(calls) : Begin(n) \/ Execute(n) \/ ExecuteUnwritable(n)
      PROVE  Heading'
  <2>1. \/ place \in {"open", "cancelling"} /\ place' \in {"open", "cancelling", "ended"}
        \/ Len(calls) > 0 /\ place' = place
    <3>1. CASE OptionsRefused \/ SetPhase \/ FinishWell \/ FailRun \/ FinishBadly
      BY <3>1 DEF OptionsRefused, CanCall, SetPhase, FinishWell, FailRun, FinishBadly
    <3>2. CASE Kill /\ place # "created"
      BY <3>2 DEF Kill
    <3>3. ASSUME NEW identity \in Identities,
                 \/ CacheHit(identity) \/ LimitReached(identity)
                 \/ SetupFails(identity) \/ Accept(identity)
          PROVE  place = "open" /\ place' = place
      BY <3>3 DEF CacheHit, LimitReached, SetupFails, Accept, Miss, CanCall
    <3>4. ASSUME NEW n \in 1 .. Len(calls), Begin(n) \/ Execute(n) \/ ExecuteUnwritable(n)
          PROVE  Len(calls) > 0 /\ place' = place
      <4>1. Len(calls) \in Nat
        BY DEF RunInv, RecordInv, CallsTyped
      <4>2. QED
        BY <3>4, <4>1 DEF Begin, Execute, ExecuteUnwritable
    <3>5. QED
      BY <1>5, <3>1, <3>2, <3>3, <3>4
  <2>2. Latest > 0
    <3>1. place # "none" \/ Len(calls) # 0
      BY <2>1
    <3>2. QED
      BY <3>1 DEF RunInv, RecordInv, Begun, JournalsTyped, Latest
  <2>3. place # "created" /\ place' # "created"
    BY <2>1, <2>2 DEF Heading
  <2>4. /\ Latest' = Latest /\ args' = args
        /\ UNCHANGED journals \/ \E line \in Lines : Append1(line)
    <3>1. ASSUME NEW given \in Args, NEW r \in 0 .. Latest, StartRun(given, r)
          PROVE  FALSE
      BY <2>3, <3>1 DEF StartRun
    <3>2. CASE UNCHANGED vars
      BY <3>2 DEF vars, Latest
    <3>3. CASE Same
      BY <3>3, SameRecords DEF Same, Older, Inscribed
    <3>4. ASSUME NEW identity \in Identities \cup {None}, NEW stage \in Stages,
                 NEW value \in Values \cup {NoValue}, Registered(identity, stage, value)
          PROVE  Latest' = Latest /\ args' = args /\ \E line \in Lines : Append1(line)
      BY <3>4, RegisteredRecords, RegisteredLine DEF Registered, Older, Lines
    <3>5. ASSUME NEW identity \in Identities \cup {None}, NEW state \in {"waiting", "lost"},
                 Unrecorded(identity, state)
          PROVE  Latest' = Latest /\ args' = args /\ UNCHANGED journals
      BY <3>5, UnrecordedRecords DEF Unrecorded, Older
    <3>6. ASSUME NEW n \in 1 .. Len(calls), NEW stage \in {"live", "executor"},
                 NEW value \in Values \cup {NoValue}, Executed(n, stage, value)
          PROVE  Latest' = Latest /\ args' = args /\ \E line \in Lines : Append1(line)
      BY <3>6, ExecutedRecords, ExecutedLine DEF Executed, Older, Lines
    <3>7. QED
      BY <3>1, <3>2, <3>3, <3>4, <3>5, <3>6, Shapes
  <2>5. QED
    BY <2>1, <2>2, <2>3, <2>4, HeadingKept
<1>6. QED
  BY <1>1, <1>2, <1>3, <1>4, <1>5 DEF Next

\* What OriginIsReal says of one hit of a journal, with the records of its source.
Comes(line, records, from) ==
    /\ line.value[2] = Cardinality(Earlier(records, line))
    /\ \E origin \in from :
          /\ origin.stage = "live"
          /\ origin.identity = line.identity
          /\ origin.value = line.value
    /\ \A earlier \in Earlier(records, line) : \E old \in from :
          /\ old.index = Cardinality(Earlier(records, earlier))
          /\ old.identity = earlier.identity
          /\ old.stage \in Served

HasOrigin(r, line) ==
    /\ line.value[1] \in 1 .. r - 1
    /\ journals[line.value[1]][1].args = journals[r][1].args
    /\ Comes(line, AgentRecords(r), AgentRecords(line.value[1]))

\* A journal whose hits have an origin and come before its misses.
Sound(r) ==
    \A line \in AgentRecords(r) : line.stage = "hit" =>
        /\ HasOrigin(r, line)
        /\ \A other \in AgentRecords(r) : other.stage \in Missed => other.index > line.index

AllSound == \A r \in 1 .. Latest : Sound(r)

LEMMA SoundIsReal == AllSound => OriginIsReal
<1> SUFFICES ASSUME AllSound, NEW r \in 1 .. Latest, NEW line \in AgentRecords(r), line.stage = "hit"
             PROVE  LET source == line.value[1]
                    IN /\ source \in 1 .. r - 1
                       /\ journals[source][1].args = journals[r][1].args
                       /\ line.value[2] = Cardinality(TakenBefore(r, line))
                       /\ \E origin \in AgentRecords(source) :
                             /\ origin.stage = "live"
                             /\ origin.identity = line.identity
                             /\ origin.value = line.value
                       /\ \A earlier \in TakenBefore(r, line) : \E old \in AgentRecords(source) :
                             /\ old.index = Cardinality(TakenBefore(r, earlier))
                             /\ old.identity = earlier.identity
                             /\ old.stage \in Served
  BY DEF OriginIsReal
<1>1. HasOrigin(r, line)
  BY DEF AllSound, Sound
<1>2. QED
  BY <1>1, TakenIsEarlier DEF HasOrigin, Comes

\* In a journal whose first records are all successful, the records before a hit
\* took their entries too, and are counted by their index.
LEMMA CountBelow ==
  ASSUME RunInv, NEW r \in 1 .. Latest, Sound(r),
         NEW line \in AgentRecords(r), line.stage = "hit",
         \A index \in 0 .. line.index - 1 : RecordOk(r, index)
  PROVE  /\ \A old \in AgentRecords(r) : old.index < line.index => old.stage = "hit"
         /\ Cardinality(Earlier(AgentRecords(r), line)) = line.index
<1> DEFINE records == AgentRecords(r)
           below == Earlier(records, line)
<1>1. line.index \in Nat /\ \A old \in records : old.index \in Nat
  BY RecordAt, RunBounds DEF RunInv, RecordInv, AgentLines
<1>2. \A a, b \in records : a.index = b.index => a = b
  BY RecordsAreUnique DEF RunInv, RecordInv
<1>3. \A other \in records : other.stage \in Missed => other.index > line.index
  BY DEF Sound
<1>4. \A index \in 0 .. line.index - 1 : \E old \in records : old.index = index /\ old.stage \in Served
  BY DEF RecordOk
<1> HIDE DEF records
<1>5. ASSUME NEW old \in records, old.index < line.index
      PROVE  old.stage = "hit"
  <2>1. old.index \in 0 .. line.index - 1
    BY <1>1, <1>5
  <2>2. PICK ok \in records : ok.index = old.index /\ ok.stage \in Served
    BY <1>4, <2>1
  <2>3. ok = old
    BY <1>2, <2>2
  <2>4. old.stage \notin Missed
    BY <1>1, <1>3, <1>5
  <2>5. QED
    BY <2>2, <2>3, <2>4 DEF Served, Missed
<1>6. \A index \in 0 .. line.index - 1 : \E old \in below : old.index = index
  BY <1>1, <1>4, <1>5 DEF Earlier, Used
<1>7. \A old \in below : old.index \in 0 .. line.index - 1 /\ old \in records
  BY <1>1 DEF Earlier, Used
<1> HIDE DEF below
<1> DEFINE number == [old \in below |-> old.index]
<1>8. number \in Bijection(below, 0 .. line.index - 1)
  <2>1. number \in [below -> 0 .. line.index - 1]
    BY <1>7
  <2>2. \A a, b \in below : number[a] = number[b] => a = b
    BY <1>2, <1>7
  <2>3. \A index \in 0 .. line.index - 1 : \E old \in below : number[old] = index
    BY <1>6
  <2> HIDE DEF number
  <2>4. QED
    BY <2>1, <2>2, <2>3, Fun_IsBij
<1>9. Cardinality(below) = line.index
  <2>1. IsFiniteSet(0 .. line.index - 1) /\ Cardinality(0 .. line.index - 1) = line.index
    <3>1. \A n \in Nat : IsFiniteSet(0 .. n - 1) /\ Cardinality(0 .. n - 1) = n
      <4> TAKE n \in Nat
      <4>1. n - 1 \in Int /\ 0 \in Int
        OBVIOUS
      <4>2. QED
        BY <4>1, FS_Interval
    <3>2. QED
      BY <1>1, <3>1
  <2>2. ExistsBijection(0 .. line.index - 1, below)
    BY <1>8, Fun_BijInverse DEF ExistsBijection
  <2>3. QED
    BY <2>1, <2>2, FS_Bijection
<1>10. QED
  BY <1>5, <1>9 DEF records, below

\* The journals that are complete need not be looked at again.
LEMMA SoundFrame ==
  ASSUME NEW r \in 1 .. Latest, Latest \in Nat, Sound(r),
         \A i \in 1 .. r : journals'[i] = journals[i] /\ AgentRecords(i)' = AgentRecords(i)
  PROVE  Sound(r)'
<1>1. AgentRecords(r)' = AgentRecords(r) /\ journals'[r] = journals[r]
  OBVIOUS
<1>2. ASSUME NEW line \in AgentRecords(r), line.stage = "hit"
      PROVE  HasOrigin(r, line)'
  <2>1. HasOrigin(r, line)
    BY <1>2 DEF Sound
  <2>2. PICK source \in 1 .. r - 1 : source = line.value[1]
    BY <2>1 DEF HasOrigin
  <2>3. source \in 1 .. r
    BY <2>2
  <2>4. journals'[source] = journals[source] /\ AgentRecords(source)' = AgentRecords(source)
    BY <2>3
  <2>5. AgentRecords(line.value[1])' = AgentRecords(source)'
    BY <2>2 DEF AgentRecords
  <2>6. QED
    BY <1>1, <2>1, <2>2, <2>4, <2>5 DEF HasOrigin
<1>3. QED
  BY <1>1, <1>2 DEF Sound

\* What the latest run serves is sound when what it serves from is.
LEMMA LatestSound ==
  ASSUME ResumeInv, LiveIsOwn, Heading, Latest > 0,
         \A r \in 1 .. Latest - 1 : Sound(r)
  PROVE  Sound(Latest)
<1> DEFINE records == AgentRecords(Latest)
<1>1. Latest \in Nat /\ Latest \in 1 .. Latest
  BY IndexOfRecord DEF ResumeInv, RunInv
<1> SUFFICES ASSUME NEW line \in records, line.stage = "hit"
             PROVE  /\ HasOrigin(Latest, line)
                    /\ \A other \in records : other.stage \in Missed => other.index > line.index
  BY DEF Sound
<1>2. /\ UsedInOrder(records, entries) /\ HitsBeforeMisses(records, calls) /\ ArgsMatch
      /\ IsFiniteSet(Used(records))
      /\ resume_from \in 1 .. Latest - 1 /\ LoadedFrom(entries, resume_from)
  BY DEF ResumeInv, CursorInv, OriginInv, ArgsMatch
<1>3. journals[Latest][1].args = args
  <2>1. Len(calls) > 0
    <3>1. Len(calls) \in Nat /\ line.index \in 0 .. Len(calls) - 1
      BY IndexOfRecord DEF ResumeInv, RunInv
    <3>2. QED
      BY <3>1
  <2>2. Journal[1] = Started
    BY <2>1 DEF Heading
  <2>3. QED
    BY <2>2 DEF Started, Journal
<1>4. resume_from \in 1 .. Latest /\ Len(entries) \in Nat
  BY <1>1, <1>2 DEF ResumeInv, RunInv, ScalarsTyped
<1> DEFINE from == AgentRecords(resume_from)
<1>5. \A old \in records : old.index \in Nat
  BY <1>1, IndexOfRecord DEF ResumeInv, RunInv
<1>6. ASSUME NEW index \in 0 .. Len(entries) - 1
      PROVE  \E old \in from : /\ old.index = index /\ old.stage \in Served
                              /\ old.identity = entries[index + 1].identity
                              /\ old.value = entries[index + 1].value
  <2>1. index + 1 \in 1 .. Len(entries) /\ (index + 1) - 1 = index
    BY <1>4
  <2>2. Serves(entries[index + 1], resume_from, (index + 1) - 1)
    BY <1>2, <2>1 DEF LoadedFrom
  <2>3. QED
    BY <2>1, <2>2 DEF Serves
<1> HIDE DEF records, from
<1>7. PICK k : k = Cardinality(Earlier(records, line))
  OBVIOUS
<1>8. /\ k \in 0 .. Len(entries) - 1
      /\ entries[k + 1].identity = line.identity
      /\ entries[k + 1].value = line.value
  BY <1>2, <1>7 DEF UsedInOrder, Used
\* Each record that took an entry before the hit took an earlier one.
<1>9. ASSUME NEW earlier \in Earlier(records, line)
      PROVE  /\ Cardinality(Earlier(records, earlier)) \in 0 .. k - 1
             /\ entries[Cardinality(Earlier(records, earlier)) + 1].identity = earlier.identity
  <2>1. /\ IsFiniteSet(Earlier(records, line)) /\ IsFiniteSet(Earlier(records, earlier))
    <3>1. Earlier(records, line) \subseteq Used(records) /\ Earlier(records, earlier) \subseteq Used(records)
      BY DEF Earlier
    <3>2. QED
      BY <1>2, <3>1, FS_Subset
  <2>2. /\ Earlier(records, earlier) \subseteq Earlier(records, line)
        /\ earlier \notin Earlier(records, earlier)
    <3>1. line.index \in Nat /\ \A e \in Used(records) : e.index \in Nat
      BY <1>5 DEF Used
    <3>2. earlier \in Used(records) /\ earlier.index < line.index
      BY DEF Earlier
    <3>3. QED
      BY <3>1, <3>2 DEF Earlier
  <2>3. /\ Cardinality(Earlier(records, earlier)) \in Nat
        /\ Cardinality(Earlier(records, earlier)) < Cardinality(Earlier(records, line))
    <3>1. /\ Cardinality(Earlier(records, earlier)) <= Cardinality(Earlier(records, line))
          /\ Cardinality(Earlier(records, line)) = Cardinality(Earlier(records, earlier)) =>
                Earlier(records, line) = Earlier(records, earlier)
      BY <2>1, <2>2, FS_Subset
    <3>2. /\ Cardinality(Earlier(records, earlier)) \in Nat
          /\ Cardinality(Earlier(records, line)) \in Nat
      BY <2>1, FS_CardinalityType
    <3>3. QED
      BY <2>2, <3>1, <3>2
  <2>4. earlier \in Used(records)
    BY DEF Earlier
  <2>5. entries[Cardinality(Earlier(records, earlier)) + 1].identity = earlier.identity
    BY <1>2, <2>4 DEF UsedInOrder
  <2>6. QED
    BY <1>7, <1>8, <2>3, <2>5
<1>10. PICK old \in from : /\ old.index = k /\ old.stage \in Served
                           /\ old.identity = line.identity /\ old.value = line.value
  BY <1>6, <1>8
<1>11. k \in Nat /\ \A index \in 0 .. k : index \in 0 .. Len(entries) - 1
  BY <1>4, <1>8
<1>12. journals[resume_from][1].args = journals[Latest][1].args
  BY <1>2, <1>3 DEF ArgsMatch
<1>13. HasOrigin(Latest, line)
  <2>1. CASE old.stage = "live"
    <3>1. line.value = <<resume_from, k>>
      BY <1>4, <1>10, <2>1 DEF LiveIsOwn, from
    <3>2. line.value[1] = resume_from /\ line.value[2] = k
      BY <3>1
    <3>3. Comes(line, records, from)
      <4>1. \A earlier \in Earlier(records, line) : \E o \in from :
               /\ o.index = Cardinality(Earlier(records, earlier))
               /\ o.identity = earlier.identity
               /\ o.stage \in Served
        BY <1>6, <1>9, <1>11
      <4>2. QED
        BY <1>7, <1>10, <2>1, <3>2, <4>1 DEF Comes
    <3>4. AgentRecords(line.value[1]) = from
      BY <3>2 DEF from
    <3>5. QED
      BY <1>2, <1>12, <3>2, <3>3, <3>4 DEF HasOrigin, records
  <2>2. CASE old.stage = "hit"
    <3>1. Sound(resume_from) /\ RunInv
      BY <1>2 DEF ResumeInv
    <3>2. HasOrigin(resume_from, old)
      BY <2>2, <3>1 DEF Sound, from
    <3>3. \A index \in 0 .. k : RecordOk(resume_from, index)
      BY <1>6, <1>11 DEF RecordOk, from
    <3>4. /\ \A o \in from : o.index < k => o.stage = "hit"
          /\ Cardinality(Earlier(from, old)) = k
      <4>1. old \in AgentRecords(resume_from) /\ \A index \in 0 .. old.index - 1 : RecordOk(resume_from, index)
        BY <1>10, <1>11, <3>3 DEF from
      <4>2. QED
        BY <1>4, <1>10, <2>2, <3>1, <4>1, CountBelow DEF from
    <3> DEFINE source == AgentRecords(old.value[1])
    <3>5. /\ old.value[1] \in 1 .. resume_from - 1
          /\ journals[old.value[1]][1].args = journals[resume_from][1].args
          /\ Comes(old, from, source)
      BY <3>2 DEF HasOrigin, from
    <3> HIDE DEF source
    <3>6. ASSUME NEW earlier \in Earlier(records, line)
          PROVE  \E o \in source :
                    /\ o.index = Cardinality(Earlier(records, earlier))
                    /\ o.identity = earlier.identity
                    /\ o.stage \in Served
      <4>1. PICK j : j = Cardinality(Earlier(records, earlier))
        OBVIOUS
      <4>2. j \in 0 .. k - 1 /\ entries[j + 1].identity = earlier.identity
        BY <1>9, <4>1
      <4>3. PICK o \in from : o.index = j /\ o.identity = earlier.identity
        BY <1>6, <1>11, <4>2
      <4>4. o.stage = "hit" /\ o \in Earlier(from, old)
        BY <1>10, <1>11, <3>4, <4>2, <4>3 DEF Earlier, Used
      <4>5. Cardinality(Earlier(from, o)) = j
        <5>1. o \in AgentRecords(resume_from) /\ \A index \in 0 .. o.index - 1 : RecordOk(resume_from, index)
          BY <1>11, <3>3, <4>2, <4>3 DEF from
        <5>2. QED
          BY <1>4, <3>1, <4>3, <4>4, <5>1, CountBelow DEF from
      <4>6. PICK deep \in source : /\ deep.index = Cardinality(Earlier(from, o))
                                   /\ deep.identity = o.identity
                                   /\ deep.stage \in Served
        BY <3>5, <4>4 DEF Comes
      <4>7. QED
        BY <4>1, <4>3, <4>5, <4>6
    <3>7. Comes(line, records, source)
      BY <1>7, <1>10, <3>4, <3>5, <3>6 DEF Comes
    <3>8. source = AgentRecords(line.value[1])
      BY <1>10 DEF source
    <3>9. line.value[1] \in 1 .. Latest - 1
      BY <1>1, <1>2, <1>10, <3>5
    <3>10. journals[line.value[1]][1].args = journals[Latest][1].args
      BY <1>10, <1>12, <3>5
    <3>11. QED
      BY <3>7, <3>8, <3>9, <3>10 DEF HasOrigin, records
  <2>3. QED
    BY <1>10, <2>1, <2>2 DEF Served
<1>14. \A other \in records : other.stage \in Missed => other.index > line.index
  BY <1>2 DEF HitsBeforeMisses
<1>15. QED
  BY <1>13, <1>14 DEF records

HistoryInv == ResumeInv /\ LiveIsOwn /\ Heading /\ AllSound

\* A run that is not the newest after a step was there before it.
LEMMA OlderIsThere ==
  \A before, after \in Nat : after = before \/ after = before + 1 =>
      /\ \A r \in 1 .. after - 1 : r \in 1 .. before /\ \A i \in 1 .. r : i \in 1 .. before /\ i # after
      /\ \A r \in 1 .. after : r # after => r \in 1 .. after - 1
  OBVIOUS

LEMMA HistoryStep == HistoryInv /\ [Next]_vars => HistoryInv'
<1> SUFFICES ASSUME HistoryInv, [Next]_vars PROVE HistoryInv'
  OBVIOUS
<1>1. ResumeInv' /\ LiveIsOwn' /\ Heading'
  BY RunStep, OriginStep, CursorStep, LiveIsOwnStep, HeadingStep DEF HistoryInv, ResumeInv
<1>2. Latest \in Nat /\ Latest' \in Nat /\ (Latest' = Latest \/ Latest' = Latest + 1)
  <2>1. Latest \in Nat
    BY DEF HistoryInv, ResumeInv, RunInv, RecordInv, JournalsTyped, Latest
  <2>2. QED
    BY <2>1, OlderOrStart DEF Older, HistoryInv, ResumeInv
<1>3. ASSUME NEW r \in 1 .. Latest' - 1
      PROVE  Sound(r)'
  <2>1. r \in 1 .. Latest /\ \A i \in 1 .. r : i \in 1 .. Latest /\ i # Latest'
    BY <1>2, <1>3, OlderIsThere
  <2>2. \A i \in 1 .. r : journals'[i] = journals[i] /\ AgentRecords(i)' = AgentRecords(i)
    BY <1>2, <2>1, OlderOrStart DEF Older, HistoryInv, ResumeInv
  <2>3. Sound(r)
    BY <2>1 DEF HistoryInv, AllSound
  <2>4. QED
    BY <1>2, <2>1, <2>2, <2>3, SoundFrame
<1>4. (ResumeInv /\ LiveIsOwn /\ Heading /\ Latest > 0 /\ (\A r \in 1 .. Latest - 1 : Sound(r))
          => Sound(Latest))'
  BY LatestSound, PTL
<1>5. ASSUME Latest' > 0
      PROVE  Sound(Latest)'
  BY <1>1, <1>3, <1>4, <1>5
<1>6. ASSUME NEW r \in 1 .. Latest'
      PROVE  Sound(r)'
  <2>1. CASE r = Latest'
    <3>1. Sound(Latest)' <=> Sound(r)'
      BY <2>1 DEF Sound, HasOrigin, AgentRecords
    <3>2. QED
      BY <1>2, <1>5, <2>1, <3>1
  <2>2. CASE r # Latest'
    <3>1. r \in 1 .. Latest' - 1
      BY <1>2, <1>6, <2>2, OlderIsThere
    <3>2. QED
      BY <1>3, <3>1
  <2>3. QED
    BY <2>1, <2>2
<1>7. QED
  BY <1>1, <1>6 DEF HistoryInv, AllSound

\* Property OriginIsReal for any number of runs and calls: a value is served, however
\* many runs later, only where the call that produced it would be made again.
THEOREM OriginIsAlwaysReal == Spec => []OriginIsReal
<1>1. Init => HistoryInv
  <2> SUFFICES ASSUME Init PROVE HistoryInv
    OBVIOUS
  <2>1. Len(<<>>) = 0
    BY Zenon, EmptySeq
  <2>2. Latest = 0
    BY <2>1 DEF Init, Latest
  <2>3. QED
    BY <2>2, ResumeInvInit DEF HistoryInv, LiveIsOwn, Heading, AllSound
<1>2. HistoryInv => OriginIsReal
  BY SoundIsReal DEF HistoryInv
<1>3. QED
  BY <1>1, <1>2, HistoryStep, PTL DEF Spec
==============================================================================
