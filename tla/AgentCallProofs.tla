--------------------------- MODULE AgentCallProofs ---------------------------
(***************************************************************************)
(* Proofs about agent() calls, for every scenario, every set of processes  *)
(* and whatever the texts and paths are, as far as FlagTexts, Scenarios-   *)
(* Assumption and PathsAssumption say what they are.  The order: the       *)
(* command line of a call, from what ArgvProofs shows of any; the          *)
(* invariant, part by part, each with the proof that every step keeps it;  *)
(* type correctness, WritersConfined, ArgvIsRequested, ValidatorIsExact.   *)
(***************************************************************************)
EXTENDS AgentCall, ArgvProofs

-----------------------------------------------------------------------------
(* The command line of a call.                                             *)

\* What a call asks the builder for, field by field.
LEMMA CommandFields ==
    ASSUME request \in Scenarios, NEW a \in Calls, NEW n \in 0 .. Len(request)
    PROVE  LET c == Command(a, n)
               workdir == IF Isolated(a) THEN TreeText(AllocateWorktreePath(Run(a), n))
                          ELSE Run(a).workdir
               last == SlotPath(Run(a), n, Opts(a), "last.txt")
               schema == SlotPath(Run(a), n, Opts(a), "schema.json")
           IN /\ c.codex_bin = Run(a).codex_bin /\ c.prompt = request[a].prompt
              /\ c.sandbox = (IF Isolated(a) THEN "workspace-write" ELSE "read-only")
              /\ c.authorized = Isolated(a)
              /\ c.effort = (IF Opts(a).effort = NoText THEN Run(a).effort ELSE Opts(a).effort)
              /\ c.model = (IF Opts(a).model = NoText THEN Run(a).model ELSE Opts(a).model)
              /\ c.workdir = workdir /\ Absolute(workdir) = workdir
              /\ c.last_message_path = last /\ Absolute(last) = last
              /\ c.schema_path = NoText <=> Opts(a).schema = <<>>
              /\ c.schema_path # NoText => c.schema_path = schema /\ Absolute(schema) = schema
              /\ Mentions(schema) = Mentions(last)
              /\ \A text \in {workdir, last, schema} : IsAbsolute(text) /\ ~StartsWithDash(text)
<1>1. /\ \A text \in {TreeText(AllocateWorktreePath(Run(a), n)), Run(a).workdir,
                       SlotPath(Run(a), n, Opts(a), "last.txt"),
                       SlotPath(Run(a), n, Opts(a), "schema.json")} :
            /\ text # NoText /\ Absolute(text) = text
            /\ IsAbsolute(text) /\ ~StartsWithDash(text)
      /\ Mentions(SlotPath(Run(a), n, Opts(a), "schema.json"))
            = Mentions(SlotPath(Run(a), n, Opts(a), "last.txt"))
  BY PathsAssumption DEF Run, Opts, Calls
<1>2. QED
  BY <1>1 DEF Command

\* So the builder can use its paths, and its prompt is one for the two tests.
LEMMA CommandUsable ==
    ASSUME request \in Scenarios, NEW a \in Calls, NEW n \in 0 .. Len(request)
    PROVE  /\ PathsUsable(Command(a, n))
           /\ StartsWithDash(Command(a, n).prompt) => IndentedDash(Command(a, n).prompt)
<1>1. StartsWithDash(request[a].prompt) => IndentedDash(request[a].prompt)
  BY ScenariosAssumption DEF Calls
<1>2. QED
  BY <1>1, CommandFields DEF PathsUsable, PathTexts

\* The flags of a line that was built: what follows the first of each name.
LEMMA LineSays ==
    ASSUME NEW c, BuildAllowed(c), PathsUsable(c), StartsWithDash(c.prompt) => IndentedDash(c.prompt)
    PROVE  LET line == BuildArgv(c)
           IN /\ Len(line) \in {13, 15, 17}
              /\ line[Len(line)] = c.prompt
              /\ Value(line, "-s") = c.sandbox
              /\ Value(line, "-C") = Absolute(c.workdir)
              /\ Says(line, "-c", EffortArg(c.effort))
              /\ c.model # NoText => Says(line, "-m", c.model)
              /\ c.model = NoText => \A i \in 1 .. Len(line) - 1 : line[i] # "-m"
              /\ c.schema_path # NoText <=>
                    \E i \in 1 .. Len(line) - 1 : line[i] = "--output-schema"
<1> DEFINE Placed(line, p) ==
               /\ Len(line) = 2 * p + 3
               /\ StartTexts(line, c) /\ EndTexts(line, c, p) /\ PairTexts(line, c, p)
               /\ \A i \in 1 .. Len(line) : line[i] \in Flags => \E k \in 1 .. p : i = 2 * k + 1
               /\ \A i \in 1 .. Len(line), k \in 1 .. p : line[i] = line[2 * k + 1] => i = 2 * k + 1
<1>a. \E p \in 5 .. 7 : Placed(BuildArgv(c), p)
  BY AllowedPlaces, Zenon
<1> PICK line : line = BuildArgv(c)
  OBVIOUS
<1> HIDE DEF Placed
<1>b. PICK p \in 5 .. 7 : Placed(line, p)
  BY <1>a
<1>1. Placed(line, p)
  BY <1>b
<1> USE DEF Placed
<1>2. ASSUME NEW k \in 1 .. p
      PROVE  /\ 2 * k + 1 \in 1 .. Len(line) - 1
             /\ Value(line, line[2 * k + 1]) = line[2 * k + 2]
             /\ Says(line, line[2 * k + 1], line[2 * k + 2])
  <2>1. 2 * k + 1 \in 1 .. Len(line) - 1 /\ (2 * k + 1) + 1 = 2 * k + 2
    BY <1>1
  <2>2. \A i \in 1 .. Len(line) : line[i] = line[2 * k + 1] <=> i = 2 * k + 1
    BY <1>1
  <2>3. (CHOOSE i \in 1 .. Len(line) : line[i] = line[2 * k + 1]) = 2 * k + 1
    BY <1>1, <2>1, <2>2
  <2>4. \A j \in 1 .. (2 * k + 1) - 1 : line[j] # line[2 * k + 1]
    BY <1>1, <2>2
  <2>5. Value(line, line[2 * k + 1]) = line[2 * k + 2]
    BY <2>1, <2>3, Zenon DEF Value
  <2>6. Says(line, line[2 * k + 1], line[2 * k + 2])
    BY <2>1, <2>4 DEF Says
  <2>7. QED
    BY <2>1, <2>5, <2>6
<1>3. Len(line) \in {13, 15, 17} /\ line[Len(line)] = c.prompt
  BY <1>1 DEF EndTexts
<1>4. Value(line, "-s") = c.sandbox /\ Value(line, "-C") = Absolute(c.workdir)
  <2>1. 1 \in 1 .. p /\ 2 \in 1 .. p
    OBVIOUS
  <2>2. /\ line[2 * 1 + 1] = "-s" /\ line[2 * 1 + 2] = c.sandbox
        /\ line[2 * 2 + 1] = "-C" /\ line[2 * 2 + 2] = Absolute(c.workdir)
    BY <1>1 DEF StartTexts
  <2>3. QED
    BY <1>2, <2>1, <2>2
<1>5. Says(line, "-c", EffortArg(c.effort))
  <2>1. 3 \in 1 .. p /\ line[2 * 3 + 1] = "-c" /\ line[2 * 3 + 2] = EffortArg(c.effort)
    BY <1>1 DEF StartTexts
  <2>2. QED
    BY <1>2, <2>1
<1>6. ASSUME c.model # NoText
      PROVE  Says(line, "-m", c.model)
  <2>1. p \in 1 .. p /\ line[2 * p + 1] = "-m" /\ line[2 * p + 2] = c.model
    BY <1>1, <1>6 DEF EndTexts
  <2>2. QED
    BY <1>2, <2>1
<1>7. ASSUME c.model = NoText, NEW i \in 1 .. Len(line) - 1
      PROVE  line[i] # "-m"
  <2>1. SUFFICES ASSUME line[i] = "-m" PROVE FALSE
    OBVIOUS
  <2>2. i \in 1 .. Len(line) /\ line[i] \in Flags
    BY <1>1, <2>1 DEF Flags
  <2>3. PICK k \in 1 .. p : line[2 * k + 1] = "-m"
    BY <1>1, <2>1, <2>2
  <2>4. QED
    BY <1>1, <1>7, <2>3 DEF PairTexts
<1>8. c.schema_path # NoText <=> \E i \in 1 .. Len(line) - 1 : line[i] = "--output-schema"
  <2>1. ASSUME c.schema_path # NoText
        PROVE  \E i \in 1 .. Len(line) - 1 : line[i] = "--output-schema"
    <3>1. line[13] = "--output-schema" /\ 13 \in 1 .. Len(line) - 1
      BY <1>1, <2>1 DEF EndTexts
    <3>2. QED
      BY <3>1
  <2>2. ASSUME NEW i \in 1 .. Len(line) - 1, line[i] = "--output-schema"
        PROVE  c.schema_path # NoText
    <3>1. i \in 1 .. Len(line) /\ line[i] \in Flags
      BY <1>1, <2>2 DEF Flags, PathFlags
    <3>2. PICK k \in 1 .. p : line[2 * k + 1] = "--output-schema"
      BY <1>1, <2>2, <3>1
    <3>3. QED
      BY <1>1, <3>2 DEF PairTexts
  <2>3. QED
    BY <2>1, <2>2
<1>9. QED
  BY <1>3, <1>4, <1>5, <1>6, <1>7, <1>8

\* A request that may be granted is one with options and parts that are allowed.
LEMMA GrantableParts ==
    ASSUME request \in Scenarios, NEW a \in Calls, index[a] \in 0 .. Len(request)
    PROVE  Grantable(a) <=> OptionsAllowed(Opts(a)) /\ CommandAllowed(Command(a, index[a]))
<1> DEFINE c == Command(a, index[a])
<1>1. /\ Run(a).effort \in Efforts
      /\ SandboxAllowed(c.sandbox, c.authorized)
  <2>1. Run(a).effort \in Efforts
    BY ScenariosAssumption DEF Run, Calls
  <2>2. SandboxAllowed(c.sandbox, c.authorized)
    BY CommandFields DEF SandboxAllowed
  <2>3. QED
    BY <2>1, <2>2
<1>2. OptionsAllowed(Opts(a)) => c.effort \in Efforts
  BY <1>1, CommandFields DEF OptionsAllowed
<1>3. PathTexts(c) = {c.workdir, c.last_message_path}
                     \cup (IF c.schema_path = NoText THEN {} ELSE {c.schema_path})
  BY CommandFields DEF PathTexts
<1>4. (\A text \in PathTexts(c) : Mentions(text) = NoText)
        <=> Mentions(c.workdir) = NoText /\ Mentions(c.last_message_path) = NoText
  BY <1>3, CommandFields
<1>5. /\ c.codex_bin = Run(a).codex_bin /\ c.prompt = request[a].prompt
      /\ c.model = (IF Opts(a).model = NoText THEN Run(a).model ELSE Opts(a).model)
      /\ c.workdir = (IF Isolated(a) THEN TreeText(Target(a)) ELSE Run(a).workdir)
      /\ c.last_message_path = SlotPath(Run(a), index[a], Opts(a), "last.txt")
  BY CommandFields DEF Target
<1> HIDE DEF c
<1>6. Grantable(a)
        <=> /\ OptionsAllowed(Opts(a))
            /\ ~Blank(c.prompt) /\ ~TooLong(c.prompt) /\ ~IndentedDash(c.prompt)
            /\ Mentions(c.prompt) = NoText
            /\ c.model = NoText \/ ModelAllowed(c.model)
            /\ IsCodex(c.codex_bin) /\ Mentions(c.codex_bin) = NoText
            /\ Mentions(c.workdir) = NoText /\ Mentions(c.last_message_path) = NoText
  BY <1>5 DEF Grantable
<1>7. CommandAllowed(c)
        <=> /\ ~Blank(c.prompt) /\ ~TooLong(c.prompt) /\ ~IndentedDash(c.prompt)
            /\ c.effort \in Efforts
            /\ c.model # NoText => ModelAllowed(c.model)
            /\ IsCodex(c.codex_bin)
            /\ Mentions(c.codex_bin) = NoText /\ Mentions(c.prompt) = NoText
            /\ \A text \in PathTexts(c) : Mentions(text) = NoText
  BY <1>1 DEF CommandAllowed, NoText
<1>8. QED
  BY <1>2, <1>4, <1>6, <1>7 DEF c


-----------------------------------------------------------------------------
(* The inductive invariant.                                                *)

\* Types, but for the lock and the length of the command lines.
PlaceTyped ==
    /\ place \in [Calls -> Places]
    /\ stage \in [Calls -> Stages \cup {NoText}]
    /\ \A a \in Calls : stage[a] # NoText <=> place[a] = "failed"

Typed ==
    /\ request \in Scenarios
    /\ PlaceTyped
    /\ index \in [Calls -> 0 .. Len(request)]
    /\ argv = [a \in Calls |-> argv[a]]
    /\ answer = [a \in Calls |-> answer[a]]
    /\ \A a \in Calls : Len(answer[a]) \in 0 .. 1
    /\ cancelled \subseteq {Run(a).dir : a \in Calls}
    /\ killed \subseteq Processes
    /\ WorktreeTypeOK

\* The lock of a process is with the one call of it whose git runs.
LockInv ==
    \A p \in Processes :
        {a \in Calls : Run(a).process = p /\ place[a] = "adding"} = {lock[p]} \ {NoAgent}

\* A command line is what the builder made of the call and its number, and passed
\* its tests; a call on its way has one.
NoLine == {"uncalled", "failed", "dead"}

LineInv ==
    \A a \in Calls :
        /\ argv[a] # <<>> =>
              /\ argv[a] = BuildArgv(Command(a, index[a]))
              /\ BuildAllowed(Command(a, index[a]))
        /\ place[a] \notin NoLine => argv[a] # <<>>
        /\ place[a] = "uncalled" => argv[a] = <<>>

\* A call that was refused for its options or its line had one of them that is not
\* allowed, and no line was built for options that are not.
StageInv ==
    \A a \in Calls :
        /\ stage[a] = "options" => ~OptionsAllowed(Opts(a))
        /\ stage[a] = "argv" => ~BuildAllowed(Command(a, index[a]))
        /\ argv[a] # <<>> => OptionsAllowed(Opts(a))

\* A call has an answer only when it is over, and when a schema was given it has
\* returned exactly when its answer is one that passed.
AnswerInv ==
    \A a \in Calls :
        /\ answer[a] # <<>> => place[a] \in {"returned", "failed"}
        /\ Opts(a).schema # <<>> =>
              (place[a] = "returned" <=> Decoded(Opts(a).schema[1], answer[a]))

\* A worktree is where its maker was told to make it, outside the repository, and
\* no two are in one place; a call that asked for one has it when it is started.
NoTreeYet == {"uncalled", "accepted", "dropped", "locking", "adding"}
Making == {"locking", "adding", "abandoned"}
HasTree == {"starting", "running", "answering", "returned", "orphaned"}

TreeInv ==
    /\ \A tree \in trees :
          /\ tree.maker \in Calls
          /\ Isolated(tree.maker)
          /\ tree.path = Target(tree.maker)
          /\ ~InsideRepository(tree.path)
          /\ place[tree.maker] \notin NoTreeYet
    /\ \A s, t \in trees : s.path = t.path => s = t
    /\ \A a \in Calls :
          /\ place[a] \in HasTree /\ Isolated(a) => \E tree \in trees : tree.maker = a
          /\ place[a] \in Making =>
                Isolated(a) /\ ~InsideRepository(Target(a))

\* The calls of a scenario are numbered from 1, and none is NoAgent.
LEMMA CallsFacts ==
    ASSUME request \in Scenarios
    PROVE  /\ Len(request) \in Nat /\ Calls = 1 .. Len(request)
           /\ Calls \subseteq Agents /\ NoAgent \notin Calls
           /\ \A a \in Calls : Run(a).process \in Processes
  BY ScenariosAssumption, NoAgentAssumption DEF Calls, Run

\* A number is at most the number of calls.
LEMMA NextIndexType ==
    ASSUME request \in Scenarios, NEW a
    PROVE  NextIndex(a) \in 0 .. Len(request)
<1>1. Calls = 1 .. Len(request) /\ Len(request) \in Nat
  BY CallsFacts
<1>2. IsFiniteSet(Calls) /\ Cardinality(Calls) = Len(request)
  BY <1>1, FS_Interval
<1>3. {b \in SameRun(a) : place[b] # "uncalled"} \subseteq Calls
  BY DEF SameRun
<1>4. /\ Cardinality({b \in SameRun(a) : place[b] # "uncalled"}) <= Cardinality(Calls)
      /\ IsFiniteSet({b \in SameRun(a) : place[b] # "uncalled"})
  BY <1>2, <1>3, FS_Subset
<1>5. Cardinality({b \in SameRun(a) : place[b] # "uncalled"}) \in Nat
  BY <1>4, FS_CardinalityType
<1>6. QED
  BY <1>1, <1>2, <1>4, <1>5 DEF NextIndex

\* Every part holds before the first call.
LEMMA InitInv == Init => Typed /\ LockInv /\ LineInv /\ StageInv /\ AnswerInv /\ TreeInv
<1> SUFFICES ASSUME Init PROVE Typed /\ LockInv /\ LineInv /\ StageInv /\ AnswerInv /\ TreeInv
  OBVIOUS
<1>1. Typed
  <2>1. Len(<<>>) \in 0 .. 1
    OBVIOUS
  <2>2. WorktreeTypeOK
    BY DEF Init, WorktreeInit, WorktreeTypeOK
  <2>3. QED
    BY <2>1, <2>2, CallsFacts DEF Typed, PlaceTyped, Init, Places, Stages
<1>2. LockInv
  BY DEF LockInv, Init, WorktreeInit
<1>3. LineInv
  BY DEF LineInv, Init, NoLine
<1>4. TreeInv
  BY DEF TreeInv, Init, WorktreeInit, HasTree, Making
<1>5. StageInv
  BY DEF StageInv, Init, NoText
<1>6. AnswerInv
  BY DEF AnswerInv, Init, Decoded
<1>7. QED
  BY <1>1, <1>2, <1>3, <1>4, <1>5, <1>6

-----------------------------------------------------------------------------
(* Types.                                                                  *)

\* A call that has not failed goes on, or fails.
LEMMA Moves ==
    ASSUME PlaceTyped, request' = request, NEW a \in Calls, place[a] # "failed",
           NEW where \in Places, where # "failed", Goto(a, where)
    PROVE  PlaceTyped'
  BY DEF PlaceTyped, Goto, Calls

\* A call that fails has a stage to name in its record.
LEMMA Failures ==
    ASSUME PlaceTyped, request' = request, NEW a \in Calls, NEW where \in Stages, Fail(a, where)
    PROVE  PlaceTyped'
<1>1. "failed" \in Places /\ where # NoText
  BY DEF Places, Stages, NoText
<1>2. QED
  BY <1>1 DEF PlaceTyped, Fail, Calls

\* Every step keeps the types.
LEMMA TypedStep == Typed /\ [Next]_vars => Typed'
<1> SUFFICES ASSUME Typed, [Next]_vars PROVE Typed'
  OBVIOUS
<1>1. ASSUME NEW a \in Calls, Prepare(a)
      PROVE  Typed'
  <2>1. place[a] # "failed" /\ request' = request
    BY <1>1 DEF Prepare, MayCall
  <2>2. Goto(a, "accepted") \/ Fail(a, "argv") \/ Fail(a, "options")
    BY <1>1 DEF Prepare, MayCall
  <2>3. PlaceTyped'
    BY <2>1, <2>2, Moves, Failures DEF Typed, Places, Stages
  <2>4. QED
    BY <1>1, <2>1, <2>3, CallsFacts, NextIndexType DEF Typed, Prepare, WorktreeTypeOK, Calls, Run
<1>2. ASSUME NEW a \in Calls, PrepareFails(a)
      PROVE  Typed'
  <2>1. place[a] # "failed" /\ request' = request
    BY <1>2 DEF PrepareFails, MayCall
  <2>2. Fail(a, "slot")
    BY <1>2 DEF PrepareFails, MayCall
  <2>3. PlaceTyped'
    BY <2>1, <2>2, Moves, Failures DEF Typed, Places, Stages
  <2>4. QED
    BY <1>2, <2>1, <2>3, CallsFacts, NextIndexType DEF Typed, PrepareFails, WorktreeTypeOK, Calls, Run
<1>3. ASSUME NEW a \in Calls, CheckTarget(a)
      PROVE  Typed'
  <2>1. place[a] # "failed" /\ request' = request
    BY <1>3 DEF CheckTarget
  <2>2. Goto(a, "locking") \/ Fail(a, "worktree")
    BY <1>3 DEF CheckTarget
  <2>3. PlaceTyped'
    BY <2>1, <2>2, Moves, Failures DEF Typed, Places, Stages
  <2>4. QED
    BY <1>3, <2>1, <2>3, CallsFacts DEF Typed, CheckTarget, WorktreeTypeOK, Calls, Run
<1>4. ASSUME NEW a \in Calls, GitBegins(a)
      PROVE  Typed'
  <2>1. place[a] # "failed" /\ request' = request
    BY <1>4 DEF GitBegins
  <2>2. Goto(a, "adding")
    BY <1>4 DEF GitBegins
  <2>3. PlaceTyped'
    BY <2>1, <2>2, Moves, Failures DEF Typed, Places, Stages
  <2>4. QED
    BY <1>4, <2>1, <2>3, CallsFacts DEF Typed, GitBegins, WorktreeTypeOK, Calls, Run, AcquireGitLock
<1>5. ASSUME NEW a \in Calls, NEW added \in BOOLEAN, GitEnds(a, added)
      PROVE  Typed'
  <2>1. place[a] # "failed" /\ request' = request
    BY <1>5 DEF GitEnds
  <2>2. Goto(a, "dead") \/ Goto(a, "starting") \/ Fail(a, "worktree")
    BY <1>5 DEF GitEnds
  <2>3. PlaceTyped'
    BY <2>1, <2>2, Moves, Failures DEF Typed, Places, Stages
  <2>4. QED
    BY <1>5, <2>1, <2>3, CallsFacts
    DEF Typed, GitEnds, WorktreeTypeOK, Calls, Run, GitAdds, GitFails, ReleaseGitLock
<1>6. ASSUME NEW a \in Calls, Start(a)
      PROVE  Typed'
  <2>1. place[a] # "failed" /\ request' = request
    BY <1>6 DEF Start
  <2>2. Goto(a, "running") \/ Fail(a, "executor")
    BY <1>6 DEF Start
  <2>3. PlaceTyped'
    BY <2>1, <2>2, Moves, Failures DEF Typed, Places, Stages
  <2>4. QED
    BY <1>6, <2>1, <2>3, CallsFacts DEF Typed, Start, WorktreeTypeOK, Calls, Run
<1>7. ASSUME NEW a \in Calls, MockWaits(a)
      PROVE  Typed'
  <2>1. place[a] # "failed" /\ request' = request
    BY <1>7 DEF MockWaits
  <2>2. Goto(a, "answering") \/ Fail(a, "executor")
    BY <1>7 DEF MockWaits
  <2>3. PlaceTyped'
    BY <2>1, <2>2, Moves, Failures DEF Typed, Places, Stages
  <2>4. QED
    BY <1>7, <2>1, <2>3, CallsFacts DEF Typed, MockWaits, WorktreeTypeOK, Calls, Run
<1>8. ASSUME NEW a \in Calls, CodexFails(a)
      PROVE  Typed'
  <2>1. place[a] # "failed" /\ request' = request
    BY <1>8 DEF CodexFails, MayEnd
  <2>2. Fail(a, "executor")
    BY <1>8 DEF CodexFails
  <2>3. PlaceTyped'
    BY <2>1, <2>2, Moves, Failures DEF Typed, Places, Stages
  <2>4. QED
    BY <1>8, <2>1, <2>3, CallsFacts DEF Typed, CodexFails, WorktreeTypeOK, Calls, Run
<1>9. ASSUME NEW a \in Calls, CodexAnswers(a)
      PROVE  Typed'
  <2>1. place[a] # "failed" /\ request' = request
    BY <1>9 DEF CodexAnswers, MayEnd
  <2>2. Goto(a, "returned") \/ Fail(a, "executor")
    BY <1>9 DEF CodexAnswers
  <2>3. PlaceTyped'
    BY <2>1, <2>2, Moves, Failures DEF Typed, Places, Stages
  <2>4. answer' = [b \in Calls' |-> answer'[b]] /\ \A b \in Calls' : Len(answer'[b]) \in 0 .. 1
    <3>1. CASE Opts(a).schema = <<>>
      BY <1>9, <2>1, <3>1 DEF Typed, CodexAnswers, Calls
    <3>2. CASE Opts(a).schema # <<>>
      <4>1. PICK raw \in {<<>>} \cup {<<value>> : value \in Answers} :
               answer' = [answer EXCEPT ![a] = raw]
        BY <1>9, <3>2 DEF CodexAnswers
      <4>2. Len(raw) \in 0 .. 1
        BY <4>1
      <4>3. QED
        BY <2>1, <4>1, <4>2 DEF Typed, Calls
    <3>3. QED
      BY <3>1, <3>2
  <2>5. QED
    BY <1>9, <2>1, <2>3, <2>4 DEF Typed, CodexAnswers, WorktreeTypeOK, Calls, Run
<1>10. ASSUME NEW a \in Calls, Cancel(a)
      PROVE  Typed'
  BY <1>10 DEF Typed, PlaceTyped, Cancel, callVars, WorktreeTypeOK, Calls, Run
<1>11. ASSUME NEW a \in Calls, OrphanEnds(a)
      PROVE  Typed'
  <2>1. place[a] # "failed" /\ request' = request
    BY <1>11 DEF OrphanEnds
  <2>2. Goto(a, "dead")
    BY <1>11 DEF OrphanEnds
  <2>3. PlaceTyped'
    BY <2>1, <2>2, Moves, Failures DEF Typed, Places, Stages
  <2>4. QED
    BY <1>11, <2>1, <2>3, CallsFacts DEF Typed, OrphanEnds, WorktreeTypeOK, Calls, Run
<1>12. ASSUME NEW a \in Calls, Drop(a)
      PROVE  Typed'
  <2>1. place[a] # "failed" /\ request' = request
    BY <1>12 DEF Drop
  <2>2. Goto(a, "dropped")
    BY <1>12 DEF Drop
  <2>3. PlaceTyped'
    BY <2>1, <2>2, Moves, Failures DEF Typed, Places, Stages
  <2>4. QED
    BY <1>12, <2>1, <2>3, CallsFacts DEF Typed, Drop, WorktreeTypeOK, Calls, Run
<1>13. ASSUME NEW p \in Processes, Kill(p)
      PROVE  Typed'
  <2>1. PlaceTyped'
    <3>1. ASSUME NEW a \in Calls
          PROVE  place'[a] \in Places /\ (place'[a] = "failed" <=> place[a] = "failed")
      <4>1. place[a] \in Places
        BY DEF Typed, PlaceTyped
      <4>2. place'[a] \in {place[a], "abandoned", "orphaned", "dead"}
        BY <1>13 DEF Kill
      <4>3. place[a] = "failed" => place'[a] = "failed"
        BY <1>13 DEF Kill, Over, CodexRuns
      <4>4. QED
        BY <4>1, <4>2, <4>3 DEF Places
    <3>2. place' = [a \in Calls |-> place'[a]] /\ UNCHANGED <<request, stage>>
      BY <1>13 DEF Kill
    <3>3. QED
      BY <3>1, <3>2 DEF Typed, PlaceTyped, Calls
  <2>2. QED
    BY <1>13, <2>1, CallsFacts DEF Typed, Kill, ForgetGitLock, WorktreeTypeOK, Calls, Run
<1>14. CASE UNCHANGED vars
  BY <1>14 DEF Typed, PlaceTyped, vars, callVars, treeVars, WorktreeTypeOK, Calls, Run
<1>15. QED
  BY <1>1, <1>2, <1>3, <1>4, <1>5, <1>6, <1>7, <1>8, <1>9, <1>10, <1>11, <1>12, <1>13, <1>14
  DEF Next, ProgramStep, WorkerStep, PumpStep, ExternalStep, AtRest

-----------------------------------------------------------------------------
(* The lock.                                                               *)

\* A step on which no git begins or ends.
LEMMA LockKept ==
    ASSUME LockInv, UNCHANGED <<request, lock>>,
           \A b \in Calls : place'[b] = "adding" <=> place[b] = "adding"
    PROVE  LockInv'
  BY DEF LockInv, Calls, Run

\* Every step keeps the lock with the call whose git runs.
LEMMA LockStep == Typed /\ LockInv /\ [Next]_vars => LockInv'
<1> SUFFICES ASSUME Typed, LockInv, [Next]_vars PROVE LockInv'
  OBVIOUS
<1>1. ASSUME NEW a \in Calls,
             \/ Prepare(a) \/ PrepareFails(a) \/ CheckTarget(a) \/ Start(a) \/ MockWaits(a)
             \/ CodexFails(a) \/ CodexAnswers(a) \/ Drop(a) \/ OrphanEnds(a)
      PROVE  LockInv'
  <2>1. UNCHANGED <<request, lock>> /\ place[a] # "adding"
    BY <1>1
    DEF Prepare, PrepareFails, CheckTarget, Start, MockWaits, CodexFails, CodexAnswers, Drop,
        OrphanEnds, MayEnd, MayCall
  <2>2. \E where : where # "adding" /\ place' = [place EXCEPT ![a] = where]
    BY <1>1
    DEF Prepare, PrepareFails, CheckTarget, Start, MockWaits, CodexFails, CodexAnswers, Drop,
        OrphanEnds, Goto, Fail, MayCall
  <2>3. QED
    BY <2>1, <2>2, LockKept DEF Typed, PlaceTyped
<1>2. ASSUME NEW a \in Calls, GitBegins(a)
      PROVE  LockInv'
  <2>1. /\ place[a] = "locking" /\ lock[Run(a).process] = NoAgent
        /\ lock' = [lock EXCEPT ![Run(a).process] = a]
        /\ place' = [place EXCEPT ![a] = "adding"] /\ request' = request
    BY <1>2 DEF GitBegins, AcquireGitLock, Goto
  <2>2. Run(a).process \in Processes /\ a # NoAgent
    BY CallsFacts DEF Typed
  <2>3. \A b \in Calls : place'[b] = "adding" <=> b = a \/ place[b] = "adding"
    BY <2>1 DEF Typed, PlaceTyped
  <2>4. ASSUME NEW p \in Processes
        PROVE  {b \in Calls : Run(b).process = p /\ place'[b] = "adding"} = {lock'[p]} \ {NoAgent}
    <3>1. {b \in Calls : Run(b).process = p /\ place[b] = "adding"} = {lock[p]} \ {NoAgent}
      BY DEF LockInv
    <3>2. lock'[p] = IF p = Run(a).process THEN a ELSE lock[p]
      BY <2>1, <2>2 DEF Typed, WorktreeTypeOK
    <3>3. CASE p = Run(a).process
      BY <2>1, <2>2, <2>3, <3>1, <3>2, <3>3
    <3>4. CASE p # Run(a).process
      BY <2>3, <3>1, <3>2, <3>4
    <3>5. QED
      BY <3>3, <3>4
  <2>5. QED
    BY <2>1, <2>4 DEF LockInv, Calls, Run
<1>3. ASSUME NEW a \in Calls, NEW added \in BOOLEAN, GitEnds(a, added)
      PROVE  LockInv'
  <2>1. CASE place[a] = "adding"
    <3>1. /\ lock' = [lock EXCEPT ![Run(a).process] = NoAgent] /\ request' = request
          /\ \A b \in Calls : place'[b] = "adding" <=> b # a /\ place[b] = "adding"
      BY <1>3, <2>1 DEF GitEnds, ReleaseGitLock, Goto, Fail, Typed, PlaceTyped
    <3>2. Run(a).process \in Processes
      BY CallsFacts DEF Typed
    <3>3. ASSUME NEW p \in Processes
          PROVE  {b \in Calls : Run(b).process = p /\ place'[b] = "adding"} = {lock'[p]} \ {NoAgent}
      <4>1. {b \in Calls : Run(b).process = p /\ place[b] = "adding"} = {lock[p]} \ {NoAgent}
        BY DEF LockInv
      <4>2. lock'[p] = IF p = Run(a).process THEN NoAgent ELSE lock[p]
        BY <3>1, <3>2 DEF Typed, WorktreeTypeOK
      <4>3. CASE p = Run(a).process
        BY <2>1, <3>1, <4>1, <4>2, <4>3
      <4>4. CASE p # Run(a).process
        BY <3>1, <4>1, <4>2, <4>4
      <4>5. QED
        BY <4>3, <4>4
    <3>4. QED
      BY <3>1, <3>3 DEF LockInv, Calls, Run
  <2>2. CASE place[a] = "abandoned"
    <3>1. /\ UNCHANGED <<request, lock>>
          /\ \A b \in Calls : place'[b] = "adding" <=> place[b] = "adding"
      BY <1>3, <2>2 DEF GitEnds, Goto, Typed, PlaceTyped
    <3>2. QED
      BY <3>1, LockKept
  <2>3. QED
    BY <1>3, <2>1, <2>2 DEF GitEnds
<1>4. ASSUME NEW q \in Processes, Kill(q)
      PROVE  LockInv'
  <2>1. /\ lock' = [lock EXCEPT ![q] = NoAgent] /\ request' = request
        /\ \A b \in Calls : place'[b] = "adding" <=> Run(b).process # q /\ place[b] = "adding"
    <3>1. ASSUME NEW b \in Calls
          PROVE  place'[b] = "adding" <=> Run(b).process # q /\ place[b] = "adding"
      BY <1>4 DEF Kill, Over, CodexRuns
    <3>2. QED
      BY <1>4, <3>1 DEF Kill, ForgetGitLock
  <2>2. ASSUME NEW p \in Processes
        PROVE  {b \in Calls : Run(b).process = p /\ place'[b] = "adding"} = {lock'[p]} \ {NoAgent}
    <3>1. {b \in Calls : Run(b).process = p /\ place[b] = "adding"} = {lock[p]} \ {NoAgent}
      BY DEF LockInv
    <3>2. lock'[p] = IF p = q THEN NoAgent ELSE lock[p]
      BY <2>1 DEF Typed, WorktreeTypeOK
    <3>3. QED
      BY <2>1, <3>1, <3>2
  <2>3. QED
    BY <2>1, <2>2 DEF LockInv, Calls, Run
<1>5. CASE UNCHANGED vars \/ \E a \in Calls : Cancel(a)
  BY <1>5, LockKept DEF vars, callVars, Cancel
<1>6. QED
  BY <1>1, <1>2, <1>3, <1>4, <1>5
  DEF Next, ProgramStep, WorkerStep, PumpStep, ExternalStep, AtRest

-----------------------------------------------------------------------------
(* The command lines.                                                      *)

\* A call that was prepared goes on, or fails for another reason.
Onward(a) ==
    \/ CheckTarget(a) \/ GitBegins(a) \/ (\E added \in BOOLEAN : GitEnds(a, added))
    \/ Start(a) \/ MockWaits(a) \/ CodexFails(a) \/ CodexAnswers(a) \/ Drop(a) \/ OrphanEnds(a)

LEMMA GoesOnward ==
    ASSUME Typed, NEW a \in Calls, Onward(a)
    PROVE  /\ UNCHANGED <<request, index, argv>>
           /\ place[a] \notin NoLine
           /\ \E where : where # "uncalled" /\ place' = [place EXCEPT ![a] = where]
           /\ \A b \in Calls : stage'[b] = stage[b] \/ stage'[b] \notin {"options", "argv"}
<1> USE DEF Onward, CheckTarget, GitBegins, GitEnds, Start, MockWaits, CodexFails, CodexAnswers,
            Drop, OrphanEnds, Goto, Fail
<1>1. UNCHANGED <<request, index, argv>> /\ place[a] \notin NoLine
  BY DEF NoLine, MayEnd
<1>2. \E where : where # "uncalled" /\ place' = [place EXCEPT ![a] = where]
  OBVIOUS
<1>3. stage' = stage \/ \E where \in {"worktree", "executor"} : stage' = [stage EXCEPT ![a] = where]
  OBVIOUS
<1>4. \A b \in Calls : stage'[b] = stage[b] \/ stage'[b] \notin {"options", "argv"}
  BY <1>3 DEF Typed, PlaceTyped
<1>5. QED
  BY <1>1, <1>2, <1>4

\* What is asked of the builder depends on the request and the number alone.
LEMMA SameCommand ==
    ASSUME request' = request, NEW a, NEW n
    PROVE  Command(a, n)' = Command(a, n)
  BY DEF Command, Isolated, Opts, Run

\* A step that numbers no call, and takes none to a place it needs a line for.
LEMMA LinesKept ==
    ASSUME LineInv, UNCHANGED <<request, index, argv>>,
           \A b \in Calls : /\ place'[b] \notin NoLine => place[b] \notin NoLine
                            /\ place'[b] = "uncalled" => place[b] = "uncalled"
    PROVE  LineInv'
  BY SameCommand DEF LineInv, Calls

\* Every step keeps the lines as they were built.
LEMMA LineStep == Typed /\ LineInv /\ [Next]_vars => LineInv'
<1> SUFFICES ASSUME Typed, LineInv, [Next]_vars PROVE LineInv'
  OBVIOUS
<1>1. ASSUME NEW a \in Calls, Prepare(a)
      PROVE  LineInv'
  <2>1. /\ place[a] = "uncalled" /\ argv[a] = <<>> /\ request' = request
        /\ index' = [index EXCEPT ![a] = NextIndex(a)]
    BY <1>1 DEF Prepare, MayCall, LineInv
  <2>2. index'[a] = NextIndex(a) /\ \A b \in Calls \ {a} : index'[b] = index[b]
    BY <2>1 DEF Typed
  <2>3. \/ /\ UNCHANGED argv
           /\ place' = [place EXCEPT ![a] = "failed"]
        \/ /\ BuildAllowed(Command(a, NextIndex(a)))
           /\ argv' = [argv EXCEPT ![a] = BuildArgv(Command(a, NextIndex(a)))]
           /\ place' = [place EXCEPT ![a] = "accepted"]
    BY <1>1 DEF Prepare, MayCall, Goto, Fail
  <2>4. ASSUME NEW b \in Calls
        PROVE  /\ argv'[b] # <<>> => /\ argv'[b] = BuildArgv(Command(b, index'[b]))
                                     /\ BuildAllowed(Command(b, index'[b]))
               /\ place'[b] \notin NoLine => argv'[b] # <<>>
               /\ place'[b] = "uncalled" => argv'[b] = <<>>
    <3>1. CASE b = a
      <4>1. CASE UNCHANGED argv /\ place'[a] = "failed"
        BY <2>1, <3>1, <4>1 DEF NoLine
      <4>2. CASE /\ BuildAllowed(Command(a, NextIndex(a)))
                 /\ argv'[a] = BuildArgv(Command(a, NextIndex(a)))
                 /\ place'[a] = "accepted"
        <5>1. BuildArgv(Command(a, NextIndex(a))) # <<>>
          BY <4>2 DEF BuildAllowed, ValidateArgv
        <5>2. QED
          BY <2>2, <3>1, <4>2, <5>1
      <4>3. QED
        BY <2>3, <4>1, <4>2 DEF Typed, PlaceTyped
    <3>2. CASE b # a
      BY <2>2, <2>3, <3>2 DEF Typed, PlaceTyped, LineInv
    <3>3. QED
      BY <3>1, <3>2
  <2>5. QED
    BY <2>1, <2>4, SameCommand DEF LineInv, Calls
<1>2. ASSUME NEW a \in Calls, PrepareFails(a)
      PROVE  LineInv'
  <2>1. /\ place[a] = "uncalled" /\ argv[a] = <<>> /\ UNCHANGED <<request, argv>>
        /\ index' = [index EXCEPT ![a] = NextIndex(a)]
        /\ place' = [place EXCEPT ![a] = "failed"]
    BY <1>2 DEF PrepareFails, MayCall, LineInv, Fail
  <2>2. ASSUME NEW b \in Calls
        PROVE  /\ argv'[b] # <<>> => /\ argv'[b] = BuildArgv(Command(b, index'[b]))
                                     /\ BuildAllowed(Command(b, index'[b]))
               /\ place'[b] \notin NoLine => argv'[b] # <<>>
               /\ place'[b] = "uncalled" => argv'[b] = <<>>
    <3>1. CASE b = a
      BY <2>1, <3>1 DEF NoLine, Typed, PlaceTyped
    <3>2. CASE b # a
      BY <2>1, <3>2 DEF Typed, PlaceTyped, LineInv
    <3>3. QED
      BY <3>1, <3>2
  <2>3. QED
    BY <2>1, <2>2, SameCommand DEF LineInv, Calls
<1>3. ASSUME NEW a \in Calls, Onward(a)
      PROVE  LineInv'
  BY <1>3, GoesOnward, LinesKept DEF Typed, PlaceTyped, NoLine
<1>4. ASSUME NEW p \in Processes, Kill(p)
      PROVE  LineInv'
  <2>1. UNCHANGED <<request, index, argv>>
    BY <1>4 DEF Kill
  <2>2. ASSUME NEW b \in Calls
        PROVE  /\ place'[b] \notin NoLine => place[b] \notin NoLine
               /\ place'[b] = "uncalled" => place[b] = "uncalled"
    BY <1>4 DEF Kill, Over, CodexRuns, NoLine
  <2>3. QED
    BY <2>1, <2>2, LinesKept
<1>5. CASE UNCHANGED vars \/ \E a \in Calls : Cancel(a)
  BY <1>5, LinesKept DEF vars, callVars, Cancel
<1>6. QED
  BY <1>1, <1>2, <1>3, <1>4, <1>5
  DEF Onward, Next, ProgramStep, WorkerStep, PumpStep, ExternalStep, AtRest

-----------------------------------------------------------------------------
(* What was refused, and why.                                              *)

\* A step that numbers no call, and refuses none for its options or its line.
LEMMA StagesKept ==
    ASSUME StageInv, UNCHANGED <<request, index, argv>>,
           \A b \in Calls : stage'[b] = stage[b] \/ stage'[b] \notin {"options", "argv"}
    PROVE  StageInv'
<1>1. \A b \in Calls : Opts(b)' = Opts(b)
  BY DEF Opts
<1>2. QED
  BY <1>1, SameCommand DEF StageInv, Calls

\* Every step keeps the reasons.
LEMMA StageStep == Typed /\ LineInv /\ StageInv /\ [Next]_vars => StageInv'
<1> SUFFICES ASSUME Typed, LineInv, StageInv, [Next]_vars PROVE StageInv'
  OBVIOUS
<1>1. ASSUME NEW a \in Calls, Prepare(a)
      PROVE  StageInv'
  <2>1. /\ place[a] = "uncalled" /\ stage[a] = NoText /\ argv[a] = <<>> /\ request' = request
        /\ index' = [index EXCEPT ![a] = NextIndex(a)]
    BY <1>1 DEF Prepare, MayCall, LineInv, Typed, PlaceTyped
  <2>2. index'[a] = NextIndex(a) /\ \A b \in Calls \ {a} : index'[b] = index[b]
    BY <2>1 DEF Typed
  <2>3. \/ /\ ~OptionsAllowed(Opts(a))
           /\ UNCHANGED argv /\ stage' = [stage EXCEPT ![a] = "options"]
        \/ /\ ~BuildAllowed(Command(a, NextIndex(a)))
           /\ UNCHANGED argv /\ stage' = [stage EXCEPT ![a] = "argv"]
        \/ /\ OptionsAllowed(Opts(a)) /\ UNCHANGED stage
           /\ argv' = [argv EXCEPT ![a] = BuildArgv(Command(a, NextIndex(a)))]
    BY <1>1 DEF Prepare, MayCall, Goto, Fail
  <2>4. ASSUME NEW b \in Calls
        PROVE  /\ stage'[b] = "options" => ~OptionsAllowed(Opts(b))
               /\ stage'[b] = "argv" => ~BuildAllowed(Command(b, index'[b]))
               /\ argv'[b] # <<>> => OptionsAllowed(Opts(b))
    <3>1. CASE b = a
      BY <2>1, <2>2, <2>3, <3>1 DEF Typed, PlaceTyped, NoText
    <3>2. CASE b # a
      BY <2>2, <2>3, <3>2 DEF Typed, PlaceTyped, StageInv
    <3>3. QED
      BY <3>1, <3>2
  <2>5. \A b \in Calls : Opts(b)' = Opts(b)
    BY <2>1 DEF Opts
  <2>6. QED
    BY <2>1, <2>4, <2>5, SameCommand DEF StageInv, Calls
<1>2. ASSUME NEW a \in Calls, PrepareFails(a)
      PROVE  StageInv'
  <2>1. /\ argv[a] = <<>> /\ UNCHANGED <<request, argv>>
        /\ index' = [index EXCEPT ![a] = NextIndex(a)]
        /\ stage' = [stage EXCEPT ![a] = "slot"]
    BY <1>2 DEF PrepareFails, MayCall, LineInv, Fail
  <2>2. ASSUME NEW b \in Calls
        PROVE  /\ stage'[b] = "options" => ~OptionsAllowed(Opts(b))
               /\ stage'[b] = "argv" => ~BuildAllowed(Command(b, index'[b]))
               /\ argv'[b] # <<>> => OptionsAllowed(Opts(b))
    <3>1. CASE b = a
      BY <2>1, <3>1 DEF Typed, PlaceTyped
    <3>2. CASE b # a
      BY <2>1, <3>2 DEF Typed, PlaceTyped, StageInv
    <3>3. QED
      BY <3>1, <3>2
  <2>3. \A b \in Calls : Opts(b)' = Opts(b)
    BY <2>1 DEF Opts
  <2>4. QED
    BY <2>1, <2>2, <2>3, SameCommand DEF StageInv, Calls
<1>3. ASSUME NEW a \in Calls, Onward(a)
      PROVE  StageInv'
  BY <1>3, GoesOnward, StagesKept
<1>4. ASSUME NEW p \in Processes, Kill(p)
      PROVE  StageInv'
  BY <1>4, StagesKept DEF Kill
<1>5. CASE UNCHANGED vars \/ \E a \in Calls : Cancel(a)
  BY <1>5, StagesKept DEF vars, callVars, Cancel
<1>6. QED
  BY <1>1, <1>2, <1>3, <1>4, <1>5
  DEF Onward, Next, ProgramStep, WorkerStep, PumpStep, ExternalStep, AtRest

-----------------------------------------------------------------------------
(* What was answered.                                                      *)

\* A step in which nobody answers, and no call that is over goes on.
LEMMA AnswersKept ==
    ASSUME AnswerInv, UNCHANGED <<request, answer>>,
           \A b \in Calls : \/ place'[b] = place[b]
                            \/ place[b] \notin {"returned", "failed"} /\ place'[b] # "returned"
    PROVE  AnswerInv'
<1>1. \A b \in Calls : Opts(b)' = Opts(b)
  BY DEF Opts
<1>2. \A schema : ~Decoded(schema, <<>>)
  BY DEF Decoded
<1>3. QED
  BY <1>1, <1>2 DEF AnswerInv, Calls

\* Every step keeps the answers.
LEMMA AnswerStep == Typed /\ AnswerInv /\ [Next]_vars => AnswerInv'
<1> SUFFICES ASSUME Typed, AnswerInv, [Next]_vars PROVE AnswerInv'
  OBVIOUS
<1>1. ASSUME NEW a \in Calls,
             \/ Prepare(a) \/ PrepareFails(a) \/ CheckTarget(a) \/ GitBegins(a)
             \/ (\E added \in BOOLEAN : GitEnds(a, added))
             \/ Start(a) \/ MockWaits(a) \/ CodexFails(a) \/ Drop(a) \/ OrphanEnds(a)
      PROVE  AnswerInv'
  <2>1. UNCHANGED <<request, answer>>
    BY <1>1
    DEF Prepare, PrepareFails, CheckTarget, GitBegins, GitEnds, Start, MockWaits, CodexFails,
        Drop, OrphanEnds
  <2>2. place[a] \notin {"returned", "failed"}
    BY <1>1
    DEF Prepare, PrepareFails, CheckTarget, GitBegins, GitEnds, Start, MockWaits, CodexFails,
        Drop, OrphanEnds, MayEnd, MayCall
  <2>3. \E where : where # "returned" /\ place' = [place EXCEPT ![a] = where]
    BY <1>1
    DEF Prepare, PrepareFails, CheckTarget, GitBegins, GitEnds, Start, MockWaits, CodexFails,
        Drop, OrphanEnds, Goto, Fail
  <2>4. QED
    BY <2>1, <2>2, <2>3, AnswersKept DEF Typed, PlaceTyped
<1>2. ASSUME NEW a \in Calls, CodexAnswers(a), Opts(a).schema = <<>>
      PROVE  AnswerInv'
  <2>1. UNCHANGED <<request, answer>> /\ place' = [place EXCEPT ![a] = "returned"]
    BY <1>2 DEF CodexAnswers, Goto
  <2>2. \A b \in Calls : Opts(b)' = Opts(b)
    BY <2>1 DEF Opts
  <2>3. QED
    BY <1>2, <2>1, <2>2 DEF AnswerInv, Calls, Typed, PlaceTyped
<1>3. ASSUME NEW a \in Calls, CodexAnswers(a), Opts(a).schema # <<>>
      PROVE  AnswerInv'
  <2>1. PICK raw : /\ answer' = [answer EXCEPT ![a] = raw]
                   /\ IF Decoded(Opts(a).schema[1], raw) THEN Goto(a, "returned")
                      ELSE Fail(a, "executor")
    BY <1>3 DEF CodexAnswers
  <2>2. request' = request /\ \A b \in Calls : Opts(b)' = Opts(b)
    BY <1>3 DEF CodexAnswers, Opts
  <2>3. /\ answer'[a] = raw /\ place'[a] \in {"returned", "failed"}
        /\ place'[a] = "returned" <=> Decoded(Opts(a).schema[1], raw)
        /\ \A b \in Calls \ {a} : answer'[b] = answer[b] /\ place'[b] = place[b]
    BY <2>1 DEF Goto, Fail, Typed, PlaceTyped
  <2>4. QED
    BY <2>2, <2>3 DEF AnswerInv, Calls
<1>4. ASSUME NEW p \in Processes, Kill(p)
      PROVE  AnswerInv'
  <2>1. ASSUME NEW b \in Calls
        PROVE  \/ place'[b] = place[b]
               \/ place[b] \notin {"returned", "failed"} /\ place'[b] # "returned"
    <3>1. place'[b] \in {place[b], "abandoned", "orphaned", "dead"}
      BY <1>4 DEF Kill
    <3>2. place[b] \in {"returned", "failed"} => place'[b] = place[b]
      BY <1>4 DEF Kill, Over, CodexRuns
    <3>3. QED
      BY <3>1, <3>2
  <2>2. QED
    BY <1>4, <2>1, AnswersKept DEF Kill
<1>5. CASE UNCHANGED vars \/ \E a \in Calls : Cancel(a)
  BY <1>5, AnswersKept DEF vars, callVars, Cancel
<1>6. QED
  BY <1>1, <1>2, <1>3, <1>4, <1>5 DEF Next, ProgramStep, WorkerStep, PumpStep, ExternalStep, AtRest

-----------------------------------------------------------------------------
(* The worktrees.                                                          *)

\* Whose target is which depends on the request and the numbers alone.
LEMMA SameTarget ==
    ASSUME request' = request, NEW a, index'[a] = index[a]
    PROVE  Target(a)' = Target(a) /\ Isolated(a)' = Isolated(a)
  BY DEF Target, Isolated, Opts, Run

\* A step that numbers no call and makes no worktree.
LEMMA TreesKept ==
    ASSUME TreeInv, UNCHANGED <<request, index, trees>>,
           \A b \in Calls :
               /\ place[b] \notin NoTreeYet => place'[b] \notin NoTreeYet
               /\ place'[b] \in HasTree /\ Isolated(b) => place[b] \in HasTree
               /\ place'[b] \in Making =>
                     Isolated(b) /\ ~InsideRepository(Target(b))
    PROVE  TreeInv'
<1>1. /\ Calls' = Calls /\ trees' = trees
      /\ \A a : Target(a)' = Target(a) /\ Isolated(a)' = Isolated(a)
  BY SameTarget DEF Calls
<1>2. \A b \in Calls : place[b] \in HasTree /\ Isolated(b) => \E tree \in trees : tree.maker = b
  BY DEF TreeInv
<1>3. ASSUME NEW b \in Calls
      PROVE  /\ place'[b] \in HasTree /\ Isolated(b) => \E tree \in trees : tree.maker = b
             /\ place'[b] \in Making =>
                   Isolated(b) /\ ~InsideRepository(Target(b))
  BY <1>2
<1>4. ASSUME NEW tree \in trees
      PROVE  /\ tree.maker \in Calls
             /\ Isolated(tree.maker)
             /\ tree.path = Target(tree.maker)
             /\ ~InsideRepository(tree.path)
             /\ place'[tree.maker] \notin NoTreeYet
  BY DEF TreeInv
<1>5. \A t, u \in trees : t.path = u.path => t = u
  BY DEF TreeInv
<1>6. QED
  BY <1>1, <1>3, <1>4, <1>5 DEF TreeInv

\* A call that had no number gets one: it has no worktree yet.
LEMMA TreesNumbered ==
    ASSUME Typed, TreeInv, UNCHANGED <<request, trees>>, NEW a \in Calls,
           place[a] = "uncalled", place'[a] \in {"failed", "accepted"},
           \A b \in Calls \ {a} : place'[b] = place[b],
           index' = [index EXCEPT ![a] = NextIndex(a)]
    PROVE  TreeInv'
<1>1. \A b \in Calls \ {a} : index'[b] = index[b]
  BY DEF Typed
<1>2. /\ Calls' = Calls /\ trees' = trees
      /\ \A b \in Calls : Isolated(b)' = Isolated(b)
      /\ \A b \in Calls \ {a} : Target(b)' = Target(b)
  BY <1>1 DEF Calls, Target, Isolated, Opts, Run
<1>3. ASSUME NEW tree \in trees
      PROVE  /\ tree.maker \in Calls \ {a}
             /\ Isolated(tree.maker)
             /\ tree.path = Target(tree.maker)
             /\ ~InsideRepository(tree.path)
             /\ place'[tree.maker] \notin NoTreeYet
  BY DEF TreeInv, NoTreeYet
<1>4. ASSUME NEW b \in Calls
      PROVE  /\ place'[b] \in HasTree /\ Isolated(b) => \E tree \in trees : tree.maker = b
             /\ place'[b] \in Making => b # a /\ Isolated(b) /\ ~InsideRepository(Target(b))
  <2>1. CASE b = a
    BY <2>1 DEF HasTree, Making
  <2>2. CASE b # a
    BY <2>2 DEF TreeInv
  <2>3. QED
    BY <2>1, <2>2
<1>5. \A t, u \in trees : t.path = u.path => t = u
  BY DEF TreeInv
<1>6. QED
  BY <1>2, <1>3, <1>4, <1>5 DEF TreeInv

\* git makes the worktree of a call, where nothing was.
LEMMA TreeAdded ==
    ASSUME TreeInv, UNCHANGED <<request, index>>, NEW a \in Calls,
           Isolated(a), ~InsideRepository(Target(a)), ~Exists(Target(a)),
           place'[a] \in {"dead", "starting", "failed"},
           \A b \in Calls \ {a} : place'[b] = place[b],
           trees' = trees \cup {[path |-> Target(a), maker |-> a]}
    PROVE  TreeInv'
<1> DEFINE new == [path |-> Target(a), maker |-> a]
<1>1. /\ Calls' = Calls /\ trees' = trees \cup {new}
      /\ \A b : Target(b)' = Target(b) /\ Isolated(b)' = Isolated(b)
  BY SameTarget DEF Calls
<1>2. ASSUME NEW tree \in trees'
      PROVE  /\ tree.maker \in Calls
             /\ Isolated(tree.maker)
             /\ tree.path = Target(tree.maker)
             /\ ~InsideRepository(tree.path)
             /\ place'[tree.maker] \notin NoTreeYet
  <2>1. CASE tree = new
    BY <2>1 DEF NoTreeYet
  <2>2. CASE tree \in trees /\ tree.maker # a
    BY <2>2 DEF TreeInv
  <2>3. CASE tree \in trees /\ tree.maker = a
    BY <2>3 DEF TreeInv, NoTreeYet
  <2>4. QED
    BY <1>1, <2>1, <2>2, <2>3
<1>3. ASSUME NEW b \in Calls
      PROVE  /\ place'[b] \in HasTree /\ Isolated(b) => \E tree \in trees' : tree.maker = b
             /\ place'[b] \in Making => Isolated(b) /\ ~InsideRepository(Target(b))
  <2>1. CASE b = a
    <3>1. new \in trees' /\ new.maker = a
      BY <1>1
    <3>2. place'[b] \notin Making
      BY <2>1 DEF Making
    <3>3. QED
      BY <2>1, <3>1, <3>2, Zenon
  <2>2. CASE b # a
    BY <1>1, <2>2 DEF TreeInv
  <2>3. QED
    BY <2>1, <2>2
<1>4. ASSUME NEW t \in trees', NEW u \in trees', t.path = u.path
      PROVE  t = u
  <2>1. new.path = Target(a) /\ \A tree \in trees : tree.path # Target(a)
    BY DEF Exists
  <2>2. QED
    BY <1>1, <1>4, <2>1 DEF TreeInv
<1>5. QED
  BY <1>1, <1>2, <1>3, <1>4 DEF TreeInv

\* Every step keeps the worktrees with their makers.
LEMMA TreeStep == Typed /\ TreeInv /\ [Next]_vars => TreeInv'
<1> SUFFICES ASSUME Typed, TreeInv, [Next]_vars PROVE TreeInv'
  OBVIOUS
<1>1. ASSUME NEW a \in Calls, Prepare(a)
      PROVE  TreeInv'
  <2>1. /\ place[a] = "uncalled" /\ UNCHANGED <<request, trees>>
        /\ index' = [index EXCEPT ![a] = NextIndex(a)]
        /\ place'[a] \in {"failed", "accepted"}
        /\ \A b \in Calls \ {a} : place'[b] = place[b]
    BY <1>1 DEF Prepare, MayCall, Goto, Fail, Typed, PlaceTyped
  <2>2. QED
    BY <2>1, TreesNumbered
<1>2. ASSUME NEW a \in Calls, PrepareFails(a)
      PROVE  TreeInv'
  <2>1. /\ place[a] = "uncalled" /\ UNCHANGED <<request, trees>>
        /\ index' = [index EXCEPT ![a] = NextIndex(a)]
        /\ place'[a] \in {"failed", "accepted"}
        /\ \A b \in Calls \ {a} : place'[b] = place[b]
    BY <1>2 DEF PrepareFails, MayCall, Goto, Fail, Typed, PlaceTyped
  <2>2. QED
    BY <2>1, TreesNumbered
<1>3. ASSUME NEW a \in Calls, CheckTarget(a)
      PROVE  TreeInv'
  <2>1. UNCHANGED <<request, index, trees>>
    BY <1>3 DEF CheckTarget, Goto, Fail, TargetAllowed
  <2>2. ASSUME NEW b \in Calls
        PROVE  /\ place[b] \notin NoTreeYet => place'[b] \notin NoTreeYet
               /\ place'[b] \in HasTree /\ Isolated(b) => place[b] \in HasTree
               /\ place'[b] \in Making =>
                     Isolated(b) /\ ~InsideRepository(Target(b))
    BY <1>3 DEF CheckTarget, Goto, Fail, Typed, PlaceTyped, TreeInv, NoTreeYet, HasTree, Making, TargetAllowed
  <2>3. QED
    BY <2>1, <2>2, TreesKept
<1>4. ASSUME NEW a \in Calls, GitBegins(a)
      PROVE  TreeInv'
  <2>1. UNCHANGED <<request, index, trees>>
    BY <1>4 DEF GitBegins, Goto, Fail, AcquireGitLock
  <2>2. ASSUME NEW b \in Calls
        PROVE  /\ place[b] \notin NoTreeYet => place'[b] \notin NoTreeYet
               /\ place'[b] \in HasTree /\ Isolated(b) => place[b] \in HasTree
               /\ place'[b] \in Making =>
                     Isolated(b) /\ ~InsideRepository(Target(b))
    BY <1>4 DEF GitBegins, Goto, Fail, Typed, PlaceTyped, TreeInv, NoTreeYet, HasTree, Making, AcquireGitLock
  <2>3. QED
    BY <2>1, <2>2, TreesKept
<1>5. ASSUME NEW a \in Calls, NEW added \in BOOLEAN, GitEnds(a, added)
      PROVE  TreeInv'
  <2>1. /\ place[a] \in Making /\ UNCHANGED <<request, index>>
        /\ place[a] \in {"adding", "abandoned"}
    BY <1>5 DEF GitEnds, Making
  <2>2. Isolated(a) /\ ~InsideRepository(Target(a))
    BY <2>1 DEF TreeInv
  <2>3. /\ place'[a] \in {"dead", "starting", "failed"}
        /\ place'[a] = "starting" => added
        /\ \A b \in Calls \ {a} : place'[b] = place[b]
    BY <1>5 DEF GitEnds, Goto, Fail, Created, Typed, PlaceTyped
  <2>4. CASE added
    <3>1. ~Exists(Target(a)) /\ trees' = trees \cup {[path |-> Target(a), maker |-> a]}
      BY <1>5, <2>4 DEF GitEnds, GitAdds
    <3>2. QED
      BY <2>1, <2>2, <2>3, <3>1, TreeAdded
  <2>5. CASE ~added
    <3>1. trees' = trees
      BY <1>5, <2>5 DEF GitEnds, GitFails
    <3>2. ASSUME NEW b \in Calls
          PROVE  /\ place[b] \notin NoTreeYet => place'[b] \notin NoTreeYet
                 /\ place'[b] \in HasTree /\ Isolated(b) => place[b] \in HasTree
                 /\ place'[b] \in Making =>
                       Isolated(b) /\ ~InsideRepository(Target(b))
      BY <2>1, <2>3, <2>5 DEF TreeInv, NoTreeYet, HasTree, Making
    <3>3. QED
      BY <2>1, <3>1, <3>2, TreesKept
  <2>6. QED
    BY <2>4, <2>5
<1>6. ASSUME NEW a \in Calls, Start(a)
      PROVE  TreeInv'
  <2>1. UNCHANGED <<request, index, trees>>
    BY <1>6 DEF Start, Goto, Fail
  <2>2. ASSUME NEW b \in Calls
        PROVE  /\ place[b] \notin NoTreeYet => place'[b] \notin NoTreeYet
               /\ place'[b] \in HasTree /\ Isolated(b) => place[b] \in HasTree
               /\ place'[b] \in Making =>
                     Isolated(b) /\ ~InsideRepository(Target(b))
    BY <1>6 DEF Start, Goto, Fail, Typed, PlaceTyped, TreeInv, NoTreeYet, HasTree, Making
  <2>3. QED
    BY <2>1, <2>2, TreesKept
<1>7. ASSUME NEW a \in Calls, MockWaits(a)
      PROVE  TreeInv'
  <2>1. UNCHANGED <<request, index, trees>>
    BY <1>7 DEF MockWaits, Goto, Fail
  <2>2. ASSUME NEW b \in Calls
        PROVE  /\ place[b] \notin NoTreeYet => place'[b] \notin NoTreeYet
               /\ place'[b] \in HasTree /\ Isolated(b) => place[b] \in HasTree
               /\ place'[b] \in Making =>
                     Isolated(b) /\ ~InsideRepository(Target(b))
    BY <1>7 DEF MockWaits, Goto, Fail, Typed, PlaceTyped, TreeInv, NoTreeYet, HasTree, Making
  <2>3. QED
    BY <2>1, <2>2, TreesKept
<1>8. ASSUME NEW a \in Calls, CodexFails(a)
      PROVE  TreeInv'
  <2>1. UNCHANGED <<request, index, trees>>
    BY <1>8 DEF CodexFails, Goto, Fail, MayEnd
  <2>2. ASSUME NEW b \in Calls
        PROVE  /\ place[b] \notin NoTreeYet => place'[b] \notin NoTreeYet
               /\ place'[b] \in HasTree /\ Isolated(b) => place[b] \in HasTree
               /\ place'[b] \in Making =>
                     Isolated(b) /\ ~InsideRepository(Target(b))
    BY <1>8 DEF CodexFails, Goto, Fail, Typed, PlaceTyped, TreeInv, NoTreeYet, HasTree, Making, MayEnd
  <2>3. QED
    BY <2>1, <2>2, TreesKept
<1>9. ASSUME NEW a \in Calls, CodexAnswers(a)
      PROVE  TreeInv'
  <2>1. UNCHANGED <<request, index, trees>>
    BY <1>9 DEF CodexAnswers, Goto, Fail, MayEnd
  <2>2. ASSUME NEW b \in Calls
        PROVE  /\ place[b] \notin NoTreeYet => place'[b] \notin NoTreeYet
               /\ place'[b] \in HasTree /\ Isolated(b) => place[b] \in HasTree
               /\ place'[b] \in Making =>
                     Isolated(b) /\ ~InsideRepository(Target(b))
    BY <1>9 DEF CodexAnswers, Goto, Fail, Typed, PlaceTyped, TreeInv, NoTreeYet, HasTree, Making, MayEnd
  <2>3. QED
    BY <2>1, <2>2, TreesKept
<1>10. ASSUME NEW a \in Calls, Cancel(a)
      PROVE  TreeInv'
  <2>1. UNCHANGED <<request, index, trees>>
    BY <1>10 DEF Cancel, callVars
  <2>2. ASSUME NEW b \in Calls
        PROVE  /\ place[b] \notin NoTreeYet => place'[b] \notin NoTreeYet
               /\ place'[b] \in HasTree /\ Isolated(b) => place[b] \in HasTree
               /\ place'[b] \in Making =>
                     Isolated(b) /\ ~InsideRepository(Target(b))
    BY <1>10 DEF Cancel, Typed, PlaceTyped, TreeInv, NoTreeYet, HasTree, Making, callVars
  <2>3. QED
    BY <2>1, <2>2, TreesKept
<1>11. ASSUME NEW a \in Calls, OrphanEnds(a)
      PROVE  TreeInv'
  <2>1. UNCHANGED <<request, index, trees>>
    BY <1>11 DEF OrphanEnds, Goto, Fail
  <2>2. ASSUME NEW b \in Calls
        PROVE  /\ place[b] \notin NoTreeYet => place'[b] \notin NoTreeYet
               /\ place'[b] \in HasTree /\ Isolated(b) => place[b] \in HasTree
               /\ place'[b] \in Making =>
                     Isolated(b) /\ ~InsideRepository(Target(b))
    BY <1>11 DEF OrphanEnds, Goto, Fail, Typed, PlaceTyped, TreeInv, NoTreeYet, HasTree, Making
  <2>3. QED
    BY <2>1, <2>2, TreesKept
<1>12. ASSUME NEW a \in Calls, Drop(a)
      PROVE  TreeInv'
  <2>1. UNCHANGED <<request, index, trees>>
    BY <1>12 DEF Drop, Goto, Fail
  <2>2. ASSUME NEW b \in Calls
        PROVE  /\ place[b] \notin NoTreeYet => place'[b] \notin NoTreeYet
               /\ place'[b] \in HasTree /\ Isolated(b) => place[b] \in HasTree
               /\ place'[b] \in Making =>
                     Isolated(b) /\ ~InsideRepository(Target(b))
    BY <1>12 DEF Drop, Goto, Fail, Typed, PlaceTyped, TreeInv, NoTreeYet, HasTree, Making
  <2>3. QED
    BY <2>1, <2>2, TreesKept
<1>13. ASSUME NEW p \in Processes, Kill(p)
      PROVE  TreeInv'
  <2>1. UNCHANGED <<request, index, trees>>
    BY <1>13 DEF Kill
  <2>2. ASSUME NEW b \in Calls
        PROVE  /\ place[b] \notin NoTreeYet => place'[b] \notin NoTreeYet
               /\ place'[b] \in HasTree /\ Isolated(b) => place[b] \in HasTree
               /\ place'[b] \in Making =>
                     Isolated(b) /\ ~InsideRepository(Target(b))
    <3>1. place'[b] \in {place[b], "abandoned", "orphaned", "dead"}
      BY <1>13 DEF Kill
    <3>2. place'[b] = "abandoned" => place[b] \in Making
      BY <1>13 DEF Kill, Over, CodexRuns, Making
    <3>3. place'[b] = "orphaned" => place[b] \in HasTree
      BY <1>13 DEF Kill, Over, CodexRuns, HasTree
    <3>4. QED
      BY <3>1, <3>2, <3>3 DEF TreeInv, NoTreeYet, HasTree, Making
  <2>3. QED
    BY <2>1, <2>2, TreesKept
<1>14. CASE UNCHANGED vars
  <2>1. UNCHANGED <<request, index, trees, place>>
    BY <1>14 DEF vars, callVars
  <2>2. ASSUME NEW b \in Calls
        PROVE  /\ place[b] \notin NoTreeYet => place'[b] \notin NoTreeYet
               /\ place'[b] \in HasTree /\ Isolated(b) => place[b] \in HasTree
               /\ place'[b] \in Making =>
                     Isolated(b) /\ ~InsideRepository(Target(b))
    BY <2>1 DEF TreeInv
  <2>3. QED
    BY <2>1, <2>2, TreesKept
<1>15. QED
  BY <1>1, <1>2, <1>3, <1>4, <1>5, <1>6, <1>7, <1>8, <1>9, <1>10, <1>11, <1>12, <1>13, <1>14
  DEF Next, ProgramStep, WorkerStep, PumpStep, ExternalStep, AtRest

-----------------------------------------------------------------------------
(* The theorems.                                                           *)

\* The line of a call gives codex the sandbox and the directory of the call.
LEMMA AllowedLine ==
    ASSUME request \in Scenarios, NEW a \in Calls, NEW n \in 0 .. Len(request),
           BuildAllowed(Command(a, n))
    PROVE  /\ Len(BuildArgv(Command(a, n))) \in {13, 15, 17}
           /\ Value(BuildArgv(Command(a, n)), "-s")
                = IF Isolated(a) THEN "workspace-write" ELSE "read-only"
           /\ Value(BuildArgv(Command(a, n)), "-C")
                = IF Isolated(a) THEN TreeText(AllocateWorktreePath(Run(a), n))
                  ELSE Run(a).workdir
<1> PICK c : c = Command(a, n)
  OBVIOUS
<1>1. BuildAllowed(c) /\ PathsUsable(c) /\ (StartsWithDash(c.prompt) => IndentedDash(c.prompt))
  BY CommandUsable
<1>2. /\ Len(BuildArgv(c)) \in {13, 15, 17}
      /\ Value(BuildArgv(c), "-s") = c.sandbox
      /\ Value(BuildArgv(c), "-C") = Absolute(c.workdir)
  BY <1>1, LineSays
<1>3. /\ c.sandbox = IF Isolated(a) THEN "workspace-write" ELSE "read-only"
      /\ Absolute(c.workdir) = c.workdir
      /\ c.workdir = IF Isolated(a) THEN TreeText(AllocateWorktreePath(Run(a), n))
                     ELSE Run(a).workdir
  BY CommandFields
<1>4. QED
  BY <1>2, <1>3

\* The type invariant follows: a line that was built has 13, 15 or 17 texts.
LEMMA TypesFollow == Typed /\ LockInv /\ LineInv => TypeOK
<1> SUFFICES ASSUME Typed, LockInv, LineInv PROVE TypeOK
  OBVIOUS
<1>1. ASSUME NEW a \in Calls
      PROVE  Len(argv[a]) \in {0, 13, 15, 17}
  <2>1. CASE argv[a] = <<>>
    BY <2>1
  <2>2. CASE argv[a] # <<>>
    <3>1. /\ argv[a] = BuildArgv(Command(a, index[a])) /\ BuildAllowed(Command(a, index[a]))
          /\ request \in Scenarios /\ index[a] \in 0 .. Len(request)
      BY <2>2 DEF LineInv, Typed
    <3>2. Len(BuildArgv(Command(a, index[a]))) \in {13, 15, 17}
      BY <3>1, AllowedLine
    <3>3. QED
      BY <3>1, <3>2
  <2>3. QED
    BY <2>1, <2>2
<1>2. QED
  BY <1>1 DEF Typed, PlaceTyped, LockInv, TypeOK

\* So does the confinement of writers: two worktrees are never in one place, and
\* the text of a path tells which path it is.
LEMMA ConfinementFollows == Typed /\ LineInv /\ TreeInv => WritersConfined
<1> SUFFICES ASSUME Typed, LineInv, TreeInv, NEW a \in Calls, CodexRuns(a)
             PROVE  \/ Value(argv[a], "-s") = "read-only" /\ ~Isolated(a)
                    \/ /\ Value(argv[a], "-s") = "workspace-write" /\ Isolated(a)
                       /\ \E tree \in trees :
                             /\ tree.maker = a
                             /\ TreeText(tree.path) = Value(argv[a], "-C")
                             /\ ~InsideRepository(tree.path)
                       /\ \A b \in Calls \ {a} :
                             CodexRuns(b) => Value(argv[b], "-C") # Value(argv[a], "-C")
  BY DEF WritersConfined
<1>1. ASSUME NEW b \in Calls, CodexRuns(b)
      PROVE  /\ Value(argv[b], "-s") = IF Isolated(b) THEN "workspace-write" ELSE "read-only"
             /\ Value(argv[b], "-C") = IF Isolated(b) THEN TreeText(Target(b))
                                       ELSE Run(b).workdir
             /\ Isolated(b) => \E tree \in trees : tree.maker = b
  <2>1. argv[b] # <<>>
    BY <1>1 DEF CodexRuns, LineInv, NoLine
  <2>2. /\ argv[b] = BuildArgv(Command(b, index[b])) /\ BuildAllowed(Command(b, index[b]))
        /\ request \in Scenarios /\ index[b] \in 0 .. Len(request)
    BY <2>1 DEF LineInv, Typed
  <2>3. Isolated(b) => \E tree \in trees : tree.maker = b
    BY <1>1 DEF CodexRuns, HasTree, TreeInv
  <2>4. QED
    BY <2>2, <2>3, AllowedLine DEF Target
<1>2. CASE ~Isolated(a)
  BY <1>1, <1>2
<1>3. CASE Isolated(a)
  <2>1. PICK tree \in trees : tree.maker = a
    BY <1>1, <1>3
  <2>2. tree.path = Target(a) /\ ~InsideRepository(tree.path)
    BY <2>1 DEF TreeInv
  <2>3. ASSUME NEW b \in Calls \ {a}, CodexRuns(b)
        PROVE  Value(argv[b], "-C") # Value(argv[a], "-C")
    <3>1. /\ request \in Scenarios
          /\ index[a] \in 0 .. Len(request) /\ index[b] \in 0 .. Len(request)
      BY DEF Typed
    <3>2. CASE ~Isolated(b)
      <4>1. Run(b).workdir # TreeText(Target(a))
        BY <3>1, PathsAssumption DEF Target, Run, Calls
      <4>2. QED
        BY <1>1, <1>3, <2>3, <3>2, <4>1
    <3>3. CASE Isolated(b)
      <4>1. PICK other \in trees : other.maker = b
        BY <1>1, <2>3, <3>3
      <4>2. Target(b) # Target(a)
        BY <2>1, <2>2, <2>3, <4>1 DEF TreeInv
      <4>3. TreeText(Target(b)) # TreeText(Target(a))
        BY <3>1, <4>2, PathsAssumption DEF Target, Run, Calls
      <4>4. QED
        BY <1>1, <1>3, <2>3, <3>3, <4>3
    <3>4. QED
      BY <3>2, <3>3
  <2>4. QED
    BY <1>1, <1>3, <2>1, <2>2, <2>3
<1>4. QED
  BY <1>2, <1>3

\* And what a call is refused for, or gets: its number is known by then, and what
\* the builder refuses is a part that is not allowed.
LEMMA RequestFollows == Typed /\ LineInv /\ StageInv => ArgvIsRequested
<1> SUFFICES ASSUME Typed, LineInv, StageInv, NEW a \in Calls
             PROVE  /\ stage[a] \in {"options", "argv"} => ~Grantable(a)
                    /\ argv[a] # <<>> =>
                          /\ Grantable(a)
                          /\ argv[a][Len(argv[a])] = request[a].prompt
                          /\ Says(argv[a], "-c", EffortArg(IF Opts(a).effort \in Efforts
                                                           THEN Opts(a).effort ELSE Run(a).effort))
                          /\ IF Opts(a).model # NoText THEN Says(argv[a], "-m", Opts(a).model)
                             ELSE IF Run(a).model # NoText THEN Says(argv[a], "-m", Run(a).model)
                             ELSE \A i \in 1 .. Len(argv[a]) - 1 : argv[a][i] # "-m"
                          /\ Opts(a).schema # <<>> <=>
                                \E i \in 1 .. Len(argv[a]) - 1 : argv[a][i] = "--output-schema"
  BY DEF ArgvIsRequested
<1> PICK c : c = Command(a, index[a])
  OBVIOUS
<1>1. request \in Scenarios /\ index[a] \in 0 .. Len(request)
  BY DEF Typed
<1>2. PathsUsable(c) /\ (StartsWithDash(c.prompt) => IndentedDash(c.prompt))
  BY <1>1, CommandUsable
<1>3. Grantable(a) <=> OptionsAllowed(Opts(a)) /\ BuildAllowed(c)
  BY <1>1, <1>2, GrantableParts, BuilderRefusesForItsParts
<1>4. stage[a] \in {"options", "argv"} => ~Grantable(a)
  BY <1>3 DEF StageInv
<1>5. ASSUME argv[a] # <<>>
      PROVE  /\ Grantable(a)
             /\ argv[a][Len(argv[a])] = request[a].prompt
             /\ Says(argv[a], "-c", EffortArg(IF Opts(a).effort \in Efforts
                                              THEN Opts(a).effort ELSE Run(a).effort))
             /\ IF Opts(a).model # NoText THEN Says(argv[a], "-m", Opts(a).model)
                ELSE IF Run(a).model # NoText THEN Says(argv[a], "-m", Run(a).model)
                ELSE \A i \in 1 .. Len(argv[a]) - 1 : argv[a][i] # "-m"
             /\ Opts(a).schema # <<>> <=>
                   \E i \in 1 .. Len(argv[a]) - 1 : argv[a][i] = "--output-schema"
  <2>1. argv[a] = BuildArgv(c) /\ BuildAllowed(c) /\ OptionsAllowed(Opts(a))
    BY <1>5 DEF LineInv, StageInv
  <2>2. /\ argv[a][Len(argv[a])] = c.prompt
        /\ Says(argv[a], "-c", EffortArg(c.effort))
        /\ c.model # NoText => Says(argv[a], "-m", c.model)
        /\ c.model = NoText => \A i \in 1 .. Len(argv[a]) - 1 : argv[a][i] # "-m"
        /\ c.schema_path # NoText <=>
              \E i \in 1 .. Len(argv[a]) - 1 : argv[a][i] = "--output-schema"
    BY <1>2, <2>1, LineSays
  <2>3. /\ c.prompt = request[a].prompt
        /\ c.effort = (IF Opts(a).effort = NoText THEN Run(a).effort ELSE Opts(a).effort)
        /\ c.model = (IF Opts(a).model = NoText THEN Run(a).model ELSE Opts(a).model)
        /\ c.schema_path = NoText <=> Opts(a).schema = <<>>
    BY <1>1, CommandFields
  <2>4. c.effort = (IF Opts(a).effort \in Efforts THEN Opts(a).effort ELSE Run(a).effort)
    BY <2>1, <2>3 DEF OptionsAllowed, Efforts, NoText
  <2>5. Grantable(a)
    BY <1>3, <2>1
  <2>6. CASE Opts(a).model # NoText
    BY <2>2, <2>3, <2>4, <2>5, <2>6
  <2>7. CASE Opts(a).model = NoText
    BY <2>2, <2>3, <2>4, <2>5, <2>7
  <2>8. QED
    BY <2>6, <2>7
<1>6. QED
  BY <1>4, <1>5

\* The conjunction that every step keeps.
AgentCallInv == Typed /\ LockInv /\ LineInv /\ StageInv /\ AnswerInv /\ TreeInv

\* The invariant holds throughout every execution.
THEOREM AgentCallInvariant == Spec => []AgentCallInv
<1>1. Init => AgentCallInv
  BY InitInv DEF AgentCallInv
<1>2. AgentCallInv /\ [Next]_vars => AgentCallInv'
  BY TypedStep, LockStep, LineStep, StageStep, AnswerStep, TreeStep DEF AgentCallInv
<1>3. QED
  BY <1>1, <1>2, PTL DEF Spec

\* Type correctness of every reachable state.
THEOREM AgentCallTypeCorrect == Spec => []TypeOK
<1>1. AgentCallInv => TypeOK
  BY TypesFollow DEF AgentCallInv
<1>2. QED
  BY <1>1, AgentCallInvariant, PTL

\* THREAT_MODEL.md, invariants 3 and 4, for any number of calls, runs and processes,
\* whatever fails, is cancelled or killed: a codex that may write has a worktree
\* that its own call has made outside the repository, and no other codex works there.
THEOREM WritersAlwaysConfined == Spec => []WritersConfined
<1>1. AgentCallInv => WritersConfined
  BY ConfinementFollows DEF AgentCallInv
<1>2. QED
  BY <1>1, AgentCallInvariant, PTL

\* The builder and its validator together, for any requests: whatever may be granted
\* is not refused for its options or its line, whatever may not always is, and a line
\* that was built says what was requested.
THEOREM ArgvAlwaysRequested == Spec => []ArgvIsRequested
<1>1. AgentCallInv => ArgvIsRequested
  BY RequestFollows DEF AgentCallInv
<1>2. QED
  BY <1>1, AgentCallInvariant, PTL

\* THREAT_MODEL.md:48: whatever the edits of the lines that were built are, those with
\* flags that come twice, are unknown or have no value among them, the two loops of
\* the validator accept exactly the well formed ones.
THEOREM ValidatorAlwaysExact == Spec => []ValidatorIsExact
<1>1. ValidatorIsExact
  BY ValidatorAcceptsWellFormed DEF ValidatorIsExact
<1>2. QED
  BY <1>1, PTL

\* _decode_result stands between what codex says and what a program gets: a call with a
\* schema returns exactly when its answer was parsed and passed validate_instance for
\* the schema of that call, and it runs only with a schema validate_schema has passed.
ResultChecked ==
    \A a \in Calls : Opts(a).schema # <<>> =>
        /\ place[a] = "returned" <=> Decoded(Opts(a).schema[1], answer[a])
        /\ place[a] \notin NoLine =>
              \A schema \in {Opts(a).schema[i] : i \in DOMAIN Opts(a).schema} : SchemaAllowed(schema)

\* What is left of ResultFits for a run to check is a question about values and
\* schemas alone.
THEOREM ResultAlwaysChecked == Spec => []ResultChecked
<1>1. AgentCallInv => ResultChecked
  BY DEF AgentCallInv, AnswerInv, LineInv, StageInv, ResultChecked, OptionsAllowed
<1>2. QED
  BY <1>1, AgentCallInvariant, PTL
=============================================================================
