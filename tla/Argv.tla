-------------------------------- MODULE Argv ---------------------------------
(***************************************************************************)
(* The command line of codex (argv.py): build_codex_argv and the validator *)
(* that has the last word on it, validate_codex_argv.  A command line is a *)
(* sequence of texts; of a text this module knows what the code asks.      *)
(***************************************************************************)
EXTENDS Integers, Sequences

CONSTANTS
    StartsWithDash(_),   \* text.startswith("-")
    IndentedDash(_),     \* text.lstrip().startswith("-")
    Blank(_),            \* nothing but white space
    TooLong(_),          \* more than _MAX_PROMPT_CHARS
    Mentions(_),         \* the first forbidden substring in it, or "none"
    IsAbsolute(_),       \* Path(text).is_absolute()
    Absolute(_),         \* the path made absolute
    IsCodex(_),          \* its name is one of _CODEX_NAMES
    ModelPattern(_),     \* _MODEL_RE.fullmatch(text)
    EffortArg(_)         \* "model_reasoning_effort=" and the effort

Efforts == {"low", "medium", "high", "xhigh"}
PathFlags == {"-C", "--output-last-message", "--output-schema"}
Required == {"-s", "-c", "-C", "--color", "--output-last-message"}
Flags == Required \cup PathFlags \cup {"-m"}
NoText == "none"

\* What the tests of a text say of the fixed texts of a command line and of the empty
\* text: no flag is a name of codex, and none has a forbidden text in it.
ASSUME FlagTexts ==
    /\ \A flag \in Flags : StartsWithDash(flag) /\ IndentedDash(flag) /\ ~IsCodex(flag)
    /\ \A effort \in Efforts : ~StartsWithDash(EffortArg(effort)) /\ EffortArg(effort) # ""
    /\ \A text \in Flags \cup {EffortArg(effort) : effort \in Efforts}
                  \cup {"exec", "read-only", "never"} : Mentions(text) = "none"
    /\ \A text \in {"read-only", "workspace-write", "never"} : ~StartsWithDash(text)
    /\ Blank("") /\ ~IsCodex("") /\ ~IsAbsolute("") /\ ~ModelPattern("")

\* _check_sandbox
SandboxAllowed(sandbox, authorized) ==
    sandbox = "read-only" \/ (sandbox = "workspace-write" /\ authorized)

\* validate_model_name
ModelAllowed(model) ==
    ModelPattern(model) /\ ~StartsWithDash(model) /\ Mentions(model) = "none"

\* _validate_flag_value
ValueAllowed(flag, value, authorized) ==
    CASE flag = "-s" -> SandboxAllowed(value, authorized)
      [] flag = "-c" -> value \in {EffortArg(effort) : effort \in Efforts}
      [] flag = "-m" -> ModelAllowed(value)
      [] flag = "--color" -> value = "never"
      [] flag \in PathFlags -> IsAbsolute(value)

\* The first loop of the validator: the one place for the one forbidden text.
MentionAllowed(argv, i, authorized) ==
    \/ Mentions(argv[i]) = "none"
    \/ authorized /\ argv[i] = "workspace-write" /\ i > 1 /\ argv[i - 1] = "-s"

\* Mutation: a flag may come twice.
FlagAllowedTwice(argv, at, seen, authorized) ==
    /\ argv[at] \in Flags
    /\ at < Len(argv)
    /\ argv[at] # "-c" => ~StartsWithDash(argv[at + 1])
    /\ ValueAllowed(argv[at], argv[at + 1], authorized)

\* One turn of the second loop: the flag at a position and its value.
FlagAllowed(argv, at, seen, authorized) ==
    /\ argv[at] \in Flags
    /\ argv[at] \notin DOMAIN seen
    /\ at < Len(argv)
    /\ argv[at] # "-c" => ~StartsWithDash(argv[at + 1])
    /\ ValueAllowed(argv[at], argv[at + 1], authorized)

\* Where the second loop stands: the position it looks at, the flags seen so far with
\* their values, and whether it has refused none.
LoopStart == [at |-> 3, seen |-> [flag \in {} |-> NoText], ok |-> TRUE]

\* A turn of it; it ends at the first text without a dash in front.
FlagTurn(argv, was, authorized) ==
    IF ~was.ok \/ was.at > Len(argv) \/ ~StartsWithDash(argv[was.at])
    THEN was
    ELSE IF ~FlagAllowed(argv, was.at, was.seen, authorized)
    THEN [was EXCEPT !.ok = FALSE]
    ELSE [at |-> was.at + 2,
          seen |-> [flag \in DOMAIN was.seen \cup {argv[was.at]} |->
                       IF flag = argv[was.at] THEN argv[was.at + 1] ELSE was.seen[flag]],
          ok |-> TRUE]

\* The second loop as a whole.
FlagLoop(argv, authorized) ==
    LET Turn[n \in 0 .. Len(argv)] ==
            IF n = 0 THEN LoopStart ELSE FlagTurn(argv, Turn[n - 1], authorized)
    IN Turn[Len(argv)]

\* validate_codex_argv
ValidateArgv(argv, authorized) ==
    /\ argv # <<>>
    /\ \A i \in 1 .. Len(argv) : argv[i] # "" /\ MentionAllowed(argv, i, authorized)
    /\ IsCodex(argv[1])
    /\ Len(argv) >= 3
    /\ argv[2] = "exec"
    /\ LET loop == FlagLoop(argv, authorized)
       IN /\ loop.ok
          /\ loop.at = Len(argv)
          /\ ~StartsWithDash(argv[loop.at])
          /\ ~Blank(argv[loop.at])
          /\ ~TooLong(argv[loop.at])
          /\ Required \subseteq DOMAIN loop.seen
          /\ \A flag \in {"-s", "-c", "--color"} :
                ValueAllowed(flag, loop.seen[flag], authorized)

\* The argv build_codex_argv puts together for a request.
BuildArgv(request) ==
    <<request.codex_bin, "exec", "-s", request.sandbox, "-C", Absolute(request.workdir),
      "-c", EffortArg(request.effort), "--color", "never",
      "--output-last-message", Absolute(request.last_message_path)>>
    \o (IF request.schema_path = NoText THEN <<>>
        ELSE <<"--output-schema", Absolute(request.schema_path)>>)
    \o (IF request.model = NoText THEN <<>> ELSE <<"-m", request.model>>)
    \o <<request.prompt>>

\* build_codex_argv raises unless its own tests and the validator pass.
BuildAllowed(request) ==
    /\ ~Blank(request.prompt)
    /\ ~TooLong(request.prompt)
    /\ ~IndentedDash(request.prompt)
    /\ request.effort \in Efforts
    /\ request.model # NoText => ModelAllowed(request.model)
    /\ SandboxAllowed(request.sandbox, request.authorized)
    /\ ValidateArgv(BuildArgv(request), request.authorized)

-----------------------------------------------------------------------------
(* What a command line may be, said without the loops: codex, exec, a list *)
(* of distinct flags each with a fitting value that does not look like a   *)
(* flag, every required one among them, and one prompt; a forbidden text   *)
(* nowhere but as the authorized value of -s.                              *)

WellFormed(argv, authorized) ==
    /\ Len(argv) >= 3 /\ Len(argv) % 2 = 1
    /\ IsCodex(argv[1]) /\ argv[2] = "exec"
    /\ LET pairs == 1 .. (Len(argv) - 3) \div 2
           flag(k) == argv[2 * k + 1]
           value(k) == argv[2 * k + 2]
           prompt == argv[Len(argv)]
       IN /\ \A k \in pairs : /\ flag(k) \in Flags
                              /\ ValueAllowed(flag(k), value(k), authorized)
                              /\ ~StartsWithDash(value(k))
          /\ \A k, l \in pairs : flag(k) = flag(l) => k = l
          /\ Required \subseteq {flag(k) : k \in pairs}
          /\ ~StartsWithDash(prompt) /\ ~Blank(prompt) /\ ~TooLong(prompt)
          /\ {i \in 1 .. Len(argv) : Mentions(argv[i]) # "none"} \subseteq
                 {2 * k + 2 : k \in {l \in pairs : flag(l) = "-s" /\ value(l) = "workspace-write"}}
=============================================================================
