----------------------------- MODULE MCAgentCall -----------------------------
(***************************************************************************)
(* Three kinds of scenario: single calls that leave the ordinary one in at *)
(* most two places; a call with each of the schemas below and each of the  *)
(* answers; and isolated calls at the same time, in one run, in runs whose *)
(* names become the same directory, in one process and in two, with the    *)
(* worktree root inside the repository, without a repository, with a mock. *)
(***************************************************************************)
EXTENDS AgentCall, Schema, TLC

-----------------------------------------------------------------------------
(* Texts: a few of each sort the code tells apart.                         *)

Dashed == {"-s", "-c", "-C", "-m", "--color", "--output-last-message", "--output-schema",
           "--config", "-x", "-"}
Writing == {"workspace-write", "about workspace-write", "x.workspace-write"}
Labels == {"writer", "workspace-write", "a--config", "--config", "--"}
Models == {"o3", "other", "x.workspace-write"}

MCStartsWithDash(text) == text \in Dashed
MCIndentedDash(text)   == text \in Dashed \cup {" -x"}
MCBlank(text)          == text \in {"", " "}
MCTooLong(text)        == text = "a long prompt"
MCSafeLabel(text)      == CASE text = "a/b" -> "a-b"
                             [] text = "--config" -> "config"
                             [] text = "--" -> "agent"
                             [] OTHER -> text
MCAgentName(n)         == "agent-" \o ToString(n)
MCSlotFile(run, n, label, name) ==
    run.dir \o "/" \o ToString(n) \o "-" \o label \o "/" \o name

\* The files of the first call of a run in that directory.
Slots(dirs, labels) ==
    {MCSlotFile([dir |-> d], 0, label, name) :
        d \in dirs, label \in labels, name \in {"last.txt", "schema.json"}}
SafeLabels   == {MCSafeLabel(label) : label \in Labels \cup {"a/b", MCAgentName(0)}}
WritingSlots == Slots({"/runs/r", "/runs/x--config"}, {"workspace-write"})
ConfigSlots  == Slots({"/runs/r"}, {"a--config"}) \cup Slots({"/runs/x--config"}, SafeLabels)
MCMentions(text) ==
    CASE text \in Writing \cup WritingSlots -> "workspace-write"
      [] text \in {"--config", "/outside/x--config/agent-0"} \cup ConfigSlots -> "--config"
      [] OTHER -> NoText
MCIsAbsolute(text)     == text # "" /\ SubSeq(text, 1, 1) = "/"
MCAbsolute(text)       == IF MCIsAbsolute(text) THEN text ELSE "/cwd/" \o text
MCIsCodex(text)        == text = "codex"
MCModelPattern(text)   == text \in Models
MCEffortArg(effort)    == "model_reasoning_effort=" \o effort
MCLabelPattern(text)   == text \in Labels

MCSafeRunId(name)      == IF name = "r-" THEN "r" ELSE name
MCTreeText(path)       == "/" \o path.root \o "/" \o path.id \o "/agent-" \o ToString(path.index)

-----------------------------------------------------------------------------
(* Schemas and answers.                                                    *)

Obj(f) == JObject(f)
Type(name) == "type" :> JString(name)
ListOf(s) == Type("array") @@ "items" :> s

GoodSchemas ==
    {Obj(Type(name)) : name \in AllowedTypes} \cup
    {Obj(Type("integer") @@ "minimum" :> JInt(1)),
     Obj(Type("number") @@ "minimum" :> JFloat(1) @@ "maximum" :> JInt(1)),
     Obj(Type("number") @@ "enum" :> JArray(<<JInt(1), JFloat(1)>>)),
     Obj(Type("boolean") @@ "enum" :> JArray(<<JBool(TRUE)>>)),
     Obj(Type("string") @@ "minLength" :> JInt(1) @@ "maxLength" :> JInt(1)),
     Obj(Type("string") @@ "enum" :> JArray(<<JString("a"), JString("b")>>) @@ "title" :> JString("t")),
     Obj(ListOf(Obj(Type("integer"))) @@ "minItems" :> JInt(1)),
     Obj(ListOf(Obj(Type("boolean"))) @@ "maxItems" :> JInt(1)),
     Obj(Type("array") @@ "enum" :> JArray(<<JArray(<<JInt(1)>>)>>)),
     Obj(Type("array") @@ "minItems" :> JInt(2) @@ "maxItems" :> JInt(2)),
     Obj(Type("object") @@ "required" :> JArray(<<JString("k")>>)),
     Obj(Type("object") @@ "properties" :> Obj("k" :> Obj(Type("integer")))),
     Obj(Type("object") @@ "properties" :> Obj("k" :> Obj(Type("string") @@ "maxLength" :> JInt(1)))
            @@ "required" :> JArray(<<JString("k")>>) @@ "additionalProperties" :> JBool(FALSE)),
     Obj(Type("object") @@ "properties" :> Obj("k" :> Obj(Type("number") @@ "maximum" :> JInt(0)))
            @@ "additionalProperties" :> JBool(TRUE)),
     Obj(Type("object") @@ "required" :> JArray(<<JString("l")>>) @@ "additionalProperties" :> JBool(FALSE)),
     Obj(ListOf(Obj(Type("object") @@ "properties" :> Obj("k" :> Obj(Type("null")))
            @@ "additionalProperties" :> JBool(FALSE))))}

BadSchemas ==
    {JString("string"), Obj("title" :> JString("t")), Obj(Type("any")),
     Obj("type" :> JArray(<<JString("string"), JString("null")>>)),
     Obj(Type("string") @@ "pattern" :> JString("a")),
     Obj(Type("string") @@ "minimum" :> JInt(1)),
     Obj(Type("integer") @@ "maxItems" :> JInt(1)),
     Obj(Type("null") @@ "properties" :> Obj("k" :> Obj(Type("null")))),
     Obj(Type("object") @@ "properties" :> Obj("" :> Obj(Type("null")))),
     Obj(Type("object") @@ "properties" :> JArray(<<>>)),
     Obj(Type("object") @@ "properties" :> Obj("k" :> Obj(Type("any")))),
     Obj(Type("object") @@ "required" :> JArray(<<JString("k"), JString("k")>>)),
     Obj(Type("object") @@ "required" :> JArray(<<JInt(1)>>)),
     Obj(Type("object") @@ "additionalProperties" :> Obj(Type("null"))),
     Obj(Type("array") @@ "minItems" :> JBool(TRUE)),
     Obj(Type("array") @@ "minItems" :> JFloat(2)),
     Obj(Type("array") @@ "minItems" :> JInt(2) @@ "maxItems" :> JInt(1)),
     Obj(Type("string") @@ "minLength" :> JInt(-1)),
     Obj(Type("number") @@ "minimum" :> JInt(1) @@ "maximum" :> JFloat(1)),
     Obj(Type("string") @@ "enum" :> JArray(<<>>)),
     Obj(Type("integer") @@ "enum" :> JArray(<<JBool(TRUE)>>)),
     Obj(Type("string") @@ "title" :> JInt(1)),
     Obj(ListOf(Obj(ListOf(Obj(ListOf(Obj(Type("null"))))))))}

Scalars == {JNull, JBool(TRUE), JBool(FALSE), JInt(0), JInt(1), JInt(2), JFloat(1), JFloat(2), JNaN,
            JString(""), JString("a"), JString("b"), JString("ab")}
MCAnswers ==
    Scalars \cup {JArray(<<v>>) : v \in Scalars} \cup
    {Obj("k" :> v) : v \in Scalars} \cup
    {JArray(<<>>), JArray(<<JInt(1), JInt(0)>>), JArray(<<JBool(TRUE), JInt(1)>>),
     JArray(<<JInt(0), JInt(1), JInt(2)>>), JArray(<<Obj("k" :> JNull)>>),
     JArray(<<Obj([key \in {} |-> JNull]), Obj("k" :> JInt(0))>>), Obj([key \in {} |-> JNull]),
     Obj("k" :> JString("a") @@ "l" :> JInt(1)), Obj("k" :> JInt(0) @@ "l" :> JNaN),
     Obj("l" :> JString("a"))}

\* What an array or an object of an answer may hold.
Atoms == Scalars \cup {Obj("k" :> JNull), Obj("k" :> JInt(0)), Obj([key \in {} |-> JNull])}
Values == [schema \in GoodSchemas |-> Made(schema, Atoms, 3, {"k", "l"})]

\* An answer is the result of the call exactly when it is one of the values that
\* the schema stands for; an answer that is not JSON never is.
ResultFits ==
    \A a \in Calls : Opts(a).schema # <<>> =>
        /\ place[a] = "returned" => answer[a] # <<>>
        /\ answer[a] # <<>> =>
              (place[a] = "returned" <=> answer[a][1] \in Values[Opts(a).schema[1]])
        /\ place[a] = "running" => Opts(a).schema[1] \in GoodSchemas

-----------------------------------------------------------------------------
(* Scenarios.                                                              *)

R == [dir |-> "/runs/r", name |-> "r", process |-> "p", repository |-> TRUE,
      worktree_root |-> "outside", workdir |-> "/repo", codex_bin |-> "codex",
      model |-> NoText, effort |-> "medium", mock |-> FALSE]
SameName   == [R EXCEPT !.dir = "/runs/r-", !.name = "r-"]
OtherHost  == [R EXCEPT !.dir = "/other/r", !.process = "q"]
InRepo     == [R EXCEPT !.worktree_root = "inside"]
NoRepo     == [R EXCEPT !.repository = FALSE]
Mock       == [R EXCEPT !.mock = TRUE]
OddName    == [R EXCEPT !.dir = "/runs/x--config", !.name = "x--config"]

Plain == [run |-> R, prompt |-> "read",
          opts |-> [unlisted |-> NoText, label |-> NoText, schema |-> <<>>, model |-> NoText,
                    effort |-> NoText, isolation |-> NoText]]
Iso(run) == [Plain EXCEPT !.run = run, !.opts.isolation = "worktree"]

WithRun    == {[Plain EXCEPT !.run = run] :
                  run \in {[R EXCEPT !.codex_bin = "python"], [R EXCEPT !.model = "o3"],
                           NoRepo, InRepo, OddName, Mock}}
WithPrompt == {[Plain EXCEPT !.prompt = text] :
                  text \in {"", " ", "-x", " -x", "-", "a long prompt", "workspace-write",
                            "about workspace-write", "--config"}}
WithOpts   == {[Plain EXCEPT !.opts.unlisted = "sandbox"], [Plain EXCEPT !.opts.isolation = "worktree"],
               [Plain EXCEPT !.opts.isolation = "none at all"], [Plain EXCEPT !.opts.effort = "high"],
               [Plain EXCEPT !.opts.effort = "max"],
               [Plain EXCEPT !.opts.schema = <<Obj(Type("null"))>>]} \cup
              {[Plain EXCEPT !.opts.label = text] : text \in Labels \cup {"a/b"}} \cup
              {[Plain EXCEPT !.opts.model = text] : text \in {"", "-m", "other", "x.workspace-write"}}

\* Both changes of two altered calls, where they are not of the same thing.
Merge(c, d) ==
    [run |-> IF c.run = R THEN d.run ELSE c.run,
     prompt |-> IF c.prompt = Plain.prompt THEN d.prompt ELSE c.prompt,
     opts |-> [o \in DOMAIN Plain.opts |->
                  IF c.opts[o] = Plain.opts[o] THEN d.opts[o] ELSE c.opts[o]]]
Altered == WithRun \cup WithPrompt \cup WithOpts
Singles == {<<Merge(c, d)>> : c, d \in Altered}

WithSchema == {<<[Plain EXCEPT !.opts.schema = <<schema>>]>> : schema \in GoodSchemas \cup BadSchemas}

Together ==
    {<<Iso(R), Iso(R), Plain>>, <<Iso(R), Iso(SameName)>>, <<Iso(R), Iso(OtherHost), Iso(R)>>,
     <<Iso(R), Iso(SameName), Iso(OtherHost)>>, <<Iso(InRepo), Iso(R)>>, <<Iso(NoRepo), Iso(R)>>,
     <<Iso(Mock), Iso(Mock), Iso(SameName)>>}

MCScenarios == Singles \cup WithSchema \cup Together
MCProbed == {<<Merge(c, d)>> :
                c \in {Plain, [Plain EXCEPT !.opts.isolation = "worktree"]},
                d \in {Plain, [Plain EXCEPT !.opts.model = "other"],
                       [Plain EXCEPT !.opts.schema = <<Obj(Type("null"))>>]}}

Tokens == Dashed \cup {"read-only", "workspace-write", "about workspace-write", "never", "always",
                       "codex", "exec", "other", "/other", "model_reasoning_effort=low",
                       "model_reasoning_effort=max", "", " ", "a long prompt"}
Pieces == {<<>>} \cup {<<text>> : text \in Tokens} \cup
          {<<flag, value>> : flag \in Flags \cup {"--config"},
                             value \in {"read-only", "workspace-write", "/other", "never", "-m", "other",
                                        "model_reasoning_effort=low"}}

\* At one place of a line up to two texts are removed and up to two put in.
MCEdits(line) ==
    {SubSeq(line, 1, i - 1) \o piece \o SubSeq(line, i + removed, Len(line)) :
        i \in 1 .. Len(line) + 1, removed \in 0 .. 2, piece \in Pieces}
=============================================================================
