------------------------------ MODULE Worktree -------------------------------
(***************************************************************************)
(* Git worktrees for isolated agents (worktree.py): which directory is set *)
(* aside for a call, and create_worktree, step by step, as the workers of  *)
(* several runs take them at the same time.  Module AgentCall says when a  *)
(* call takes which step; a step here has a guard and an effect on the     *)
(* directories and on _GIT_WORKTREE_LOCK, of which every process has one.  *)
(*                                                                         *)
(* git is external.  `git worktree add` takes its time; it refuses a       *)
(* target that exists when it comes to create it, and leaves nothing       *)
(* behind when it fails.                                                   *)
(***************************************************************************)
EXTENDS Integers, FiniteSets

CONSTANTS Agents,        \* the agent() calls
          Processes,     \* the processes that execute runs
          SafeRunId(_)   \* the name of a run directory, made safe: not injective

VARIABLES trees,   \* the worktrees there are: [path, maker]
          lock     \* _GIT_WORKTREE_LOCK of each process: the call that holds it

treeVars == <<trees, lock>>

NoAgent == 0

ASSUME NoAgentAssumption == NoAgent \notin Agents

\* allocate_worktree_path: root / safe run id / agent number.
AllocateWorktreePath(run, index) ==
    [root |-> run.worktree_root, id |-> SafeRunId(run.name), index |-> index]

WorktreeTypeOK ==
    /\ \A tree \in trees : DOMAIN tree = {"path", "maker"} /\ tree.maker \in Agents
    /\ lock \in [Processes -> Agents \cup {NoAgent}]

WorktreeInit ==
    /\ trees = {}
    /\ lock = [p \in Processes |-> NoAgent]

Exists(path) == \E tree \in trees : tree.path = path

\* A root is named by where it lies: "inside" is within the repository that
\* `git rev-parse --show-toplevel` finds from the workdir of the run.
InsideRepository(path) == path.root = "inside"

\* What create_worktree tests before it takes the lock.
TargetAllowed(run, path) ==
    /\ run.repository
    /\ ~InsideRepository(path)
    /\ ~Exists(path)

AcquireGitLock(agent, process) ==
    /\ lock[process] = NoAgent
    /\ lock' = [lock EXCEPT ![process] = agent]
    /\ UNCHANGED trees

\* git comes to its end, one way or the other.
GitAdds(agent, path) ==
    /\ ~Exists(path)
    /\ trees' = trees \cup {[path |-> path, maker |-> agent]}

GitFails == UNCHANGED trees

\* Mutation: the lock is kept when git fails.
ReleaseGitLockOnSuccess(process, added) ==
    lock' = IF added THEN [lock EXCEPT ![process] = NoAgent] ELSE lock

\* The with statement is left, by an exception too.
ReleaseGitLock(process, added) == lock' = [lock EXCEPT ![process] = NoAgent]

\* Mutation: the return code of git is not looked at.
CreatedIfThere(path, added) == \E tree \in trees' : tree.path = path

\* create_worktree returns when git has succeeded and the directory is there.
Created(path, added) == added /\ \E tree \in trees' : tree.path = path

\* A process that dies takes its lock with it.
ForgetGitLock(process) == lock' = [lock EXCEPT ![process] = NoAgent]
=============================================================================
