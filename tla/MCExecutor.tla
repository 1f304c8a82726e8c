----------------------------- MODULE MCExecutor ------------------------------
(***************************************************************************)
(* Two run() calls against one cancel_all(), on both platforms: one call   *)
(* can be spawning while the other is registered, which is all the calls   *)
(* can do to each other, since they meet only in _active and the flag.     *)
(***************************************************************************)
EXTENDS Executor
CONSTANTS a1, a2

MCAgents    == {a1, a2}
MCPlatforms == {"posix", "nt"}
=============================================================================
