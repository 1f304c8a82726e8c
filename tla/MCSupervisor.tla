---------------------------- MODULE MCSupervisor -----------------------------
(***************************************************************************)
(* Two codex processes under one supervised runtime, on both platforms.    *)
(***************************************************************************)
EXTENDS Supervisor
CONSTANTS a1, a2

MCAgents    == {a1, a2}
MCPlatforms == {"posix", "nt"}
Posix       == {"posix"}
=============================================================================
