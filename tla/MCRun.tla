-------------------------------- MODULE MCRun --------------------------------
(***************************************************************************)
(* Runs over two kinds of call, each resumed from an earlier one: records  *)
(* in another order than the calls, a hole, a miss and a call that would   *)
(* match again after it, a run resumed from one that was resumed, calls    *)
(* refused before, between and after the ones that are served.             *)
(***************************************************************************)
EXTENDS Run, TLC
CONSTANTS p, q, x, y

MCIdentities == {p, q}
MCArgs       == {x, y}
OneArgs      == {x}
ResumeFaults == {"cache", "options"}
ValueFaults  == {"value"}
Symmetry     == Permutations({p, q}) \cup Permutations({x, y})
=============================================================================
