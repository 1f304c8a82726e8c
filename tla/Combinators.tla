----------------------------- MODULE Combinators -----------------------------
(***************************************************************************)
(* parallel(thunks) and pipeline(items, ...stages) of RUNTIME_BOOTSTRAP    *)
(* (sandbox.py), with allValues, which joins their branches.  A thunk or a *)
(* stage is user code: it returns a value or a promise (an agent() call,   *)
(* as a rule), throws, or returns a promise nothing ever settles.          *)
(*                                                                         *)
(* A branch is the promise chain of one entry.  The promise jobs of        *)
(* different branches run in any order here: the context's queue orders    *)
(* them by when agents end, which is arbitrary, and nothing below depends  *)
(* on the order.                                                           *)
(***************************************************************************)
EXTENDS Integers, Sequences, FiniteSets

CONSTANTS Width,        \* bound: entries of the array that is passed
          MaxStages,    \* bound: stages of a pipeline
          MaxEntries    \* the limit on entries, 4096 in the code

ASSUME CombinatorBounds == {Width, MaxStages, MaxEntries} \subseteq Nat

Branches == 1 .. Width
Kinds == {"parallel", "pipeline"}
\* What an entry of the array is: for parallel always a function.
Entries == {"function", "value", "promise", "hole"}
\* What user code does when it is called.
Outcomes == {"value", "promise", "throw", "hang"}

VARIABLES
    kind, entries, stages,   \* the call: combinator, array, number of stages
    place,                   \* where each branch is
    stageIndex,              \* stages (thunks) of the branch called so far
    previous,                \* the value the branch carries
    failed,                  \* branches whose user code has failed
    results, remaining,      \* of allValues
    outcome                  \* of the promise the combinator returned

vars == <<kind, entries, stages, place, stageIndex, previous, failed,
          results, remaining, outcome>>

\* A value shows where it comes from: <<b>> is entry b itself, and each stage
\* (or the thunk) appends its number.  null is the empty sequence.
Null == <<>>
Unset == <<0>>
Undefined == <<-1>>

Places == {"uncalled",   \* the combinator has not been called
           "queued",     \* a job will call the next thunk or stage
           "pending",    \* user code returned a promise that is not settled
           "hung",       \* ... and never will be
           "rejected",   \* it was rejected: the branch's handler is queued
           "settled",    \* the branch is fulfilled: allValues' reaction is queued
           "broken",     \* the branch is rejected: so is allValues' reaction
           "counted"}    \* allValues has seen it

TypeOK ==
    /\ kind \in Kinds
    /\ entries \in UNION {[1 .. n -> Entries] : n \in 0 .. Width}
    /\ stages \in {1} \cup 0 .. MaxStages
    /\ DOMAIN place = DOMAIN entries
    /\ \A b \in DOMAIN entries :
          /\ place[b] \in Places
          /\ stageIndex[b] \in 0 .. stages
          /\ previous[b] \in {Null, Undefined} \cup {<<b>> \o [k \in 1 .. s |-> k] : s \in 0 .. stages}
    /\ failed \subseteq DOMAIN entries
    /\ DOMAIN results = DOMAIN entries
    /\ remaining \in 0 .. Len(entries)
    /\ outcome \in {"none", "threw", "pending", "resolved", "rejected"}

Started == DOMAIN entries

\* A parallel branch is a pipeline of one stage, the thunk, that starts in a
\* job of its own.
Init ==
    /\ kind \in Kinds
    /\ \E n \in 0 .. Width :
          entries \in [1 .. n -> IF kind = "parallel" THEN {"function"} ELSE Entries \ {"function"}]
    /\ stages \in IF kind = "parallel" THEN {1} ELSE 0 .. MaxStages
    /\ place = [b \in DOMAIN entries |-> "uncalled"]
    /\ stageIndex = [b \in DOMAIN entries |-> 0]
    /\ previous = [b \in DOMAIN entries |-> <<b>>]
    /\ failed = {}
    /\ results = [b \in DOMAIN entries |-> Unset]
    /\ remaining = Len(entries)
    /\ outcome = "none"

-----------------------------------------------------------------------------
(* User code.                                                              *)

\* Where a branch is left by the user code it has called: a value is awaited
\* like a promise that is settled already, and a throw is caught at once.
PlaceAfter(how) ==
    CASE how = "value" -> "queued"
      [] how = "promise" -> "pending"
      [] how = "hang" -> "hung"
      [] how = "throw" -> "rejected"

\* Stage k of the branch is called with previous; what it returns, if it does,
\* comes of that value.
Produced(b) == Append(previous[b], stageIndex[b])

-----------------------------------------------------------------------------
(* The calls.                                                              *)

TooMany ==
    /\ outcome = "none"
    /\ Len(entries) > MaxEntries
    /\ outcome' = "threw"
    /\ UNCHANGED <<kind, entries, stages, place, stageIndex, previous, failed, results, remaining>>

\* Mutation: allValues waits although there is nothing to wait for.
JoinedNever == outcome' = "pending"

\* allValues resolves at once when there is nothing to wait for.
Joined == outcome' = IF entries = <<>> THEN "resolved" ELSE "pending"

\* Each thunk is left to a promise job, which the call queues.
CallParallel ==
    /\ kind = "parallel"
    /\ outcome = "none"
    /\ Len(entries) <= MaxEntries
    /\ place' = [b \in Started |-> "queued"]
    /\ Joined
    /\ UNCHANGED <<kind, entries, stages, stageIndex, previous, failed, results, remaining>>

\* The chain of an item runs up to its first await within the call: its first
\* stage is called at once.  Without stages the item itself is returned, which
\* adopts a promise.  A hole of the array has no chain: allValues finds an
\* undefined there.
CallPipeline ==
    /\ kind = "pipeline"
    /\ outcome = "none"
    /\ Len(entries) <= MaxEntries
    /\ \E how \in [Started -> Outcomes] :
          /\ stages = 0 => \A b \in Started : how[b] = "value"
          /\ place' = [b \in Started |->
                CASE entries[b] = "hole" -> "settled"
                  [] stages > 0 /\ entries[b] # "hole" -> PlaceAfter(how[b])
                  [] stages = 0 /\ entries[b] = "value" -> "settled"
                  [] stages = 0 /\ entries[b] = "promise" -> "pending"]
          /\ failed' = {b \in Started : entries[b] # "hole" /\ how[b] = "throw"}
    /\ stageIndex' = [b \in Started |->
                        IF entries[b] = "hole" \/ stages = 0 THEN 0 ELSE 1]
    /\ previous' = [b \in Started |-> IF entries[b] = "hole" THEN Undefined ELSE previous[b]]
    /\ Joined
    /\ UNCHANGED <<kind, entries, stages, results, remaining>>

-----------------------------------------------------------------------------
(* The jobs of a branch.                                                   *)

callVars == <<kind, entries, stages>>
joinVars == <<results, remaining, outcome>>

Goto(b, where) == place' = [place EXCEPT ![b] = where]

\* A promise that user code returned (or the item of a pipeline without stages)
\* settles: an agent ends.
Fulfil(b) ==
    /\ place[b] = "pending"
    /\ Goto(b, IF stages = 0 THEN "settled" ELSE "queued")
    /\ UNCHANGED <<callVars, stageIndex, previous, failed, joinVars>>

\* Without stages no try statement surrounds the item: the chain rejects.
Reject(b) ==
    /\ place[b] = "pending"
    /\ Goto(b, IF stages = 0 THEN "broken" ELSE "rejected")
    /\ failed' = failed \cup {b}
    /\ UNCHANGED <<callVars, stageIndex, previous, joinVars>>

\* Mutation: a stage begins when all items have come to it.
CallNextBehindBarrier(b, how) ==
    /\ place[b] = "queued"
    /\ stageIndex[b] < stages
    /\ \A c \in Started : stageIndex[c] >= stageIndex[b] /\ place[c] \notin {"pending", "hung"}
    /\ stageIndex' = [stageIndex EXCEPT ![b] = @ + 1]
    /\ previous' = [previous EXCEPT ![b] = IF stageIndex[b] = 0 THEN @ ELSE Produced(b)]
    /\ Goto(b, PlaceAfter(how))
    /\ failed' = IF how = "throw" THEN failed \cup {b} ELSE failed
    /\ UNCHANGED <<callVars, joinVars>>

\* The thunk, or the next stage, is called.  What the stage before it produced
\* becomes previous.
CallNext(b, how) ==
    /\ place[b] = "queued"
    /\ stageIndex[b] < stages
    /\ stageIndex' = [stageIndex EXCEPT ![b] = @ + 1]
    /\ previous' = [previous EXCEPT ![b] = IF stageIndex[b] = 0 THEN @ ELSE Produced(b)]
    /\ Goto(b, PlaceAfter(how))
    /\ failed' = IF how = "throw" THEN failed \cup {b} ELSE failed
    /\ UNCHANGED <<callVars, joinVars>>

\* The last stage has produced its value: the chain is fulfilled.
Return(b) ==
    /\ place[b] = "queued"
    /\ stageIndex[b] = stages
    /\ previous' = [previous EXCEPT ![b] = Produced(b)]
    /\ Goto(b, "settled")
    /\ UNCHANGED <<callVars, stageIndex, failed, joinVars>>

\* Mutation: the branch has no handler of its own.
CatchNothing(b) ==
    /\ place[b] = "rejected"
    /\ Goto(b, "broken")
    /\ UNCHANGED <<callVars, stageIndex, previous, failed, joinVars>>

\* Mutation: the item goes on with null in its remaining stages.
CatchAndGoOn(b) ==
    /\ place[b] = "rejected"
    /\ previous' = [previous EXCEPT ![b] = Null]
    /\ Goto(b, IF stageIndex[b] < stages THEN "queued" ELSE "settled")
    /\ UNCHANGED <<callVars, stageIndex, failed, joinVars>>

\* parallel's second PromiseThen and pipeline's catch: the branch becomes null
\* and calls no further stage.
Catch(b) ==
    /\ place[b] = "rejected"
    /\ previous' = [previous EXCEPT ![b] = Null]
    /\ Goto(b, "settled")
    /\ UNCHANGED <<callVars, stageIndex, failed, joinVars>>

-----------------------------------------------------------------------------
(* allValues.                                                              *)

\* Mutation: the reaction does not close over its index and uses the number of
\* branches seen so far.
CollectInOrder(b) ==
    /\ place[b] = "settled"
    /\ Goto(b, "counted")
    /\ results' = [results EXCEPT ![Len(entries) - remaining + 1] = previous[b]]
    /\ remaining' = remaining - 1
    /\ outcome' = IF outcome = "pending" /\ remaining' = 0 THEN "resolved" ELSE outcome
    /\ UNCHANGED <<callVars, stageIndex, previous, failed>>

Collect(b) ==
    /\ place[b] = "settled"
    /\ Goto(b, "counted")
    /\ results' = [results EXCEPT ![b] = previous[b]]
    /\ remaining' = remaining - 1
    /\ outcome' = IF outcome = "pending" /\ remaining' = 0 THEN "resolved" ELSE outcome
    /\ UNCHANGED <<callVars, stageIndex, previous, failed>>

\* The other branches run on; what they end with no longer matters.
JoinRejects(b) ==
    /\ place[b] = "broken"
    /\ Goto(b, "counted")
    /\ outcome' = IF outcome = "pending" THEN "rejected" ELSE outcome
    /\ UNCHANGED <<callVars, stageIndex, previous, failed, results, remaining>>

-----------------------------------------------------------------------------
Call == TooMany \/ CallParallel \/ CallPipeline

Job(b) ==
    \/ \E how \in Outcomes : CallNext(b, how)
    \/ Return(b) \/ Catch(b) \/ Collect(b) \/ JoinRejects(b)

Settle(b) == Fulfil(b) \/ Reject(b)

Next ==
    \/ Call
    \/ \E b \in Started : Job(b) \/ Settle(b)

\* The pump runs every promise job, and every agent ends.
Fairness ==
    /\ WF_vars(Call)
    /\ \A b \in Branches : WF_vars(b \in Started /\ (Job(b) \/ Settle(b)))

Spec == Init /\ [][Next]_vars /\ Fairness

-----------------------------------------------------------------------------
(* Properties.                                                             *)

\* What the slot of a branch must hold in the end: what its own stages made of
\* its own entry, or null when one of them failed.
Expected(b) ==
    IF entries[b] = "hole" THEN Undefined
    ELSE IF b \in failed THEN Null
    ELSE <<b>> \o [k \in 1 .. stages |-> k]

\* API.md:28, "an equally sized array in input order": whatever the order in
\* which branches end and fail, each slot has the value of its own branch, and no
\* slot is still empty when the program gets the array.
SlotsKeepInput ==
    \A b \in Started :
        /\ results[b] \in {Unset, Expected(b)}
        /\ outcome = "resolved" => results[b] # Unset

\* A failure stays in its branch.  The one exception: pipeline(items) without
\* stages rejects as a whole when an item is a promise that is rejected.
FailureStaysInBranch ==
    outcome = "rejected" =>
        /\ kind = "pipeline" /\ stages = 0
        /\ \E b \in failed : entries[b] = "promise"

\* API.md:38, "that item becomes null and skips its remaining stages": once its
\* user code has failed a branch calls none again.
SkipsAfterFailure ==
    [][\A b \in failed : stageIndex'[b] = stageIndex[b]]_vars

\* API.md:37, "no cross-item stage barrier": a branch whose own user code does
\* not hang gets to its end, wherever the others are, hang or fail.
NoBarrier ==
    \A b \in Branches :
        (b \in Started /\ outcome \in {"pending", "resolved", "rejected"})
            ~> (b \in Started /\ place[b] \in {"counted", "hung"})

\* The call itself is answered unless some branch hangs, also for no entries.
Answers ==
    <>(outcome \notin {"none", "pending"} \/ \E b \in Started : place[b] = "hung")
=============================================================================
