-------------------------- MODULE CombinatorsProofs --------------------------
(***************************************************************************)
(* Proofs about parallel and pipeline, for arrays of any width and any     *)
(* number of stages: the types, what each slot of the answer holds, where  *)
(* a failure goes, that a failed branch calls no more user code, and that  *)
(* a call that waits has a branch to wait for.                             *)
(***************************************************************************)
EXTENDS Combinators, TLAPS, FiniteSetTheorems, SequenceTheorems

\* What the first s stages make of entry b, and what a branch under way carries:
\* the value of the stage under way is not yet in it.
Chain(b, s) == <<b>> \o [k \in 1 .. s |-> k]
Carried(b) == Chain(b, IF stageIndex[b] = 0 THEN 0 ELSE stageIndex[b] - 1)

UnderWay == {"uncalled", "queued", "pending", "hung", "rejected"}

\* The arrays the two combinators are called with.
CallInv ==
    /\ kind = "parallel" => stages = 1 /\ \A b \in Started : entries[b] = "function"
    /\ kind = "pipeline" => \A b \in Started : entries[b] # "function"
    /\ outcome = "none" =>
          /\ failed = {}
          /\ \A b \in Started : place[b] = "uncalled" /\ stageIndex[b] = 0

\* A branch from its call to its reaction.
BranchInv ==
    /\ DOMAIN stageIndex = Started /\ DOMAIN previous = Started
    /\ \A b \in Started :
          /\ place[b] \in UnderWay => previous[b] = Carried(b)
          /\ place[b] = "settled" => previous[b] = Expected(b)
          /\ entries[b] = "hole" =>
                place[b] \in {"uncalled", "settled", "counted"} /\ b \notin failed
          /\ place[b] = "queued" => stages > 0
          /\ place[b] = "pending" /\ stages = 0 => kind = "pipeline" /\ entries[b] = "promise"
          /\ place[b] = "broken" => kind = "pipeline" /\ stages = 0 /\ entries[b] = "promise"
          /\ place[b] \in {"rejected", "broken"} => b \in failed
          /\ b \in failed => place[b] \in {"rejected", "broken", "settled", "counted"}

\* The slots that allValues has not filled; it counts them.
Empty == {b \in Started : results[b] = Unset}

JoinInv ==
    /\ remaining = Cardinality(Empty)
    /\ \A b \in Started : place[b] # "counted" => b \in Empty
    /\ outcome = "resolved" => Empty = {}
    /\ outcome = "pending" =>
          /\ Empty # {}
          /\ \A b \in Started : place[b] = "counted" => b \notin Empty

CombinatorsInv ==
    /\ TypeOK /\ CallInv /\ BranchInv /\ JoinInv
    /\ SlotsKeepInput /\ FailureStaysInBranch

-----------------------------------------------------------------------------
(* Values.                                                                 *)

\* 1, 2, ..., n.
LEMMA NumbersSeq ==
    ASSUME NEW n \in Nat
    PROVE  /\ [k \in 1 .. n |-> k] \in Seq(Nat)
           /\ Len([k \in 1 .. n |-> k]) = n
           /\ \A i \in 1 .. n : [k \in 1 .. n |-> k][i] = i
  OBVIOUS

LEMMA ChainElements ==
    ASSUME NEW b \in Nat, NEW n \in Nat
    PROVE  /\ Chain(b, n) \in Seq(Nat)
           /\ Len(Chain(b, n)) = n + 1
           /\ Chain(b, n)[1] = b
           /\ \A i \in 2 .. n + 1 : Chain(b, n)[i] = i - 1
<1>1. /\ <<b>> \in Seq(Nat) /\ Len(<<b>>) = 1 /\ <<b>>[1] = b
  OBVIOUS
<1>2. PICK numbers \in Seq(Nat) :
         /\ numbers = [k \in 1 .. n |-> k]
         /\ Len(numbers) = n
         /\ \A i \in 1 .. n : numbers[i] = i
  BY NumbersSeq
<1>3. Chain(b, n) = <<b>> \o numbers
  BY <1>2 DEF Chain
<1>4. PICK start \in Seq(Nat) : start = <<b>> /\ Len(start) = 1 /\ start[1] = b
  BY <1>1
<1>5. /\ start \o numbers \in Seq(Nat)
      /\ Len(start \o numbers) = Len(start) + Len(numbers)
      /\ \A i \in 1 .. Len(start) + Len(numbers) :
            (start \o numbers)[i] = IF i <= Len(start) THEN start[i] ELSE numbers[i - Len(start)]
  BY ConcatProperties
<1>6. Chain(b, n) = start \o numbers
  BY <1>3, <1>4
<1>7. QED
  BY <1>2, <1>4, <1>5, <1>6

LEMMA ChainStarts ==
    ASSUME NEW b \in Nat
    PROVE  Chain(b, 0) = <<b>>
<1>1. PICK p \in Seq(Nat) : p = Chain(b, 0) /\ Len(p) = 0 + 1 /\ p[1] = b
  <2>1. 0 \in Nat
    OBVIOUS
  <2>2. QED
    BY <2>1, ChainElements
<1>2. /\ <<b>> \in Seq(Nat) /\ Len(<<b>>) = 1 /\ <<b>>[1] = b
  OBVIOUS
<1>3. PICK q \in Seq(Nat) : q = <<b>> /\ Len(q) = 1 /\ q[1] = b
  BY <1>2
<1>4. p = q
  BY <1>1, <1>3, SeqEqual
<1>5. QED
  BY <1>1, <1>3, <1>4

\* A chain grows by the number of the stage that has ended.
LEMMA ChainGrows ==
    ASSUME NEW b \in Nat, NEW s \in Nat
    PROVE  Append(Chain(b, s), s + 1) = Chain(b, s + 1)
<1>1. PICK p \in Seq(Nat) : p = Chain(b, s)
  BY ChainElements
<1>2. PICK q \in Seq(Nat) : q = Chain(b, s + 1)
  BY ChainElements
<1>3. Len(p) = s + 1 /\ p[1] = b /\ \A i \in 2 .. s + 1 : p[i] = i - 1
  BY <1>1, ChainElements
<1>4. Len(q) = s + 2 /\ q[1] = b /\ \A i \in 2 .. s + 2 : q[i] = i - 1
  <2>1. PICK n \in Nat : n = s + 1
    OBVIOUS
  <2>2. q = Chain(b, n)
    BY <1>2, <2>1
  <2>3. Len(q) = n + 1 /\ q[1] = b /\ \A i \in 2 .. n + 1 : q[i] = i - 1
    BY <2>2, ChainElements
  <2>4. QED
    BY <2>1, <2>3
<1>5. s + 1 \in Nat
  OBVIOUS
<1>6. /\ Append(p, s + 1) \in Seq(Nat)
      /\ Len(Append(p, s + 1)) = Len(p) + 1
      /\ \A i \in 1 .. Len(p) : Append(p, s + 1)[i] = p[i]
      /\ Append(p, s + 1)[Len(p) + 1] = s + 1
  BY <1>5, AppendProperties
<1>7. Len(Append(p, s + 1)) = Len(q)
  BY <1>3, <1>4, <1>6
<1>8. ASSUME NEW i \in 1 .. Len(Append(p, s + 1))
      PROVE  Append(p, s + 1)[i] = q[i]
  <2>1. CASE i = 1
    BY <1>3, <1>4, <1>6, <2>1
  <2>2. CASE i \in 2 .. s + 1
    BY <1>3, <1>4, <1>6, <2>2
  <2>3. CASE i = s + 2
    BY <1>3, <1>4, <1>6, <2>3
  <2>4. QED
    BY <1>3, <1>6, <2>1, <2>2, <2>3
<1>9. Append(p, s + 1) = q
  BY <1>6, <1>7, <1>8, SeqEqual
<1>10. QED
  BY <1>1, <1>2, <1>9

\* The array is numbered from 1, and what a slot must hold is never Unset.
LEMMA CallFacts ==
    ASSUME TypeOK
    PROVE  /\ Len(entries) \in Nat /\ Len(entries) <= Width
           /\ Started = 1 .. Len(entries)
           /\ IsFiniteSet(Started) /\ Cardinality(Started) = Len(entries)
           /\ stages \in Nat
           /\ \A b \in Started : entries[b] \in Entries
           /\ \A b \in Started : Expected(b) # Unset
<1>1. PICK n \in 0 .. Width : entries \in [1 .. n -> Entries]
  BY DEF TypeOK
<1>2. n \in Nat /\ n <= Width /\ Width \in Nat /\ MaxStages \in Nat
  BY CombinatorBounds
<1>3. Len(entries) = n /\ Started = 1 .. n
  BY <1>1, <1>2 DEF Started
<1>4. stages \in Nat
  BY <1>2 DEF TypeOK
<1>5. ASSUME NEW b \in Started
      PROVE  Expected(b) # Unset
  <2>1. b \in Nat /\ b # 0
    BY <1>2, <1>3
  <2>2. Chain(b, stages)[1] = b
    BY <1>4, <2>1, ChainElements
  <2>3. Chain(b, stages) # Unset
    BY <2>1, <2>2 DEF Unset
  <2>4. Null # Unset /\ Undefined # Unset
    <3>1. Len(<<>>) = 0 /\ Len(<<0>>) = 1 /\ <<0>>[1] = 0 /\ <<-1>>[1] = -1
      OBVIOUS
    <3>2. QED
      BY <3>1 DEF Null, Undefined, Unset
  <2>5. Expected(b) \in {Undefined, Null, Chain(b, stages)}
    BY DEF Expected, Chain
  <2>6. QED
    BY <2>3, <2>4, <2>5
<1>6. IsFiniteSet(Started) /\ Cardinality(Started) = Len(entries)
  BY <1>2, <1>3, FS_Interval
<1>7. QED
  BY <1>1, <1>2, <1>3, <1>4, <1>5, <1>6

\* TypeOK and Expected in terms of chains.
Values(b) == {Null, Undefined} \cup {Chain(b, s) : s \in 0 .. stages}

Typed ==
    /\ kind \in Kinds
    /\ entries \in UNION {[1 .. n -> Entries] : n \in 0 .. Width}
    /\ stages \in {1} \cup 0 .. MaxStages
    /\ DOMAIN place = Started
    /\ \A b \in Started :
          place[b] \in Places /\ stageIndex[b] \in 0 .. stages /\ previous[b] \in Values(b)
    /\ failed \subseteq Started
    /\ DOMAIN results = Started
    /\ remaining \in 0 .. Len(entries)
    /\ outcome \in {"none", "threw", "pending", "resolved", "rejected"}

LEMMA ChainTypes == (TypeOK <=> Typed) /\ (TypeOK' <=> Typed')
  BY DEF TypeOK, Typed, Values, Chain, Started

LEMMA ExpectedIs ==
    \A b : Expected(b) = IF entries[b] = "hole" THEN Undefined
                         ELSE IF b \in failed THEN Null ELSE Chain(b, stages)
  BY DEF Expected, Chain

\* What the stage under way has produced, when it has, is one stage further.
LEMMA ProducedIs ==
    ASSUME CombinatorsInv, NEW b \in Started, place[b] = "queued", stageIndex[b] # 0
    PROVE  Produced(b) = Chain(b, stageIndex[b])
<1>1. b \in Nat /\ stageIndex[b] - 1 \in Nat /\ (stageIndex[b] - 1) + 1 = stageIndex[b]
  <2>1. TypeOK
    BY DEF CombinatorsInv
  <2>2. b \in Nat
    BY <2>1, CallFacts
  <2>3. stageIndex[b] \in Nat
    BY <2>1, CallFacts, ChainTypes DEF Typed
  <2>4. QED
    BY <2>2, <2>3
<1>2. previous[b] = Chain(b, stageIndex[b] - 1)
  BY DEF CombinatorsInv, BranchInv, UnderWay, Carried
<1>3. PICK s \in Nat : s = stageIndex[b] - 1 /\ stageIndex[b] = s + 1
  BY <1>1
<1>4. Append(Chain(b, s), s + 1) = Chain(b, s + 1)
  BY <1>1, <1>3, ChainGrows
<1>5. QED
  BY <1>2, <1>3, <1>4 DEF Produced

-----------------------------------------------------------------------------
(* One lemma for each kind of step.                                        *)

LEMMA CombinatorsInit == Init => CombinatorsInv
<1> SUFFICES ASSUME Init PROVE CombinatorsInv
  OBVIOUS
<1>1. PICK n \in 0 .. Width :
         entries \in [1 .. n -> IF kind = "parallel" THEN {"function"} ELSE Entries \ {"function"}]
  BY DEF Init
<1>2. Width \in Nat /\ MaxStages \in Nat
  BY CombinatorBounds
<1>3. entries \in [1 .. n -> Entries]
  BY <1>1 DEF Entries
<1>4. Len(entries) = n /\ Started = 1 .. n /\ n \in Nat
  BY <1>1, <1>2 DEF Started
<1>5. \A b \in Started : Chain(b, 0) = <<b>>
  BY <1>4, ChainStarts
<1>6. /\ stages \in {1} \cup 0 .. MaxStages
      /\ stages \in Nat /\ 0 \in 0 .. stages
  BY <1>2 DEF Init
<1>7. TypeOK
  <2>1. \A b \in Started : previous[b] \in Values(b)
    BY <1>5, <1>6 DEF Init, Values, Started
  <2>2. entries \in UNION {[1 .. m -> Entries] : m \in 0 .. Width}
    BY <1>3
  <2>3. QED
    BY <1>4, <1>6, <2>1, <2>2, ChainTypes DEF Typed, Init, Places, Started, Kinds
<1>8. CallInv
  BY <1>1, <1>4 DEF Init, CallInv, Started
<1>9. BranchInv
  BY <1>5 DEF Init, BranchInv, Carried, UnderWay, Started
<1>10. JoinInv /\ SlotsKeepInput
  <2>1. Empty = Started
    BY DEF Init, Empty, Started
  <2>2. remaining = Cardinality(Empty)
    BY <1>4, <1>7, <2>1, CallFacts DEF Init
  <2>3. QED
    BY <2>1, <2>2 DEF Init, JoinInv, SlotsKeepInput, Started
<1>11. FailureStaysInBranch
  BY DEF Init, FailureStaysInBranch
<1>12. QED
  BY <1>7, <1>8, <1>9, <1>10, <1>11 DEF CombinatorsInv

\* A step of a branch that leaves allValues alone.
LEMMA BranchFrame ==
    ASSUME CombinatorsInv, NEW b \in Started,
           place[b] \notin {"uncalled", "settled", "counted"},
           UNCHANGED <<callVars, joinVars>>,
           NEW where \in Places \ {"counted"}, Goto(b, where),
           failed' \in {failed, failed \cup {b}}
    PROVE  CallInv' /\ JoinInv' /\ SlotsKeepInput' /\ FailureStaysInBranch'
<1> USE DEF callVars, joinVars, Goto, Started
<1>1. outcome # "none"
  BY DEF CombinatorsInv, CallInv
<1>2. CallInv'
  BY <1>1 DEF CombinatorsInv, CallInv
<1>3. Empty' = Empty /\ b \in Empty
  BY DEF Empty, CombinatorsInv, JoinInv
<1>4. JoinInv'
  BY <1>3, ChainTypes DEF Typed, CombinatorsInv, JoinInv
<1>5. SlotsKeepInput'
  BY <1>3, ExpectedIs DEF CombinatorsInv, SlotsKeepInput, Expected, Empty
<1>6. FailureStaysInBranch'
  BY DEF CombinatorsInv, FailureStaysInBranch
<1>7. QED
  BY <1>2, <1>4, <1>5, <1>6

LEMMA BranchSteps ==
    ASSUME CombinatorsInv, NEW b \in Started,
           Settle(b) \/ (\E how \in Outcomes : CallNext(b, how)) \/ Return(b) \/ Catch(b)
    PROVE  CombinatorsInv'
<1> USE DEF Goto
<1>0. /\ stages \in Nat /\ b \in Nat
      /\ stageIndex[b] \in 0 .. stages /\ place[b] \in Places
      /\ DOMAIN place = Started /\ DOMAIN stageIndex = Started /\ DOMAIN previous = Started
  BY CallFacts, ChainTypes DEF Typed, CombinatorsInv, BranchInv
<1>1. CASE Fulfil(b)
  <2> DEFINE where == IF stages = 0 THEN "settled" ELSE "queued"
  <2>1. /\ place[b] = "pending" /\ Goto(b, where)
        /\ UNCHANGED <<callVars, joinVars, stageIndex, previous, failed>>
    BY <1>1 DEF Fulfil
  <2>2. CallInv' /\ JoinInv' /\ SlotsKeepInput' /\ FailureStaysInBranch'
    BY <2>1, BranchFrame DEF Places
  <2>3. TypeOK'
    BY <1>0, <2>1, ChainTypes DEF Typed, CombinatorsInv, callVars, joinVars, Places, Values, Started
  \* Without stages the branch ends with the item itself.
  <2>4. stages = 0 => previous[b] = Expected(b)
    <3>1. ASSUME stages = 0
          PROVE  previous[b] = Chain(b, 0) /\ entries[b] = "promise" /\ b \notin failed
      BY <1>0, <2>1, <3>1 DEF CombinatorsInv, BranchInv, UnderWay, Carried
    <3>2. QED
      BY <3>1, ExpectedIs
  <2>5. BranchInv'
    BY <1>0, <2>1, <2>4
    DEF CombinatorsInv, BranchInv, UnderWay, Carried, callVars, joinVars, Started, Expected
  <2>6. QED
    BY <2>2, <2>3, <2>5 DEF CombinatorsInv
<1>2. CASE Reject(b)
  <2> DEFINE where == IF stages = 0 THEN "broken" ELSE "rejected"
  <2>1. /\ place[b] = "pending" /\ Goto(b, where) /\ failed' = failed \cup {b}
        /\ UNCHANGED <<callVars, joinVars, stageIndex, previous>>
    BY <1>2 DEF Reject
  <2>2. CallInv' /\ JoinInv' /\ SlotsKeepInput' /\ FailureStaysInBranch'
    BY <2>1, BranchFrame DEF Places
  <2>3. TypeOK'
    BY <1>0, <2>1, ChainTypes DEF Typed, CombinatorsInv, callVars, joinVars, Places, Values, Started
  <2>4. BranchInv'
    BY <1>0, <2>1
    DEF CombinatorsInv, BranchInv, UnderWay, Carried, callVars, joinVars, Started, Expected
  <2>5. QED
    BY <2>2, <2>3, <2>4 DEF CombinatorsInv
<1>3. ASSUME NEW how \in Outcomes, CallNext(b, how)
      PROVE  CombinatorsInv'
  <2>1. /\ place[b] = "queued" /\ stageIndex[b] < stages
        /\ Goto(b, PlaceAfter(how))
        /\ failed' = IF how = "throw" THEN failed \cup {b} ELSE failed
        /\ stageIndex' = [stageIndex EXCEPT ![b] = @ + 1]
        /\ previous' = [previous EXCEPT ![b] = IF stageIndex[b] = 0 THEN @ ELSE Produced(b)]
        /\ UNCHANGED <<callVars, joinVars>>
    BY <1>3 DEF CallNext
  <2>2. /\ PlaceAfter(how) \in {"queued", "pending", "hung", "rejected"}
        /\ PlaceAfter(how) = "rejected" <=> how = "throw"
    BY <1>3 DEF Outcomes, PlaceAfter
  <2>3. CallInv' /\ JoinInv' /\ SlotsKeepInput' /\ FailureStaysInBranch'
    BY <2>1, <2>2, BranchFrame DEF Places
  \* What the stage before it produced is passed on.
  <2>4. previous'[b] = Chain(b, stageIndex[b]) /\ stageIndex'[b] = stageIndex[b] + 1
    <3>1. CASE stageIndex[b] = 0
      BY <1>0, <2>1, <3>1 DEF CombinatorsInv, BranchInv, UnderWay, Carried
    <3>2. CASE stageIndex[b] # 0
      BY <1>0, <2>1, <3>2, ProducedIs
    <3>3. QED
      BY <3>1, <3>2
  <2>5. TypeOK'
    <3>1. stageIndex'[b] \in 0 .. stages /\ previous'[b] \in Values(b)
      BY <1>0, <2>1, <2>4 DEF Values
    <3>2. QED
      BY <1>0, <2>1, <2>2, <3>1, ChainTypes
      DEF Typed, CombinatorsInv, callVars, joinVars, Places, Values, Started
  <2>6. Carried(b)' = Chain(b, stageIndex[b])
    BY <1>0, <2>4 DEF Carried
  <2>7. BranchInv'
    <3>1. /\ Started' = Started /\ stages > 0 /\ entries[b] # "hole" /\ b \notin failed
          /\ UNCHANGED <<kind, entries, stages>>
      BY <1>0, <2>1 DEF CombinatorsInv, BranchInv, callVars, Started
    <3>2. /\ DOMAIN stageIndex' = Started /\ DOMAIN previous' = Started
          /\ previous'[b] = Carried(b)'
          /\ place'[b] = PlaceAfter(how)
          /\ b \in failed' <=> how = "throw"
      BY <1>0, <2>1, <2>4, <2>6, <3>1
    <3>3. ASSUME NEW c \in Started, c # b
          PROVE  /\ place'[c] = place[c] /\ previous'[c] = previous[c]
                 /\ Carried(c)' = Carried(c) /\ Expected(c)' = Expected(c)
                 /\ c \in failed' <=> c \in failed
      BY <1>0, <2>1, <3>1, <3>3 DEF Carried, Expected
    <3>4. QED
      BY <2>2, <3>1, <3>2, <3>3 DEF CombinatorsInv, BranchInv, UnderWay
  <2>8. QED
    BY <2>3, <2>5, <2>7 DEF CombinatorsInv
<1>4. CASE Return(b)
  <2>1. /\ place[b] = "queued" /\ stageIndex[b] = stages /\ Goto(b, "settled")
        /\ previous' = [previous EXCEPT ![b] = Produced(b)]
        /\ UNCHANGED <<callVars, joinVars, stageIndex, failed>>
    BY <1>4 DEF Return
  <2>2. CallInv' /\ JoinInv' /\ SlotsKeepInput' /\ FailureStaysInBranch'
    BY <2>1, BranchFrame DEF Places
  <2>3. stages > 0 /\ entries[b] # "hole" /\ b \notin failed
    BY <2>1 DEF CombinatorsInv, BranchInv
  <2>4. previous'[b] = Chain(b, stages)
    BY <1>0, <2>1, <2>3, ProducedIs
  <2>5. TypeOK'
    <3>1. previous'[b] \in Values(b)
      BY <1>0, <2>4 DEF Values
    <3>2. QED
      BY <1>0, <2>1, <3>1, ChainTypes
      DEF Typed, CombinatorsInv, callVars, joinVars, Places, Values, Started
  <2>6. previous'[b] = Expected(b)
    BY <2>3, <2>4, ExpectedIs
  <2>7. BranchInv'
    BY <1>0, <2>1, <2>6
    DEF CombinatorsInv, BranchInv, UnderWay, Carried, callVars, joinVars, Started, Expected
  <2>8. QED
    BY <2>2, <2>5, <2>7 DEF CombinatorsInv
<1>5. CASE Catch(b)
  <2>1. /\ place[b] = "rejected" /\ Goto(b, "settled")
        /\ previous' = [previous EXCEPT ![b] = Null]
        /\ UNCHANGED <<callVars, joinVars, stageIndex, failed>>
    BY <1>5 DEF Catch
  <2>2. CallInv' /\ JoinInv' /\ SlotsKeepInput' /\ FailureStaysInBranch'
    BY <2>1, BranchFrame DEF Places
  <2>3. TypeOK'
    BY <1>0, <2>1, ChainTypes DEF Typed, CombinatorsInv, callVars, joinVars, Places, Values, Started
  \* null is what the slot of a branch that failed must hold.
  <2>4. Expected(b) = Null
    BY <2>1, ExpectedIs DEF CombinatorsInv, BranchInv
  <2>5. BranchInv'
    BY <1>0, <2>1, <2>4
    DEF CombinatorsInv, BranchInv, UnderWay, Carried, callVars, joinVars, Started, Expected
  <2>6. QED
    BY <2>2, <2>3, <2>5 DEF CombinatorsInv
<1>6. QED
  BY <1>1, <1>2, <1>3, <1>4, <1>5 DEF Settle

\* The call: until then no branch has begun and no slot is filled.
LEMMA CallSteps ==
    ASSUME CombinatorsInv, Call
    PROVE  CombinatorsInv'
<1>1. /\ outcome = "none" /\ failed = {}
      /\ \A b \in Started : place[b] = "uncalled" /\ stageIndex[b] = 0 /\ previous[b] = Chain(b, 0)
      /\ \A b \in Started : b \in Empty
      /\ stages \in Nat
      /\ DOMAIN stageIndex = Started /\ DOMAIN previous = Started
      /\ UNCHANGED <<kind, entries, stages, results, remaining>>
  BY CallFacts
  DEF Call, TooMany, CallParallel, CallPipeline, CombinatorsInv, CallInv, BranchInv, JoinInv,
      UnderWay, Carried
<1>2. Started' = Started /\ Empty' = Empty
  BY <1>1 DEF Started, Empty
<1>3. CASE TooMany
  <2>1. /\ UNCHANGED <<place, stageIndex, previous, failed>> /\ outcome' = "threw"
    BY <1>3 DEF TooMany
  <2>2. TypeOK'
    BY <1>1, <1>2, <2>1, ChainTypes DEF Typed, Values, CombinatorsInv
  <2>3. QED
    BY <1>1, <1>2, <2>1, <2>2
    DEF CombinatorsInv, CallInv, BranchInv, JoinInv, UnderWay, Carried, Expected, SlotsKeepInput,
        FailureStaysInBranch
\* With no branch there is nothing to wait for.
<1>4. ASSUME Joined
      PROVE  /\ outcome' \in {"pending", "resolved"}
             /\ outcome' = "resolved" => Started = {} /\ Empty = {}
             /\ outcome' = "pending" => Empty # {}
  <2>1. Started = 1 .. Len(entries) /\ Len(entries) \in Nat
    BY CallFacts DEF CombinatorsInv
  <2>2. entries = <<>> <=> Started = {}
    BY <2>1 DEF Started
  <2>3. QED
    BY <1>1, <1>4, <2>2 DEF Joined, Started, Empty
<1>5. ASSUME Joined, failed' \subseteq Started, \A b \in Started : place'[b] # "counted"
      PROVE  JoinInv' /\ SlotsKeepInput' /\ FailureStaysInBranch'
  <2>1. SlotsKeepInput'
    BY <1>1, <1>2, <1>4, <1>5 DEF SlotsKeepInput, Empty
  <2>2. JoinInv'
    BY <1>1, <1>2, <1>4, <1>5 DEF CombinatorsInv, JoinInv
  <2>3. QED
    BY <1>4, <1>5, <2>1, <2>2 DEF FailureStaysInBranch
<1>6. CASE CallParallel
  <2>1. /\ kind = "parallel" /\ place' = [b \in Started |-> "queued"] /\ Joined
        /\ UNCHANGED <<stageIndex, previous, failed>>
    BY <1>6 DEF CallParallel
  <2>2. stages = 1 /\ \A b \in Started : entries[b] # "hole"
    BY <2>1 DEF CombinatorsInv, CallInv
  <2>3. TypeOK'
    BY <1>1, <1>2, <1>4, <2>1, ChainTypes DEF Typed, Values, CombinatorsInv, Places
  <2>4. CallInv'
    BY <1>1, <1>2, <1>4, <2>1 DEF CombinatorsInv, CallInv
  <2>5. BranchInv'
    BY <1>1, <1>2, <2>1, <2>2 DEF BranchInv, UnderWay, Carried
  <2>6. QED
    BY <1>1, <1>5, <2>1, <2>3, <2>4, <2>5 DEF CombinatorsInv
<1>7. CASE CallPipeline
  <2>1. PICK how \in [Started -> Outcomes] :
           /\ stages = 0 => \A b \in Started : how[b] = "value"
           /\ place' = [b \in Started |->
                 CASE entries[b] = "hole" -> "settled"
                   [] stages > 0 /\ entries[b] # "hole" -> PlaceAfter(how[b])
                   [] stages = 0 /\ entries[b] = "value" -> "settled"
                   [] stages = 0 /\ entries[b] = "promise" -> "pending"]
           /\ failed' = {b \in Started : entries[b] # "hole" /\ how[b] = "throw"}
    BY <1>7 DEF CallPipeline
  <2>2. /\ kind = "pipeline" /\ Joined
        /\ stageIndex' = [b \in Started |-> IF entries[b] = "hole" \/ stages = 0 THEN 0 ELSE 1]
        /\ previous' = [b \in Started |-> IF entries[b] = "hole" THEN Undefined ELSE previous[b]]
    BY <1>7 DEF CallPipeline
  <2>3. \A b \in Started : entries[b] \in {"value", "promise", "hole"}
    BY <2>2, CallFacts DEF CombinatorsInv, CallInv, Entries
  <2>4. ASSUME NEW b \in Started
        PROVE  /\ entries[b] = "hole" => place'[b] = "settled"
               /\ entries[b] # "hole" /\ stages = 0 =>
                     place'[b] = IF entries[b] = "value" THEN "settled" ELSE "pending"
               /\ entries[b] # "hole" /\ stages > 0 =>
                     /\ place'[b] \in {"queued", "pending", "hung", "rejected"}
                     /\ place'[b] = "rejected" <=> how[b] = "throw"
    <3>1. /\ PlaceAfter(how[b]) \in {"queued", "pending", "hung", "rejected"}
          /\ PlaceAfter(how[b]) = "rejected" <=> how[b] = "throw"
      BY DEF Outcomes, PlaceAfter
    <3>2. QED
      BY <1>1, <2>1, <2>3, <3>1
  <2>5. \A b \in failed' : b \in Started /\ entries[b] # "hole" /\ stages > 0 /\ how[b] = "throw"
    BY <1>1, <2>1
  <2>6. TypeOK'
    <3>1. \A b \in Started : place'[b] \in Places
      BY <1>1, <2>3, <2>4 DEF Places
    <3>2. \A b \in Started : stageIndex'[b] \in 0 .. stages
      BY <1>1, <2>2
    <3>3. \A b \in Started : previous'[b] \in Values(b)
      BY <1>1, <2>2 DEF Values
    <3>4. DOMAIN place' = Started /\ failed' \subseteq Started
      BY <2>1
    <3>5. QED
      BY <1>1, <1>2, <1>4, <2>2, <3>1, <3>2, <3>3, <3>4, ChainTypes
      DEF Typed, Values, CombinatorsInv
  <2>7. CallInv'
    BY <1>1, <1>2, <1>4, <2>2 DEF CombinatorsInv, CallInv
  <2>8. BranchInv'
    <3>1. ASSUME NEW b \in Started, entries[b] # "hole"
          PROVE  previous'[b] = Chain(b, 0) /\ Carried(b)' = Chain(b, 0)
      BY <1>1, <2>2, <3>1 DEF Carried
    \* What settles within the call: a hole, and an item without stages.
    <3>2. ASSUME NEW b \in Started, place'[b] = "settled"
          PROVE  previous'[b] = Expected(b)'
      <4>1. b \notin failed' /\ (entries[b] # "hole" => stages = 0)
        BY <1>1, <2>4, <2>5, <3>2
      <4>2. Expected(b)' = IF entries[b] = "hole" THEN Undefined ELSE Chain(b, stages)
        BY <1>1, <4>1 DEF Expected, Chain
      <4>3. QED
        BY <2>2, <3>1, <4>1, <4>2
    <3>3. QED
      BY <1>1, <1>2, <2>1, <2>2, <2>3, <2>4, <2>5, <3>1, <3>2 DEF BranchInv, UnderWay
  <2>9. ASSUME NEW b \in Started
        PROVE  place'[b] # "counted"
    <3>1. \/ entries[b] = "hole" /\ place'[b] = "settled"
          \/ place'[b] \in {"settled", "queued", "pending", "hung", "rejected"}
      <4>1. stages = 0 \/ stages > 0
        BY <1>1
      <4>2. QED
        BY <2>4, <4>1
    <3>2. QED
      BY <3>1
  <2>10. QED
    BY <1>5, <2>1, <2>2, <2>6, <2>7, <2>8, <2>9 DEF CombinatorsInv
<1>8. QED
  BY <1>3, <1>6, <1>7 DEF Call

\* The reactions of allValues: a slot is filled once, with the value of its branch.
LEMMA JoinSteps ==
    ASSUME CombinatorsInv, NEW b \in Started, Collect(b) \/ JoinRejects(b)
    PROVE  CombinatorsInv'
<1> USE DEF Goto
<1>1. /\ place[b] \in {"settled", "broken"} /\ b \in Empty
      /\ outcome # "none" /\ DOMAIN place = Started /\ DOMAIN results = Started
      /\ place' = [place EXCEPT ![b] = "counted"]
      /\ UNCHANGED <<kind, entries, stages, stageIndex, previous, failed>>
  BY ChainTypes
  DEF Collect, JoinRejects, CombinatorsInv, CallInv, JoinInv, Typed, callVars
<1>2. Started' = Started /\ \A c \in Started : Expected(c)' = Expected(c)
  BY <1>1 DEF Started, Expected
<1>3. CallInv'
  BY <1>1, <1>2 DEF Collect, JoinRejects, CombinatorsInv, CallInv
<1>4. BranchInv'
  BY <1>1, <1>2 DEF CombinatorsInv, BranchInv, UnderWay, Carried
<1>5. IsFiniteSet(Empty) /\ Cardinality(Empty) \in Nat /\ Cardinality(Empty) <= Len(entries)
  BY CallFacts, FS_Subset, FS_CardinalityType DEF CombinatorsInv, Empty
<1>6. CASE Collect(b)
  <2>1. /\ place[b] = "settled"
        /\ results' = [results EXCEPT ![b] = previous[b]]
        /\ remaining' = remaining - 1
        /\ outcome' = IF outcome = "pending" /\ remaining' = 0 THEN "resolved" ELSE outcome
    BY <1>6 DEF Collect
  <2>2. previous[b] = Expected(b) /\ Expected(b) # Unset
    BY <2>1, CallFacts DEF CombinatorsInv, BranchInv
  <2>3. Empty' = Empty \ {b}
    BY <1>1, <1>2, <2>1, <2>2 DEF Empty
  <2>4. /\ IsFiniteSet(Empty') /\ Cardinality(Empty') = Cardinality(Empty) - 1
        /\ Cardinality(Empty') \in Nat
        /\ Cardinality(Empty') = 0 => Empty' = {}
    BY <1>1, <1>5, <2>3, FS_RemoveElement, FS_EmptySet, FS_CardinalityType
  <2>5. remaining' = Cardinality(Empty')
    BY <2>1, <2>4 DEF CombinatorsInv, JoinInv
  <2>6. JoinInv'
    \* While the call waits every reaction that has run has filled its slot.
    <3>1. ASSUME outcome' = "pending"
          PROVE  Empty' # {} /\ \A c \in Started : place'[c] = "counted" => c \notin Empty'
      <4>1. outcome = "pending" /\ remaining' # 0
        BY <2>1, <3>1
      <4>2. \A c \in Started : place[c] = "counted" => c \notin Empty
        BY <4>1 DEF CombinatorsInv, JoinInv
      <4>3. Empty' # {}
        BY <2>5, <4>1, FS_EmptySet
      <4>4. QED
        BY <1>1, <2>3, <4>2, <4>3
    <3>2. QED
      BY <1>1, <1>2, <2>1, <2>3, <2>4, <2>5, <3>1 DEF CombinatorsInv, JoinInv
  <2>7. SlotsKeepInput'
    <3>1. \A c \in Started : results'[c] \in {Unset, Expected(c)}
      BY <1>1, <2>1, <2>2 DEF CombinatorsInv, SlotsKeepInput
    <3>2. outcome' = "resolved" => \A c \in Started : results'[c] # Unset
      BY <1>2, <2>6 DEF JoinInv, Empty
    <3>3. QED
      BY <1>2, <3>1, <3>2 DEF SlotsKeepInput
  <2>8. FailureStaysInBranch'
    BY <1>1, <2>1 DEF CombinatorsInv, FailureStaysInBranch
  <2>9. TypeOK'
    <3>1. remaining' \in 0 .. Len(entries)
      BY <1>5, <2>4, <2>5, CallFacts DEF CombinatorsInv
    <3>2. QED
      BY <1>1, <1>2, <2>1, <3>1, ChainTypes DEF Typed, Values, CombinatorsInv, Places
  <2>10. QED
    BY <1>3, <1>4, <2>6, <2>7, <2>8, <2>9 DEF CombinatorsInv
<1>7. CASE JoinRejects(b)
  <2>1. /\ place[b] = "broken"
        /\ outcome' = IF outcome = "pending" THEN "rejected" ELSE outcome
        /\ UNCHANGED <<results, remaining>>
    BY <1>7 DEF JoinRejects
  <2>2. Empty' = Empty
    BY <1>2, <2>1 DEF Empty
  <2>3. JoinInv' /\ SlotsKeepInput'
    BY <1>1, <1>2, <2>1, <2>2 DEF CombinatorsInv, JoinInv, SlotsKeepInput
  <2>4. FailureStaysInBranch'
    BY <1>1, <2>1 DEF CombinatorsInv, BranchInv, FailureStaysInBranch, Started
  <2>5. TypeOK'
    BY <1>1, <1>2, <2>1, ChainTypes DEF Typed, Values, CombinatorsInv, Places
  <2>6. QED
    BY <1>3, <1>4, <2>3, <2>4, <2>5 DEF CombinatorsInv
<1>8. QED
  BY <1>6, <1>7

LEMMA CombinatorsStutter ==
    ASSUME CombinatorsInv, UNCHANGED vars
    PROVE  CombinatorsInv'
  BY DEF vars, CombinatorsInv, TypeOK, CallInv, BranchInv, JoinInv, SlotsKeepInput,
         FailureStaysInBranch, UnderWay, Carried, Expected, Empty, Started

LEMMA CombinatorsStep == CombinatorsInv /\ [Next]_vars => CombinatorsInv'
  BY CallSteps, BranchSteps, JoinSteps, CombinatorsStutter DEF Next, Job

-----------------------------------------------------------------------------
(* The theorems.                                                           *)

LEMMA CombinatorsAlways == Spec => []CombinatorsInv
  BY CombinatorsInit, CombinatorsStep, PTL DEF Spec

\* The state of a call of parallel or pipeline is well typed.
THEOREM CombinatorsTypeCorrect == Spec => []TypeOK
<1>1. CombinatorsInv => TypeOK
  BY DEF CombinatorsInv
<1>2. QED
  BY <1>1, CombinatorsAlways, PTL

\* Each slot of the answer holds the value of its own branch, in any order of events,
\* and none is empty when the answer is given.
THEOREM SlotsAlwaysKeepInput == Spec => []SlotsKeepInput
<1>1. CombinatorsInv => SlotsKeepInput
  BY DEF CombinatorsInv
<1>2. QED
  BY <1>1, CombinatorsAlways, PTL

\* Only a pipeline without stages ever rejects, for an item that was rejected.
THEOREM FailureAlwaysStaysInBranch == Spec => []FailureStaysInBranch
<1>1. CombinatorsInv => FailureStaysInBranch
  BY DEF CombinatorsInv
<1>2. QED
  BY <1>1, CombinatorsAlways, PTL

\* An answer is never lost: a call that is not answered has a branch left whose
\* reaction has not run.  No order of events, and no array, not the empty one
\* either, leaves allValues waiting for nothing (the safety half of Answers).
WaitsForABranch == outcome = "pending" => \E b \in Started : place[b] # "counted"

\* allValues answers with its last reaction at the latest.
THEOREM AlwaysWaitsForABranch == Spec => []WaitsForABranch
<1>1. CombinatorsInv => WaitsForABranch
  BY DEF CombinatorsInv, JoinInv, WaitsForABranch, Empty
<1>2. QED
  BY <1>1, CombinatorsAlways, PTL

\* A branch whose user code has failed calls none again.
THEOREM FailedBranchSkips == Spec => SkipsAfterFailure
<1>1. ASSUME CombinatorsInv, [Next]_vars
      PROVE  [\A b \in failed : stageIndex'[b] = stageIndex[b]]_vars
  <2>1. CASE Call
    BY <1>1, <2>1
    DEF Call, TooMany, CallParallel, CallPipeline, CombinatorsInv, CallInv
  <2>2. ASSUME NEW b \in Started, NEW how \in Outcomes, CallNext(b, how)
        PROVE  \A c \in failed : stageIndex'[c] = stageIndex[c]
    <3>1. b \notin failed
      BY <1>1, <2>2 DEF CallNext, CombinatorsInv, BranchInv
    <3>2. \A c \in failed : c \in Started
      BY <1>1, ChainTypes DEF Typed, CombinatorsInv
    <3>3. QED
      BY <1>1, <2>2, <3>1, <3>2 DEF CallNext, CombinatorsInv, BranchInv
  <2>3. ASSUME NEW b \in Started, Settle(b) \/ Return(b) \/ Catch(b) \/ Collect(b) \/ JoinRejects(b)
        PROVE  UNCHANGED stageIndex
    BY <2>3 DEF Settle, Fulfil, Reject, Return, Catch, Collect, JoinRejects
  <2>4. QED
    BY <1>1, <2>1, <2>2, <2>3 DEF Next, Job
<1>2. QED
  BY <1>1, CombinatorsAlways, PTL DEF Spec, SkipsAfterFailure
=============================================================================
