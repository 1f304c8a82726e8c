----------------------------- MODULE ArgvProofs ------------------------------
(***************************************************************************)
(* Proofs about command lines, whatever the texts are, as far as FlagTexts *)
(* says what they are: the validator accepts exactly the well formed ones, *)
(* and the builder refuses exactly the requests with a part that is not    *)
(* allowed.  The order: the second loop of the validator as a sequence of  *)
(* turns; what the turns have seen; the validator; the builder.            *)
(***************************************************************************)
EXTENDS Argv, TLAPS, FiniteSetTheorems, SequenceTheorems, WellFoundedInduction

-----------------------------------------------------------------------------
(* The turns of the loop.                                                  *)

\* A set of numbers that has 0 and the successor of each of its members has all.
LEMMA AllNumbers ==
  ASSUME NEW S, 0 \in S, \A n \in Nat : n \in S => n + 1 \in S
  PROVE  Nat \subseteq S
<1> DEFINE T == Nat \ S
           R == OpToRel(<, Nat)
<1> SUFFICES ASSUME T # {} PROVE FALSE
  OBVIOUS
<1>1. IsWellFoundedOn(R, Nat)
  BY NatLessThanWellFounded
<1>2. ASSUME NEW m \in Nat, NEW n \in Nat, m < n
      PROVE  <<m, n>> \in R
  <2>1. <<m, n>>[1] < <<m, n>>[2] /\ <<m, n>> \in Nat \X Nat
    BY <1>2
  <2>2. QED
    BY <2>1 DEF OpToRel
<1> HIDE DEF R
<1>3. PICK x \in T : \A y \in T : ~ (<<y, x>> \in R)
  BY <1>1, WFMin
<1>4. x # 0 /\ x - 1 \in Nat /\ x - 1 < x
  OBVIOUS
<1>5. x - 1 \in S
  BY <1>2, <1>3, <1>4
<1>6. QED
  BY <1>4, <1>5

Turns(line, authorized, m) ==
    CHOOSE turn : turn = [n \in 0 .. m |->
                             IF n = 0 THEN LoopStart ELSE FlagTurn(line, turn[n - 1], authorized)]

\* m turns of the loop, one after the other.
LEMMA TurnsExist ==
  ASSUME NEW line, NEW authorized, NEW m \in Nat
  PROVE  \E turn : turn = [n \in 0 .. m |->
                              IF n = 0 THEN LoopStart ELSE FlagTurn(line, turn[n - 1], authorized)]
<1> DEFINE Are(turn, k) ==
               turn = [n \in 0 .. k |->
                          IF n = 0 THEN LoopStart ELSE FlagTurn(line, turn[n - 1], authorized)]
           S == {k \in Nat : \E turn : Are(turn, k)}
<1>1. 0 \in S
  <2>1. Are([n \in 0 .. 0 |-> LoopStart], 0)
    OBVIOUS
  <2>2. QED
    BY <2>1
<1>2. ASSUME NEW k \in Nat, k \in S
      PROVE  k + 1 \in S
  <2>1. PICK turn : Are(turn, k)
    BY <1>2
  <2> DEFINE more == [n \in 0 .. k + 1 |->
                         IF n = k + 1 THEN FlagTurn(line, turn[k], authorized) ELSE turn[n]]
  <2>2. \A n \in 0 .. k : more[n] = turn[n]
    OBVIOUS
  <2>3. ASSUME NEW n \in 0 .. k + 1
        PROVE  more[n] = IF n = 0 THEN LoopStart ELSE FlagTurn(line, more[n - 1], authorized)
    <3>1. CASE n = k + 1
      <4>1. n - 1 \in 0 .. k /\ n - 1 = k /\ n # 0
        BY <3>1
      <4>2. more[n] = FlagTurn(line, turn[k], authorized)
        BY <3>1
      <4>3. QED
        BY <4>1, <4>2, <2>2
    <3>2. CASE n # k + 1 /\ n # 0
      <4>1. n \in 0 .. k /\ n - 1 \in 0 .. k
        BY <3>2
      <4>2. turn[n] = FlagTurn(line, turn[n - 1], authorized)
        BY <2>1, <3>2, <4>1
      <4>3. QED
        BY <2>2, <3>2, <4>1, <4>2
    <3>3. CASE n = 0
      <4>1. n \in 0 .. k
        BY <3>3
      <4>2. turn[n] = LoopStart
        BY <2>1, <3>3, <4>1
      <4>3. QED
        BY <2>2, <3>3, <4>1, <4>2
    <3>4. QED
      BY <3>1, <3>2, <3>3
  <2>4. Are(more, k + 1)
    BY <2>3
  <2> HIDE DEF more, Are
  <2>5. QED
    BY <2>4
<1>3. m \in S
  BY <1>1, <1>2, AllNumbers
<1>4. QED
  BY <1>3

\* The loop ends with the last of its turns.
LEMMA LoopTurns ==
  ASSUME NEW line, Len(line) \in Nat, NEW authorized
  PROVE  \E turn : /\ turn[0] = LoopStart
                   /\ \A n \in 1 .. Len(line) : turn[n] = FlagTurn(line, turn[n - 1], authorized)
                   /\ FlagLoop(line, authorized) = turn[Len(line)]
<1> DEFINE turn == Turns(line, authorized, Len(line))
<1>1. turn = [n \in 0 .. Len(line) |->
                 IF n = 0 THEN LoopStart ELSE FlagTurn(line, turn[n - 1], authorized)]
  BY TurnsExist DEF Turns
<1>2. FlagLoop(line, authorized) = turn[Len(line)]
  BY DEF FlagLoop, Turns
<1> HIDE DEF turn
<1>3. turn[0] = LoopStart
  BY <1>1
<1>4. \A n \in 1 .. Len(line) : turn[n] = FlagTurn(line, turn[n - 1], authorized)
  BY <1>1
<1>5. QED
  BY <1>2, <1>3, <1>4

-----------------------------------------------------------------------------
(* What the turns have seen.                                               *)

\* The first m flags of a line, with their values: each allowed, no two the same.
PairsAllowed(line, m, authorized) ==
    /\ \A k \in 1 .. m :
          /\ 2 * k + 2 <= Len(line)
          /\ line[2 * k + 1] \in Flags
          /\ ValueAllowed(line[2 * k + 1], line[2 * k + 2], authorized)
          /\ line[2 * k + 1] # "-c" => ~StartsWithDash(line[2 * k + 2])
    /\ \A k, l \in 1 .. m : line[2 * k + 1] = line[2 * l + 1] => k = l

\* They are what the loop has kept.
PairsSeen(line, m, seen) ==
    /\ DOMAIN seen = {line[2 * k + 1] : k \in 1 .. m}
    /\ \A k \in 1 .. m : seen[line[2 * k + 1]] = line[2 * k + 2]

\* After m flags.
Reached(line, was, m, authorized) ==
    /\ was.at = 2 * m + 3
    /\ PairsAllowed(line, m, authorized)
    /\ PairsSeen(line, m, was.seen)

\* A turn where the loop has ended changes nothing.
LEMMA TurnEnds ==
  ASSUME NEW line, NEW was, NEW authorized,
         ~was.ok \/ was.at > Len(line) \/ ~StartsWithDash(line[was.at])
  PROVE  FlagTurn(line, was, authorized) = was
BY DEF FlagTurn

\* A turn that refuses the flag it looks at.
LEMMA TurnRefuses ==
  ASSUME NEW line, NEW was, NEW authorized,
         was.ok, ~(was.at > Len(line)), StartsWithDash(line[was.at]),
         ~FlagAllowed(line, was.at, was.seen, authorized)
  PROVE  ~FlagTurn(line, was, authorized).ok
<1>1. FlagTurn(line, was, authorized) = [was EXCEPT !.ok = FALSE]
  BY DEF FlagTurn
<1>2. QED
  BY <1>1

\* A turn that accepts it has read one more flag and its value.
LEMMA TurnAccepts ==
  ASSUME NEW line, Len(line) \in Nat, NEW authorized, NEW was, NEW m \in Nat,
         Reached(line, was, m, authorized),
         was.ok, StartsWithDash(line[was.at]), FlagAllowed(line, was.at, was.seen, authorized)
  PROVE  /\ FlagTurn(line, was, authorized).ok
         /\ Reached(line, FlagTurn(line, was, authorized), m + 1, authorized)
<1> DEFINE now == FlagTurn(line, was, authorized)
           flag == line[was.at]
<1>1. was.at = 2 * m + 3 /\ was.at < Len(line)
  BY DEF Reached, FlagAllowed
<1>2. now = [at |-> was.at + 2,
             seen |-> [f \in DOMAIN was.seen \cup {flag} |->
                          IF f = flag THEN line[was.at + 1] ELSE was.seen[f]],
             ok |-> TRUE]
  BY <1>1 DEF FlagTurn
<1>3. /\ now.ok /\ now.at = 2 * (m + 1) + 3
      /\ now.seen = [f \in DOMAIN was.seen \cup {flag} |->
                        IF f = flag THEN line[was.at + 1] ELSE was.seen[f]]
  BY <1>1, <1>2
<1>4. was.at = 2 * (m + 1) + 1 /\ was.at + 1 = 2 * (m + 1) + 2 /\ was.at + 1 <= Len(line)
  BY <1>1
<1>5. /\ flag \in Flags /\ flag \notin DOMAIN was.seen
      /\ flag # "-c" => ~StartsWithDash(line[was.at + 1])
      /\ ValueAllowed(flag, line[was.at + 1], authorized)
  BY DEF FlagAllowed
<1>6. \A k \in 1 .. m + 1 : k \in 1 .. m \/ k = m + 1
  OBVIOUS
<1>7. \A k \in 1 .. m : line[2 * k + 1] # flag
  BY <1>5 DEF Reached, PairsSeen
<1>8. PairsAllowed(line, m + 1, authorized)
  <2>1. ASSUME NEW k \in 1 .. m + 1
        PROVE  /\ 2 * k + 2 <= Len(line)
               /\ line[2 * k + 1] \in Flags
               /\ ValueAllowed(line[2 * k + 1], line[2 * k + 2], authorized)
               /\ line[2 * k + 1] # "-c" => ~StartsWithDash(line[2 * k + 2])
    <3>1. CASE k \in 1 .. m
      BY <3>1 DEF Reached, PairsAllowed
    <3>2. CASE k = m + 1
      BY <3>2, <1>4, <1>5
    <3>3. QED
      BY <3>1, <3>2, <1>6
  <2>2. ASSUME NEW k \in 1 .. m + 1, NEW l \in 1 .. m + 1, line[2 * k + 1] = line[2 * l + 1]
        PROVE  k = l
    <3>1. CASE k \in 1 .. m /\ l \in 1 .. m
      BY <2>2, <3>1 DEF Reached, PairsAllowed
    <3>2. CASE k = m + 1 /\ l \in 1 .. m
      BY <2>2, <3>2, <1>4, <1>7
    <3>3. CASE k \in 1 .. m /\ l = m + 1
      BY <2>2, <3>3, <1>4, <1>7
    <3>4. QED
      BY <3>1, <3>2, <3>3, <1>6
  <2>3. QED
    BY <2>1, <2>2 DEF PairsAllowed
<1>9. PairsSeen(line, m + 1, now.seen)
  <2>1. DOMAIN now.seen = {line[2 * k + 1] : k \in 1 .. m} \cup {flag}
    BY <1>3 DEF Reached, PairsSeen
  <2>2. {line[2 * k + 1] : k \in 1 .. m} \cup {flag} = {line[2 * k + 1] : k \in 1 .. m + 1}
    <3>1. m + 1 \in 1 .. m + 1 /\ \A k \in 1 .. m : k \in 1 .. m + 1
      OBVIOUS
    <3>2. line[2 * (m + 1) + 1] = flag
      BY <1>4
    <3>3. QED
      BY <3>1, <3>2, <1>6
  <2>3. ASSUME NEW k \in 1 .. m + 1
        PROVE  now.seen[line[2 * k + 1]] = line[2 * k + 2]
    <3>1. CASE k \in 1 .. m
      <4>1. line[2 * k + 1] \in DOMAIN was.seen /\ was.seen[line[2 * k + 1]] = line[2 * k + 2]
        BY <3>1 DEF Reached, PairsSeen
      <4>2. QED
        BY <3>1, <4>1, <1>3, <1>7
    <3>2. CASE k = m + 1
      BY <3>2, <1>3, <1>4
    <3>3. QED
      BY <3>1, <3>2, <1>6
  <2>4. QED
    BY <2>1, <2>2, <2>3 DEF PairsSeen
<1>10. QED
  BY <1>3, <1>8, <1>9 DEF Reached

\* Before the first turn.
LEMMA StartReached ==
  ASSUME NEW line, NEW authorized
  PROVE  LoopStart.ok /\ Reached(line, LoopStart, 0, authorized)
<1>1. 1 .. 0 = {} /\ {line[2 * k + 1] : k \in 1 .. 0} = {}
  OBVIOUS
<1>2. LoopStart.ok /\ LoopStart.at = 2 * 0 + 3 /\ DOMAIN LoopStart.seen = {}
  BY DEF LoopStart
<1>3. PairsAllowed(line, 0, authorized)
  BY DEF PairsAllowed
<1>4. PairsSeen(line, 0, LoopStart.seen)
  BY <1>1, <1>2 DEF PairsSeen
<1>5. QED
  BY <1>2, <1>3, <1>4 DEF Reached

\* A loop that refuses nothing has gone through some allowed flags and kept them.
LEMMA LoopSound ==
  ASSUME NEW line, Len(line) \in Nat, NEW authorized, FlagLoop(line, authorized).ok
  PROVE  \E m \in Nat : Reached(line, FlagLoop(line, authorized), m, authorized)
<1>1. PICK turn : /\ turn[0] = LoopStart
                  /\ \A n \in 1 .. Len(line) : turn[n] = FlagTurn(line, turn[n - 1], authorized)
                  /\ FlagLoop(line, authorized) = turn[Len(line)]
  BY LoopTurns
<1> DEFINE Sound(was) == was.ok => \E m \in Nat : Reached(line, was, m, authorized)
           S == {n \in Nat : n <= Len(line) => Sound(turn[n])}
<1>2. 0 \in S
  BY <1>1, StartReached
<1>3. ASSUME NEW n \in Nat, n \in S
      PROVE  n + 1 \in S
  <2>1. SUFFICES ASSUME n + 1 <= Len(line) PROVE Sound(turn[n + 1])
    OBVIOUS
  <2>2. Sound(turn[n])
    BY <1>3, <2>1
  <2>3. turn[n + 1] = FlagTurn(line, turn[n], authorized)
    <3>1. n + 1 \in 1 .. Len(line) /\ (n + 1) - 1 = n
      BY <2>1
    <3>2. turn[n + 1] = FlagTurn(line, turn[(n + 1) - 1], authorized)
      BY <1>1, <3>1
    <3>3. QED
      BY <3>1, <3>2
  <2> PICK was : was = turn[n]
    OBVIOUS
  <2>4. CASE ~was.ok \/ was.at > Len(line) \/ ~StartsWithDash(line[was.at])
    BY <2>2, <2>3, <2>4, TurnEnds
  <2>5. CASE /\ was.ok /\ ~(was.at > Len(line)) /\ StartsWithDash(line[was.at])
             /\ ~FlagAllowed(line, was.at, was.seen, authorized)
    BY <2>3, <2>5, TurnRefuses
  <2>6. CASE /\ was.ok /\ StartsWithDash(line[was.at])
             /\ FlagAllowed(line, was.at, was.seen, authorized)
    <3>1. PICK m \in Nat : Reached(line, was, m, authorized)
      BY <2>2, <2>6
    <3>2. Reached(line, turn[n + 1], m + 1, authorized)
      BY <2>3, <2>6, <3>1, TurnAccepts
    <3>3. QED
      BY <3>2
  <2>7. QED
    BY <2>4, <2>5, <2>6
<1> HIDE DEF Sound
<1>4. Len(line) \in S
  BY <1>2, <1>3, AllNumbers
<1>5. QED
  BY <1>1, <1>4 DEF Sound

\* Allowed flags up to a last text that looks like none: the loop goes through them all.
LEMMA LoopComplete ==
  ASSUME NEW line, NEW p \in Nat, Len(line) = 2 * p + 3, NEW authorized,
         PairsAllowed(line, p, authorized), ~StartsWithDash(line[Len(line)])
  PROVE  /\ FlagLoop(line, authorized).ok
         /\ Reached(line, FlagLoop(line, authorized), p, authorized)
<1>1. Len(line) \in Nat /\ p <= Len(line)
  OBVIOUS
<1>2. PICK turn : /\ turn[0] = LoopStart
                  /\ \A n \in 1 .. Len(line) : turn[n] = FlagTurn(line, turn[n - 1], authorized)
                  /\ FlagLoop(line, authorized) = turn[Len(line)]
  BY <1>1, LoopTurns
<1> DEFINE At(n) == IF n <= p THEN n ELSE p
           Done(was, n) == was.ok /\ Reached(line, was, At(n), authorized)
           S == {n \in Nat : n <= Len(line) => Done(turn[n], n)}
<1>3. 0 \in S
  <2>1. At(0) = 0
    OBVIOUS
  <2> HIDE DEF At
  <2>2. QED
    BY <1>2, <2>1, StartReached
<1>4. ASSUME NEW n \in Nat, n \in S
      PROVE  n + 1 \in S
  <2>1. SUFFICES ASSUME n + 1 <= Len(line) PROVE Done(turn[n + 1], n + 1)
    OBVIOUS
  <2>2. Done(turn[n], n)
    BY <1>4, <2>1
  <2>3. turn[n + 1] = FlagTurn(line, turn[n], authorized)
    <3>1. n + 1 \in 1 .. Len(line) /\ (n + 1) - 1 = n
      BY <2>1
    <3>2. turn[n + 1] = FlagTurn(line, turn[(n + 1) - 1], authorized)
      BY <1>2, <3>1
    <3>3. QED
      BY <3>1, <3>2
  <2> PICK was : was = turn[n]
    OBVIOUS
  <2>4. CASE n >= p
    <3>1. At(n) = p /\ At(n + 1) = p
      BY <2>4
    <3>2. was.at = Len(line) /\ ~StartsWithDash(line[was.at])
      BY <2>2, <3>1 DEF Reached
    <3>3. FlagTurn(line, was, authorized) = was
      BY <3>2, TurnEnds
    <3>4. QED
      BY <2>2, <2>3, <3>1, <3>3
  <2>5. CASE n < p
    <3>1. At(n) = n /\ At(n + 1) = n + 1
      BY <2>5
    <3>2. was.ok /\ Reached(line, was, n, authorized)
      BY <2>2, <3>1
    <3>3. was.at = 2 * (n + 1) + 1 /\ was.at + 1 = 2 * (n + 1) + 2 /\ n + 1 \in 1 .. p
      BY <2>5, <3>2 DEF Reached
    <3>4. /\ 2 * (n + 1) + 2 <= Len(line)
          /\ line[was.at] \in Flags
          /\ ValueAllowed(line[was.at], line[was.at + 1], authorized)
          /\ line[was.at] # "-c" => ~StartsWithDash(line[was.at + 1])
      BY <3>3 DEF PairsAllowed
    <3>5. was.at < Len(line)
      BY <3>3, <3>4
    <3>6. line[was.at] \notin DOMAIN was.seen
      <4>1. \A k \in 1 .. n : k \in 1 .. p /\ k # n + 1
        BY <2>5
      <4>2. \A k \in 1 .. n : line[2 * k + 1] # line[2 * (n + 1) + 1]
        BY <3>3, <4>1 DEF PairsAllowed
      <4>3. QED
        BY <3>2, <3>3, <4>2 DEF Reached, PairsSeen
    <3>7. StartsWithDash(line[was.at])
      BY <3>4, FlagTexts
    <3>8. FlagAllowed(line, was.at, was.seen, authorized)
      BY <3>4, <3>5, <3>6 DEF FlagAllowed
    <3>9. Done(turn[n + 1], n + 1)
      BY <1>1, <2>3, <3>1, <3>2, <3>7, <3>8, TurnAccepts
    <3>10. QED
      BY <3>9
  <2>6. QED
    BY <2>4, <2>5
<1> HIDE DEF Done
<1>5. Len(line) \in S
  BY <1>3, <1>4, AllNumbers, <1>1
<1>6. Done(FlagLoop(line, authorized), Len(line))
  BY <1>1, <1>2, <1>5
<1>7. At(Len(line)) = p
  BY <1>1
<1>8. QED
  BY <1>6, <1>7 DEF Done

-----------------------------------------------------------------------------
(* The validator.                                                          *)

FlagsOf(line, p) == {line[2 * k + 1] : k \in 1 .. p}

PromptAllowed(prompt) == ~StartsWithDash(prompt) /\ ~Blank(prompt) /\ ~TooLong(prompt)

MentionsPlaced(line, p) ==
    {i \in 1 .. Len(line) : Mentions(line[i]) # "none"} \subseteq
        {2 * k + 2 : k \in {l \in 1 .. p : line[2 * l + 1] = "-s" /\ line[2 * l + 2] = "workspace-write"}}

\* What an allowed value is not.
LEMMA ValueNoFlag ==
  ASSUME NEW flag \in Flags, NEW value, NEW authorized, ValueAllowed(flag, value, authorized),
         flag # "-c" => ~StartsWithDash(value)
  PROVE  ~StartsWithDash(value) /\ value # ""
<1>1. CASE flag = "-c"
  <2>1. value \in {EffortArg(effort) : effort \in Efforts}
    BY <1>1 DEF ValueAllowed, PathFlags
  <2>2. QED
    BY <2>1, FlagTexts
<1>2. CASE flag = "-s"
  BY <1>2 DEF ValueAllowed, SandboxAllowed, PathFlags
<1>3. CASE flag = "-m"
  BY <1>3, FlagTexts DEF ValueAllowed, ModelAllowed, PathFlags
<1>4. CASE flag = "--color"
  BY <1>4 DEF ValueAllowed, PathFlags
<1>5. CASE flag \in PathFlags
  <2>1. IsAbsolute(value)
    BY <1>5 DEF ValueAllowed, PathFlags
  <2>2. QED
    BY <1>5, <2>1, FlagTexts DEF PathFlags
<1>6. QED
  BY <1>1, <1>2, <1>3, <1>4, <1>5 DEF Flags, Required, PathFlags

\* A well formed line with p flags.
LEMMA WellFormedShape ==
  ASSUME NEW line, NEW p \in Nat, Len(line) = 2 * p + 3, NEW authorized
  PROVE  WellFormed(line, authorized)
           <=> /\ IsCodex(line[1]) /\ line[2] = "exec"
               /\ PairsAllowed(line, p, authorized)
               /\ Required \subseteq FlagsOf(line, p)
               /\ PromptAllowed(line[Len(line)])
               /\ MentionsPlaced(line, p)
<1>1. /\ Len(line) >= 3 /\ Len(line) % 2 = 1
      /\ (Len(line) - 3) \div 2 = p
  OBVIOUS
<1>2. WellFormed(line, authorized)
        <=> /\ IsCodex(line[1]) /\ line[2] = "exec"
            /\ \A k \in 1 .. p : /\ line[2 * k + 1] \in Flags
                                 /\ ValueAllowed(line[2 * k + 1], line[2 * k + 2], authorized)
                                 /\ ~StartsWithDash(line[2 * k + 2])
            /\ \A k, l \in 1 .. p : line[2 * k + 1] = line[2 * l + 1] => k = l
            /\ Required \subseteq FlagsOf(line, p)
            /\ PromptAllowed(line[Len(line)])
            /\ MentionsPlaced(line, p)
  BY <1>1 DEF WellFormed, FlagsOf, PromptAllowed, MentionsPlaced
<1>3. \A k \in 1 .. p : 2 * k + 2 <= Len(line)
  OBVIOUS
<1>4. PairsAllowed(line, p, authorized)
        <=> /\ \A k \in 1 .. p : /\ line[2 * k + 1] \in Flags
                                 /\ ValueAllowed(line[2 * k + 1], line[2 * k + 2], authorized)
                                 /\ ~StartsWithDash(line[2 * k + 2])
            /\ \A k, l \in 1 .. p : line[2 * k + 1] = line[2 * l + 1] => k = l
  BY <1>3, ValueNoFlag DEF PairsAllowed
<1>5. QED
  BY <1>2, <1>4

\* The places of a line: codex, exec, the flags, their values, the prompt.
LEMMA Positions ==
  ASSUME NEW p \in Nat, NEW i \in 1 .. 2 * p + 3
  PROVE  \/ i \in {1, 2, 2 * p + 3}
         \/ \E k \in 1 .. p : i = 2 * k + 1
         \/ \E k \in 1 .. p : i = 2 * k + 2
<1>1. CASE i \notin {1, 2, 2 * p + 3} /\ i % 2 = 1
  <2>1. (i - 1) \div 2 \in 1 .. p /\ i = 2 * ((i - 1) \div 2) + 1
    BY <1>1
  <2>2. QED
    BY <2>1
<1>2. CASE i \notin {1, 2, 2 * p + 3} /\ i % 2 = 0
  <2>1. (i - 2) \div 2 \in 1 .. p /\ i = 2 * ((i - 2) \div 2) + 2
    BY <1>2
  <2>2. QED
    BY <2>1
<1>3. QED
  BY <1>1, <1>2

\* An accepted line is well formed: the one forbidden text can only be where the
\* loop has found it.
LEMMA AcceptedWellFormed ==
  ASSUME NEW line, Len(line) \in Nat, NEW authorized, ValidateArgv(line, authorized)
  PROVE  WellFormed(line, authorized)
<1> PICK loop : loop = FlagLoop(line, authorized)
  OBVIOUS
<1>1. /\ \A i \in 1 .. Len(line) : line[i] # "" /\ MentionAllowed(line, i, authorized)
      /\ IsCodex(line[1]) /\ line[2] = "exec"
      /\ loop.ok /\ loop.at = Len(line)
      /\ PromptAllowed(line[loop.at])
      /\ Required \subseteq DOMAIN loop.seen
  BY DEF ValidateArgv, PromptAllowed
<1>2. PICK p \in Nat : Reached(line, loop, p, authorized)
  BY <1>1, LoopSound
<1>3. /\ Len(line) = 2 * p + 3 /\ PairsAllowed(line, p, authorized)
      /\ Required \subseteq FlagsOf(line, p) /\ PromptAllowed(line[Len(line)])
  BY <1>1, <1>2 DEF Reached, PairsSeen, FlagsOf
<1>4. ASSUME NEW i \in 1 .. Len(line), Mentions(line[i]) # "none"
      PROVE  \E k \in 1 .. p : /\ i = 2 * k + 2
                               /\ line[2 * k + 1] = "-s" /\ line[2 * k + 2] = "workspace-write"
  <2>1. line[i] = "workspace-write" /\ i > 1 /\ line[i - 1] = "-s"
    BY <1>1, <1>4 DEF MentionAllowed
  <2>2. i - 1 \in 1 .. 2 * p + 3 /\ i - 1 < 2 * p + 3
    BY <1>3, <2>1
  <2>3. StartsWithDash("-s") /\ ~IsCodex("-s")
    BY FlagTexts DEF Flags, Required
  <2>4. i - 1 \notin {1, 2, 2 * p + 3}
    <3>1. line[1] # "-s" /\ line[2] # "-s"
      BY <1>1, <2>3
    <3>2. i - 1 # 1 /\ i - 1 # 2
      BY <2>1, <3>1
    <3>3. QED
      BY <2>2, <3>2
  <2>5. ASSUME NEW k \in 1 .. p
        PROVE  i - 1 # 2 * k + 2
    BY <1>3, <2>1, <2>3, ValueNoFlag DEF PairsAllowed
  <2>6. PICK k \in 1 .. p : i - 1 = 2 * k + 1
    BY <2>2, <2>4, <2>5, Positions
  <2>7. i = 2 * k + 2
    BY <2>6
  <2>8. QED
    BY <2>1, <2>6, <2>7
<1>5. MentionsPlaced(line, p)
  BY <1>4 DEF MentionsPlaced
<1>6. QED
  BY <1>1, <1>3, <1>5, WellFormedShape

\* A well formed line is accepted.
LEMMA WellFormedAccepted ==
  ASSUME NEW line, Len(line) \in Nat, NEW authorized, WellFormed(line, authorized), line # <<>>
  PROVE  ValidateArgv(line, authorized)
<1> DEFINE p == (Len(line) - 3) \div 2
<1>1. p \in Nat /\ Len(line) = 2 * p + 3
  <2>1. Len(line) >= 3 /\ Len(line) % 2 = 1
    BY DEF WellFormed
  <2>2. QED
    BY <2>1
<1> HIDE DEF p
<1>2. /\ IsCodex(line[1]) /\ line[2] = "exec"
      /\ PairsAllowed(line, p, authorized)
      /\ Required \subseteq FlagsOf(line, p)
      /\ PromptAllowed(line[Len(line)])
      /\ MentionsPlaced(line, p)
  BY <1>1, WellFormedShape
<1> PICK loop : loop = FlagLoop(line, authorized)
  OBVIOUS
<1>3. loop.ok /\ Reached(line, loop, p, authorized)
  BY <1>1, <1>2, LoopComplete DEF PromptAllowed
<1>4. loop.at = Len(line) /\ Required \subseteq DOMAIN loop.seen
  BY <1>1, <1>2, <1>3 DEF Reached, PairsSeen, FlagsOf
<1>5. ASSUME NEW k \in 1 .. p
      PROVE  /\ line[2 * k + 1] \in Flags /\ line[2 * k + 1] # ""
             /\ line[2 * k + 2] # ""
             /\ ValueAllowed(line[2 * k + 1], line[2 * k + 2], authorized)
  BY <1>2, ValueNoFlag DEF PairsAllowed, Flags, Required, PathFlags
<1>6. ASSUME NEW i \in 1 .. Len(line)
      PROVE  line[i] # ""
  <2>1. CASE i \in {1, 2, 2 * p + 3}
    BY <1>1, <1>2, <2>1, FlagTexts DEF PromptAllowed
  <2>2. CASE \E k \in 1 .. p : i = 2 * k + 1 \/ i = 2 * k + 2
    BY <1>5, <2>2
  <2>3. QED
    BY <1>1, <2>1, <2>2, Positions
<1>7. ASSUME NEW i \in 1 .. Len(line)
      PROVE  MentionAllowed(line, i, authorized)
  <2>1. CASE Mentions(line[i]) # "none"
    <3>1. PICK k \in 1 .. p : /\ i = 2 * k + 2
                              /\ line[2 * k + 1] = "-s" /\ line[2 * k + 2] = "workspace-write"
      BY <1>2, <2>1 DEF MentionsPlaced
    <3>2. i > 1 /\ i - 1 = 2 * k + 1
      BY <3>1
    <3>3. authorized
      BY <1>5, <3>1 DEF ValueAllowed, SandboxAllowed, PathFlags
    <3>4. QED
      BY <3>1, <3>2, <3>3 DEF MentionAllowed
  <2>2. QED
    BY <2>1 DEF MentionAllowed
<1>8. ASSUME NEW flag \in {"-s", "-c", "--color"}
      PROVE  ValueAllowed(flag, loop.seen[flag], authorized)
  <2>1. flag \in FlagsOf(line, p)
    BY <1>2 DEF Required
  <2>2. PICK k \in 1 .. p : flag = line[2 * k + 1]
    BY <2>1 DEF FlagsOf
  <2>3. loop.seen[flag] = line[2 * k + 2]
    BY <1>3, <2>2 DEF Reached, PairsSeen
  <2>4. QED
    BY <1>5, <2>2, <2>3
<1>9. Len(line) >= 3
  BY <1>1
<1>10. QED
  BY <1>2, <1>3, <1>4, <1>6, <1>7, <1>8, <1>9 DEF ValidateArgv, PromptAllowed

\* validate_codex_argv accepts a line exactly when it is well formed, however long it
\* is and whatever is in it (THREAT_MODEL.md:48).
THEOREM ValidatorAcceptsWellFormed ==
  ASSUME NEW T, NEW line \in Seq(T), NEW authorized \in BOOLEAN
  PROVE  ValidateArgv(line, authorized) <=> WellFormed(line, authorized)
<1>1. Len(line) \in Nat
  OBVIOUS
<1>2. WellFormed(line, authorized) => line # <<>>
  BY DEF WellFormed
<1>3. QED
  BY <1>1, <1>2, AcceptedWellFormed, WellFormedAccepted

-----------------------------------------------------------------------------
(* The line that build_codex_argv puts together.                           *)

\* The texts of a command before its options, and those of the two options.
FixedPart(c) ==
    <<c.codex_bin, "exec", "-s", c.sandbox, "-C", Absolute(c.workdir),
      "-c", EffortArg(c.effort), "--color", "never",
      "--output-last-message", Absolute(c.last_message_path)>>

SchemaPart(c) ==
    IF c.schema_path = NoText THEN <<>> ELSE <<"--output-schema", Absolute(c.schema_path)>>

ModelPart(c) == IF c.model = NoText THEN <<>> ELSE <<"-m", c.model>>

\* The twelve texts that every command line starts with, one by one.
StartTexts(line, c) ==
    /\ line[1] = c.codex_bin /\ line[2] = "exec" /\ line[3] = "-s"
    /\ line[4] = c.sandbox /\ line[5] = "-C" /\ line[6] = Absolute(c.workdir)
    /\ line[7] = "-c" /\ line[8] = EffortArg(c.effort) /\ line[9] = "--color"
    /\ line[10] = "never" /\ line[11] = "--output-last-message"
    /\ line[12] = Absolute(c.last_message_path)

\* The texts after them, for p flags.
EndTexts(line, c, p) ==
    /\ p = 5 + (IF c.schema_path = NoText THEN 0 ELSE 1) + (IF c.model = NoText THEN 0 ELSE 1)
    /\ c.schema_path # NoText => line[13] = "--output-schema" /\ line[14] = Absolute(c.schema_path)
    /\ c.model # NoText => line[2 * p + 1] = "-m" /\ line[2 * p + 2] = c.model
    /\ line[2 * p + 3] = c.prompt

\* The sequence l is q, of n texts, and m, of k texts, behind it.
IsJoin(l, q, n, m, k) ==
    /\ Len(l) = n + k
    /\ \A i \in 1 .. n : l[i] = q[i]
    /\ \A i \in 1 .. k : l[n + i] = m[i]

\* What concatenation makes of two sequences, text by text.
LEMMA Joined ==
  ASSUME NEW S, NEW q \in Seq(S), NEW m \in Seq(S),
         NEW n \in Nat, Len(q) = n, NEW k \in Nat, Len(m) = k
  PROVE  q \o m \in Seq(S) /\ IsJoin(q \o m, q, n, m, k)
<1>1. /\ q \o m \in Seq(S) /\ Len(q \o m) = Len(q) + Len(m)
      /\ \A i \in 1 .. Len(q) + Len(m) :
            (q \o m)[i] = IF i <= Len(q) THEN q[i] ELSE m[i - Len(q)]
  BY ConcatProperties
<1>2. ASSUME NEW i \in 1 .. k
      PROVE  (q \o m)[n + i] = m[i]
  <2>1. n + i \in 1 .. n + k /\ ~(n + i <= n) /\ (n + i) - n = i
    OBVIOUS
  <2>2. QED
    BY <1>1, <2>1
<1>3. QED
  BY <1>1, <1>2 DEF IsJoin

\* What each part has.
LEMMA Parts ==
  ASSUME NEW c, NEW W,
         W = {c.codex_bin, "exec", "-s", c.sandbox, "-C", Absolute(c.workdir),
              "-c", EffortArg(c.effort), "--color", "never",
              "--output-last-message", Absolute(c.last_message_path),
              "--output-schema", Absolute(c.schema_path), "-m", c.model, c.prompt}
  PROVE  /\ FixedPart(c) \in Seq(W) /\ Len(FixedPart(c)) = 12 /\ StartTexts(FixedPart(c), c)
         /\ SchemaPart(c) \in Seq(W)
         /\ Len(SchemaPart(c)) = IF c.schema_path = NoText THEN 0 ELSE 2
         /\ c.schema_path # NoText =>
               SchemaPart(c)[1] = "--output-schema" /\ SchemaPart(c)[2] = Absolute(c.schema_path)
         /\ ModelPart(c) \in Seq(W)
         /\ Len(ModelPart(c)) = IF c.model = NoText THEN 0 ELSE 2
         /\ c.model # NoText => ModelPart(c)[1] = "-m" /\ ModelPart(c)[2] = c.model
         /\ <<c.prompt>> \in Seq(W) /\ Len(<<c.prompt>>) = 1 /\ <<c.prompt>>[1] = c.prompt
<1>1. FixedPart(c) \in Seq(W) /\ Len(FixedPart(c)) = 12 /\ StartTexts(FixedPart(c), c)
  BY DEF FixedPart, StartTexts
<1>2. /\ SchemaPart(c) \in Seq(W)
      /\ Len(SchemaPart(c)) = IF c.schema_path = NoText THEN 0 ELSE 2
      /\ c.schema_path # NoText =>
            SchemaPart(c)[1] = "--output-schema" /\ SchemaPart(c)[2] = Absolute(c.schema_path)
  <2>1. CASE c.schema_path = NoText
    BY <2>1 DEF SchemaPart
  <2>2. CASE c.schema_path # NoText
    BY <2>2 DEF SchemaPart
  <2>3. QED
    BY <2>1, <2>2
<1>3. /\ ModelPart(c) \in Seq(W)
      /\ Len(ModelPart(c)) = IF c.model = NoText THEN 0 ELSE 2
      /\ c.model # NoText => ModelPart(c)[1] = "-m" /\ ModelPart(c)[2] = c.model
  <2>1. CASE c.model = NoText
    BY <2>1 DEF ModelPart
  <2>2. CASE c.model # NoText
    BY <2>2 DEF ModelPart
  <2>3. QED
    BY <2>1, <2>2
<1>4. <<c.prompt>> \in Seq(W) /\ Len(<<c.prompt>>) = 1 /\ <<c.prompt>>[1] = c.prompt
  OBVIOUS
<1>5. QED
  BY <1>1, <1>2, <1>3, <1>4

\* The line as a whole.
LEMMA BuiltTexts ==
  ASSUME NEW c
  PROVE  \E p \in 5 .. 7 : /\ Len(BuildArgv(c)) = 2 * p + 3
                           /\ StartTexts(BuildArgv(c), c)
                           /\ EndTexts(BuildArgv(c), c, p)
<1> DEFINE words == {c.codex_bin, "exec", "-s", c.sandbox, "-C", Absolute(c.workdir),
                     "-c", EffortArg(c.effort), "--color", "never",
                     "--output-last-message", Absolute(c.last_message_path),
                     "--output-schema", Absolute(c.schema_path), "-m", c.model, c.prompt}
<1> PICK W : W = words
  OBVIOUS
<1> HIDE DEF words
<1> PICK f, s, m, e : f = FixedPart(c) /\ s = SchemaPart(c) /\ m = ModelPart(c) /\ e = <<c.prompt>>
  OBVIOUS
<1>1. /\ f \in Seq(W) /\ Len(f) = 12 /\ StartTexts(f, c)
      /\ s \in Seq(W) /\ Len(s) = IF c.schema_path = NoText THEN 0 ELSE 2
      /\ c.schema_path # NoText => s[1] = "--output-schema" /\ s[2] = Absolute(c.schema_path)
      /\ m \in Seq(W) /\ Len(m) = IF c.model = NoText THEN 0 ELSE 2
      /\ c.model # NoText => m[1] = "-m" /\ m[2] = c.model
      /\ e \in Seq(W) /\ Len(e) = 1 /\ e[1] = c.prompt
  BY Parts DEF words
<1> PICK a : a = IF c.schema_path = NoText THEN 0 ELSE 1
  OBVIOUS
<1> PICK b : b = IF c.model = NoText THEN 0 ELSE 1
  OBVIOUS
<1>2. /\ a \in {0, 1} /\ b \in {0, 1} /\ Len(s) = 2 * a /\ Len(m) = 2 * b
      /\ 2 * a \in Nat /\ 2 * b \in Nat /\ 12 + 2 * a \in Nat /\ 12 + 2 * a + 2 * b \in Nat
  BY <1>1
<1> PICK q : q = f \o s
  OBVIOUS
<1> PICK n0, n1, n2, k1, k2 \in Nat :
        n0 = 12 /\ n1 = 12 + 2 * a /\ n2 = n1 + 2 * b /\ k1 = 2 * a /\ k2 = 2 * b
  BY <1>2
<1>3. q \in Seq(W) /\ IsJoin(q, f, n0, s, k1)
  <2>1. f \in Seq(W) /\ s \in Seq(W) /\ Len(f) = n0 /\ Len(s) = k1
    BY <1>1, <1>2
  <2>2. QED
    BY <2>1, Joined
<1> PICK r : r = q \o m
  OBVIOUS
<1>4. r \in Seq(W) /\ IsJoin(r, q, n1, m, k2)
  <2>1. q \in Seq(W) /\ m \in Seq(W) /\ Len(q) = n1 /\ Len(m) = k2
    BY <1>1, <1>2, <1>3 DEF IsJoin
  <2>2. QED
    BY <2>1, Joined
<1> PICK line : line = r \o e
  OBVIOUS
<1>5. IsJoin(line, r, n2, e, 1)
  <2>1. r \in Seq(W) /\ e \in Seq(W) /\ Len(r) = n2 /\ Len(e) = 1
    BY <1>1, <1>4 DEF IsJoin
  <2>2. QED
    BY <2>1, Joined
<1>6. line = BuildArgv(c)
  BY DEF BuildArgv, FixedPart, SchemaPart, ModelPart
<1> DEFINE p == 5 + a + b
<1>7. p \in 5 .. 7 /\ 2 * p + 3 = 12 + 2 * a + 2 * b + 1
  BY <1>2
<1>8. \A i \in 1 .. 12 : line[i] = f[i]
  <2>1. ASSUME NEW i \in 1 .. 12
        PROVE  line[i] = f[i]
    <3>1. i \in 1 .. n0 /\ i \in 1 .. n1 /\ i \in 1 .. n2
      BY <1>2
    <3>2. QED
      BY <3>1, <1>3, <1>4, <1>5 DEF IsJoin
  <2>2. QED
    BY <2>1
<1>9. StartTexts(line, c)
  <2>1. {1, 2, 3, 4, 5, 6, 7, 8, 9, 10, 11, 12} \subseteq 1 .. 12
    OBVIOUS
  <2>2. \A i \in {1, 2, 3, 4, 5, 6, 7, 8, 9, 10, 11, 12} : line[i] = f[i]
    BY <1>8, <2>1
  <2>3. StartTexts(f, c)
    BY <1>1
  <2>4. QED
    BY <2>2, <2>3, Zenon DEF StartTexts
<1>10. ASSUME c.schema_path # NoText
       PROVE  line[13] = "--output-schema" /\ line[14] = Absolute(c.schema_path)
  <2>1. a = 1 /\ k1 = 2 /\ n0 + 1 = 13 /\ n0 + 2 = 14 /\ 1 \in 1 .. k1 /\ 2 \in 1 .. k1
    BY <1>10
  <2>2. q[13] = s[1] /\ q[14] = s[2]
    BY <1>3, <2>1 DEF IsJoin
  <2>3. 13 \in 1 .. n1 /\ 14 \in 1 .. n1 /\ 13 \in 1 .. n2 /\ 14 \in 1 .. n2
    BY <1>2, <2>1
  <2>4. line[13] = q[13] /\ line[14] = q[14]
    <3>1. r[13] = q[13] /\ r[14] = q[14]
      BY <1>4, <2>3, Zenon DEF IsJoin
    <3>2. line[13] = r[13] /\ line[14] = r[14]
      BY <1>5, <2>3, Zenon DEF IsJoin
    <3>3. QED
      BY <3>1, <3>2
  <2>5. s[1] = "--output-schema" /\ s[2] = Absolute(c.schema_path)
    BY <1>1, <1>10
  <2>6. QED
    BY <2>2, <2>4, <2>5, Zenon
<1>11. ASSUME c.model # NoText
       PROVE  line[2 * p + 1] = "-m" /\ line[2 * p + 2] = c.model
  <2>1. b = 1 /\ k2 = 2 /\ 1 \in 1 .. k2 /\ 2 \in 1 .. k2
    BY <1>11
  <2>2. r[n1 + 1] = m[1] /\ r[n1 + 2] = m[2]
    BY <1>4, <2>1 DEF IsJoin
  <2>3. /\ 2 * p + 1 = n1 + 1 /\ 2 * p + 2 = n1 + 2
        /\ n1 + 1 \in 1 .. n2 /\ n1 + 2 \in 1 .. n2
    BY <1>2, <2>1
  <2>4. line[n1 + 1] = r[n1 + 1] /\ line[n1 + 2] = r[n1 + 2]
    BY <1>5, <2>3 DEF IsJoin
  <2>5. m[1] = "-m" /\ m[2] = c.model
    BY <1>1, <1>11
  <2>6. line[n1 + 1] = "-m" /\ line[n1 + 2] = c.model
    BY <2>2, <2>4, <2>5, Zenon
  <2>7. QED
    BY <2>3, <2>6, Zenon
<1>12. Len(line) = 2 * p + 3 /\ line[2 * p + 3] = c.prompt
  <2>1. n2 + 1 = 2 * p + 3 /\ 1 \in 1 .. 1
    BY <1>2
  <2>2. Len(line) = n2 + 1 /\ line[n2 + 1] = e[1]
    BY <1>5, <2>1 DEF IsJoin
  <2>3. QED
    BY <1>1, <2>1, <2>2, Zenon
<1> HIDE DEF p
<1>13. p = 5 + a + b
  BY DEF p
<1>14. EndTexts(line, c, p)
  BY <1>10, <1>11, <1>12, <1>13 DEF EndTexts
<1>15. QED
  BY <1>6, <1>7, <1>9, <1>12, <1>14

\* The flags of a built line with their values, in order.
PairTexts(line, c, p) ==
    \A k \in 1 .. p :
        \/ k = 1 /\ line[2 * k + 1] = "-s" /\ line[2 * k + 2] = c.sandbox
        \/ k = 2 /\ line[2 * k + 1] = "-C" /\ line[2 * k + 2] = Absolute(c.workdir)
        \/ k = 3 /\ line[2 * k + 1] = "-c" /\ line[2 * k + 2] = EffortArg(c.effort)
        \/ k = 4 /\ line[2 * k + 1] = "--color" /\ line[2 * k + 2] = "never"
        \/ /\ k = 5 /\ line[2 * k + 1] = "--output-last-message"
           /\ line[2 * k + 2] = Absolute(c.last_message_path)
        \/ /\ k = 6 /\ c.schema_path # NoText
           /\ line[2 * k + 1] = "--output-schema" /\ line[2 * k + 2] = Absolute(c.schema_path)
        \/ /\ k = (IF c.schema_path = NoText THEN 6 ELSE 7) /\ c.model # NoText
           /\ line[2 * k + 1] = "-m" /\ line[2 * k + 2] = c.model

\* The line has its flags at the odd places, each before its value.
LEMMA BuiltPairs ==
  ASSUME NEW c, NEW line, NEW p \in 5 .. 7, StartTexts(line, c), EndTexts(line, c, p)
  PROVE  PairTexts(line, c, p)
<1>1. ASSUME NEW k \in 1 .. p, k <= 5
      PROVE  \/ k = 1 /\ line[2 * k + 1] = "-s" /\ line[2 * k + 2] = c.sandbox
             \/ k = 2 /\ line[2 * k + 1] = "-C" /\ line[2 * k + 2] = Absolute(c.workdir)
             \/ k = 3 /\ line[2 * k + 1] = "-c" /\ line[2 * k + 2] = EffortArg(c.effort)
             \/ k = 4 /\ line[2 * k + 1] = "--color" /\ line[2 * k + 2] = "never"
             \/ /\ k = 5 /\ line[2 * k + 1] = "--output-last-message"
                /\ line[2 * k + 2] = Absolute(c.last_message_path)
  <2>1. k \in {1, 2, 3, 4, 5}
    BY <1>1
  <2>2. QED
    BY <2>1 DEF StartTexts
<1>2. ASSUME NEW k \in 1 .. p, ~(k <= 5)
      PROVE  \/ /\ k = 6 /\ c.schema_path # NoText
                /\ line[2 * k + 1] = "--output-schema" /\ line[2 * k + 2] = Absolute(c.schema_path)
             \/ /\ k = (IF c.schema_path = NoText THEN 6 ELSE 7) /\ c.model # NoText
                /\ line[2 * k + 1] = "-m" /\ line[2 * k + 2] = c.model
  <2>1. CASE c.schema_path # NoText /\ k = 6
    <3>1. 2 * k + 1 = 13 /\ 2 * k + 2 = 14
      BY <2>1
    <3>2. line[13] = "--output-schema" /\ line[14] = Absolute(c.schema_path)
      BY <2>1 DEF EndTexts
    <3>3. QED
      BY <2>1, <3>1, <3>2
  <2>2. CASE c.schema_path # NoText /\ k # 6
    <3>1. k = 7 /\ p = 7 /\ c.model # NoText
      BY <1>2, <2>2 DEF EndTexts
    <3>2. QED
      BY <2>2, <3>1 DEF EndTexts
  <2>3. CASE c.schema_path = NoText
    <3>1. k = 6 /\ p = 6 /\ c.model # NoText
      BY <1>2, <2>3 DEF EndTexts
    <3>2. QED
      BY <2>3, <3>1 DEF EndTexts
  <2>4. QED
    BY <2>1, <2>2, <2>3
<1>3. QED
  BY <1>1, <1>2 DEF PairTexts

\* They are flags the validator knows, each once, every required one among them.
LEMMA BuiltFlags ==
  ASSUME NEW c, NEW line, NEW p \in 5 .. 7, PairTexts(line, c, p)
  PROVE  /\ \A k \in 1 .. p : line[2 * k + 1] \in Flags
         /\ \A k, l \in 1 .. p : line[2 * k + 1] = line[2 * l + 1] => k = l
         /\ Required \subseteq FlagsOf(line, p)
<1>1. \A k \in 1 .. p : line[2 * k + 1] \in Flags
  BY DEF PairTexts, Flags, Required, PathFlags
<1>2. ASSUME NEW k \in 1 .. p, NEW l \in 1 .. p, line[2 * k + 1] = line[2 * l + 1]
      PROVE  k = l
  BY <1>2 DEF PairTexts
<1>3. Required \subseteq FlagsOf(line, p)
  <2>1. 1 \in 1 .. p /\ 2 \in 1 .. p /\ 3 \in 1 .. p /\ 4 \in 1 .. p /\ 5 \in 1 .. p
    OBVIOUS
  <2>2. /\ line[2 * 1 + 1] = "-s" /\ line[2 * 2 + 1] = "-C" /\ line[2 * 3 + 1] = "-c"
        /\ line[2 * 4 + 1] = "--color" /\ line[2 * 5 + 1] = "--output-last-message"
    BY <2>1 DEF PairTexts
  <2>3. QED
    BY <2>1, <2>2 DEF FlagsOf, Required
<1>4. QED
  BY <1>1, <1>2, <1>3

\* Every part of a command is allowed for itself.
PathTexts(c) ==
    {Absolute(c.workdir), Absolute(c.last_message_path)} \cup
    (IF c.schema_path = NoText THEN {} ELSE {Absolute(c.schema_path)})

CommandAllowed(c) ==
    /\ ~Blank(c.prompt) /\ ~TooLong(c.prompt) /\ ~IndentedDash(c.prompt)
    /\ c.effort \in Efforts
    /\ c.model # NoText => ModelAllowed(c.model)
    /\ SandboxAllowed(c.sandbox, c.authorized)
    /\ IsCodex(c.codex_bin)
    /\ \A text \in {c.codex_bin, c.prompt} \cup PathTexts(c) : Mentions(text) = "none"

\* What Absolute makes of paths.
PathsUsable(c) == \A text \in PathTexts(c) : IsAbsolute(text) /\ ~StartsWithDash(text)

\* The validator allows each of them when the parts of the command are allowed.
LEMMA AllowedPairs ==
  ASSUME NEW c, NEW line, NEW p \in 5 .. 7, Len(line) = 2 * p + 3, PairTexts(line, c, p),
         CommandAllowed(c), PathsUsable(c)
  PROVE  PairsAllowed(line, p, c.authorized)
<1>1. ASSUME NEW k \in 1 .. p
      PROVE  /\ ValueAllowed(line[2 * k + 1], line[2 * k + 2], c.authorized)
             /\ line[2 * k + 1] # "-c" => ~StartsWithDash(line[2 * k + 2])
  <2>1. CASE line[2 * k + 1] = "-s" /\ line[2 * k + 2] = c.sandbox
    BY <2>1, FlagTexts DEF CommandAllowed, ValueAllowed, SandboxAllowed, PathFlags
  <2>2. CASE line[2 * k + 1] \in PathFlags /\ line[2 * k + 2] \in PathTexts(c)
    BY <2>2 DEF PathsUsable, ValueAllowed, PathFlags
  <2>3. CASE line[2 * k + 1] = "-c" /\ line[2 * k + 2] = EffortArg(c.effort)
    BY <2>3 DEF CommandAllowed, ValueAllowed, PathFlags
  <2>4. CASE line[2 * k + 1] = "--color" /\ line[2 * k + 2] = "never"
    BY <2>4, FlagTexts DEF ValueAllowed, PathFlags
  <2>5. CASE line[2 * k + 1] = "-m" /\ line[2 * k + 2] = c.model /\ c.model # NoText
    BY <2>5 DEF CommandAllowed, ModelAllowed, ValueAllowed, PathFlags
  <2>6. QED
    BY <2>1, <2>2, <2>3, <2>4, <2>5 DEF PairTexts, PathTexts, PathFlags
<1>2. \A k \in 1 .. p : 2 * k + 2 <= Len(line)
  OBVIOUS
<1>3. QED
  BY <1>1, <1>2, BuiltFlags DEF PairsAllowed

\* A built line has a forbidden text only as the sandbox of an authorized command.
LEMMA AllowedMentions ==
  ASSUME NEW c, NEW line, NEW p \in 5 .. 7, Len(line) = 2 * p + 3, PairTexts(line, c, p),
         line[1] = c.codex_bin, line[2] = "exec", line[2 * p + 3] = c.prompt,
         CommandAllowed(c)
  PROVE  MentionsPlaced(line, p)
<1>1. ASSUME NEW k \in 1 .. p
      PROVE  Mentions(line[2 * k + 1]) = "none"
  BY BuiltFlags, FlagTexts
<1>2. ASSUME NEW k \in 1 .. p, Mentions(line[2 * k + 2]) # "none"
      PROVE  line[2 * k + 1] = "-s" /\ line[2 * k + 2] = "workspace-write"
  <2>1. CASE line[2 * k + 1] = "-s" /\ line[2 * k + 2] = c.sandbox
    BY <1>2, <2>1, FlagTexts DEF CommandAllowed, SandboxAllowed
  <2>2. line[2 * k + 2] \notin PathTexts(c)
    BY <1>2 DEF CommandAllowed
  <2>3. line[2 * k + 2] # EffortArg(c.effort)
    BY <1>2, FlagTexts DEF CommandAllowed
  <2>4. line[2 * k + 2] # "never"
    BY <1>2, FlagTexts
  <2>5. c.model # NoText => line[2 * k + 2] # c.model
    BY <1>2 DEF CommandAllowed, ModelAllowed
  <2>6. QED
    BY <2>1, <2>2, <2>3, <2>4, <2>5 DEF PairTexts, PathTexts
<1>3. Mentions(line[1]) = "none" /\ Mentions(line[2]) = "none" /\ Mentions(line[2 * p + 3]) = "none"
  BY FlagTexts DEF CommandAllowed
<1>4. ASSUME NEW i \in 1 .. Len(line), Mentions(line[i]) # "none"
      PROVE  \E k \in 1 .. p : /\ i = 2 * k + 2
                               /\ line[2 * k + 1] = "-s" /\ line[2 * k + 2] = "workspace-write"
  <2>1. p \in Nat /\ i \in 1 .. 2 * p + 3
    OBVIOUS
  <2>2. i \notin {1, 2, 2 * p + 3} /\ \A k \in 1 .. p : i # 2 * k + 1
    BY <1>1, <1>3, <1>4
  <2>3. PICK k \in 1 .. p : i = 2 * k + 2
    BY <2>1, <2>2, Positions
  <2>4. QED
    BY <1>2, <1>4, <2>3
<1>5. QED
  BY <1>4 DEF MentionsPlaced

\* And a forbidden text in any other part of the command is found.
LEMMA AcceptedMentions ==
  ASSUME NEW c, NEW line, NEW p \in 5 .. 7, Len(line) = 2 * p + 3, PairTexts(line, c, p),
         line[1] = c.codex_bin, EndTexts(line, c, p),
         MentionsPlaced(line, p), NEW text \in {c.codex_bin, c.prompt} \cup PathTexts(c)
  PROVE  Mentions(text) = "none"
<1>1. ASSUME NEW i \in 1 .. Len(line), Mentions(line[i]) # "none"
      PROVE  \E k \in 1 .. p : i = 2 * k + 2 /\ line[2 * k + 1] = "-s"
  BY <1>1 DEF MentionsPlaced
<1>2. CASE text \in {c.codex_bin, c.prompt}
  <2> line[2 * p + 3] = c.prompt
    BY DEF EndTexts
  <2>1. 1 \in 1 .. Len(line) /\ 2 * p + 3 \in 1 .. Len(line)
    OBVIOUS
  <2>2. \A k \in 1 .. p : 1 # 2 * k + 2 /\ 2 * p + 3 # 2 * k + 2
    OBVIOUS
  <2>3. QED
    BY <1>1, <1>2, <2>1, <2>2
<1>3. CASE text \in PathTexts(c)
  <2>1. PICK k \in 1 .. p : line[2 * k + 2] = text /\ line[2 * k + 1] # "-s"
    <3>1. 2 \in 1 .. p /\ 5 \in 1 .. p
      OBVIOUS
    <3>2. \A l \in 1 .. p :
             /\ l = 2 => line[2 * l + 1] = "-C" /\ line[2 * l + 2] = Absolute(c.workdir)
             /\ l = 5 => /\ line[2 * l + 1] = "--output-last-message"
                         /\ line[2 * l + 2] = Absolute(c.last_message_path)
             /\ l = 6 /\ c.schema_path # NoText =>
                         /\ line[2 * l + 1] = "--output-schema"
                         /\ line[2 * l + 2] = Absolute(c.schema_path)
      BY DEF PairTexts
    <3>3. CASE text = Absolute(c.workdir)
      BY <3>1, <3>2, <3>3
    <3>4. CASE text = Absolute(c.last_message_path)
      BY <3>1, <3>2, <3>4
    <3>5. CASE c.schema_path # NoText /\ text = Absolute(c.schema_path)
      <4>1. 6 \in 1 .. p
        BY <3>5 DEF EndTexts
      <4>2. QED
        BY <3>2, <3>5, <4>1
    <3>6. QED
      BY <1>3, <3>3, <3>4, <3>5 DEF PathTexts
  <2>2. 2 * k + 2 \in 1 .. Len(line) /\ \A l \in 1 .. p : 2 * k + 2 = 2 * l + 2 => k = l
    OBVIOUS
  <2>3. QED
    BY <1>1, <2>1, <2>2
<1>4. QED
  BY <1>2, <1>3

\* build_codex_argv refuses a request exactly when one of its parts is not allowed:
\* what the validator adds to the builder's own tests are the executable and the
\* forbidden texts.
THEOREM BuilderRefusesForItsParts ==
  ASSUME NEW c, PathsUsable(c), StartsWithDash(c.prompt) => IndentedDash(c.prompt)
  PROVE  BuildAllowed(c) <=> CommandAllowed(c)
<1> PICK line : line = BuildArgv(c)
  OBVIOUS
<1>1. PICK p \in 5 .. 7 : Len(line) = 2 * p + 3 /\ StartTexts(line, c) /\ EndTexts(line, c, p)
  BY BuiltTexts
<1>2. p \in Nat /\ Len(line) \in Nat /\ line # <<>>
  <2>1. Len(<<>>) = 0
    OBVIOUS
  <2>2. QED
    BY <1>1, <2>1
<1>3. PairTexts(line, c, p)
  BY <1>1, BuiltPairs
<1>4. /\ line[1] = c.codex_bin /\ line[2] = "exec"
      /\ line[2 * p + 3] = c.prompt /\ line[Len(line)] = c.prompt
  BY <1>1 DEF StartTexts, EndTexts
<1>5. ASSUME BuildAllowed(c)
      PROVE  CommandAllowed(c)
  <2>1. /\ ~Blank(c.prompt) /\ ~TooLong(c.prompt) /\ ~IndentedDash(c.prompt)
        /\ c.effort \in Efforts
        /\ c.model # NoText => ModelAllowed(c.model)
        /\ SandboxAllowed(c.sandbox, c.authorized)
        /\ ValidateArgv(line, c.authorized)
    BY <1>5 DEF BuildAllowed
  <2>2. IsCodex(line[1]) /\ MentionsPlaced(line, p)
    BY <1>1, <1>2, <2>1, AcceptedWellFormed, WellFormedShape
  <2>3. \A text \in {c.codex_bin, c.prompt} \cup PathTexts(c) : Mentions(text) = "none"
    BY <1>1, <1>3, <1>4, <2>2, AcceptedMentions
  <2>4. QED
    BY <1>4, <2>1, <2>2, <2>3 DEF CommandAllowed
<1>6. ASSUME CommandAllowed(c)
      PROVE  BuildAllowed(c)
  <2>1. PairsAllowed(line, p, c.authorized)
    BY <1>1, <1>3, <1>6, AllowedPairs
  <2>2. Required \subseteq FlagsOf(line, p)
    BY <1>3, BuiltFlags
  <2>3. MentionsPlaced(line, p)
    BY <1>1, <1>3, <1>4, <1>6, AllowedMentions
  <2>4. PromptAllowed(line[Len(line)])
    BY <1>4, <1>6 DEF CommandAllowed, PromptAllowed
  <2>5. WellFormed(line, c.authorized)
    BY <1>1, <1>2, <1>4, <1>6, <2>1, <2>2, <2>3, <2>4, WellFormedShape DEF CommandAllowed
  <2>6. ValidateArgv(line, c.authorized)
    BY <1>2, <2>5, WellFormedAccepted
  <2>7. QED
    BY <1>6, <2>6 DEF CommandAllowed, BuildAllowed
<1>7. QED
  BY <1>5, <1>6

\* In a line that was built, and passed, a flag stands nowhere but in its place.
LEMMA AllowedPlaces ==
  ASSUME NEW c, BuildAllowed(c), PathsUsable(c), StartsWithDash(c.prompt) => IndentedDash(c.prompt)
  PROVE  \E p \in 5 .. 7 :
            /\ Len(BuildArgv(c)) = 2 * p + 3
            /\ StartTexts(BuildArgv(c), c) /\ EndTexts(BuildArgv(c), c, p)
            /\ PairTexts(BuildArgv(c), c, p)
            /\ \A i \in 1 .. Len(BuildArgv(c)) :
                  BuildArgv(c)[i] \in Flags => \E k \in 1 .. p : i = 2 * k + 1
            /\ \A i \in 1 .. Len(BuildArgv(c)), k \in 1 .. p :
                  BuildArgv(c)[i] = BuildArgv(c)[2 * k + 1] => i = 2 * k + 1
<1> PICK line : line = BuildArgv(c)
  OBVIOUS
<1>1. PICK p \in 5 .. 7 : Len(line) = 2 * p + 3 /\ StartTexts(line, c) /\ EndTexts(line, c, p)
  BY BuiltTexts
<1>2. PairTexts(line, c, p) /\ CommandAllowed(c)
  BY <1>1, BuiltPairs, BuilderRefusesForItsParts
<1>3. PairsAllowed(line, p, c.authorized)
  BY <1>1, <1>2, AllowedPairs
<1>4. ASSUME NEW i \in 1 .. Len(line), line[i] \in Flags
      PROVE  \E k \in 1 .. p : i = 2 * k + 1
  <2>1. StartsWithDash(line[i]) /\ IndentedDash(line[i]) /\ ~IsCodex(line[i])
    BY <1>4, FlagTexts
  <2>2. line[1] = c.codex_bin /\ line[2] = "exec" /\ line[2 * p + 3] = c.prompt
    BY <1>1 DEF StartTexts, EndTexts
  <2>3. i # 1 /\ i # 2 * p + 3
    BY <1>2, <2>1, <2>2 DEF CommandAllowed
  <2>4. i # 2
    BY <1>4, <2>2 DEF Flags, Required, PathFlags
  <2>5. ASSUME NEW k \in 1 .. p
        PROVE  i # 2 * k + 2
    <3>1. ~StartsWithDash(line[2 * k + 2])
      BY <1>3, ValueNoFlag DEF PairsAllowed
    <3>2. QED
      BY <2>1, <3>1
  <2>6. p \in Nat /\ i \in 1 .. 2 * p + 3
    BY <1>1
  <2>7. QED
    BY <2>3, <2>4, <2>5, <2>6, Positions
<1>5. ASSUME NEW i \in 1 .. Len(line), NEW k \in 1 .. p, line[i] = line[2 * k + 1]
      PROVE  i = 2 * k + 1
  <2>1. line[i] \in Flags
    BY <1>2, <1>5, BuiltFlags
  <2>2. PICK l \in 1 .. p : i = 2 * l + 1
    BY <1>4, <2>1
  <2>3. QED
    BY <1>2, <1>5, <2>2, BuiltFlags
<1>6. QED
  BY <1>1, <1>2, <1>4, <1>5

==============================================================================
