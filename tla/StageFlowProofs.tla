-------------------------- MODULE StageFlowProofs --------------------------
(***************************************************************************)
(* Proofs about StageFlow, for every set of missions and every template    *)
(* that can be saved: the types, the order of the stages, alternatives,    *)
(* retired missions, what the plan says and what routines and sent-back    *)
(* teams may count on.                                                     *)
(***************************************************************************)
EXTENDS StageFlow, FiniteSetTheorems, WellFoundedInduction, TLAPS

-----------------------------------------------------------------------------
(* Induction over an interval.  The model's recursive functions (the        *)
(* rounds of Alive, the loop of SettleFrom) run over one.  The library's    *)
(* induction rule takes a predicate; stated about a set, it needs none.     *)

(* A set of naturals that is not empty has a least member. *)
LEMMA LeastNatural ==
  ASSUME NEW S \in SUBSET Nat, S # {}
  PROVE  \E n \in S : \A m \in S : n <= m
<1>1. IsWellFoundedOn(OpToRel(<, Nat), Nat) BY NatLessThanWellFounded
<1>2. PICK n \in S : \A m \in S : ~ (<<m, n>> \in OpToRel(<, Nat)) BY <1>1, WFMin, Zenon
<1>3. \A m \in S : ~ (m < n)
  <2> SUFFICES ASSUME NEW m \in S, m < n PROVE FALSE OBVIOUS
  <2>1. m \in Nat /\ n \in Nat OBVIOUS
  <2>2. <<m, n>> \in OpToRel(<, Nat) BY <2>1, Zenon DEF OpToRel
  <2> QED BY <1>2, <2>2, Zenon
<1> HIDE <1>1, <1>2
<1> QED BY <1>3

(* A set that holds the first member of an interval, and with each member *)
(* the next one, holds them all.                                          *)
LEMMA IntervalInduction ==
  ASSUME NEW lo \in Int, NEW hi \in Int, NEW S,
         lo \in S, \A i \in lo + 1 .. hi : i - 1 \in S => i \in S
  PROVE  lo .. hi \subseteq S
<1> SUFFICES ASSUME NEW j \in lo .. hi, j \notin S PROVE FALSE OBVIOUS
<1> DEFINE B == {n \in Nat : lo + n \in lo .. hi /\ lo + n \notin S}
<1>1. j - lo \in B OBVIOUS
<1>2. PICK n \in B : \A m \in B : n <= m BY <1>1, LeastNatural
<1>3. n # 0 BY <1>2
<1>4. n - 1 \in Nat /\ n - 1 \notin B BY <1>2, <1>3
<1>5. lo + (n - 1) \in S BY <1>4, <1>2
<1>6. (lo + n) - 1 = lo + (n - 1) BY <1>2
<1> QED BY <1>2, <1>3, <1>5, <1>6

(* f is computed from its first value by one step for each later argument. *)
Unfolds(f, lo, hi, base, step) ==
  f = [i \in lo .. hi |-> IF i = lo THEN base ELSE step[<<i, f[i - 1]>>]]

(* A recursion over an interval has a solution. *)
LEMMA RecursionExists ==
  ASSUME NEW lo \in Int, NEW hi \in Int, NEW V, NEW base \in V,
         NEW step \in [Int \X V -> V]
  PROVE  \E f \in [lo .. hi -> V] : Unfolds(f, lo, hi, base, step)
<1> DEFINE Good(n) == \E f \in [lo .. n -> V] : Unfolds(f, lo, n, base, step)
       S == {n \in lo .. hi : Good(n)}
<1>1. Good(lo)
  <2> DEFINE f == [i \in lo .. lo |-> base]
  <2>1. f \in [lo .. lo -> V] OBVIOUS
  <2>2. f = [i \in lo .. lo |-> IF i = lo THEN base ELSE step[<<i, f[i - 1]>>]] OBVIOUS
  <2> QED BY <2>1, <2>2 DEF Unfolds
<1>2. ASSUME NEW n \in lo + 1 .. hi, Good(n - 1) PROVE Good(n)
  <2>1. PICK f \in [lo .. n - 1 -> V] :
           f = [i \in lo .. n - 1 |-> IF i = lo THEN base ELSE step[<<i, f[i - 1]>>]]
        BY <1>2 DEF Unfolds
  <2> DEFINE g == [i \in lo .. n |-> IF i = n THEN step[<<n, f[n - 1]>>] ELSE f[i]]
  <2>2. n - 1 \in lo .. n - 1 /\ f[n - 1] \in V OBVIOUS
  <2>3. g \in [lo .. n -> V] BY <2>2
  <2>4. ASSUME NEW i \in lo .. n PROVE g[i] = IF i = lo THEN base ELSE step[<<i, g[i - 1]>>]
    <3>1. CASE i = n
      <4>1. n # lo /\ g[i] = step[<<n, f[n - 1]>>] BY <3>1
      <4>2. n - 1 \in lo .. n /\ n - 1 # n OBVIOUS
      <4>3. g[n - 1] = f[n - 1] BY <4>2
      <4> QED BY <3>1, <4>1, <4>3
    <3>2. CASE i # n
      <4>1. i \in lo .. n - 1 BY <3>2
      <4>2. g[i] = f[i] BY <3>2
      <4>3. f[i] = IF i = lo THEN base ELSE step[<<i, f[i - 1]>>] BY <2>1, <4>1
      <4>4. CASE i = lo BY <4>2, <4>3, <4>4
      <4>5. CASE i # lo
        <5>1. i - 1 \in lo .. n /\ i - 1 # n BY <4>5, <4>1
        <5>2. g[i - 1] = f[i - 1] BY <5>1
        <5> QED BY <4>2, <4>3, <4>5, <5>2
      <4> QED BY <4>4, <4>5
    <3> QED BY <3>1, <3>2
  <2> QED BY <2>3, <2>4 DEF Unfolds
<1>3. CASE lo <= hi
  <2>0. lo \in lo .. hi BY <1>3
  <2> HIDE DEF Good
  <2>1. lo \in S BY <1>1, <2>0
  <2>2. \A n \in lo + 1 .. hi : n - 1 \in S => n \in S BY <1>2
  <2>3. lo .. hi \subseteq S BY <2>1, <2>2, IntervalInduction
  <2>4. hi \in S BY <2>3, <2>0, <1>3
  <2>5. Good(hi) BY <2>4
  <2> QED BY <2>5 DEF Good
<1>4. CASE ~ (lo <= hi)
  <2>1. lo .. hi = {} BY <1>4
  <2> DEFINE f == [i \in lo .. hi |-> base]
  <2>2. f = [i \in lo .. hi |-> IF i = lo THEN base ELSE step[<<i, f[i - 1]>>]] BY <2>1
  <2>3. f \in [lo .. hi -> V] OBVIOUS
  <2> QED BY <2>2, <2>3 DEF Unfolds
<1> QED BY <1>3, <1>4

-----------------------------------------------------------------------------
(* The rounds of Alive.                                                     *)

(* A is the least set that holds the seed and, with a mission's gate, the   *)
(* mission, for the missions of U.                                          *)
Closed(A, U, gate)      == \A m \in U : gate[m] \subseteq A => m \in A
Least(A, seed, U, gate) ==
  /\ seed \subseteq A /\ A \subseteq seed \cup U
  /\ Closed(A, U, gate)
  /\ \A m \in A \ seed : gate[m] \subseteq A
  /\ \A S : seed \subseteq S /\ Closed(S, U, gate) => A \subseteq S

Round(A, U, gate) == A \cup {m \in U : gate[m] \subseteq A}

(* As many rounds as there are missions reach the least set. *)
LEMMA RoundsUpTo ==
  ASSUME NEW T, IsFiniteSet(T), NEW seed \in SUBSET T, NEW U \in SUBSET T, NEW gate,
         NEW N \in Nat, N = Cardinality(T), NEW grown, grown[0] = seed,
         \A i \in 1 .. N : grown[i] = Round(grown[i - 1], U, gate)
  PROVE  Least(grown[N], seed, U, gate)
<1> DEFINE A == grown[N]
<1>0. /\ 0 \in Int /\ N \in Int
      /\ \A i \in 0 + 1 .. N : i \in Int /\ i \in 1 .. N /\ i - 1 \in Int
  OBVIOUS
<1>3. \A i \in 0 .. N : grown[i] \subseteq seed \cup U /\ seed \subseteq grown[i]
  <2> DEFINE S == {i \in Int : grown[i] \subseteq seed \cup U /\ seed \subseteq grown[i]}
  <2>1. 0 \in S OBVIOUS
  <2>2. \A i \in 0 + 1 .. N : i - 1 \in S => i \in S BY <1>0 DEF Round
  <2> HIDE DEF S
  <2>3. 0 .. N \subseteq S BY <1>0, <2>1, <2>2, IntervalInduction
  <2> QED BY <2>3 DEF S
<1>4. \A i \in 0 .. N : \A m \in grown[i] \ seed : gate[m] \subseteq grown[i]
  <2> DEFINE S == {i \in Int : \A m \in grown[i] \ seed : gate[m] \subseteq grown[i]}
  <2>1. 0 \in S OBVIOUS
  <2>2. \A i \in 0 + 1 .. N : i - 1 \in S => i \in S BY <1>0 DEF Round
  <2> HIDE DEF S
  <2>3. 0 .. N \subseteq S BY <1>0, <2>1, <2>2, IntervalInduction
  <2> QED BY <2>3 DEF S
<1>5. ASSUME NEW X, seed \subseteq X, Closed(X, U, gate)
      PROVE  A \subseteq X
  <2> DEFINE S == {i \in Int : grown[i] \subseteq X}
  <2>1. 0 \in S BY <1>5
  <2>2. \A i \in 0 + 1 .. N : i - 1 \in S => i \in S BY <1>0, <1>5 DEF Round, Closed
  <2> HIDE DEF S
  <2>3. 0 .. N \subseteq S BY <1>0, <2>1, <2>2, IntervalInduction
  <2>4. N \in 0 .. N OBVIOUS
  <2> QED BY <2>3, <2>4 DEF S
<1>6. Closed(A, U, gate)
  <2> DEFINE S == {i \in Int : Closed(grown[i], U, gate) \/ Cardinality(grown[i]) >= i}
  <2>0. \A i \in 0 .. N : IsFiniteSet(grown[i]) /\ grown[i] \subseteq T /\ Cardinality(grown[i]) \in Nat
    BY <1>3, FS_Subset, FS_CardinalityType
  <2>1. 0 \in S
    <3>1. Cardinality(grown[0]) \in Nat BY <2>0
    <3> QED BY <3>1
  <2>2. ASSUME NEW i \in 0 + 1 .. N, i - 1 \in S PROVE i \in S
    <3> DEFINE g == grown[i - 1]
               h == grown[i]
    <3>1. h = Round(g, U, gate) /\ g \subseteq h BY <1>0 DEF Round
    <3>2. i - 1 \in 0 .. N /\ i \in 0 .. N OBVIOUS
    <3>3. CASE Closed(g, U, gate)
      <4>1. h = g BY <3>1, <3>3 DEF Round, Closed
      <4> QED BY <4>1, <3>3
    <3>4. CASE ~ Closed(g, U, gate)
      <4>1. PICK m \in U : gate[m] \subseteq g /\ m \notin g BY <3>4 DEF Closed
      <4>2. m \in h BY <3>1, <4>1 DEF Round
      <4>3. IsFiniteSet(g) /\ IsFiniteSet(h) /\ Cardinality(g) \in Nat /\ Cardinality(h) \in Nat
        BY <2>0, <3>2
      <4>4. Cardinality(g \cup {m}) = Cardinality(g) + 1 /\ IsFiniteSet(g \cup {m})
        BY ONLY <4>1, <4>3, FS_AddElement
      <4>5. Cardinality(g \cup {m}) <= Cardinality(h) BY <3>1, <4>2, <4>3, FS_Subset
      <4>6. Cardinality(g) >= i - 1 BY <2>2, <3>4
      <4>7. Cardinality(h) >= i BY <4>3, <4>4, <4>5, <4>6
      <4> QED BY <4>7
    <3> QED BY <3>3, <3>4
  <2> HIDE DEF S
  <2>3. 0 .. N \subseteq S BY <1>0, <2>1, <2>2, IntervalInduction
  <2>4. N \in 0 .. N OBVIOUS
  <2>5. Closed(A, U, gate) \/ Cardinality(A) >= N BY <2>3, <2>4 DEF S
  <2>6. CASE Cardinality(A) >= N
    <3>1. IsFiniteSet(A) /\ A \subseteq T /\ Cardinality(A) \in Nat BY <2>0, <2>4
    <3>2. Cardinality(A) <= N BY <3>1, FS_Subset
    <3>3. Cardinality(A) = N BY <2>6, <3>1, <3>2
    <3>4. A = T BY <3>1, <3>3, FS_Subset
    <3> QED BY <3>4 DEF Closed
  <2> QED BY <2>5, <2>6
<1>7. N \in 0 .. N OBVIOUS
<1> QED BY <1>3, <1>4, <1>5, <1>6, <1>7 DEF Least

LEMMA RoundsReachLeast ==
  ASSUME NEW T, IsFiniteSet(T), NEW seed \in SUBSET T, NEW U \in SUBSET T, NEW gate,
         NEW grown,
         grown = [i \in 0 .. Cardinality(T) |->
                    IF i = 0 THEN seed ELSE Round(grown[i - 1], U, gate)]
  PROVE  Least(grown[Cardinality(T)], seed, U, gate)
<1> DEFINE N == Cardinality(T)
<1>1. N \in Nat BY FS_CardinalityType
<1> HIDE DEF N
<1>2. /\ grown[0] = seed
      /\ \A i \in 1 .. N : grown[i] = Round(grown[i - 1], U, gate)
  BY <1>1 DEF N
<1> QED BY <1>1, <1>2, RoundsUpTo DEF N

-----------------------------------------------------------------------------
(* The template. *)

LEMMA TheTemplate ==
  ASSUME game \in Games
  PROVE  /\ Len(game.tasks) \in Nat \ {0}
         /\ Stages = 1 .. Len(game.tasks)
         /\ \A s \in Stages :
              /\ game.tasks[s] \subseteq Missions
              /\ IsFiniteSet(game.tasks[s])
              /\ Playable(s) \subseteq game.tasks[s]
              /\ Playable(s) \cap game.benched = {}
              /\ Playable(s) # {}
              /\ IsFiniteSet(Playable(s))
              /\ Cardinality(Playable(s)) \in Nat
         /\ \A s, i \in Stages : s # i => game.tasks[s] \cap game.tasks[i] = {}
         /\ game.gate \in [Missions -> SUBSET Missions]
         /\ \A s \in Stages : \A m \in game.tasks[s] : game.gate[m] \subseteq game.tasks[s]
         /\ game.required \in [Stages -> {Unset} \cup (Nat \ {0})]
<1>1. /\ game.tasks \in Seq(SUBSET Missions) /\ Len(game.tasks) >= 1
      /\ \A i, j \in DOMAIN game.tasks : i # j => game.tasks[i] \cap game.tasks[j] = {}
      /\ game.gate \in [Missions -> SUBSET Missions]
      /\ \A i \in DOMAIN game.tasks : \A m \in game.tasks[i] : game.gate[m] \subseteq game.tasks[i] \ {m}
      /\ game.required \in [DOMAIN game.tasks -> {Unset} \cup (Nat \ {0})]
      /\ \A i \in DOMAIN game.tasks : game.tasks[i] \ game.benched # {}
  BY GamesAssumption DEF GamesAssumption
<1>2. Stages = 1 .. Len(game.tasks) /\ Len(game.tasks) \in Nat \ {0} BY <1>1 DEF Stages
<1>3. \A s \in Stages : game.tasks[s] \subseteq Missions BY <1>1, <1>2
<1>4. \A s \in Stages : IsFiniteSet(game.tasks[s])
  BY <1>3, MissionsAssumption, FS_Subset DEF MissionsAssumption
<1>5. \A s \in Stages :
        /\ Playable(s) \subseteq game.tasks[s] /\ Playable(s) # {}
        /\ Playable(s) \cap game.benched = {}
  BY <1>1 DEF Playable, Stages
<1>6. \A s \in Stages : IsFiniteSet(Playable(s)) /\ Cardinality(Playable(s)) \in Nat
  BY <1>4, <1>5, FS_Subset, FS_CardinalityType
<1> QED BY <1>1, <1>2, <1>3, <1>4, <1>5, <1>6 DEF Stages

LEMMA TheStageOf ==
  ASSUME game \in Games
  PROVE  /\ \A s \in Stages : \A m \in game.tasks[s] : StageOf(m) = s /\ m \in InGame
         /\ \A m \in InGame : StageOf(m) \in Stages /\ m \in game.tasks[StageOf(m)]
         /\ InGame \subseteq Missions
<1>1. \A s \in Stages : game.tasks[s] \subseteq Missions BY TheTemplate
<1>2. \A s, i \in Stages : s # i => game.tasks[s] \cap game.tasks[i] = {} BY TheTemplate
<1>3. ASSUME NEW m, NEW s \in Stages, m \in game.tasks[s] PROVE StageOf(m) = s
  <2>1. \A i \in Stages : m \in game.tasks[i] <=> i = s BY <1>2, <1>3
  <2> QED BY <2>1 DEF StageOf
<1> QED BY <1>1, <1>3 DEF InGame

-----------------------------------------------------------------------------
(* The missions that can still be completed. *)

Seed(d, s) ==
  {m \in game.tasks[s] : d.status[m] = "assigned" \/ SatisfiesGate(d, m)}

(* Alive is the least set that holds what is in hand or satisfies a gate    *)
(* and, with a mission's prerequisites, the unassigned mission.             *)
LEMMA AliveIsLeast ==
  ASSUME game \in Games, NEW s \in Stages, NEW d
  PROVE  Least(Alive(d, s), Seed(d, s), Those(d, game.tasks[s], "unassigned"), game.gate)
<1> DEFINE T == game.tasks[s]
           U == Those(d, T, "unassigned")
           A == Seed(d, s)
           N == Cardinality(T)
           step == [x \in Int \X SUBSET T |-> Round(x[2], U, game.gate)]
           Is(f) == f = [i \in 0 .. N |->
                           IF i = 0 THEN A
                           ELSE f[i - 1] \cup {m \in U : game.gate[m] \subseteq f[i - 1]}]
           grown == CHOOSE f : Is(f)
<1>1. A \in SUBSET T /\ U \in SUBSET T BY DEF Seed, Those
<1>2. IsFiniteSet(T) /\ N \in Nat BY TheTemplate, FS_CardinalityType
<1>3. step \in [Int \X SUBSET T -> SUBSET T] BY <1>1 DEF Round
<1>4. 0 \in Int /\ N \in Int BY <1>2
<1>5. PICK f \in [0 .. N -> SUBSET T] : Unfolds(f, 0, N, A, step)
  <2> HIDE DEF step, N, A, T
  <2> QED BY <1>1, <1>3, <1>4, RecursionExists
<1>6. \A i \in 0 .. N : i # 0 => /\ <<i, f[i - 1]>> \in Int \X SUBSET T
                                 /\ step[<<i, f[i - 1]>>]
                                      = f[i - 1] \cup {m \in U : game.gate[m] \subseteq f[i - 1]}
  BY <1>4, <1>5 DEF Round
<1>7. Is(f)
  <2> HIDE DEF step, U, A, T, N
  <2> QED BY <1>5, <1>6 DEF Unfolds
<1>8. Is(grown) BY <1>7
<1>9. Alive(d, s) = grown[N] BY DEF Alive, Seed
<1> HIDE DEF grown, step, U, A, T, N
<1>10. grown = [i \in 0 .. N |-> IF i = 0 THEN A ELSE Round(grown[i - 1], U, game.gate)]
  BY <1>8 DEF Round
<1>11. Least(grown[N], A, U, game.gate) BY <1>1, <1>2, <1>10, RoundsReachLeast DEF N
<1> QED BY <1>9, <1>11 DEF U, A, T

(* The least set depends on nothing else. *)
LEMMA LeastIsUnique ==
  ASSUME NEW A, NEW B, NEW seed, NEW U, NEW gate,
         Least(A, seed, U, gate), Least(B, seed, U, gate)
  PROVE  A = B
<1>1. A \subseteq B BY DEF Least
<1>2. B \subseteq A BY DEF Least
<1> QED BY <1>1, <1>2

-----------------------------------------------------------------------------
(* The team document and what a call writes into it. *)

Docs == [stage    : [Stages -> {"locked", "active", "completed"}],
         required : [Stages -> {Unset} \cup Nat],
         status   : [Missions -> Open \cup Terminal],
         cause    : [Missions -> Causes],
         finished : BOOLEAN]

(* The shape of TypeOK, for any document. *)
Kept(d) ==
  /\ d \in Docs
  /\ \A m \in Missions : d.status[m] = "skipped" <=> d.cause[m] # "none"
  /\ \A m \in game.benched : d.status[m] = "unassigned"

(* A record that is written has a cause exactly when it is skipped. *)
Cause(st, why) ==
  /\ st \in Open \cup Terminal /\ why \in Causes
  /\ st = "skipped" <=> why # "none"

LEMMA WithIs ==
  ASSUME NEW d \in Docs, NEW S, NEW st, NEW why
  PROVE  /\ With(d, S, st, why).stage = d.stage
         /\ With(d, S, st, why).required = d.required
         /\ With(d, S, st, why).finished = d.finished
         /\ \A m \in Missions :
              /\ With(d, S, st, why).status[m] = IF m \in S THEN st ELSE d.status[m]
              /\ With(d, S, st, why).cause[m] = IF m \in S THEN why ELSE d.cause[m]
BY DEF With, Docs

LEMMA WithKeeps ==
  ASSUME game \in Games, NEW d, Kept(d), NEW S, S \cap game.benched = {},
         NEW st, NEW why, Cause(st, why)
  PROVE  Kept(With(d, S, st, why))
<1>1. With(d, S, st, why) \in Docs BY DEF With, Kept, Docs, Cause
<1>2. game.benched \subseteq Missions BY GamesAssumption DEF GamesAssumption
<1> QED BY <1>1, <1>2, WithIs DEF Kept, Cause

(* No mission of a stage that is playable is benched. *)
LEMMA PlayableKept ==
  ASSUME game \in Games, NEW s \in Stages
  PROVE  Playable(s) \cap game.benched = {} /\ Playable(s) \subseteq Missions
                                            /\ Playable(s) \subseteq game.tasks[s]
BY TheTemplate

LEMMA RetiredIs ==
  ASSUME game \in Games, NEW s \in Stages, NEW d, Kept(d)
  PROVE  /\ Kept(Retired(d, s))
         /\ Retired(d, s).stage = d.stage
         /\ Retired(d, s).required = d.required
         /\ Retired(d, s).finished = d.finished
         /\ \A m \in Missions :
              Retired(d, s).status[m] =
                IF m \in Unreachable(d, s) \cap Playable(s) THEN "skipped" ELSE d.status[m]
         /\ \A m \in Unreachable(d, s) : d.status[m] = "unassigned"
<1>1. Cause("skipped", "unreachable") BY DEF Cause, Open, Terminal, Causes
<1>2. (Unreachable(d, s) \cap Playable(s)) \cap game.benched = {} BY PlayableKept
<1>3. d \in Docs BY DEF Kept
<1>4. Kept(Retired(d, s)) BY <1>1, <1>2, WithKeeps DEF Retired
<1>5. \A m \in Unreachable(d, s) : d.status[m] = "unassigned" BY DEF Unreachable, Those
<1> QED BY <1>3, <1>4, <1>5, WithIs DEF Retired

(* What settling stage s leaves of a document d. *)
Settled(d, s, e) ==
  /\ Kept(e) /\ e.required = d.required /\ e.finished = d.finished
  /\ \A m \in Missions \ Playable(s) : e.status[m] = d.status[m]
  /\ \A m \in Missions : /\ e.status[m] = "completed" <=> d.status[m] = "completed"
                         /\ e.status[m] = "assigned" => d.status[m] = "assigned"
                         /\ d.status[m] \in Terminal => e.status[m] = d.status[m]
  /\ \/ /\ e.stage = OpenNext(d.stage, s)
        /\ \A m \in Playable(s) : e.status[m] \in Terminal
     \/ /\ e.stage = d.stage
        /\ e = Retired(d, s)
        /\ ~ StageDone(e, s)
        /\ \E m \in Playable(s) : e.status[m] \in Open

LEMMA SettleIs ==
  ASSUME game \in Games, NEW s \in Stages, NEW d, Kept(d)
  PROVE  Settled(d, s, Settle(d, s))
<1> DEFINE r == Retired(d, s)
           left == {m \in Playable(s) : r.status[m] \in Open}
           w == With(r, left, "skipped", "stageSatisfied")
           e == [w EXCEPT !.stage = OpenNext(@, s)]
<1>1. /\ Kept(r) /\ r.stage = d.stage /\ r.required = d.required /\ r.finished = d.finished
      /\ \A m \in Missions :
           r.status[m] = IF m \in Unreachable(d, s) \cap Playable(s) THEN "skipped" ELSE d.status[m]
      /\ \A m \in Unreachable(d, s) : d.status[m] = "unassigned"
  BY RetiredIs
<1>2. Settle(d, s) = IF StageDone(r, s) THEN e ELSE r BY DEF Settle
<1>3. /\ Playable(s) \cap game.benched = {} /\ Playable(s) \subseteq Missions
      /\ r \in Docs /\ d \in Docs
  BY <1>1, PlayableKept DEF Kept
<1>4. \A m \in Missions : d.status[m] \in Open \cup Terminal /\ r.status[m] \in Open \cup Terminal
  BY <1>3 DEF Docs
<1> HIDE DEF r
<1>5. CASE StageDone(r, s)
  <2>1. Cause("skipped", "stageSatisfied") BY DEF Cause, Open, Terminal, Causes
  <2>2. Kept(w) BY <1>1, <1>3, <2>1, WithKeeps
  <2>3. /\ w.stage = r.stage /\ w.required = r.required /\ w.finished = r.finished
        /\ \A m \in Missions : w.status[m] = IF m \in left THEN "skipped" ELSE r.status[m]
    BY <1>3, WithIs
  <2> HIDE DEF w
  <2>4. w \in Docs BY <2>2 DEF Kept
  <2>5. OpenNext(w.stage, s) \in [Stages -> {"locked", "active", "completed"}]
    BY <2>4 DEF Docs, OpenNext
  <2>6. e \in Docs /\ e.status = w.status /\ e.cause = w.cause /\ e.required = w.required
        /\ e.finished = w.finished /\ e.stage = OpenNext(w.stage, s)
    BY <2>4, <2>5 DEF Docs
  <2>7. Kept(e) BY <2>2, <2>6 DEF Kept
  <2> HIDE DEF e
  <2>8. \A m \in Playable(s) : e.status[m] \in Terminal
    BY <1>3, <1>4, <2>3, <2>6 DEF Terminal, Open
  <2>9. /\ \A m \in Missions \ Playable(s) : e.status[m] = d.status[m]
        /\ \A m \in Missions : /\ e.status[m] = "completed" <=> d.status[m] = "completed"
                               /\ e.status[m] = "assigned" => d.status[m] = "assigned"
                               /\ d.status[m] \in Terminal => e.status[m] = d.status[m]
    BY <1>1, <1>4, <2>3, <2>6 DEF Terminal, Open
  <2>10. Settle(d, s) = e BY <1>2, <1>5
  <2> QED BY <1>1, <2>3, <2>6, <2>7, <2>8, <2>9, <2>10 DEF Settled
<1>6. CASE ~ StageDone(r, s)
  <2>1. Settle(d, s) = r BY <1>2, <1>6
  <2>2. PICK m \in Playable(s) : r.status[m] \notin Terminal BY <1>6 DEF StageDone
  <2>3. r.status[m] \in Open BY <1>3, <1>4, <2>2 DEF Open, Terminal
  <2>4. /\ \A x \in Missions \ Playable(s) : r.status[x] = d.status[x]
        /\ \A x \in Missions : /\ r.status[x] = "completed" <=> d.status[x] = "completed"
                               /\ r.status[x] = "assigned" => d.status[x] = "assigned"
                               /\ d.status[x] \in Terminal => r.status[x] = d.status[x]
    BY <1>1, <1>4 DEF Terminal, Open
  <2> QED BY <1>1, <1>6, <2>1, <2>3, <2>4 DEF Settled, r
<1> QED BY <1>5, <1>6

-----------------------------------------------------------------------------
(* The stages of a document, in order.                                      *)

(* StagesInOrder at stage k, but for the stamp of the team that finished;   *)
(* k is one more than the number of stages when none is left.               *)
Positions == 1 .. Len(game.tasks) + 1

InOrder(d, k) ==
  /\ \A s \in Stages : d.stage[s] = IF s < k THEN "completed"
                                    ELSE IF s = k THEN "active" ELSE "locked"
  /\ \A s \in Stages : s < k => \A m \in Playable(s) : d.status[m] \in Terminal
  /\ \A s \in Stages \ {k} : Those(d, game.tasks[s], "assigned") = {}
  /\ \A m, x \in InGame : d.status[m] = "assigned" /\ d.status[x] = "assigned" => m = x

(* A document that keeps every status and stage keeps the order. *)
LEMMA OrderIsOfStages ==
  ASSUME NEW d, NEW e, NEW k, InOrder(d, k), e.stage = d.stage,
         \A m \in InGame : e.status[m] = d.status[m] \/ (e.status[m] \in Terminal)
  PROVE  InOrder(e, k)
<1>1. \A s \in Stages : game.tasks[s] \subseteq InGame BY DEF InGame
<1>2. \A s \in Stages : Playable(s) \subseteq InGame BY <1>1 DEF Playable
<1>3. \A m \in InGame : e.status[m] = "assigned" => d.status[m] = "assigned"
  BY DEF Terminal
<1>4. \A s \in Stages \ {k} : Those(e, game.tasks[s], "assigned") = {}
  BY <1>1, <1>3 DEF InOrder, Those
<1>5. \A s \in Stages : s < k => \A m \in Playable(s) : e.status[m] \in Terminal
  BY <1>2 DEF InOrder
<1> QED BY <1>3, <1>4, <1>5 DEF InOrder

(* Settling the stage that is played leaves it played, with something open  *)
(* in it, or moves the team one stage on.                                   *)
LEMMA SettleMovesOn ==
  ASSUME game \in Games, NEW k \in Stages, NEW d, Kept(d), InOrder(d, k)
  PROVE  \/ /\ InOrder(Settle(d, k), k)
            /\ \E m \in Playable(k) : Settle(d, k).status[m] \in Open
         \/ InOrder(Settle(d, k), k + 1)
<1> DEFINE e == Settle(d, k)
<1>1. Settled(d, k, e) BY SettleIs
<1>2. Stages = 1 .. Len(game.tasks) /\ Len(game.tasks) \in Nat /\ k \in Nat BY TheTemplate
<1>3. /\ InGame \subseteq Missions
      /\ \A s \in Stages : game.tasks[s] \subseteq InGame /\ Playable(s) \subseteq game.tasks[s]
  BY TheStageOf, TheTemplate
<1>4. \A m \in InGame : d.status[m] \in Open \cup Terminal BY <1>3 DEF Kept, Docs
<1> HIDE DEF e
<1>5. CASE /\ e.stage = d.stage
           /\ \E m \in Playable(k) : e.status[m] \in Open
  <2>1. InOrder(e, k)
    <3>1. \A s \in Stages \ {k} : Those(e, game.tasks[s], "assigned") = {}
      BY <1>1, <1>3 DEF Settled, InOrder, Those
    <3>2. \A s \in Stages : s < k => \A m \in Playable(s) : e.status[m] \in Terminal
      BY <1>1, <1>3 DEF Settled, InOrder
    <3>3. \A m \in InGame : e.status[m] = "assigned" => d.status[m] = "assigned"
      BY <1>1, <1>3 DEF Settled
    <3> QED BY <1>5, <3>1, <3>2, <3>3 DEF InOrder
  <2> QED BY <1>5, <2>1 DEF e
<1>6. CASE /\ e.stage = OpenNext(d.stage, k)
           /\ \A m \in Playable(k) : e.status[m] \in Terminal
  <2>1. DOMAIN d.stage = Stages BY DEF Kept, Docs
  <2>2. \A s \in Stages : e.stage[s] = IF s < k + 1 THEN "completed"
                                       ELSE IF s = k + 1 THEN "active" ELSE "locked"
    BY <1>2, <1>6, <2>1 DEF OpenNext, InOrder
  <2>3. \A s \in Stages : s < k + 1 => \A m \in Playable(s) : e.status[m] \in Terminal
    BY <1>1, <1>2, <1>3, <1>6 DEF Settled, InOrder
  <2>4. \A m \in game.tasks[k] : e.status[m] # "assigned"
    <3>1. ASSUME NEW m \in game.tasks[k], m \notin Playable(k) PROVE e.status[m] # "assigned"
      BY <1>1, <3>1 DEF Playable, Settled, Kept
    <3> QED BY <1>6, <3>1 DEF Terminal
  <2>5. \A m \in InGame : e.status[m] = "assigned" => d.status[m] = "assigned"
    BY <1>1, <1>3 DEF Settled
  <2>6. \A s \in Stages \ {k + 1} : Those(e, game.tasks[s], "assigned") = {}
    BY <1>3, <2>4, <2>5 DEF InOrder, Those
  <2>7. InOrder(e, k + 1) BY <2>2, <2>3, <2>5, <2>6 DEF InOrder
  <2> QED BY <2>7 DEF e
<1> QED BY <1>1, <1>5, <1>6 DEF Settled

(* The loop of a send-back, one round per stage. *)
SettleRounds(f, d, t) ==
  /\ f[t - 1] = d
  /\ \A i \in t .. Len(game.tasks) :
       f[i] = IF f[i - 1].stage[i] = "active" THEN Settle(f[i - 1], i) ELSE f[i - 1]

LEMMA SettleFromRounds ==
  ASSUME game \in Games, NEW t \in Stages, NEW d, Kept(d)
  PROVE  \E f : SettleRounds(f, d, t) /\ SettleFrom(d, t) = f[Len(game.tasks)]
                                      /\ \A i \in t - 1 .. Len(game.tasks) : Kept(f[i])
<1> DEFINE N == Len(game.tasks)
           V == {e \in Docs : Kept(e)}
           next(i, e) == IF e.stage[i] = "active" THEN Settle(e, i) ELSE e
           step == [x \in Int \X V |-> IF x[1] \in Stages THEN next(x[1], x[2]) ELSE x[2]]
           Is(f) == f = [i \in (t - 1) .. N |->
                           IF i = t - 1 THEN d
                           ELSE IF f[i - 1].stage[i] = "active" THEN Settle(f[i - 1], i)
                           ELSE f[i - 1]]
           settled == CHOOSE f : Is(f)
<1>1. N \in Int /\ t - 1 \in Int /\ Stages = 1 .. N /\ t \in 1 .. N BY TheTemplate
<1>2. d \in V BY DEF Kept
<1>3. ASSUME NEW i \in Stages, NEW e \in V PROVE next(i, e) \in V
  <2>1. Kept(Settle(e, i)) BY SettleIs DEF Settled
  <2>2. Settle(e, i) \in V BY <2>1 DEF Kept
  <2> QED BY <2>2
<1>4. step \in [Int \X V -> V]
  <2> HIDE DEF next, V
  <2>1. \A x \in Int \X V : x[2] \in V OBVIOUS
  <2> QED BY <1>3, <2>1
<1>5. PICK f \in [(t - 1) .. N -> V] : Unfolds(f, t - 1, N, d, step)
  <2> HIDE DEF step, N, V
  <2> QED BY <1>1, <1>2, <1>4, RecursionExists
<1>6. \A i \in (t - 1) .. N : i # t - 1 =>
        /\ i \in Stages /\ <<i, f[i - 1]>> \in Int \X V
        /\ step[<<i, f[i - 1]>>] = next(i, f[i - 1])
  <2> HIDE DEF V, N, next
  <2>1. \A i \in (t - 1) .. N : i # t - 1 => i \in Stages /\ i \in Int /\ i - 1 \in (t - 1) .. N
    BY <1>1
  <2> QED BY <2>1
<1>7. Is(f)
  <2> HIDE DEF step, V, N
  <2> QED BY <1>5, <1>6 DEF Unfolds
<1>8. Is(settled) BY <1>7
<1>9. SettleFrom(d, t) = settled[N] BY DEF SettleFrom
<1> HIDE DEF settled, step, N
<1>10. settled[t - 1] = d BY <1>1, <1>8
<1>11. \A i \in t .. N : settled[i] = next(i, settled[i - 1]) BY <1>1, <1>8
<1>12. \A i \in t - 1 .. N : Kept(settled[i])
  <2> DEFINE S == {i \in Int : settled[i] \in V}
  <2> HIDE DEF next, V
  <2>1. t - 1 \in S BY <1>1, <1>2, <1>10
  <2>2. \A i \in (t - 1) + 1 .. N : i \in Stages /\ i \in Int /\ i \in t .. N BY <1>1
  <2>3. \A i \in (t - 1) + 1 .. N : i - 1 \in S => i \in S BY <1>3, <1>11, <2>2
  <2> HIDE DEF S
  <2>4. (t - 1) .. N \subseteq S BY <1>1, <2>1, <2>3, IntervalInduction
  <2> QED BY <2>4 DEF S, V
<1> QED BY <1>9, <1>10, <1>11, <1>12 DEF SettleRounds, N

(* Settling from the stage that is played on leaves the stages in order.    *)
LEMMA SettleFromKeepsOrder ==
  ASSUME game \in Games, NEW t \in Stages, NEW d, Kept(d), InOrder(d, t)
  PROVE  /\ Kept(SettleFrom(d, t))
         /\ \E k \in Positions : InOrder(SettleFrom(d, t), k)
         /\ \A m \in Missions :
              SettleFrom(d, t).status[m] = "completed" <=> d.status[m] = "completed"
<1> DEFINE N == Len(game.tasks)
           Like(e) == /\ \E k \in Positions : InOrder(e, k)
                      /\ \A m \in Missions :
                           e.status[m] = "completed" <=> d.status[m] = "completed"
<1>1. N \in Int /\ t - 1 \in Int /\ N \in t - 1 .. N /\ Stages = 1 .. N /\ Positions = 1 .. N + 1
  BY TheTemplate DEF Positions
<1>2. PICK f : /\ SettleRounds(f, d, t) /\ SettleFrom(d, t) = f[N]
               /\ \A i \in t - 1 .. N : Kept(f[i])
  BY SettleFromRounds
<1> HIDE DEF N
<1> DEFINE S == {i \in Int : Like(f[i])}
<1>3. t - 1 \in S
  <2>1. t \in Positions BY <1>1
  <2>2. f[t - 1] = d BY <1>2 DEF SettleRounds
  <2> QED BY <1>1, <2>1, <2>2
<1>4. ASSUME NEW i \in (t - 1) + 1 .. N, i - 1 \in S PROVE i \in S
  <2>1. i \in Int /\ i \in t .. N /\ i \in Stages /\ i - 1 \in t - 1 .. N BY <1>1
  <2> DEFINE e == f[i - 1]
  <2>2. f[i] = IF e.stage[i] = "active" THEN Settle(e, i) ELSE e
    BY <1>2, <2>1 DEF SettleRounds, N
  <2>3. Kept(e) /\ Like(e) BY <1>2, <1>4, <2>1
  <2> HIDE DEF e
  <2>4. CASE e.stage[i] # "active" BY <2>1, <2>2, <2>3, <2>4
  <2>5. CASE e.stage[i] = "active"
    <3>1. PICK k \in Positions : InOrder(e, k) BY <2>3
    <3>2. k = i BY <2>1, <2>5, <3>1 DEF InOrder
    <3>3. InOrder(Settle(e, i), i) \/ InOrder(Settle(e, i), i + 1)
      BY <2>1, <2>3, <3>1, <3>2, SettleMovesOn
    <3>4. i \in Positions /\ i + 1 \in Positions BY <1>1, <2>1
    <3>5. \A m \in Missions : Settle(e, i).status[m] = "completed" <=> e.status[m] = "completed"
      BY <2>1, <2>3, SettleIs DEF Settled
    <3>6. Like(Settle(e, i)) BY <2>3, <3>3, <3>4, <3>5
    <3> QED BY <2>1, <2>2, <2>5, <3>6
  <2> QED BY <2>4, <2>5
<1> HIDE DEF S
<1>5. (t - 1) .. N \subseteq S BY <1>1, <1>3, <1>4, IntervalInduction
<1>6. N \in S BY <1>1, <1>5
<1> QED BY <1>1, <1>2, <1>6 DEF S

-----------------------------------------------------------------------------
(* The first two invariants: the shape of the document and the order of     *)
(* its stages.                                                              *)

(* What every write is made of: a document with its stages in order, then   *)
(* the stamp.                                                               *)
Orderly(d) == Kept(d) /\ \E k \in Positions : InOrder(d, k)

LEMMA StampedIs ==
  ASSUME NEW d, Orderly(d)
  PROVE  /\ Orderly(Stamped(d)) /\ Orderly(Restamped(d))
         /\ Stamped(d).finished <=> d.finished \/ AllDone(d)
         /\ Restamped(d).finished <=> AllDone(d)
         /\ \A e \in {Stamped(d), Restamped(d)} :
              e.stage = d.stage /\ e.status = d.status /\ e.cause = d.cause
                                /\ e.required = d.required
<1>1. d \in Docs /\ AllDone(d) \in BOOLEAN BY DEF Orderly, Kept, AllDone
<1>2. ASSUME NEW e \in {Stamped(d), Restamped(d)}
      PROVE  /\ e \in Docs /\ e.stage = d.stage /\ e.status = d.status /\ e.cause = d.cause
             /\ e.required = d.required
  BY <1>1 DEF Stamped, Restamped, Docs
<1>3. ASSUME NEW e \in {Stamped(d), Restamped(d)} PROVE Orderly(e)
  <2>1. Kept(e) BY <1>2 DEF Kept, Orderly
  <2>2. \E k \in Positions : InOrder(e, k) BY <1>2 DEF InOrder, Orderly, Those
  <2> QED BY <2>1, <2>2 DEF Orderly
<1>4. Stamped(d).finished <=> d.finished \/ AllDone(d) BY <1>1 DEF Stamped, Docs
<1>5. Restamped(d).finished <=> AllDone(d) BY <1>1 DEF Restamped, Docs
<1> QED BY <1>2, <1>3, <1>4, <1>5

(* Orderly of a settled document. *)
LEMMA SettleIsOrderly ==
  ASSUME game \in Games, NEW k \in Stages, NEW d, Kept(d), InOrder(d, k)
  PROVE  Orderly(Settle(d, k))
<1>1. Kept(Settle(d, k)) BY SettleIs DEF Settled
<1>2. k \in Positions /\ k + 1 \in Positions BY TheTemplate DEF Positions
<1> QED BY <1>1, <1>2, SettleMovesOn DEF Orderly

(* The inductive invariant, and the same of a document about to be written. *)
Sound(d) == Orderly(d) /\ (d.finished <=> AllDone(d))

Inv == game \in Games /\ tools \in ToolSets /\ closed \subseteq InGame /\ Sound(doc)

(* A stamped document is sound: the stamp is never wrong about the stages.  *)
LEMMA StampedIsSound ==
  ASSUME NEW d, NEW e, Sound(e), Orderly(d), d.finished = e.finished,
         e.finished => d.stage = e.stage
  PROVE  Sound(Stamped(d))
<1>1. /\ Orderly(Stamped(d)) /\ Stamped(d).stage = d.stage
      /\ Stamped(d).finished <=> d.finished \/ AllDone(d)
  BY StampedIs
<1>2. e.finished => AllDone(d) BY DEF Sound, AllDone
<1>3. AllDone(Stamped(d)) <=> AllDone(d) BY <1>1 DEF AllDone
<1> QED BY <1>1, <1>2, <1>3 DEF Sound

LEMMA RestampedIsSound ==
  ASSUME NEW d, Orderly(d)
  PROVE  Sound(Restamped(d))
<1>1. /\ Orderly(Restamped(d)) /\ Restamped(d).stage = d.stage
      /\ Restamped(d).finished <=> AllDone(d)
  BY StampedIs
<1> QED BY <1>1 DEF Sound, AllDone

(* A step that writes a sound document keeps the invariant. *)
LEMMA InvStays ==
  ASSUME Inv, NEW d, Sound(d), doc' = d, UNCHANGED <<game, tools>>, closed' \subseteq InGame
  PROVE  Inv'
<1>1. Sound(doc)' BY DEF Sound, Orderly, Kept, Docs, AllDone, InOrder, Those, Stages, Playable,
                         Positions, InGame
<1> QED BY <1>1 DEF Inv, InGame, Stages

(* Where the team stands: at most one stage is played, and what is in hand  *)
(* is what is assigned anywhere.                                            *)
LEMMA WhereTheTeamIs ==
  ASSUME game \in Games, NEW d, Kept(d), NEW k \in Positions, InOrder(d, k)
  PROVE  /\ ActiveStages(d) = {k} \cap Stages
         /\ InHand(d) = Those(d, InGame, "assigned")
         /\ k \in Stages => InHand(d) = Those(d, Playable(k), "assigned")
         /\ \A m \in UNION {Playable(s) : s \in ActiveStages(d)} :
              k \in Stages /\ m \in Playable(k) /\ StageOf(m) = k /\ m \in InGame /\ m \in Missions
                           /\ m \notin game.benched
         /\ AllDone(d) <=> k \notin Stages
<1>0. k \in Int /\ Stages \subseteq Int BY TheTemplate DEF Positions
<1>1. ActiveStages(d) = {k} \cap Stages
  <2>1. \A s \in Stages : ~ (k < k) /\ (d.stage[s] = "active" <=> s = k)
    BY <1>0 DEF InOrder
  <2> QED BY <2>1 DEF ActiveStages
<1>2. \A s \in Stages : \A m \in game.tasks[s] : StageOf(m) = s /\ m \in InGame /\ m \in Missions
  BY TheStageOf, TheTemplate
<1>3. \A s \in Stages : Playable(s) \subseteq game.tasks[s] /\ Playable(s) \cap game.benched = {}
  BY TheTemplate
<1>4. \A m \in InGame : d.status[m] = "assigned" => k \in Stages /\ m \in Playable(k)
  <2> SUFFICES ASSUME NEW m \in InGame, d.status[m] = "assigned"
               PROVE  k \in Stages /\ m \in Playable(k)
    OBVIOUS
  <2>1. m \notin game.benched BY DEF Kept
  <2>2. PICK s \in Stages : m \in game.tasks[s] BY DEF InGame
  <2>3. s = k BY <2>2 DEF InOrder, Those
  <2> QED BY <2>1, <2>2, <2>3 DEF Playable
<1>5. InHand(d) = Those(d, InGame, "assigned")
  BY <1>1, <1>2, <1>3, <1>4 DEF InHand, Those
<1>6. k \in Stages => InHand(d) = Those(d, Playable(k), "assigned") BY <1>1 DEF InHand
<1>7. AllDone(d) <=> k \notin Stages
  <2>1. Stages = 1 .. Len(game.tasks) /\ Len(game.tasks) \in Nat \ {0} BY TheTemplate
  <2>2. CASE k \in Stages BY <1>0, <2>2 DEF AllDone, InOrder
  <2>3. CASE k \notin Stages
    <3>1. \A s \in Stages : s < k BY <2>1, <2>3 DEF Positions
    <3> QED BY <2>3, <3>1 DEF AllDone, InOrder
  <2> QED BY <2>2, <2>3
<1>8. \A m \in UNION {Playable(s) : s \in ActiveStages(d)} : k \in Stages /\ m \in Playable(k)
  BY <1>1
<1> QED BY <1>1, <1>2, <1>3, <1>5, <1>6, <1>7, <1>8

(* Settling the stage of a sound document, after some of its open missions  *)
(* ended: what every completion, expiry and skip does.                      *)
LEMMA SettledIsSound ==
  ASSUME game \in Games, NEW e, Sound(e), NEW k \in Stages, InOrder(e, k),
         NEW d, Kept(d), d.stage = e.stage, d.finished = e.finished,
         \A m \in InGame : d.status[m] = e.status[m] \/ d.status[m] \in Terminal
  PROVE  InOrder(d, k) /\ Sound(Stamped(Settle(d, k)))
<1>1. InOrder(d, k) BY OrderIsOfStages
<1>2. Orderly(Settle(d, k)) BY <1>1, SettleIsOrderly
<1>3. Settle(d, k).finished = e.finished BY SettleIs DEF Settled
<1>4. k \in Positions BY TheTemplate DEF Positions
<1>5. ~ e.finished BY <1>4, WhereTheTeamIs DEF Sound, Orderly
<1> QED BY <1>1, <1>2, <1>3, <1>5, StampedIsSound

-----------------------------------------------------------------------------
(* Exclusive groups and the plan of a skip.                                 *)

LEMMA GroupsAreInside ==
  ASSUME NEW known
  PROVE  EffectiveGroups(known) \subseteq SUBSET known
BY DEF EffectiveGroups

LEMMA AttainableIsNatural ==
  ASSUME NEW known, IsFiniteSet(known), NEW available
  PROVE  MaxCompletable(known, available) \in Nat
<1> DEFINE groups == EffectiveGroups(known)
           own == (known \ UNION groups) \cap available
           some == {g \in groups : g \cap available # {}}
<1>1. own \subseteq known OBVIOUS
<1>2. some \subseteq SUBSET known BY GroupsAreInside
<1>3. IsFiniteSet(SUBSET known) BY FS_SUBSET
<1>4. IsFiniteSet(own) /\ IsFiniteSet(some) BY <1>1, <1>2, <1>3, FS_Subset
<1>5. Cardinality(own) \in Nat /\ Cardinality(some) \in Nat BY <1>4, FS_CardinalityType
<1>6. MaxCompletable(known, available) = Cardinality(own) + Cardinality(some) BY DEF MaxCompletable
<1> QED BY <1>5, <1>6

(* A skip writes a requirement that is a number no larger than the stage.   *)
LEMMA PlannedRequirement ==
  ASSUME game \in Games, NEW d \in Docs, NEW m, m \in InGame
  PROVE  /\ PlanSkip(d, m).required \in Nat
         /\ PlanSkip(d, m).required <= Cardinality(game.tasks[StageOf(m)])
<1> DEFINE s == StageOf(m)
           ids == game.tasks[s]
           after == With(d, {m}, "skipped", "operator")
           gone == Those(after, ids, "skipped") \cup Unreachable(after, s)
           attain == MaxCompletable(ids, ids \ gone)
           needed == NormalRequired(d.required[s], Cardinality(ids))
<1>1. s \in Stages BY TheStageOf
<1>2. IsFiniteSet(ids) /\ Cardinality(ids) \in Nat BY <1>1, TheTemplate, FS_CardinalityType
<1>3. attain \in Nat BY <1>2, AttainableIsNatural
<1>4. d.required[s] \in {Unset} \cup Nat BY <1>1 DEF Docs
<1>5. needed \in Nat /\ needed <= Cardinality(ids) BY <1>2, <1>4 DEF NormalRequired
<1>6. PlanSkip(d, m).required = IF needed < attain THEN needed ELSE attain BY DEF PlanSkip
<1> HIDE DEF attain, needed, ids, s
<1> QED BY <1>2, <1>3, <1>5, <1>6 DEF ids, s

(* What a skip of mission m alone makes of a document d, before settling. *)
SkippedAlone(d, m, e) ==
  /\ Kept(e) /\ e.stage = d.stage /\ e.finished = d.finished
  /\ e.required = [d.required EXCEPT ![StageOf(m)] = PlanSkip(d, m).required]
  /\ e.status = With(d, {m}, "skipped", "operator").status
  /\ e.cause = With(d, {m}, "skipped", "operator").cause
  /\ \A x \in Missions : e.status[x] = IF x = m THEN "skipped" ELSE d.status[x]

LEMMA SkipWrittenIs ==
  ASSUME game \in Games, NEW d, Kept(d), NEW m, m \in InGame, m \notin game.benched
  PROVE  SkippedAlone(d, m, SkipWritten(d, m))
<1> DEFINE w == With(d, {m}, "skipped", "operator")
           n == PlanSkip(d, m).required
           e == SkipWritten(d, m)
<1>1. d \in Docs /\ n \in Nat BY PlannedRequirement DEF Kept
<1>2. Cause("skipped", "operator") BY DEF Cause, Open, Terminal, Causes
<1>3. Kept(w) BY <1>2, WithKeeps
<1>4. /\ w.stage = d.stage /\ w.required = d.required /\ w.finished = d.finished
      /\ \A x \in Missions : w.status[x] = IF x \in {m} THEN "skipped" ELSE d.status[x]
  BY <1>1, WithIs
<1>5. e = [w EXCEPT !.required[StageOf(m)] = n] BY DEF SkipWritten
<1> HIDE DEF w, e, n
<1>6. w \in Docs BY <1>3 DEF Kept
<1>7. /\ e \in Docs /\ e.status = w.status /\ e.cause = w.cause /\ e.stage = w.stage
      /\ e.finished = w.finished /\ e.required = [w.required EXCEPT ![StageOf(m)] = n]
  BY <1>1, <1>5, <1>6 DEF Docs
<1>8. Kept(e) BY <1>3, <1>7 DEF Kept
<1> QED BY <1>4, <1>7, <1>8 DEF w, e, n, SkippedAlone

-----------------------------------------------------------------------------
(* The document of a send-back.                                             *)

LEMMA RewoundIs ==
  ASSUME game \in Games, NEW d, Kept(d), NEW k \in Positions, InOrder(d, k),
         NEW t \in Stages, d.stage[t] # "locked"
  PROVE  /\ Kept(Rewound(d, t)) /\ InOrder(Rewound(d, t), t)
         /\ Rewound(d, t).required = [d.required EXCEPT ![t] = game.required[t]]
         /\ \A m \in game.tasks[t] : Rewound(d, t).status[m] = d.status[m]
         /\ Rewound(d, t).cause = d.cause
         /\ \A m \in Missions : Rewound(d, t).status[m] \in {d.status[m], "unassigned"}
         /\ \A m \in Missions : d.status[m] \in Terminal => Rewound(d, t).status[m] = d.status[m]
<1> DEFINE held == UNION {Those(d, Playable(s), "assigned") : s \in {i \in Stages : i > t}}
           e == Rewound(d, t)
<1>1. /\ Stages = 1 .. Len(game.tasks) /\ Len(game.tasks) \in Nat
      /\ \A s \in Stages : Playable(s) \subseteq game.tasks[s] /\ game.tasks[s] \subseteq Missions
      /\ \A s, i \in Stages : s # i => game.tasks[s] \cap game.tasks[i] = {}
      /\ game.required \in [Stages -> {Unset} \cup (Nat \ {0})]
  BY TheTemplate
<1>2. k \in Int /\ t \in Int /\ t <= k BY <1>1 DEF InOrder, Positions
<1>3. d \in Docs BY DEF Kept
<1>4. /\ e \in Docs /\ e.cause = d.cause /\ e.finished = d.finished
      /\ e.required = [d.required EXCEPT ![t] = game.required[t]]
      /\ e.stage = [s \in Stages |-> IF s = t THEN "active"
                                     ELSE IF s > t THEN "locked" ELSE d.stage[s]]
      /\ e.status = [m \in Missions |-> IF m \in held THEN "unassigned" ELSE d.status[m]]
  BY <1>1, <1>3 DEF Rewound, Docs, Open
<1> HIDE DEF e, held
<1>5. \A m \in held : d.status[m] = "assigned" /\ m \notin game.tasks[t]
  BY <1>1, <1>2 DEF held, Those
<1>6. Kept(e)
  <2>1. \A m \in Missions : e.status[m] = "skipped" <=> d.status[m] = "skipped" BY <1>4, <1>5
  <2>2. game.benched \subseteq Missions BY GamesAssumption DEF GamesAssumption
  <2> QED BY <1>4, <2>1, <2>2 DEF Kept
<1>7. InOrder(e, t)
  <2>1. \A s \in Stages : e.stage[s] = IF s < t THEN "completed"
                                       ELSE IF s = t THEN "active" ELSE "locked"
    BY <1>1, <1>2, <1>4 DEF InOrder
  <2>2. \A s \in Stages : s < t => \A m \in Playable(s) : e.status[m] \in Terminal
    <3> SUFFICES ASSUME NEW s \in Stages, s < t, NEW m \in Playable(s)
                 PROVE  e.status[m] \in Terminal
      OBVIOUS
    <3>1. d.status[m] \in Terminal BY <1>1, <1>2 DEF InOrder
    <3>2. m \in Missions /\ m \notin held BY <1>1, <1>5, <3>1 DEF Terminal
    <3> QED BY <1>4, <3>1, <3>2
  <2>3. ASSUME NEW s \in Stages, s # t, NEW m \in game.tasks[s] PROVE e.status[m] # "assigned"
    <3>1. m \in Missions BY <1>1
    <3>2. CASE d.status[m] # "assigned" BY <1>4, <3>1, <3>2
    <3>3. CASE d.status[m] = "assigned"
      <4>1. s = k BY <3>3 DEF InOrder, Those
      <4>2. s > t BY <1>1, <1>2, <2>3, <4>1
      <4>3. m \in Playable(s) BY <3>3 DEF Playable, Kept
      <4>4. m \in held BY <3>3, <4>2, <4>3 DEF held, Those
      <4> QED BY <1>4, <3>1, <4>4
    <3> QED BY <3>2, <3>3
  <2>4. \A m, x \in InGame : e.status[m] = "assigned" /\ e.status[x] = "assigned" => m = x
    <3>1. InGame \subseteq Missions BY TheStageOf
    <3> QED BY <1>4, <3>1 DEF InOrder
  <2>5. \A s \in Stages \ {t} : Those(e, game.tasks[s], "assigned") = {} BY <2>3 DEF Those
  <2> QED BY <2>1, <2>2, <2>4, <2>5 DEF InOrder
<1>8. \A m \in Missions : e.status[m] \in {d.status[m], "unassigned"} BY <1>4
<1>9. \A m \in game.tasks[t] : e.status[m] = d.status[m] BY <1>1, <1>4, <1>5
<1>10. \A m \in Missions : d.status[m] \in Terminal => e.status[m] = d.status[m]
  BY <1>4, <1>5 DEF Terminal
<1> QED BY <1>4, <1>6, <1>7, <1>8, <1>9, <1>10 DEF e

(* A stage asks for more than the team has completed of it. *)
AsksForMore(d, t) ==
  Cardinality(Those(d, Playable(t), "completed"))
    < NormalRequired(d.required[t], Cardinality(Playable(t)))

LEMMA RaisedIs ==
  ASSUME game \in Games, NEW d, Kept(d), NEW t \in Stages,
         NEW m \in Playable(t), d.status[m] # "completed"
  PROVE  /\ Kept(Raised(d, t))
         /\ Raised(d, t).stage = d.stage /\ Raised(d, t).finished = d.finished
         /\ Raised(d, t).status = d.status /\ Raised(d, t).cause = d.cause
         /\ AsksForMore(Raised(d, t), t)
<1> DEFINE P == Playable(t)
           C == Those(d, P, "completed")
           done == Cardinality(C)
           size == Cardinality(P)
           need == IF d.required[t] = Unset THEN size ELSE d.required[t]
           more == IF done + 1 < size THEN done + 1 ELSE size
           e == Raised(d, t)
<1>1. IsFiniteSet(P) /\ size \in Nat BY TheTemplate
<1>2. C \subseteq P \ {m} BY DEF Those
<1>3. IsFiniteSet(P \ {m}) /\ Cardinality(P \ {m}) = size - 1 BY <1>1, FS_RemoveElement
<1>4. IsFiniteSet(C) /\ done \in Nat /\ done <= size - 1 BY <1>2, <1>3, FS_Subset, FS_CardinalityType
<1>5. more \in Nat /\ more > done /\ more <= size BY <1>1, <1>4
<1>6. d \in Docs /\ d.required[t] \in {Unset} \cup Nat BY DEF Kept, Docs
<1>7. e = IF done >= need THEN [d EXCEPT !.required[t] = more] ELSE d BY DEF Raised
<1> HIDE DEF e, more, done, size, need, C, P
<1>8. /\ e \in Docs /\ e.stage = d.stage /\ e.finished = d.finished
      /\ e.status = d.status /\ e.cause = d.cause
      /\ e.required[t] = IF done >= need THEN more ELSE d.required[t]
  BY <1>5, <1>6, <1>7 DEF Docs
<1>9. Kept(e) BY <1>8 DEF Kept
<1>10. done < NormalRequired(e.required[t], size)
  <2>1. CASE done >= need
    <3>1. e.required[t] = more /\ more # Unset BY <1>5, <1>8, <2>1 DEF Unset
    <3> QED BY <1>1, <1>4, <1>5, <3>1 DEF NormalRequired
  <2>2. CASE ~ (done >= need)
    <3>1. e.required[t] = d.required[t] BY <1>8, <2>2
    <3>2. need \in Nat BY <1>1, <1>6 DEF need
    <3>3. done < need BY <1>4, <2>2, <3>2
    <3> QED BY <1>1, <1>4, <1>6, <3>1, <3>3 DEF NormalRequired, need
  <2> QED BY <2>1, <2>2
<1>11. Those(e, P, "completed") = C BY <1>8 DEF Those, C
<1>12. AsksForMore(e, t) BY <1>10, <1>11 DEF AsksForMore, done, size, P
<1> QED BY <1>8, <1>9, <1>12 DEF e

(* The document of a team sent back to a mission: nothing is in hand, the   *)
(* mission is open, and its stage asks for it.                              *)
LEMMA ReopenedMissionIs ==
  ASSUME game \in Games, NEW d, Kept(d), NEW k \in Positions, InOrder(d, k),
         NEW t \in Stages, NEW m \in Playable(t), d.stage[t] # "locked"
  PROVE  /\ Kept(ReopenedMission(d, m)) /\ InOrder(ReopenedMission(d, m), t)
         /\ ReopenedMission(d, m).status[m] = "unassigned"
         /\ \A x \in InGame : ReopenedMission(d, m).status[x] # "assigned"
         /\ \A x \in Missions : ReopenedMission(d, m).status[x] = "completed"
                                  => d.status[x] = "completed"
         /\ AsksForMore(ReopenedMission(d, m), t)
<1> DEFINE r == Rewound(d, t)
           away == Those(r, Playable(t), "assigned") \ {m}
           v == With(r, away, "unassigned", "none")
           w == With(v, {m}, "unassigned", "none")
           e == Raised(w, t)
<1>1. StageOf(m) = t /\ m \in InGame /\ m \in Missions /\ m \notin game.benched
  BY TheStageOf, TheTemplate
<1>2. ReopenedMission(d, m) = e BY <1>1 DEF ReopenedMission
<1>3. /\ Kept(r) /\ InOrder(r, t)
      /\ \A x \in Missions : r.status[x] \in {d.status[x], "unassigned"}
  BY RewoundIs
<1> HIDE DEF r
<1>4. Cause("unassigned", "none") BY DEF Cause, Open, Causes
<1>5. away \cap game.benched = {} /\ {m} \cap game.benched = {} BY <1>1, TheTemplate DEF Those
<1>6. Kept(v) BY <1>3, <1>4, <1>5, WithKeeps
<1>7. r \in Docs /\ v \in Docs BY <1>3, <1>6 DEF Kept
<1>8. /\ v.stage = r.stage /\ v.finished = r.finished
      /\ \A x \in Missions : v.status[x] = IF x \in away THEN "unassigned" ELSE r.status[x]
  BY <1>7, WithIs
<1> HIDE DEF v
<1>9. Kept(w) BY <1>4, <1>5, <1>6, WithKeeps
<1>10. /\ w.stage = v.stage /\ w.finished = v.finished
       /\ \A x \in Missions : w.status[x] = IF x \in {m} THEN "unassigned" ELSE v.status[x]
  BY <1>7, WithIs
<1> HIDE DEF w
<1>11. w.status[m] = "unassigned" BY <1>1, <1>10
<1>12. /\ Kept(e) /\ e.stage = w.stage /\ e.finished = w.finished
       /\ e.status = w.status /\ e.cause = w.cause /\ AsksForMore(e, t)
  BY <1>9, <1>11, RaisedIs
<1> HIDE DEF e
<1>13. /\ InGame \subseteq Missions
       /\ \A s \in Stages : Playable(s) \subseteq game.tasks[s] /\ game.tasks[s] \subseteq InGame
  BY TheStageOf, TheTemplate
<1>14. ASSUME NEW x \in InGame PROVE e.status[x] # "assigned"
  <2>1. x \in Missions BY <1>13
  <2>2. CASE x \in away \/ x = m BY <1>8, <1>10, <1>12, <2>1, <2>2
  <2>3. CASE x \notin away /\ x # m
    <3>1. e.status[x] = r.status[x] BY <1>8, <1>10, <1>12, <2>1, <2>3
    <3>2. x \notin Playable(t) => r.status[x] # "assigned"
      <4>1. Kept(r) /\ k \in Positions /\ t \in Positions BY <1>3, TheTemplate DEF Positions
      <4>2. InHand(r) = Those(r, InGame, "assigned") /\ InHand(r) = Those(r, Playable(t), "assigned")
        BY <1>3, <4>1, WhereTheTeamIs
      <4> QED BY <4>2 DEF Those
    <3>3. x \in Playable(t) => r.status[x] # "assigned" BY <2>3 DEF Those
    <3> QED BY <3>1, <3>2, <3>3
  <2> QED BY <2>2, <2>3
<1>15. InOrder(e, t)
  <2>1. \A s \in Stages : s < t => \A x \in Playable(s) : e.status[x] \in Terminal
    <3> SUFFICES ASSUME NEW s \in Stages, s < t, NEW x \in Playable(s)
                 PROVE  e.status[x] \in Terminal
      OBVIOUS
    <3>1. x \in Missions /\ x \notin Playable(t)
      <4>1. s # t BY TheTemplate
      <4> QED BY <4>1, TheTemplate
    <3>2. r.status[x] \in Terminal BY <1>3 DEF InOrder
    <3> QED BY <1>8, <1>10, <1>12, <3>1, <3>2 DEF Those
  <2> QED BY <1>3, <1>8, <1>10, <1>12, <1>13, <1>14, <2>1 DEF InOrder, Those
<1>16. \A x \in Missions : e.status[x] = "completed" => d.status[x] = "completed"
  BY <1>3, <1>8, <1>10, <1>12
<1> QED BY <1>2, <1>11, <1>12, <1>14, <1>15, <1>16

(* The same with the mission claimed for the team. *)
LEMMA ClaimedIs ==
  ASSUME game \in Games, NEW d, Kept(d), NEW t \in Stages, InOrder(d, t),
         NEW m \in Playable(t), d.status[m] = "unassigned",
         \A x \in InGame : d.status[x] # "assigned"
  PROVE  /\ Kept(With(d, {m}, "assigned", "none")) /\ InOrder(With(d, {m}, "assigned", "none"), t)
         /\ With(d, {m}, "assigned", "none").stage = d.stage
         /\ With(d, {m}, "assigned", "none").required = d.required
         /\ With(d, {m}, "assigned", "none").finished = d.finished
         /\ \A x \in Missions : With(d, {m}, "assigned", "none").status[x]
                                  = IF x = m THEN "assigned" ELSE d.status[x]
<1> DEFINE e == With(d, {m}, "assigned", "none")
<1>1. /\ m \notin game.benched /\ m \in Missions /\ m \in InGame /\ m \in game.tasks[t]
      /\ \A s \in Stages : Playable(s) \subseteq game.tasks[s] /\ game.tasks[s] \subseteq InGame
      /\ InGame \subseteq Missions
      /\ \A s \in Stages : s # t => m \notin game.tasks[s]
  BY TheTemplate, TheStageOf
<1>2. Cause("assigned", "none") BY DEF Cause, Open, Causes
<1>3. Kept(e) BY <1>1, <1>2, WithKeeps
<1>4. d \in Docs BY DEF Kept
<1>5. /\ e.stage = d.stage /\ e.required = d.required /\ e.finished = d.finished
      /\ \A x \in Missions : e.status[x] = IF x \in {m} THEN "assigned" ELSE d.status[x]
  BY <1>4, WithIs
<1> HIDE DEF e
<1>6. InOrder(e, t)
  <2>1. \A s \in Stages : s < t => \A x \in Playable(s) : e.status[x] \in Terminal
    <3> SUFFICES ASSUME NEW s \in Stages, s < t, NEW x \in Playable(s)
                 PROVE  e.status[x] \in Terminal
      OBVIOUS
    <3>1. s # t BY TheTemplate
    <3> QED BY <1>1, <1>5, <3>1 DEF InOrder
  <2>2. \A s \in Stages \ {t} : Those(e, game.tasks[s], "assigned") = {}
    BY <1>1, <1>5 DEF InOrder, Those
  <2>3. \A x, y \in InGame : e.status[x] = "assigned" /\ e.status[y] = "assigned" => x = y
    BY <1>1, <1>5
  <2> QED BY <1>5, <2>1, <2>2, <2>3 DEF InOrder
<1> QED BY <1>3, <1>5, <1>6 DEF e

LEMMA ReopenedStageIs ==
  ASSUME game \in Games, NEW d, Kept(d), NEW k \in Positions, InOrder(d, k),
         NEW t \in Stages, d.stage[t] # "locked"
  PROVE  /\ Kept(ReopenedStage(d, t)) /\ InOrder(ReopenedStage(d, t), t)
         /\ \A x \in Missions : ReopenedStage(d, t).status[x] = "completed"
                                  => d.status[x] = "completed"
<1> DEFINE r == Rewound(d, t)
           S == {m \in Those(d, Playable(t), "skipped") : Reopenable(d.cause[m])}
           e == ReopenedStage(d, t)
<1>1. /\ Kept(r) /\ InOrder(r, t)
      /\ \A x \in Missions : r.status[x] \in {d.status[x], "unassigned"}
  BY RewoundIs
<1>2. e = With(r, S, "unassigned", "none") BY DEF ReopenedStage
<1>3. Cause("unassigned", "none") BY DEF Cause, Open, Causes
<1>4. S \subseteq Playable(t) /\ S \cap game.benched = {} BY TheTemplate DEF Those
<1> HIDE DEF r, S, e
<1>5. Kept(e) BY <1>1, <1>2, <1>3, <1>4, WithKeeps
<1>6. r \in Docs BY <1>1 DEF Kept
<1>7. /\ e.stage = r.stage
      /\ \A x \in Missions : e.status[x] = IF x \in S THEN "unassigned" ELSE r.status[x]
  BY <1>2, <1>6, WithIs
<1>8. /\ InGame \subseteq Missions
      /\ \A s \in Stages : Playable(s) \subseteq game.tasks[s] /\ game.tasks[s] \subseteq InGame
      /\ \A s \in Stages : s # t => game.tasks[s] \cap game.tasks[t] = {}
  BY TheTemplate, TheStageOf
<1>9. \A s \in Stages : s < t => \A x \in Playable(s) : e.status[x] \in Terminal
  <2> SUFFICES ASSUME NEW s \in Stages, s < t, NEW x \in Playable(s)
               PROVE  e.status[x] \in Terminal
    OBVIOUS
  <2>1. s # t BY TheTemplate
  <2>2. x \notin S /\ x \in Missions BY <1>4, <1>8, <2>1
  <2> QED BY <1>1, <1>7, <2>2 DEF InOrder
<1>10. \A x \in InGame : e.status[x] = "assigned" => r.status[x] = "assigned" BY <1>7, <1>8
<1>11. InOrder(e, t) BY <1>1, <1>7, <1>8, <1>9, <1>10 DEF InOrder, Those
<1>12. \A x \in Missions : e.status[x] = "completed" => d.status[x] = "completed" BY <1>1, <1>7
<1> QED BY <1>5, <1>11, <1>12 DEF e

LEMMA ReturnedIs ==
  ASSUME game \in Games, NEW d, Kept(d), NEW k \in Positions, InOrder(d, k),
         NEW t \in Stages, NEW m \in Playable(t), d.stage[t] # "locked", NEW claimed \in BOOLEAN
  PROVE  /\ Orderly(Returned(d, m, claimed))
         /\ \A x \in Missions : Returned(d, m, claimed).status[x] = "completed"
                                  => d.status[x] = "completed"
<1> DEFINE r == ReopenedMission(d, m)
           w == With(r, {m}, "assigned", "none")
           e == IF claimed THEN w ELSE r
<1>1. StageOf(m) = t BY TheStageOf, TheTemplate
<1>2. Returned(d, m, claimed) = SettleFrom(e, t) BY <1>1 DEF Returned
<1>3. /\ Kept(r) /\ InOrder(r, t) /\ r.status[m] = "unassigned"
      /\ \A x \in InGame : r.status[x] # "assigned"
      /\ \A x \in Missions : r.status[x] = "completed" => d.status[x] = "completed"
  BY ReopenedMissionIs
<1> HIDE DEF r
<1>4. /\ Kept(w) /\ InOrder(w, t)
      /\ \A x \in Missions : w.status[x] = IF x = m THEN "assigned" ELSE r.status[x]
  BY <1>3, ClaimedIs
<1> HIDE DEF w
<1>5. /\ Kept(e) /\ InOrder(e, t)
      /\ \A x \in Missions : e.status[x] = "completed" => d.status[x] = "completed"
  BY <1>3, <1>4
<1> HIDE DEF e
<1>6. /\ Kept(SettleFrom(e, t))
      /\ \E p \in Positions : InOrder(SettleFrom(e, t), p)
      /\ \A x \in Missions : SettleFrom(e, t).status[x] = "completed" <=> e.status[x] = "completed"
  BY <1>5, SettleFromKeepsOrder
<1> QED BY <1>2, <1>5, <1>6 DEF Orderly

-----------------------------------------------------------------------------
(* Every action writes a sound document.                                    *)

LEMMA InitSound == Init => Inv
<1> SUFFICES ASSUME Init PROVE Inv OBVIOUS
<1>1. /\ game \in Games /\ tools \in ToolSets /\ closed = {} BY DEF Init
<1>2. /\ Stages = 1 .. Len(game.tasks) /\ Len(game.tasks) \in Nat \ {0}
      /\ \A s \in Stages : Cardinality(Playable(s)) \in Nat
      /\ game.required \in [Stages -> {Unset} \cup (Nat \ {0})]
  BY <1>1, TheTemplate
<1>3. \A s \in Stages : ClampedRequired(game, s) \in {Unset} \cup Nat
  BY <1>2 DEF ClampedRequired, NormalRequired, Playable
<1>4. /\ doc \in Docs
      /\ doc.stage = [s \in Stages |-> IF s = 1 THEN "active" ELSE "locked"]
      /\ \A m \in Missions : doc.status[m] = "unassigned" /\ doc.cause[m] = "none"
      /\ doc.finished = FALSE
  BY <1>3 DEF Init, Docs, Open, Terminal, Causes
<1>5. game.benched \subseteq Missions BY <1>1, GamesAssumption DEF GamesAssumption
<1>6. Kept(doc) BY <1>4, <1>5 DEF Kept
<1>7. InGame \subseteq Missions BY <1>1, TheStageOf
<1>8. InOrder(doc, 1)
  <2>1. \A m \in InGame : doc.status[m] = "unassigned" BY <1>4, <1>7
  <2>2. \A s \in Stages : game.tasks[s] \subseteq InGame BY DEF InGame
  <2>3. \A s \in Stages : ~ (s < 1) BY <1>2
  <2> QED BY <1>4, <2>1, <2>2, <2>3 DEF InOrder, Those
<1>9. 1 \in Positions /\ 1 \in Stages BY <1>2 DEF Positions
<1>10. ~ AllDone(doc) BY <1>4, <1>9 DEF AllDone
<1> QED BY <1>1, <1>4, <1>6, <1>8, <1>9, <1>10 DEF Inv, Sound, Orderly

(* The stage the team plays, in a state that keeps the invariant. *)
LEMMA PlayedStage ==
  ASSUME Inv
  PROVE  \E k \in Positions : InOrder(doc, k) /\ Kept(doc) /\ doc \in Docs
BY DEF Inv, Sound, Orderly, Kept

LEMMA HealSound ==
  ASSUME Inv
  PROVE  Sound(Healed(doc))
<1>1. PICK k \in Positions : InOrder(doc, k) /\ Kept(doc) BY PlayedStage
<1>2. ActiveStages(doc) = {k} \cap Stages BY <1>1, WhereTheTeamIs DEF Inv
<1>3. CASE /\ InHand(doc) = {}
           /\ \E s \in ActiveStages(doc) : Unreachable(doc, s) # {}
  <2>1. k \in Stages /\ (CHOOSE s \in ActiveStages(doc) : TRUE) = k BY <1>2, <1>3
  <2>2. Healed(doc) = Stamped(Settle(doc, k)) BY <1>3, <2>1 DEF Healed
  <2>3. Sound(Stamped(Settle(doc, k))) BY <1>1, <2>1, SettledIsSound DEF Inv
  <2> QED BY <2>2, <2>3
<1>4. CASE ~ (/\ InHand(doc) = {}
              /\ \E s \in ActiveStages(doc) : Unreachable(doc, s) # {})
  BY <1>4 DEF Healed, Inv
<1> QED BY <1>3, <1>4

(* What takes the mission in hand away, if any, and hands the team another: *)
(* routing and the operator's force-assignment.                             *)
LEMMA HandedSound ==
  ASSUME Inv, NEW m \in UNION {Those(doc, Playable(s), "unassigned") : s \in ActiveStages(doc)}
  PROVE  Sound(Stamped(With(With(doc, InHand(doc), "unassigned", "none"), {m}, "assigned", "none")))
<1> DEFINE v == With(doc, InHand(doc), "unassigned", "none")
           w == With(v, {m}, "assigned", "none")
<1>1. PICK k \in Positions : InOrder(doc, k) /\ Kept(doc) /\ doc \in Docs BY PlayedStage
<1>2. /\ ActiveStages(doc) = {k} \cap Stages
      /\ InHand(doc) = Those(doc, InGame, "assigned")
  BY <1>1, WhereTheTeamIs DEF Inv
<1>3. k \in Stages /\ m \in Playable(k) /\ doc.status[m] = "unassigned" BY <1>2 DEF Those
<1>4. InHand(doc) = Those(doc, Playable(k), "assigned") BY <1>1, <1>3, WhereTheTeamIs DEF Inv
<1>5. Cause("unassigned", "none") BY DEF Cause, Open, Causes
<1>6. InHand(doc) \cap game.benched = {} BY <1>3, <1>4, TheTemplate DEF Inv, Those
<1>7. Kept(v) BY <1>1, <1>5, <1>6, WithKeeps DEF Inv
<1>8. /\ v.stage = doc.stage /\ v.finished = doc.finished
      /\ \A x \in Missions : v.status[x] = IF x \in InHand(doc) THEN "unassigned" ELSE doc.status[x]
  BY <1>1, WithIs
<1> HIDE DEF v
<1>9. /\ InGame \subseteq Missions /\ m \in Missions
      /\ \A s \in Stages : Playable(s) \subseteq game.tasks[s] /\ game.tasks[s] \subseteq InGame
      /\ \A s \in Stages : s # k => game.tasks[s] \cap game.tasks[k] = {}
  BY <1>3, TheTemplate, TheStageOf DEF Inv
<1>10. \A x \in InGame : v.status[x] # "assigned" BY <1>2, <1>8, <1>9 DEF Those
<1>11. InOrder(v, k)
  <2>1. \A s \in Stages : s < k => \A x \in Playable(s) : v.status[x] \in Terminal
    BY <1>2, <1>1, <1>8, <1>9 DEF InOrder, Those, Terminal
  <2> QED BY <1>1, <1>8, <1>9, <1>10, <2>1 DEF InOrder, Those
<1>12. v.status[m] = "unassigned" BY <1>3, <1>8, <1>9
<1>13. Kept(w) /\ InOrder(w, k) /\ w.stage = v.stage /\ w.finished = v.finished
  BY <1>3, <1>7, <1>10, <1>11, <1>12, ClaimedIs DEF Inv
<1> HIDE DEF w
<1>14. Orderly(w) BY <1>13 DEF Orderly
<1>15. Sound(Stamped(w)) BY <1>8, <1>13, <1>14, StampedIsSound DEF Inv
<1> QED BY <1>15 DEF v, w

LEMMA AssignSound ==
  ASSUME Inv, NEW m, m \in Candidates(doc), InHand(doc) = {}
  PROVE  Sound(Stamped(With(doc, {m}, "assigned", "none")))
<1>1. doc \in Docs BY PlayedStage
<1>2. With(doc, {}, "unassigned", "none") = doc
  <2>1. /\ [x \in Missions |-> doc.status[x]] = doc.status
        /\ [x \in Missions |-> doc.cause[x]] = doc.cause
    BY <1>1 DEF Docs
  <2>2. With(doc, {}, "unassigned", "none")
          = [doc EXCEPT !.status = [x \in Missions |-> doc.status[x]],
                        !.cause  = [x \in Missions |-> doc.cause[x]]]
    BY DEF With
  <2> QED BY <1>1, <2>1, <2>2 DEF Docs
<1>3. m \in UNION {Those(doc, Playable(s), "unassigned") : s \in ActiveStages(doc)}
  BY DEF Candidates
<1> QED BY <1>2, <1>3, HandedSound

(* What completing a mission writes before its stage is settled. *)
CompletedOf(m) ==
  With(With(doc, {m}, "completed", "none"),
       {x \in Siblings(m) \cap Playable(StageOf(m)) : doc.status[x] \in Open},
       "skipped", "exclusive")

LEMMA CompletedIs ==
  ASSUME Inv, NEW k \in Stages, InOrder(doc, k), NEW m \in Playable(k)
  PROVE  /\ Kept(CompletedOf(m)) /\ CompletedOf(m).stage = doc.stage
         /\ CompletedOf(m).finished = doc.finished
         /\ \A x \in Missions : \/ CompletedOf(m).status[x] = doc.status[x]
                                \/ CompletedOf(m).status[x] = "skipped"
                                \/ x = m /\ CompletedOf(m).status[x] = "completed"
<1> DEFINE v == With(doc, {m}, "completed", "none")
           S == {x \in Siblings(m) \cap Playable(StageOf(m)) : doc.status[x] \in Open}
           e == With(v, S, "skipped", "exclusive")
<1>1. Kept(doc) /\ doc \in Docs BY DEF Inv, Sound, Orderly, Kept
<1>2. Cause("completed", "none") /\ Cause("skipped", "exclusive")
  BY DEF Cause, Open, Terminal, Causes
<1>3. StageOf(m) = k /\ m \in Missions BY TheStageOf, TheTemplate DEF Inv
<1>4. {m} \cap game.benched = {} /\ S \cap game.benched = {} BY <1>3, TheTemplate DEF Inv
<1>5. Kept(v) BY <1>1, <1>2, <1>4, WithKeeps DEF Inv
<1>6. /\ v.stage = doc.stage /\ v.finished = doc.finished
      /\ \A x \in Missions : v.status[x] = IF x \in {m} THEN "completed" ELSE doc.status[x]
  BY <1>1, WithIs
<1>7. v \in Docs BY <1>5 DEF Kept
<1> HIDE DEF v, S
<1>8. Kept(e) BY <1>2, <1>4, <1>5, WithKeeps DEF Inv
<1>9. /\ e.stage = v.stage /\ e.finished = v.finished
      /\ \A x \in Missions : e.status[x] = IF x \in S THEN "skipped" ELSE v.status[x]
  BY <1>7, WithIs
<1>10. CompletedOf(m) = e BY DEF CompletedOf, v, S
<1> HIDE DEF e
<1> QED BY <1>6, <1>8, <1>9, <1>10

LEMMA CompleteSound ==
  ASSUME Inv, NEW m, CanComplete(doc, m)
  PROVE  Sound(Stamped(Settle(CompletedOf(m), StageOf(m))))
<1>1. PICK k \in Positions : InOrder(doc, k) /\ Kept(doc) BY PlayedStage
<1>2. k \in Stages /\ m \in Playable(k) /\ StageOf(m) = k
  BY <1>1, WhereTheTeamIs DEF Inv, CanComplete
<1>3. /\ Kept(CompletedOf(m)) /\ CompletedOf(m).stage = doc.stage
      /\ CompletedOf(m).finished = doc.finished
      /\ \A x \in Missions : \/ CompletedOf(m).status[x] = doc.status[x]
                             \/ CompletedOf(m).status[x] = "skipped"
                             \/ x = m /\ CompletedOf(m).status[x] = "completed"
  BY <1>1, <1>2, CompletedIs
<1>4. InGame \subseteq Missions BY TheStageOf DEF Inv
<1>5. \A x \in InGame : CompletedOf(m).status[x] = doc.status[x]
                          \/ CompletedOf(m).status[x] \in Terminal
  BY <1>3, <1>4 DEF Terminal
<1> QED BY <1>1, <1>2, <1>3, <1>5, SettledIsSound DEF Inv

LEMMA TimeUpSound ==
  ASSUME Inv, NEW m \in InHand(doc)
  PROVE  Sound(Stamped(Settle(With(doc, {m}, "skipped", "timeLimit"), StageOf(m))))
<1>1. PICK k \in Positions : InOrder(doc, k) /\ Kept(doc) /\ doc \in Docs BY PlayedStage
<1>2. m \in UNION {Playable(s) : s \in ActiveStages(doc)} BY DEF InHand, Those
<1>3. k \in Stages /\ m \in Playable(k) /\ StageOf(m) = k /\ m \notin game.benched
  BY <1>1, <1>2, WhereTheTeamIs DEF Inv
<1>4. Cause("skipped", "timeLimit") BY DEF Cause, Open, Terminal, Causes
<1> DEFINE d == With(doc, {m}, "skipped", "timeLimit")
<1>5. Kept(d) BY <1>1, <1>3, <1>4, WithKeeps DEF Inv
<1>6. /\ d.stage = doc.stage /\ d.finished = doc.finished
      /\ \A x \in Missions : d.status[x] = IF x \in {m} THEN "skipped" ELSE doc.status[x]
  BY <1>1, WithIs
<1> HIDE DEF d
<1>7. InGame \subseteq Missions BY TheStageOf DEF Inv
<1>8. \A x \in InGame : d.status[x] = doc.status[x] \/ d.status[x] \in Terminal
  BY <1>6, <1>7 DEF Terminal
<1>9. Sound(Stamped(Settle(d, k))) BY <1>1, <1>3, <1>5, <1>6, <1>8, SettledIsSound DEF Inv
<1> QED BY <1>3, <1>9 DEF d

LEMMA SkipTaskSound ==
  ASSUME Inv, NEW m \in UNION {Playable(s) : s \in ActiveStages(doc)}
  PROVE  Sound(Stamped(Settle(SkipWritten(doc, m), StageOf(m))))
<1>1. PICK k \in Positions : InOrder(doc, k) /\ Kept(doc) BY PlayedStage
<1>2. /\ k \in Stages /\ m \in Playable(k) /\ StageOf(m) = k
      /\ m \notin game.benched /\ m \in InGame
  BY <1>1, WhereTheTeamIs DEF Inv
<1> DEFINE d == SkipWritten(doc, m)
<1>0. game \in Games BY DEF Inv
<1>3. /\ Kept(d) /\ d.stage = doc.stage /\ d.finished = doc.finished
      /\ \A x \in Missions : d.status[x] = IF x = m THEN "skipped" ELSE doc.status[x]
  <2>1. SkippedAlone(doc, m, d) BY <1>0, <1>1, <1>2, SkipWrittenIs
  <2> QED BY <2>1 DEF SkippedAlone
<1> HIDE DEF d
<1>4. InGame \subseteq Missions BY TheStageOf DEF Inv
<1>5. \A x \in InGame : d.status[x] = doc.status[x] \/ d.status[x] \in Terminal
  BY <1>3, <1>4 DEF Terminal
<1>6. Sound(Stamped(Settle(d, k))) BY <1>1, <1>2, <1>3, <1>5, SettledIsSound DEF Inv
<1> QED BY <1>2, <1>6 DEF d

(* The document that skipping stage s writes. *)
StageSkipped(s) ==
  [With(doc, {m \in Playable(s) : doc.status[m] # "completed"}, "skipped", "operatorStage")
     EXCEPT !.stage = OpenNext(@, s)]

LEMMA StageSkippedIs ==
  ASSUME Inv, NEW s \in ActiveStages(doc), InOrder(doc, s)
  PROVE  /\ Kept(StageSkipped(s)) /\ InOrder(StageSkipped(s), s + 1)
         /\ StageSkipped(s).finished = doc.finished
         /\ \A x \in Missions : StageSkipped(s).status[x]
              = IF x \in Playable(s) /\ doc.status[x] # "completed" THEN "skipped" ELSE doc.status[x]
         /\ StageSkipped(s).stage = OpenNext(doc.stage, s)
<1> DEFINE S == {m \in Playable(s) : doc.status[m] # "completed"}
           v == With(doc, S, "skipped", "operatorStage")
           e == [v EXCEPT !.stage = OpenNext(@, s)]
<1>1. Kept(doc) /\ doc \in Docs BY PlayedStage
<1>2. s \in Stages BY DEF ActiveStages
<1>3. Cause("skipped", "operatorStage") BY DEF Cause, Open, Terminal, Causes
<1>4. S \cap game.benched = {} BY <1>2, TheTemplate DEF Inv
<1>5. Kept(v) BY <1>1, <1>3, <1>4, WithKeeps DEF Inv
<1>6. /\ v.stage = doc.stage /\ v.finished = doc.finished
      /\ \A x \in Missions : v.status[x] = IF x \in S THEN "skipped" ELSE doc.status[x]
  BY <1>1, WithIs
<1>7. v \in Docs BY <1>5 DEF Kept
<1>8. OpenNext(v.stage, s) \in [Stages -> {"locked", "active", "completed"}]
  BY <1>7 DEF Docs, OpenNext
<1> HIDE DEF v
<1>9. /\ e \in Docs /\ e.status = v.status /\ e.cause = v.cause /\ e.required = v.required
      /\ e.finished = v.finished /\ e.stage = OpenNext(v.stage, s)
  BY <1>7, <1>8 DEF Docs
<1>10. StageSkipped(s) = e BY DEF StageSkipped, v
<1> HIDE DEF e
<1>11. Kept(e) BY <1>5, <1>9 DEF Kept
<1>12. /\ Stages = 1 .. Len(game.tasks) /\ Len(game.tasks) \in Nat
       /\ \A i \in Stages : Playable(i) \subseteq game.tasks[i] /\ game.tasks[i] \subseteq Missions
                                                               /\ game.tasks[i] \subseteq InGame
       /\ InGame \subseteq Missions
       /\ \A i \in Stages : i # s => game.tasks[i] \cap game.tasks[s] = {}
  BY <1>2, TheTemplate, TheStageOf DEF Inv
<1>13. \A x \in Missions : e.status[x] = IF x \in S THEN "skipped" ELSE doc.status[x] BY <1>6, <1>9
<1>14. InOrder(e, s + 1)
  <2>1. DOMAIN doc.stage = Stages BY <1>1 DEF Docs
  <2>2. \A i \in Stages : e.stage[i] = IF i < s + 1 THEN "completed"
                                       ELSE IF i = s + 1 THEN "active" ELSE "locked"
    BY <1>2, <1>6, <1>9, <1>12, <2>1 DEF OpenNext, InOrder
  <2>3. ASSUME NEW i \in Stages, i < s + 1, NEW x \in Playable(i) PROVE e.status[x] \in Terminal
    <3>1. x \in Missions BY <1>12
    <3>2. CASE i = s BY <1>13, <3>1, <3>2 DEF Terminal
    <3>3. CASE i # s
      <4>1. i < s BY <1>2, <1>12, <2>3, <3>3
      <4>2. doc.status[x] \in Terminal BY <4>1 DEF InOrder
      <4> QED BY <1>13, <3>1, <4>2 DEF Terminal
    <3> QED BY <3>2, <3>3
  <2>4. \A x \in game.tasks[s] : e.status[x] # "assigned"
    <3> SUFFICES ASSUME NEW x \in game.tasks[s] PROVE e.status[x] # "assigned" OBVIOUS
    <3>1. x \in Missions BY <1>2, <1>12
    <3>2. CASE x \in game.benched BY <1>11, <3>2 DEF Kept
    <3>3. CASE x \notin game.benched BY <1>13, <3>1, <3>3 DEF Playable
    <3> QED BY <3>2, <3>3
  <2>5. \A x \in InGame : e.status[x] = "assigned" => doc.status[x] = "assigned" BY <1>12, <1>13
  <2>6. \A i \in Stages \ {s + 1} : Those(e, game.tasks[i], "assigned") = {}
    BY <1>12, <2>4, <2>5 DEF InOrder, Those
  <2> QED BY <2>2, <2>3, <2>5, <2>6 DEF InOrder
<1> QED BY <1>6, <1>9, <1>10, <1>11, <1>13, <1>14

LEMMA SkipStageSound ==
  ASSUME Inv, NEW s \in ActiveStages(doc)
  PROVE  Sound(Stamped(StageSkipped(s)))
<1>1. PICK k \in Positions : InOrder(doc, k) /\ Kept(doc) BY PlayedStage
<1>2. k = s /\ s \in Stages BY <1>1, WhereTheTeamIs DEF Inv
<1>3. /\ Kept(StageSkipped(s)) /\ InOrder(StageSkipped(s), s + 1)
      /\ StageSkipped(s).finished = doc.finished
  BY <1>1, <1>2, StageSkippedIs
<1>4. s + 1 \in Positions BY <1>2, TheTemplate DEF Inv, Positions
<1>5. ~ doc.finished BY <1>1, <1>2, WhereTheTeamIs DEF Inv, Sound
<1>6. Orderly(StageSkipped(s)) BY <1>3, <1>4 DEF Orderly
<1> QED BY <1>3, <1>5, <1>6, StampedIsSound DEF Inv

(* The document that closing mission m writes. *)
ClosedOf(m) ==
  LET s == StageOf(m)
      d == SkipWritten(doc, m)
  IN  IF m \notin Playable(s) \/ doc.status[m] \notin Open THEN doc
      ELSE Stamped(IF doc.stage[s] = "active" THEN Settle(d, s) ELSE d)

LEMMA CloseSound ==
  ASSUME Inv, NEW m \in InGame
  PROVE  Sound(ClosedOf(m))
<1> DEFINE s == StageOf(m)
           d == SkipWritten(doc, m)
<1>1. PICK k \in Positions : InOrder(doc, k) /\ Kept(doc) BY PlayedStage
<1>2. CASE m \notin Playable(s) \/ doc.status[m] \notin Open BY <1>2 DEF ClosedOf, Inv
<1>3. CASE m \in Playable(s) /\ doc.status[m] \in Open
  <2>0. game \in Games BY DEF Inv
  <2>1. s \in Stages /\ m \notin game.benched /\ InGame \subseteq Missions
    BY <2>0, <1>3, TheStageOf DEF Playable
  <2>2. /\ Kept(d) /\ d.stage = doc.stage /\ d.finished = doc.finished
        /\ \A x \in Missions : d.status[x] = IF x = m THEN "skipped" ELSE doc.status[x]
    <3>1. SkippedAlone(doc, m, d) BY <1>1, <2>0, <2>1, SkipWrittenIs
    <3> QED BY <3>1 DEF SkippedAlone
  <2>3. ClosedOf(m) = Stamped(IF doc.stage[s] = "active" THEN Settle(d, s) ELSE d)
    BY <1>3 DEF ClosedOf
  <2> HIDE DEF d, s
  <2>4. \A x \in InGame : d.status[x] = doc.status[x] \/ d.status[x] \in Terminal
    BY <2>1, <2>2 DEF Terminal
  <2>5. CASE doc.stage[s] = "active"
    <3>1. k = s BY <1>1, <2>0, <2>1, <2>5, WhereTheTeamIs DEF ActiveStages
    <3> QED BY <1>1, <2>0, <2>1, <2>2, <2>3, <2>4, <2>5, <3>1, SettledIsSound DEF Inv
  <2>6. CASE doc.stage[s] # "active"
    <3>1. InOrder(d, k) BY <1>1, <2>2, <2>4, OrderIsOfStages
    <3>2. Orderly(d) BY <2>2, <3>1 DEF Orderly
    <3> QED BY <2>2, <2>3, <2>6, <3>2, StampedIsSound DEF Inv
  <2> QED BY <2>5, <2>6
<1> QED BY <1>2, <1>3

LEMMA ReturnSound ==
  ASSUME Inv, NEW m \in Missions, CanReturn(m), NEW claimed \in BOOLEAN
  PROVE  Sound(Restamped(Returned(doc, m, claimed)))
<1>1. PICK k \in Positions : InOrder(doc, k) /\ Kept(doc) BY PlayedStage
<1>2. PICK t \in Stages : m \in Playable(t) BY DEF CanReturn
<1>3. StageOf(m) = t BY <1>2, TheStageOf, TheTemplate DEF Inv
<1>4. Orderly(Returned(doc, m, claimed)) BY <1>1, <1>2, <1>3, ReturnedIs DEF CanReturn, Inv
<1> QED BY <1>4, RestampedIsSound

LEMMA ReturnToStageSound ==
  ASSUME Inv, NEW t \in Stages, doc.stage[t] # "locked"
  PROVE  Sound(Restamped(SettleFrom(ReopenedStage(doc, t), t)))
<1>1. PICK k \in Positions : InOrder(doc, k) /\ Kept(doc) BY PlayedStage
<1>2. Kept(ReopenedStage(doc, t)) /\ InOrder(ReopenedStage(doc, t), t)
  BY <1>1, ReopenedStageIs DEF Inv
<1>3. Orderly(SettleFrom(ReopenedStage(doc, t), t))
  BY <1>2, SettleFromKeepsOrder DEF Orderly, Inv
<1> QED BY <1>3, RestampedIsSound

(* Every step keeps the invariant. *)
LEMMA InvStep == Inv /\ [Next]_vars => Inv'
<1> SUFFICES ASSUME Inv, [Next]_vars PROVE Inv' OBVIOUS
<1>0. closed \subseteq InGame BY DEF Inv
<1>1. ASSUME NEW d, Sound(d), doc' = d, UNCHANGED <<game, tools, closed>> PROVE Inv'
  BY <1>0, <1>1, InvStays
<1>2. CASE Heal
  <2>1. PICK d : d = Healed(doc) OBVIOUS
  <2> DEFINE Stamp == Stamped(d)
  <2>2. Sound(d) BY <2>1, HealSound
  <2>3. Sound(Stamp) BY <2>2, StampedIsSound DEF Sound
  <2>4. doc' = Stamp BY <1>2, <2>1 DEF Heal, Writes
  <2>5. PICK e : e = Stamp OBVIOUS
  <2> QED BY <1>1, <1>2, <2>3, <2>4, <2>5 DEF Heal, Writes
<1>3. ASSUME NEW m \in Missions, Assign(m) PROVE Inv'
  <2>1. PICK d : d = Stamped(With(doc, {m}, "assigned", "none")) OBVIOUS
  <2>2. Sound(d) BY <1>3, <2>1, AssignSound DEF Assign
  <2> QED BY <1>1, <1>3, <2>1, <2>2 DEF Assign, Writes
<1>4. ASSUME NEW m \in Missions, Complete(m) PROVE Inv'
  <2>1. PICK d : d = Stamped(Settle(CompletedOf(m), StageOf(m))) OBVIOUS
  <2>2. Sound(d) BY <1>4, <2>1, CompleteSound DEF Complete
  <2> QED BY <1>1, <1>4, <2>1, <2>2 DEF Complete, Writes, CompletedOf
<1>5. ASSUME NEW m \in Missions, TimeUp(m) PROVE Inv'
  <2>1. PICK d : d = Stamped(Settle(With(doc, {m}, "skipped", "timeLimit"), StageOf(m))) OBVIOUS
  <2>2. Sound(d) BY <1>5, <2>1, TimeUpSound DEF TimeUp
  <2> QED BY <1>1, <1>5, <2>1, <2>2 DEF TimeUp, Writes
<1>6. ASSUME NEW m \in Missions, SkipTask(m) PROVE Inv'
  <2>1. PICK d : d = Stamped(Settle(SkipWritten(doc, m), StageOf(m))) OBVIOUS
  <2>2. Sound(d) BY <1>6, <2>1, SkipTaskSound DEF SkipTask
  <2> QED BY <1>1, <1>6, <2>1, <2>2 DEF SkipTask, Writes
<1>7. ASSUME NEW m \in Missions, Close(m) PROVE Inv'
  <2>1. PICK d : d = ClosedOf(m) OBVIOUS
  <2>2. Sound(d) BY <1>7, <2>1, CloseSound DEF Close
  <2>3. doc' = d /\ UNCHANGED <<game, tools>> BY <1>7, <2>1 DEF Close, ClosedOf
  <2>4. closed' \subseteq InGame BY <1>0, <1>7 DEF Close
  <2> QED BY <2>2, <2>3, <2>4, InvStays
<1>8. ASSUME NEW m \in Missions, Reopen(m) PROVE Inv'
  <2>1. closed' \subseteq InGame /\ UNCHANGED <<game, tools, doc>> BY <1>0, <1>8 DEF Reopen
  <2>2. PICK d : d = doc OBVIOUS
  <2>3. Sound(d) BY <2>2 DEF Inv
  <2> QED BY <2>1, <2>2, <2>3, InvStays
<1>9. ASSUME NEW m \in Missions, NEW b \in BOOLEAN, ForceAssign(m, b) PROVE Inv'
  <2>1. PICK d : d = Stamped(With(With(doc, InHand(doc), "unassigned", "none"), {m}, "assigned", "none"))
    OBVIOUS
  <2>2. Sound(d) BY <1>9, <2>1, HandedSound DEF ForceAssign
  <2> QED BY <1>1, <1>9, <2>1, <2>2 DEF ForceAssign, Writes
<1>10. ASSUME NEW m \in Missions, NEW b \in BOOLEAN, ReturnToTask(m, b) PROVE Inv'
  <2>1. PICK d : d = Restamped(Returned(doc, m, b)) OBVIOUS
  <2>2. Sound(d) BY <1>10, <2>1, ReturnSound DEF ReturnToTask
  <2> QED BY <1>1, <1>10, <2>1, <2>2 DEF ReturnToTask, Returns
<1>11. ASSUME NEW s \in Stages, SkipStage(s) PROVE Inv'
  <2>1. PICK d : d = Stamped(StageSkipped(s)) OBVIOUS
  <2>2. Sound(d) BY <1>11, <2>1, SkipStageSound DEF SkipStage
  <2> QED BY <1>1, <1>11, <2>1, <2>2 DEF SkipStage, Writes, StageSkipped
<1>12. ASSUME NEW t \in Stages, ReturnToStage(t) PROVE Inv'
  <2>1. PICK d : d = Restamped(SettleFrom(ReopenedStage(doc, t), t)) OBVIOUS
  <2>2. Sound(d) BY <1>12, <2>1, ReturnToStageSound DEF ReturnToStage
  <2> QED BY <1>1, <1>12, <2>1, <2>2 DEF ReturnToStage, Returns
<1>13. CASE UNCHANGED vars
  <2>1. PICK d : d = doc OBVIOUS
  <2>2. Sound(d) BY <2>1 DEF Inv
  <2> QED BY <1>1, <1>13, <2>1, <2>2 DEF vars
<1> QED BY <1>2, <1>3, <1>4, <1>5, <1>6, <1>7, <1>8, <1>9, <1>10, <1>11, <1>12, <1>13 DEF Next

LEMMA InvHolds == Spec => []Inv
<1>1. Init => Inv BY InitSound
<1>2. Inv /\ [Next]_vars => Inv' BY InvStep
<1> QED BY <1>1, <1>2, PTL DEF Spec

(* StageFlow.TypeOK: whatever an operator, a phone or the expiry sweep      *)
(* writes, the team document keeps its shape: a cause exactly on what was   *)
(* skipped, and no benched mission is ever touched.                         *)
THEOREM DocumentTypes == Spec => []TypeOK
<1>1. Inv => TypeOK BY DEF Inv, Sound, Orderly, Kept, Docs, TypeOK
<1> QED BY <1>1, InvHolds, PTL

(* StageFlow.StagesInOrder: through skips, closures, force-assignments and  *)
(* send-backs alike the stages before the one that is played are completed  *)
(* with nothing left open in them, the ones after it are locked, the team   *)
(* is stamped finished exactly when none is left, and what it holds, one    *)
(* mission at most, is in the stage that is played.                         *)
THEOREM OrderHolds == Spec => []StagesInOrder
<1>1. Inv => StagesInOrder
  <2> SUFFICES ASSUME Inv PROVE StagesInOrder OBVIOUS
  <2>1. PICK k \in Positions : InOrder(doc, k) /\ Kept(doc) BY PlayedStage
  <2>2. /\ InHand(doc) = Those(doc, InGame, "assigned")
        /\ AllDone(doc) <=> k \notin Stages
    BY <2>1, WhereTheTeamIs DEF Inv
  <2>3. Stages = 1 .. Len(game.tasks) /\ Len(game.tasks) \in Nat \ {0} BY TheTemplate DEF Inv
  <2>4. doc.finished <=> k = Len(game.tasks) + 1
    BY <2>2, <2>3 DEF Inv, Sound, Positions
  <2>5. Cardinality(InHand(doc)) <= 1
    <3>1. CASE InHand(doc) = {} BY <3>1, FS_EmptySet
    <3>2. CASE InHand(doc) # {}
      <4>1. PICK m : m \in InHand(doc) BY <3>2
      <4>2. InHand(doc) = {m} BY <2>1, <2>2, <4>1 DEF InOrder, Those
      <4>3. Cardinality(InHand(doc)) = 1 BY <4>2, FS_Singleton
      <4> QED BY <4>3
    <3> QED BY <3>1, <3>2
  <2>6. \A s \in 1 .. k - 1 : s \in Stages /\ s < k BY <2>3 DEF Positions
  <2> QED BY <2>1, <2>4, <2>5, <2>6 DEF StagesInOrder, InOrder, Positions
<1> QED BY <1>1, InvHolds, PTL

-----------------------------------------------------------------------------
(* What the steps do to the statuses.                                       *)

LEMMA StampKeeps ==
  ASSUME NEW d \in Docs
  PROVE  \A e \in {Stamped(d), Restamped(d)} : e.stage = d.stage /\ e.status = d.status
BY DEF Stamped, Restamped, Docs

(* Some missions of the stage that is played have ended; m is the one that  *)
(* may be completed.                                                        *)
EndedIn(d, k, m) ==
  /\ Kept(d) /\ InOrder(d, k) /\ d.stage = doc.stage
  /\ \A x \in Missions :
       \/ d.status[x] = doc.status[x]
       \/ x \in Playable(k) /\ d.status[x] = "skipped"
       \/ x \in Playable(k) /\ d.status[x] = "completed" /\ x = m /\ CanComplete(doc, m)

(* The next document is a settled d, with its stamp. *)
WritesSettled(d, k) ==
  doc'.stage = Settle(d, k).stage /\ doc'.status = Settle(d, k).status

Settles == \E k \in Stages : InOrder(doc, k) /\ \E d, m : EndedIn(d, k, m) /\ WritesSettled(d, k)

(* A mission of the stage that is played is in hand, the one that was may   *)
(* be back in the queue.                                                    *)
Hands ==
  \E k \in Stages : \E m \in Playable(k) :
    /\ InOrder(doc, k) /\ doc'.stage = doc.stage
    /\ \A x \in Missions :
         \/ doc'.status[x] = doc.status[x]
         \/ x \in Playable(k) /\ doc'.status[x] = "unassigned"
         \/ x = m /\ doc'.status[x] = "assigned"

LEMMA HealSettles ==
  ASSUME Inv, Heal
  PROVE  Settles
<1>1. PICK k \in Positions : InOrder(doc, k) /\ Kept(doc) BY PlayedStage
<1>2. ActiveStages(doc) = {k} \cap Stages BY <1>1, WhereTheTeamIs DEF Inv
<1>3. k \in Stages /\ (CHOOSE s \in ActiveStages(doc) : TRUE) = k BY <1>2 DEF Heal, Healed
<1>4. Healed(doc) = Stamped(Settle(doc, k)) BY <1>3 DEF Heal, Healed
<1>5. Kept(Settle(doc, k)) BY <1>1, <1>3, SettleIs DEF Inv, Settled
<1>6. Settle(doc, k) \in Docs BY <1>5 DEF Kept
<1>7. Healed(doc) \in Docs BY HealSound DEF Sound, Orderly, Kept
<1>8. doc' = Stamped(Healed(doc)) BY DEF Heal, Writes
<1>9. WritesSettled(doc, k) BY <1>4, <1>6, <1>7, <1>8, StampKeeps DEF WritesSettled
<1>10. EndedIn(doc, k, "none") BY <1>1 DEF EndedIn
<1> QED BY <1>1, <1>3, <1>9, <1>10 DEF Settles

LEMMA CompleteSettles ==
  ASSUME Inv, NEW m \in Missions, Complete(m)
  PROVE  Settles
<1>1. PICK k \in Positions : InOrder(doc, k) /\ Kept(doc) BY PlayedStage
<1>2. CanComplete(doc, m) BY DEF Complete
<1>3. k \in Stages /\ m \in Playable(k) /\ StageOf(m) = k
  BY <1>1, <1>2, WhereTheTeamIs DEF Inv, CanComplete
<1> DEFINE d == CompletedOf(m)
<1>4. /\ Kept(d) /\ d.stage = doc.stage /\ d.finished = doc.finished
      /\ \A x \in Missions : \/ d.status[x] = doc.status[x]
                             \/ d.status[x] = "skipped"
                             \/ x = m /\ d.status[x] = "completed"
  BY <1>1, <1>3, CompletedIs
<1>5. \A x \in Missions : x \notin Playable(k) => d.status[x] = doc.status[x]
  <2> SUFFICES ASSUME NEW x \in Missions, x \notin Playable(k) PROVE d.status[x] = doc.status[x]
    OBVIOUS
  <2> DEFINE v == With(doc, {m}, "completed", "none")
             S == {y \in Siblings(m) \cap Playable(k) : doc.status[y] \in Open}
  <2>1. d = With(v, S, "skipped", "exclusive") BY <1>3 DEF CompletedOf
  <2>2. Cause("completed", "none") BY DEF Cause, Open, Terminal, Causes
  <2>3. {m} \cap game.benched = {} BY <1>3, TheTemplate DEF Inv
  <2>4. Kept(v) BY <1>1, <2>2, <2>3, WithKeeps DEF Inv
  <2>5. v \in Docs /\ doc \in Docs BY <1>1, <2>4 DEF Kept
  <2>6. v.status[x] = doc.status[x] BY <1>3, <2>5, WithIs
  <2> HIDE DEF v
  <2>7. d.status[x] = v.status[x] BY <2>1, <2>5, WithIs
  <2> QED BY <2>6, <2>7
<1>6. doc' = Stamped(Settle(d, k)) BY <1>3 DEF Complete, Writes, CompletedOf
<1> HIDE DEF d
<1>7. InGame \subseteq Missions BY TheStageOf DEF Inv
<1>8. InOrder(d, k) BY <1>1, <1>4, <1>7, OrderIsOfStages DEF Terminal
<1>9. EndedIn(d, k, m) BY <1>2, <1>4, <1>5, <1>8 DEF EndedIn
<1>10. Settle(d, k) \in Docs BY <1>3, <1>4, SettleIs DEF Inv, Settled, Kept
<1>11. WritesSettled(d, k) BY <1>6, <1>10, StampKeeps DEF WritesSettled
<1> QED BY <1>1, <1>3, <1>9, <1>11 DEF Settles

LEMMA SkippingSettles ==
  ASSUME Inv, NEW m \in Missions, TimeUp(m) \/ SkipTask(m)
  PROVE  Settles
<1>1. PICK k \in Positions : InOrder(doc, k) /\ Kept(doc) BY PlayedStage
<1>2. m \in UNION {Playable(s) : s \in ActiveStages(doc)}
  BY DEF TimeUp, SkipTask, InHand, Those
<1>3. /\ k \in Stages /\ m \in Playable(k) /\ StageOf(m) = k
      /\ m \notin game.benched /\ m \in InGame
  BY <1>1, <1>2, WhereTheTeamIs DEF Inv
<1>4. PICK d : /\ d = With(doc, {m}, "skipped", "timeLimit") \/ d = SkipWritten(doc, m)
               /\ doc' = Stamped(Settle(d, StageOf(m)))
  <2>1. CASE TimeUp(m) BY <2>1 DEF TimeUp, Writes
  <2>2. CASE SkipTask(m) BY <2>2 DEF SkipTask, Writes
  <2> QED BY <2>1, <2>2
<1>5. /\ Kept(d) /\ d.stage = doc.stage
      /\ \A x \in Missions : d.status[x] = IF x = m THEN "skipped" ELSE doc.status[x]
  <2>1. CASE d = With(doc, {m}, "skipped", "timeLimit")
    <3>1. Cause("skipped", "timeLimit") BY DEF Cause, Open, Terminal, Causes
    <3>2. Kept(d) BY <1>1, <1>3, <2>1, <3>1, WithKeeps DEF Inv
    <3>3. doc \in Docs BY <1>1 DEF Kept
    <3> QED BY <2>1, <3>2, <3>3, WithIs
  <2>2. CASE d = SkipWritten(doc, m)
    <3>1. SkippedAlone(doc, m, SkipWritten(doc, m)) BY <1>1, <1>3, SkipWrittenIs DEF Inv
    <3> QED BY <2>2, <3>1 DEF SkippedAlone
  <2> QED BY <1>4, <2>1, <2>2
<1>6. InGame \subseteq Missions BY TheStageOf DEF Inv
<1>7. InOrder(d, k) BY <1>1, <1>5, <1>6, OrderIsOfStages DEF Terminal
<1>8. EndedIn(d, k, "none") BY <1>3, <1>5, <1>7 DEF EndedIn
<1>9. Settle(d, k) \in Docs BY <1>3, <1>5, SettleIs DEF Inv, Settled, Kept
<1>10. WritesSettled(d, k) BY <1>3, <1>4, <1>9, StampKeeps DEF WritesSettled
<1> QED BY <1>1, <1>3, <1>8, <1>10 DEF Settles

LEMMA HandingHands ==
  ASSUME Inv, NEW m \in Missions, NEW b \in BOOLEAN, Assign(m) \/ ForceAssign(m, b)
  PROVE  Hands
<1>1. PICK k \in Positions : InOrder(doc, k) /\ Kept(doc) /\ doc \in Docs BY PlayedStage
<1>2. m \in UNION {Playable(s) : s \in ActiveStages(doc)}
  BY DEF Assign, ForceAssign, Candidates, Those
<1>3. k \in Stages /\ m \in Playable(k) /\ StageOf(m) = k /\ m \notin game.benched
  BY <1>1, <1>2, WhereTheTeamIs DEF Inv
<1>4. InHand(doc) = Those(doc, Playable(k), "assigned") BY <1>1, <1>3, WhereTheTeamIs DEF Inv
<1>5. Cause("assigned", "none") /\ Cause("unassigned", "none") BY DEF Cause, Open, Causes
<1>6. PICK v : /\ v = doc \/ v = With(doc, InHand(doc), "unassigned", "none")
               /\ doc' = Stamped(With(v, {m}, "assigned", "none"))
  BY DEF Assign, ForceAssign, Writes
<1>7. InHand(doc) \cap game.benched = {} BY <1>3, <1>4, TheTemplate DEF Those, Inv
<1>8. /\ Kept(v) /\ v.stage = doc.stage
      /\ \A x \in Missions : \/ v.status[x] = doc.status[x]
                             \/ x \in Playable(k) /\ v.status[x] = "unassigned"
  <2>1. CASE v = doc BY <1>1, <2>1
  <2>2. CASE v = With(doc, InHand(doc), "unassigned", "none")
    <3>1. Kept(v) BY <1>1, <1>5, <1>7, <2>2, WithKeeps DEF Inv
    <3>2. InHand(doc) \subseteq Playable(k) BY <1>4 DEF Those
    <3> QED BY <1>1, <2>2, <3>1, <3>2, WithIs
  <2> QED BY <1>6, <2>1, <2>2
<1> DEFINE w == With(v, {m}, "assigned", "none")
<1>9. v \in Docs BY <1>8 DEF Kept
<1>10. Kept(w) BY <1>3, <1>5, <1>8, WithKeeps DEF Inv
<1>11. /\ w.stage = v.stage
       /\ \A x \in Missions : w.status[x] = IF x \in {m} THEN "assigned" ELSE v.status[x]
  BY <1>9, WithIs
<1>12. doc' = Stamped(w) BY <1>6
<1> HIDE DEF w
<1>13. w \in Docs BY <1>10 DEF Kept
<1>14. doc'.stage = w.stage /\ doc'.status = w.status BY <1>12, <1>13, StampKeeps
<1> QED BY <1>1, <1>3, <1>8, <1>11, <1>14 DEF Hands

-----------------------------------------------------------------------------
(* Alternatives.                                                            *)

(* What is completed after a step was completed before, but for one mission *)
(* that could be completed.                                                 *)
OneMoreDone(m) ==
  \A x \in Missions : doc'.status[x] = "completed"
                        => doc.status[x] = "completed" \/ (x = m /\ CanComplete(doc, m))

LEMMA StepCompletesOne ==
  ASSUME Inv, [Next]_vars
  PROVE  \E m : OneMoreDone(m)
<1>1. CASE Settles
  <2>1. PICK k \in Stages : InOrder(doc, k) /\ \E d, m : EndedIn(d, k, m) /\ WritesSettled(d, k)
    BY <1>1 DEF Settles
  <2>2. PICK d, m : EndedIn(d, k, m) /\ WritesSettled(d, k) BY <2>1
  <2>3. Settled(d, k, Settle(d, k)) BY <2>2, SettleIs DEF EndedIn, Inv
  <2>4. OneMoreDone(m) BY <2>2, <2>3 DEF EndedIn, WritesSettled, Settled, OneMoreDone
  <2> QED BY <2>4
<1>2. CASE Hands BY <1>2 DEF Hands, OneMoreDone
<1>3. ASSUME NEW m \in Missions, Close(m) PROVE \E x : OneMoreDone(x)
  <2> DEFINE s == StageOf(m)
             d == SkipWritten(doc, m)
  <2>1. game \in Games /\ Kept(doc) /\ m \in InGame BY <1>3, PlayedStage DEF Inv, Close
  <2>2. s \in Stages BY <2>1, TheStageOf
  <2>3. doc' = ClosedOf(m) BY <1>3 DEF Close, ClosedOf
  <2>4. CASE m \notin Playable(s) \/ doc.status[m] \notin Open
    BY <2>3, <2>4 DEF ClosedOf, OneMoreDone
  <2>5. CASE m \in Playable(s) /\ doc.status[m] \in Open
    <3>1. m \notin game.benched BY <2>5 DEF Playable
    <3>2. SkippedAlone(doc, m, d) BY <2>1, <3>1, SkipWrittenIs
    <3>3. /\ Kept(d)
          /\ \A x \in Missions : d.status[x] = IF x = m THEN "skipped" ELSE doc.status[x]
      BY <3>2 DEF SkippedAlone
    <3>4. doc' = Stamped(IF doc.stage[s] = "active" THEN Settle(d, s) ELSE d)
      BY <2>3, <2>5 DEF ClosedOf
    <3> HIDE DEF d, s
    <3>5. Settled(d, s, Settle(d, s)) BY <2>1, <2>2, <3>3, SettleIs
    <3>6. d \in Docs /\ Settle(d, s) \in Docs BY <3>3, <3>5 DEF Settled, Kept
    <3>7. doc'.status = d.status \/ doc'.status = Settle(d, s).status BY <3>4, <3>6, StampKeeps
    <3>8. OneMoreDone(m) BY <3>3, <3>5, <3>7 DEF Settled, OneMoreDone
    <3> QED BY <3>8
  <2> QED BY <2>4, <2>5
<1>4. ASSUME NEW s \in Stages, SkipStage(s) PROVE \E x : OneMoreDone(x)
  <2>1. s \in ActiveStages(doc) /\ doc' = Stamped(StageSkipped(s))
    BY <1>4 DEF SkipStage, Writes, StageSkipped
  <2>2. PICK k \in Positions : InOrder(doc, k) /\ Kept(doc) BY PlayedStage
  <2>3. k = s BY <2>1, <2>2, WhereTheTeamIs DEF Inv
  <2>4. /\ StageSkipped(s) \in Docs
        /\ \A x \in Missions : StageSkipped(s).status[x]
             = IF x \in Playable(s) /\ doc.status[x] # "completed" THEN "skipped" ELSE doc.status[x]
    BY <2>1, <2>2, <2>3, StageSkippedIs DEF Kept
  <2>5. doc'.status = StageSkipped(s).status BY <2>1, <2>4, StampKeeps
  <2> QED BY <2>4, <2>5 DEF OneMoreDone
<1>5. ASSUME NEW m \in Missions, NEW b \in BOOLEAN, ReturnToTask(m, b) PROVE \E x : OneMoreDone(x)
  <2>1. CanReturn(m) /\ doc' = Restamped(Returned(doc, m, b)) BY <1>5 DEF ReturnToTask, Returns
  <2>2. PICK k \in Positions : InOrder(doc, k) /\ Kept(doc) BY PlayedStage
  <2>3. PICK t \in Stages : m \in Playable(t) BY <2>1 DEF CanReturn
  <2>4. StageOf(m) = t BY <2>3, TheStageOf, TheTemplate DEF Inv
  <2>5. /\ Orderly(Returned(doc, m, b))
        /\ \A x \in Missions : Returned(doc, m, b).status[x] = "completed"
                                 => doc.status[x] = "completed"
    BY <2>1, <2>2, <2>3, <2>4, ReturnedIs DEF CanReturn, Inv
  <2>6. Returned(doc, m, b) \in Docs BY <2>5 DEF Orderly, Kept
  <2>7. doc'.status = Returned(doc, m, b).status BY <2>1, <2>6, StampKeeps
  <2> QED BY <2>5, <2>7 DEF OneMoreDone
<1>6. ASSUME NEW t \in Stages, ReturnToStage(t) PROVE \E x : OneMoreDone(x)
  <2> DEFINE r == ReopenedStage(doc, t)
             e == SettleFrom(r, t)
  <2>1. doc.stage[t] # "locked" /\ doc' = Restamped(e) BY <1>6 DEF ReturnToStage, Returns
  <2>2. PICK k \in Positions : InOrder(doc, k) /\ Kept(doc) BY PlayedStage
  <2>3. /\ Kept(r) /\ InOrder(r, t)
        /\ \A x \in Missions : r.status[x] = "completed" => doc.status[x] = "completed"
    BY <2>1, <2>2, ReopenedStageIs DEF Inv
  <2> HIDE DEF r
  <2>4. Kept(e) /\ \A x \in Missions : e.status[x] = "completed" <=> r.status[x] = "completed"
    BY <2>3, SettleFromKeepsOrder DEF Inv
  <2> HIDE DEF e
  <2>5. e \in Docs BY <2>4 DEF Kept
  <2>6. doc'.status = e.status BY <2>1, <2>5, StampKeeps
  <2> QED BY <2>3, <2>4, <2>6 DEF OneMoreDone
<1>7. CASE UNCHANGED doc BY <1>7 DEF OneMoreDone
<1>8. ASSUME NEW m \in Missions, Complete(m) \/ TimeUp(m) \/ SkipTask(m) PROVE Settles
  BY <1>8, CompleteSettles, SkippingSettles
<1>9. ASSUME NEW m \in Missions, NEW b \in BOOLEAN, Assign(m) \/ ForceAssign(m, b) PROVE Hands
  BY <1>9, HandingHands
<1>10. ASSUME NEW m \in Missions, Reopen(m) PROVE UNCHANGED doc BY <1>10 DEF Reopen
<1>11. TRUE \in BOOLEAN OBVIOUS
<1> QED BY <1>1, <1>2, <1>3, <1>4, <1>5, <1>6, <1>7, <1>8, <1>9, <1>10, <1>11, HealSettles
        DEF Next, vars

(* OneAlternative, mission by mission. *)
OneOfEach ==
  \A s \in Stages : \A g \in EffectiveGroups(Playable(s)) : \A m, x \in g :
    doc.status[m] = "completed" /\ doc.status[x] = "completed" => m = x

LEMMA OneOfEachStays ==
  ASSUME Inv, OneOfEach, [Next]_vars
  PROVE  OneOfEach'
<1>1. PICK m : OneMoreDone(m) BY StepCompletesOne
<1>2. UNCHANGED game
  BY DEF Next, vars, Heal, Assign, Complete, TimeUp, SkipTask, Close, Reopen, ForceAssign,
         ReturnToTask, SkipStage, ReturnToStage, Writes, Returns
<1>3. \A s \in Stages : \A g \in EffectiveGroups(Playable(s)) : g \subseteq game.tasks[s]
  BY GroupsAreInside DEF Playable
<1>4. \A s \in Stages : \A x \in game.tasks[s] : StageOf(x) = s /\ x \in Missions
  BY TheStageOf, TheTemplate DEF Inv
<1>5. ASSUME NEW s \in Stages, NEW g \in EffectiveGroups(Playable(s)), NEW y \in g, NEW x \in g,
             doc'.status[y] = "completed", doc'.status[x] = "completed", y # x
      PROVE  FALSE
  <2>1. y \in game.tasks[s] /\ x \in game.tasks[s] BY <1>3
  <2>2. x \in Missions /\ y \in Missions /\ StageOf(x) = s /\ StageOf(y) = s BY <1>4, <2>1
  <2>3. y \in Siblings(x) /\ x \in Siblings(y)
    <3> DEFINE Kin(i, z) == (UNION {h \in EffectiveGroups(Playable(i)) : z \in h}) \ {z}
    <3>1. Siblings(x) = Kin(StageOf(x), x) /\ Siblings(y) = Kin(StageOf(y), y) BY DEF Siblings
    <3>2. y \in Kin(s, x) /\ x \in Kin(s, y) BY <1>5
    <3> HIDE DEF Kin
    <3> QED BY <2>2, <3>1, <3>2
  <2>4. CASE doc.status[y] = "completed" /\ doc.status[x] = "completed" BY <1>5, <2>4 DEF OneOfEach
  <2>5. CASE doc.status[y] # "completed"
    <3>1. y = m /\ CanComplete(doc, m) BY <1>1, <1>5, <2>2, <2>5 DEF OneMoreDone
    <3>2. doc.status[x] # "completed" BY <2>3, <3>1 DEF CanComplete
    <3> QED BY <1>1, <1>5, <2>2, <3>1, <3>2 DEF OneMoreDone
  <2>6. CASE doc.status[x] # "completed"
    <3>1. x = m /\ CanComplete(doc, m) BY <1>1, <1>5, <2>2, <2>6 DEF OneMoreDone
    <3>2. doc.status[y] # "completed" BY <2>3, <3>1 DEF CanComplete
    <3> QED BY <1>1, <1>5, <2>2, <3>1, <3>2 DEF OneMoreDone
  <2> QED BY <2>4, <2>5, <2>6
<1>6. \A s \in Stages : \A g \in EffectiveGroups(Playable(s)) : \A y, x \in g :
        doc'.status[y] = "completed" /\ doc'.status[x] = "completed" => y = x
  BY <1>5
<1>7. \A known : EffectiveGroups(known)' = EffectiveGroups(known) BY <1>2 DEF EffectiveGroups
<1>8. /\ Stages' = Stages /\ game' = game
      /\ \A s : EffectiveGroups(Playable(s))' = EffectiveGroups(Playable(s))
  BY <1>2 DEF Stages, EffectiveGroups, Playable
<1> QED BY <1>6, <1>8 DEF OneOfEach

(* StageFlow.OneAlternative: through completions, late photo approvals,     *)
(* force-assignments and send-backs, a team never completes two missions of *)
(* one set of alternatives.                                                 *)
THEOREM OneOfAlternatives == Spec => []OneAlternative
<1>1. Init => OneOfEach
  <2> SUFFICES ASSUME Init PROVE OneOfEach OBVIOUS
  <2>1. game \in Games BY DEF Init
  <2>2. \A s \in Stages : \A g \in EffectiveGroups(Playable(s)) : g \subseteq Missions
    BY <2>1, GroupsAreInside, TheTemplate
  <2>3. \A m \in Missions : doc.status[m] = "unassigned" BY DEF Init
  <2> QED BY <2>2, <2>3 DEF OneOfEach
<1>2. Inv /\ OneOfEach /\ [Next]_vars => OneOfEach' BY OneOfEachStays
<1>3. Inv /\ OneOfEach => OneAlternative
  <2> SUFFICES ASSUME Inv, OneOfEach, NEW s \in Stages, NEW g \in EffectiveGroups(Playable(s))
               PROVE  Cardinality(Those(doc, g, "completed")) <= 1
    BY DEF OneAlternative
  <2> DEFINE C == Those(doc, g, "completed")
  <2>1. C = {} => Cardinality(C) <= 1 BY FS_EmptySet
  <2>2. ASSUME C # {} PROVE Cardinality(C) <= 1
    <3>1. PICK m : m \in C BY <2>2
    <3>2. C = {m} BY <3>1 DEF OneOfEach, Those
    <3> HIDE DEF C
    <3>3. Cardinality(C) = 1 BY <3>2, FS_Singleton
    <3> QED BY <3>3
  <2> HIDE DEF C
  <2>3. Cardinality(C) <= 1 BY <2>1, <2>2
  <2> QED BY <2>3 DEF C
<1> QED BY <1>1, <1>2, <1>3, InvHolds, PTL DEF Spec

-----------------------------------------------------------------------------
(* Retirement.                                                              *)

(* A set of missions that the team could still work through: each of them   *)
(* is open or satisfies a gate, and what is unassigned waits only for       *)
(* members of the set.                                                      *)
Workable(S, s) ==
  /\ S \subseteq {x \in game.tasks[s] : doc.status[x] \in Open \/ SatisfiesGate(doc, x)}
  /\ \A x \in S : doc.status[x] = "unassigned" => game.gate[x] \subseteq S

LEMMA AliveIsWorkable ==
  ASSUME game \in Games, NEW s \in Stages
  PROVE  Workable(Alive(doc, s), s)
<1> DEFINE A == Alive(doc, s)
           U == Those(doc, game.tasks[s], "unassigned")
<1>1. Least(A, Seed(doc, s), U, game.gate) BY AliveIsLeast
<1> HIDE DEF A
<1>2. A \subseteq Seed(doc, s) \cup U BY <1>1 DEF Least
<1>3. A \subseteq {x \in game.tasks[s] : doc.status[x] \in Open \/ SatisfiesGate(doc, x)}
  BY <1>2 DEF Seed, Those, Open
<1>4. \A x \in A : doc.status[x] = "unassigned" => x \notin Seed(doc, s)
  BY DEF Seed, SatisfiesGate
<1>5. \A x \in A : doc.status[x] = "unassigned" => game.gate[x] \subseteq A
  BY <1>1, <1>4 DEF Least
<1> QED BY <1>3, <1>5 DEF Workable, A

(* Gates do not wait for one another in a circle, so every workable set is  *)
(* alive.                                                                   *)
LEMMA WorkableIsAlive ==
  ASSUME game \in Games, NEW s \in Stages, NEW S, Workable(S, s)
  PROVE  S \subseteq Alive(doc, s)
<1> DEFINE A == Alive(doc, s)
           U == Those(doc, game.tasks[s], "unassigned")
           X == S \ A
<1>1. Least(A, Seed(doc, s), U, game.gate) BY AliveIsLeast
<1>2. S \subseteq game.tasks[s] BY DEF Workable
<1> SUFFICES ASSUME X # {} PROVE FALSE OBVIOUS
<1>3. X \in (SUBSET game.tasks[s]) \ {{}} BY <1>2
<1>4. s \in DOMAIN game.tasks BY DEF Stages
<1>5. PICK x \in X : game.gate[x] \cap X = {}
  <2>1. \A i \in DOMAIN game.tasks : \A Y \in (SUBSET game.tasks[i]) \ {{}} :
          \E y \in Y : game.gate[y] \cap Y = {}
    BY GamesAssumption DEF GamesAssumption
  <2> HIDE DEF X
  <2> QED BY <1>3, <1>4, <2>1
<1> HIDE DEF A
<1>6. x \notin Seed(doc, s) BY <1>1, <1>5 DEF Least
<1>7. doc.status[x] = "unassigned" /\ x \in U
  BY <1>2, <1>5, <1>6 DEF Workable, Seed, Open, Those
<1>8. game.gate[x] \subseteq S BY <1>5, <1>7 DEF Workable
<1>9. game.gate[x] \subseteq A BY <1>5, <1>8
<1>10. x \in A BY <1>1, <1>7, <1>9 DEF Least, Closed
<1> QED BY <1>5, <1>10

(* StageFlow.RetiresOnlyTheDead: the rounds of unreachableTaskIds mean what *)
(* they should.  Whatever the gates of the stage and its records, a mission *)
(* is retired exactly when no set of missions the team could still work     *)
(* through contains it.                                                     *)
THEOREM RetiredAreDead == Spec => []RetiresOnlyTheDead
<1>1. Inv => RetiresOnlyTheDead
  <2> SUFFICES ASSUME Inv, NEW s \in ActiveStages(doc),
                      NEW m \in Those(doc, game.tasks[s], "unassigned")
               PROVE  m \in Unreachable(doc, s) <=>
                        ~ \E S \in SUBSET {x \in game.tasks[s] :
                                             doc.status[x] \in Open \/ SatisfiesGate(doc, x)} :
                            /\ m \in S
                            /\ \A x \in S : doc.status[x] = "unassigned" => game.gate[x] \subseteq S
    BY DEF RetiresOnlyTheDead
  <2>1. s \in Stages /\ game \in Games BY DEF ActiveStages, Inv
  <2>2. m \in Unreachable(doc, s) <=> m \notin Alive(doc, s) BY DEF Unreachable
  <2>3. Workable(Alive(doc, s), s) BY <2>1, AliveIsWorkable
  <2>4. \A S : Workable(S, s) => S \subseteq Alive(doc, s) BY <2>1, WorkableIsAlive
  <2>5. m \in Alive(doc, s) <=> \E S : Workable(S, s) /\ m \in S BY <2>3, <2>4
  <2> QED BY <2>2, <2>5 DEF Workable
<1> QED BY <1>1, InvHolds, PTL

-----------------------------------------------------------------------------
(* The plan of a skip.                                                      *)

(* The dead missions depend on the statuses and the causes alone. *)
LEMMA DeadAreTheSame ==
  ASSUME game \in Games, NEW s \in Stages, NEW d, NEW e,
         e.status = d.status, e.cause = d.cause
  PROVE  Unreachable(e, s) = Unreachable(d, s)
<1>1. Seed(e, s) = Seed(d, s) BY DEF Seed, SatisfiesGate
<1>2. Those(e, game.tasks[s], "unassigned") = Those(d, game.tasks[s], "unassigned") BY DEF Those
<1>3. /\ Least(Alive(e, s), Seed(e, s), Those(e, game.tasks[s], "unassigned"), game.gate)
      /\ Least(Alive(d, s), Seed(d, s), Those(d, game.tasks[s], "unassigned"), game.gate)
  BY AliveIsLeast
<1>4. Alive(e, s) = Alive(d, s) BY <1>1, <1>2, <1>3, LeastIsUnique
<1> QED BY <1>2, <1>4 DEF Unreachable

LEMMA PlanIsRight ==
  ASSUME Inv, NEW s \in ActiveStages(doc), game.tasks[s] \cap game.benched = {},
         NEW m \in game.tasks[s], doc.status[m] \in Open
  PROVE  PlanSkip(doc, m).completes
           <=> Settle(SkipWritten(doc, m), s).stage[s] = "completed"
<1> DEFINE ids == game.tasks[s]
           after == With(doc, {m}, "skipped", "operator")
           gone == Those(after, ids, "skipped") \cup Unreachable(after, s)
           remaining == {x \in ids \ gone : after.status[x] \in Open}
           low == PlanSkip(doc, m).required
           w == SkipWritten(doc, m)
           r == Retired(w, s)
           done == Cardinality(Those(doc, ids, "completed"))
<1>1. s \in Stages /\ game \in Games /\ Kept(doc) /\ doc \in Docs
  BY PlayedStage DEF ActiveStages, Inv
<1>2. /\ Playable(s) = ids /\ StageOf(m) = s /\ m \in InGame /\ m \in Missions
      /\ m \notin game.benched /\ ids \subseteq Missions
      /\ IsFiniteSet(ids) /\ Cardinality(ids) \in Nat
  BY <1>1, TheStageOf, TheTemplate, FS_CardinalityType DEF Playable
<1>3. PlanSkip(doc, m).completes <=> done >= low \/ remaining = {}
  BY <1>2 DEF PlanSkip
<1>4. low \in Nat /\ low <= Cardinality(ids) BY <1>1, <1>2, PlannedRequirement
<1>5. SkippedAlone(doc, m, w) BY <1>1, <1>2, SkipWrittenIs
<1> HIDE DEF low, after
<1>6. /\ Kept(w) /\ w.stage = doc.stage /\ w.required = [doc.required EXCEPT ![s] = low]
      /\ w.status = after.status /\ w.cause = after.cause
      /\ \A x \in Missions : w.status[x] = IF x = m THEN "skipped" ELSE doc.status[x]
  BY <1>2, <1>5 DEF SkippedAlone, low, after
<1> HIDE DEF w
<1>7. /\ Kept(r) /\ r.stage = w.stage /\ r.required = w.required
      /\ \A x \in Missions :
           r.status[x] = IF x \in Unreachable(w, s) \cap Playable(s) THEN "skipped" ELSE w.status[x]
      /\ \A x \in Unreachable(w, s) : w.status[x] = "unassigned"
  BY <1>1, <1>6, RetiredIs
<1>8. Settled(w, s, Settle(w, s)) BY <1>1, <1>6, SettleIs
<1>9. Settle(w, s).stage[s] = "completed" <=> StageDone(r, s)
  <2>1. DOMAIN doc.stage = Stages /\ doc.stage[s] = "active" BY <1>1 DEF Docs, ActiveStages
  <2>2. CASE StageDone(r, s)
    <3>1. Settle(w, s).stage = OpenNext(r.stage, s) BY <1>7, <2>2 DEF Settle, Kept, Docs, With
    <3> QED BY <1>1, <1>6, <1>7, <2>1, <2>2, <3>1 DEF OpenNext
  <2>3. CASE ~ StageDone(r, s)
    <3>1. Settle(w, s) = r BY <2>3 DEF Settle
    <3> QED BY <1>6, <1>7, <2>1, <2>3, <3>1
  <2> QED BY <2>2, <2>3
<1> HIDE DEF r
<1>10. Unreachable(w, s) = Unreachable(after, s) BY <1>1, <1>6, DeadAreTheSame
<1>11. Those(r, ids, "completed") = Those(doc, ids, "completed")
  <2>1. \A x \in ids : r.status[x] = "completed" <=> doc.status[x] = "completed"
    BY <1>2, <1>6, <1>7 DEF Open
  <2> QED BY <2>1 DEF Those
<1>12. r.required[s] = low BY <1>1, <1>6, <1>7 DEF Docs
<1>13. NormalRequired(r.required[s], Cardinality(ids)) = low
  BY <1>2, <1>4, <1>12 DEF NormalRequired, Unset
<1>14. (\A x \in ids : r.status[x] \in Terminal) <=> remaining = {}
  <2>1. ASSUME NEW x \in ids PROVE r.status[x] \notin Terminal <=> x \in remaining
    <3>1. after.status[x] = w.status[x] /\ w.status[x] \in Open \cup Terminal /\ x \in Missions
      BY <1>2, <1>6 DEF Kept, Docs
    <3>2. x \in remaining <=> x \notin Unreachable(w, s) /\ w.status[x] \in Open
      BY <1>10, <3>1 DEF Those, Open
    <3>3. r.status[x] = IF x \in Unreachable(w, s) THEN "skipped" ELSE w.status[x]
      BY <1>2, <1>7, <3>1
    <3> QED BY <3>1, <3>2, <3>3 DEF Open, Terminal
  <2> QED BY <2>1
<1>15. StageDone(r, s) <=> done >= low \/ remaining = {}
  BY <1>2, <1>11, <1>13, <1>14 DEF StageDone
<1> QED BY <1>3, <1>9, <1>15 DEF w

(* StageFlow.PlanTellsTheOutcome: on a stage without benched missions the   *)
(* console's preview of a skip ends the stage exactly when the skip does.   *)
THEOREM PlansAreRight == Spec => []PlanTellsTheOutcome
<1>1. Inv => PlanTellsTheOutcome BY PlanIsRight DEF PlanTellsTheOutcome
<1> QED BY <1>1, InvHolds, PTL

-----------------------------------------------------------------------------
(* Routine runs: nothing is closed, and nobody is sent back.                *)

(* The stage that is played has something open in it, the stages after it   *)
(* are as they were launched.                                               *)
HasWork(d) ==
  \A s \in Stages :
    /\ d.stage[s] = "active" => \E m \in Playable(s) : d.status[m] \in Open
    /\ d.stage[s] = "locked" => \A m \in Playable(s) : d.status[m] = "unassigned"

RoutineInv == Routine => closed = {} /\ HasWork(doc)

(* A stage that opens has missions, and all of them are open. *)
LEMMA OpenedHasWork ==
  ASSUME Inv, HasWork(doc), NEW k \in Stages, InOrder(doc, k), NEW e,
         e.stage = OpenNext(doc.stage, k),
         \A x \in Missions \ Playable(k) : e.status[x] = doc.status[x]
  PROVE  HasWork(e)
<1>1. /\ Stages = 1 .. Len(game.tasks) /\ Len(game.tasks) \in Nat
      /\ \A s \in Stages : Playable(s) \subseteq Missions /\ Playable(s) # {}
      /\ \A s \in Stages : s # k => Playable(s) \cap Playable(k) = {}
  BY TheTemplate DEF Inv, Playable
<1>2. DOMAIN doc.stage = Stages BY PlayedStage DEF Docs
<1>3. ASSUME NEW s \in Stages, e.stage[s] \in {"active", "locked"}
      PROVE  /\ s > k /\ \A m \in Playable(s) : e.status[m] = "unassigned"
             /\ e.stage[s] = "active" => \E m \in Playable(s) : e.status[m] \in Open
  <2>1. s > k /\ s # k BY <1>1, <1>2, <1>3 DEF OpenNext, InOrder
  <2>2. doc.stage[s] = "locked" BY <1>1, <2>1 DEF InOrder
  <2>3. \A m \in Playable(s) : m \in Missions \ Playable(k) BY <1>1, <2>1
  <2>4. \A m \in Playable(s) : e.status[m] = "unassigned" BY <2>2, <2>3 DEF HasWork
  <2> QED BY <1>1, <2>1, <2>4 DEF Open
<1> QED BY <1>3 DEF HasWork

LEMMA RoutineStays ==
  ASSUME Inv, RoutineInv, [Next]_vars
  PROVE  RoutineInv'
<1>1. UNCHANGED <<game, tools>>
  BY DEF Next, vars, Heal, Assign, Complete, TimeUp, SkipTask, Close, Reopen, ForceAssign,
         ReturnToTask, SkipStage, ReturnToStage, Writes, Returns
<1> SUFFICES ASSUME Routine PROVE closed' = {} /\ HasWork(doc')
  BY <1>1 DEF RoutineInv, HasWork, Routine, Stages, Playable
<1>2. closed = {} /\ HasWork(doc) /\ game \in Games BY DEF RoutineInv, Inv
<1>3. closed' = {}
  BY <1>2 DEF Routine, Next, vars, Heal, Assign, Complete, TimeUp, SkipTask, Close, Reopen,
              ForceAssign, ReturnToTask, SkipStage, ReturnToStage, Writes, Returns
<1>4. /\ Stages = 1 .. Len(game.tasks) /\ Len(game.tasks) \in Nat
      /\ \A s \in Stages : Playable(s) \subseteq Missions
      /\ \A s, i \in Stages : s # i => Playable(s) \cap Playable(i) = {}
  BY <1>2, TheTemplate DEF Playable
<1>5. CASE Settles
  <2>1. PICK k \in Stages : InOrder(doc, k) /\ \E d, m : EndedIn(d, k, m) /\ WritesSettled(d, k)
    BY <1>5 DEF Settles
  <2>2. PICK d, m : EndedIn(d, k, m) /\ WritesSettled(d, k) BY <2>1
  <2> DEFINE e == Settle(d, k)
  <2>3. Settled(d, k, e) BY <1>2, <2>2, SettleIs DEF EndedIn
  <2>4. \A x \in Missions \ Playable(k) : d.status[x] = doc.status[x] BY <2>2 DEF EndedIn
  <2>5. doc'.stage = e.stage /\ doc'.status = e.status BY <2>2 DEF WritesSettled
  <2> HIDE DEF e
  <2>6. \A x \in Missions \ Playable(k) : doc'.status[x] = doc.status[x]
    BY <2>3, <2>4, <2>5 DEF Settled
  <2>7. CASE e.stage = OpenNext(d.stage, k)
    <3>1. doc'.stage = OpenNext(doc.stage, k) BY <2>2, <2>5, <2>7 DEF EndedIn
    <3>2. PICK g : g = doc' OBVIOUS
    <3>3. g.stage = OpenNext(doc.stage, k) BY <3>1, <3>2
    <3>4. \A x \in Missions \ Playable(k) : g.status[x] = doc.status[x] BY <2>6, <3>2
    <3>5. HasWork(g) BY <1>2, <2>1, <3>3, <3>4, OpenedHasWork
    <3> QED BY <1>3, <3>2, <3>5
  <2>8. CASE e.stage = d.stage /\ \E x \in Playable(k) : e.status[x] \in Open
    <3>1. doc'.stage = doc.stage BY <2>2, <2>5, <2>8 DEF EndedIn
    <3>2. \A s \in Stages : s # k => doc'.stage[s] # "active"
      BY <1>4, <2>1, <3>1 DEF InOrder
    <3>3. \A s \in Stages : doc'.stage[s] = "locked" => s # k
      BY <1>4, <2>1, <3>1 DEF InOrder
    <3>4. \A s \in Stages : s # k => \A x \in Playable(s) : x \in Missions \ Playable(k)
      BY <1>4
    <3>5. ASSUME NEW s \in Stages, doc'.stage[s] = "active"
          PROVE  \E x \in Playable(s) : doc'.status[x] \in Open
      BY <2>5, <2>8, <3>2, <3>5
    <3>6. ASSUME NEW s \in Stages, doc'.stage[s] = "locked", NEW x \in Playable(s)
          PROVE  doc'.status[x] = "unassigned"
      <4>1. doc.status[x] = "unassigned" BY <1>2, <3>1, <3>6 DEF HasWork
      <4>2. x \in Missions \ Playable(k) BY <3>3, <3>4, <3>6
      <4> QED BY <2>6, <4>1, <4>2
    <3> QED BY <1>3, <3>5, <3>6 DEF HasWork
  <2> QED BY <2>3, <2>7, <2>8 DEF Settled
<1>6. CASE Hands
  <2>1. PICK k \in Stages : \E m \in Playable(k) :
          /\ InOrder(doc, k) /\ doc'.stage = doc.stage
          /\ \A x \in Missions :
               \/ doc'.status[x] = doc.status[x]
               \/ x \in Playable(k) /\ doc'.status[x] = "unassigned"
               \/ x = m /\ doc'.status[x] = "assigned"
    BY <1>6 DEF Hands
  <2>2. PICK m \in Playable(k) :
          /\ InOrder(doc, k) /\ doc'.stage = doc.stage
          /\ \A x \in Missions :
               \/ doc'.status[x] = doc.status[x]
               \/ x \in Playable(k) /\ doc'.status[x] = "unassigned"
               \/ x = m /\ doc'.status[x] = "assigned"
    BY <2>1
  <2>3. \A s \in Stages : doc'.stage[s] = "locked" => s # k BY <1>4, <2>2 DEF InOrder
  <2>4. \A s \in Stages : s # k => \A x \in Playable(s) : doc'.status[x] = doc.status[x]
    BY <1>4, <2>2
  <2>5. \A x \in Missions : doc.status[x] \in Open => doc'.status[x] \in Open
    BY <2>2 DEF Open
  <2>6. ASSUME NEW s \in Stages, doc'.stage[s] = "active"
        PROVE  \E x \in Playable(s) : doc'.status[x] \in Open
    <3>1. PICK x \in Playable(s) : doc.status[x] \in Open BY <1>2, <2>2, <2>6 DEF HasWork
    <3> QED BY <1>4, <2>5, <3>1
  <2>7. ASSUME NEW s \in Stages, doc'.stage[s] = "locked", NEW x \in Playable(s)
        PROVE  doc'.status[x] = "unassigned"
    <3>1. doc.status[x] = "unassigned" BY <1>2, <2>2, <2>7 DEF HasWork
    <3> QED BY <2>3, <2>4, <2>7, <3>1
  <2> QED BY <1>3, <2>6, <2>7 DEF HasWork
<1>7. ASSUME NEW s \in Stages, SkipStage(s) PROVE HasWork(doc')
  <2>1. s \in ActiveStages(doc) /\ doc' = Stamped(StageSkipped(s))
    BY <1>7 DEF SkipStage, Writes, StageSkipped
  <2>2. PICK k \in Positions : InOrder(doc, k) /\ Kept(doc) BY PlayedStage
  <2>3. k = s BY <1>2, <2>1, <2>2, WhereTheTeamIs
  <2>4. /\ StageSkipped(s) \in Docs /\ StageSkipped(s).stage = OpenNext(doc.stage, s)
        /\ \A x \in Missions : StageSkipped(s).status[x]
             = IF x \in Playable(s) /\ doc.status[x] # "completed" THEN "skipped" ELSE doc.status[x]
    BY <2>1, <2>2, <2>3, StageSkippedIs DEF Kept
  <2>5. doc'.status = StageSkipped(s).status /\ doc'.stage = StageSkipped(s).stage
    BY <2>1, <2>4, StampKeeps
  <2>6. PICK g : g = doc' OBVIOUS
  <2>7. /\ g.stage = OpenNext(doc.stage, s)
        /\ \A x \in Missions \ Playable(s) : g.status[x] = doc.status[x]
    BY <2>4, <2>5, <2>6
  <2>8. s \in Stages BY <1>7
  <2>9. HasWork(g) BY <1>2, <2>2, <2>3, <2>7, <2>8, OpenedHasWork
  <2> QED BY <2>6, <2>9
<1>8. CASE UNCHANGED doc BY <1>2, <1>3, <1>8
<1>9. ASSUME NEW m \in Missions, Complete(m) \/ TimeUp(m) \/ SkipTask(m) PROVE Settles
  BY <1>9, CompleteSettles, SkippingSettles
<1>10. ASSUME NEW m \in Missions, NEW b \in BOOLEAN, Assign(m) \/ ForceAssign(m, b) PROVE Hands
  BY <1>10, HandingHands
<1>11. TRUE \in BOOLEAN OBVIOUS
<1>12. /\ \A m \in Missions : ~ Close(m)
       /\ \A m \in Missions, b \in BOOLEAN : ~ ReturnToTask(m, b)
       /\ \A t \in Stages : ~ ReturnToStage(t)
  BY DEF Routine, Close, ReturnToTask, ReturnToStage
<1>13. \A m \in Missions : Reopen(m) => UNCHANGED doc BY DEF Reopen
<1>14. HasWork(doc')
  BY <1>5, <1>6, <1>7, <1>8, <1>9, <1>10, <1>11, <1>12, <1>13, HealSettles DEF Next, vars
<1> QED BY <1>3, <1>14

(* A team with nothing in hand whose poll leaves its stage as it is finds a *)
(* mission there that it may be given.                                      *)
LEMMA SomethingToDo ==
  ASSUME Inv, closed = {}, HasWork(doc), NoGateOnBenched,
         ~ doc.finished, InHand(doc) = {}, Healed(doc) = doc
  PROVE  Candidates(doc) # {}
<1>0. game \in Games BY DEF Inv
<1>1. PICK k \in Positions : InOrder(doc, k) /\ Kept(doc) /\ doc \in Docs BY PlayedStage
<1>2. k \in Stages /\ ActiveStages(doc) = {k}
  BY <1>0, <1>1, WhereTheTeamIs DEF Inv, Sound
<1>3. InHand(doc) = Those(doc, Playable(k), "assigned") BY <1>0, <1>1, <1>2, WhereTheTeamIs
<1>4. /\ Playable(k) \subseteq game.tasks[k] /\ game.tasks[k] \subseteq Missions
      /\ game.tasks[k] \subseteq InGame
      /\ \A x \in game.tasks[k] : game.gate[x] \subseteq game.tasks[k]
  BY <1>0, <1>2, TheTemplate, TheStageOf
<1> DEFINE X == Those(doc, Playable(k), "unassigned")
           A == Alive(doc, k)
           U == Those(doc, game.tasks[k], "unassigned")
<1>5. X # {}
  <2>1. PICK m \in Playable(k) : doc.status[m] \in Open
    BY <1>2 DEF HasWork, ActiveStages
  <2>2. m \in X BY <1>3, <2>1 DEF Open, Those
  <2> QED BY <2>2
<1>6. X \subseteq A
  <2> SUFFICES ASSUME NEW m \in X, m \notin A PROVE FALSE OBVIOUS
  <2>1. /\ m \in Unreachable(doc, k) /\ m \in Playable(k) /\ m \in Missions
        /\ doc.status[m] = "unassigned"
    BY <1>4 DEF Unreachable, Those
  <2>2. Healed(doc) = Stamped(Settle(doc, k)) BY <1>2, <2>1 DEF Healed
  <2>3. Settled(doc, k, Settle(doc, k)) BY <1>0, <1>1, <1>2, SettleIs
  <2>4. Retired(doc, k).status[m] = "skipped" BY <1>0, <1>1, <1>2, <2>1, RetiredIs
  <2>5. Settle(doc, k).status[m] \in Terminal BY <2>1, <2>3, <2>4 DEF Settled, Terminal
  <2>6. Stamped(Settle(doc, k)).status = Settle(doc, k).status
    BY <2>3, StampKeeps DEF Settled, Kept
  <2> QED BY <2>1, <2>2, <2>5, <2>6 DEF Terminal
<1>7. Least(A, Seed(doc, k), U, game.gate) BY <1>0, <1>2, AliveIsLeast
<1> HIDE DEF A
<1>8. PICK x \in X : game.gate[x] \cap X = {}
  <2>1. \A i \in DOMAIN game.tasks : \A Y \in (SUBSET game.tasks[i]) \ {{}} :
          \E y \in Y : game.gate[y] \cap Y = {}
    BY <1>0, GamesAssumption DEF GamesAssumption
  <2>2. X \in (SUBSET game.tasks[k]) \ {{}} BY <1>4, <1>5 DEF Those
  <2> HIDE DEF X
  <2> QED BY <1>2, <2>1, <2>2 DEF Stages
<1>9. x \in Playable(k) /\ x \in game.tasks[k] /\ doc.status[x] = "unassigned"
  BY <1>4, <1>8 DEF Those
<1>10. game.gate[x] \subseteq A
  <2>1. x \notin Seed(doc, k) BY <1>9 DEF Seed, SatisfiesGate
  <2> QED BY <1>6, <1>7, <1>8, <2>1 DEF Least
<1>11. game.gate[x] \subseteq Satisfied(doc)
  <2> SUFFICES ASSUME NEW y \in game.gate[x] PROVE y \in Satisfied(doc) OBVIOUS
  <2>1. y \in game.tasks[k] /\ y \in InGame BY <1>4, <1>9
  <2>2. y \notin game.benched BY <1>4, <1>9 DEF NoGateOnBenched, Playable
  <2>3. y \in Playable(k) BY <2>1, <2>2 DEF Playable
  <2>4. doc.status[y] # "unassigned" /\ doc.status[y] # "assigned"
    BY <1>3, <1>8, <2>3 DEF Those
  <2>5. y \in Seed(doc, k) BY <1>7, <1>10, <2>4 DEF Least, Those
  <2>6. SatisfiesGate(doc, y) BY <2>4, <2>5 DEF Seed
  <2> QED BY <2>1, <2>2, <2>6 DEF Satisfied
<1>12. x \in Candidates(doc) BY <1>2, <1>8, <1>11 DEF Candidates, Unlocked
<1> QED BY <1>12

(* StageFlow.RoutineNeverStrands: in a run without closures and send-backs, *)
(* and whose missions wait for no benched one, a team that is not finished  *)
(* has a mission in hand, or its next poll gives it one or moves it on.     *)
THEOREM RoutineTeamsMoveOn == Spec => []RoutineNeverStrands
<1>1. Init => RoutineInv
  <2> SUFFICES ASSUME Init PROVE RoutineInv OBVIOUS
  <2>1. game \in Games /\ closed = {} BY DEF Init
  <2>2. \A s \in Stages : Playable(s) \subseteq Missions /\ Playable(s) # {}
    BY <2>1, TheTemplate
  <2>3. \A m \in Missions : doc.status[m] = "unassigned" BY DEF Init
  <2> QED BY <2>1, <2>2, <2>3 DEF RoutineInv, HasWork, Open
<1>2. Inv /\ RoutineInv /\ [Next]_vars => RoutineInv' BY RoutineStays
<1>3. Inv /\ RoutineInv => RoutineNeverStrands
  BY SomethingToDo DEF RoutineInv, RoutineNeverStrands, NeverStuck
<1> QED BY <1>1, <1>2, <1>3, InvHolds, PTL DEF Spec

-----------------------------------------------------------------------------
(* Sent back to a mission.                                                  *)

(* The document in which the mission is claimed is not settled further: its *)
(* stage is not done, and no later stage is active.                         *)
LEMMA ClaimedStays ==
  ASSUME game \in Games, NEW t \in Stages, NEW w, Kept(w), InOrder(w, t), AsksForMore(w, t),
         NEW m \in Playable(t), w.status[m] = "assigned"
  PROVE  SettleFrom(w, t) = Retired(w, t)
<1> DEFINE N == Len(game.tasks)
           r == Retired(w, t)
<1>1. /\ N \in Int /\ t \in Int /\ t - 1 \in Int /\ Stages = 1 .. N /\ t \in 1 .. N
      /\ Playable(t) \subseteq Missions
  BY TheTemplate
<1>2. /\ Kept(r) /\ r.stage = w.stage /\ r.required = w.required
      /\ \A x \in Missions :
           r.status[x] = IF x \in Unreachable(w, t) \cap Playable(t) THEN "skipped" ELSE w.status[x]
      /\ \A x \in Unreachable(w, t) : w.status[x] = "unassigned"
  BY RetiredIs
<1>3. Settle(w, t) = IF StageDone(r, t)
                     THEN [With(r, {x \in Playable(t) : r.status[x] \in Open}, "skipped", "stageSatisfied")
                             EXCEPT !.stage = OpenNext(@, t)]
                     ELSE r
  BY DEF Settle
<1> HIDE DEF r, N
<1>4. ~ StageDone(r, t)
  <2>1. Those(r, Playable(t), "completed") = Those(w, Playable(t), "completed")
    <3>1. \A x \in Playable(t) : r.status[x] = "completed" <=> w.status[x] = "completed"
      BY <1>1, <1>2
    <3> QED BY <3>1 DEF Those
  <2>2. r.status[m] = "assigned" BY <1>1, <1>2
  <2>3. ~ (Cardinality(Those(r, Playable(t), "completed"))
             >= NormalRequired(r.required[t], Cardinality(Playable(t))))
    <3>1. /\ IsFiniteSet(Playable(t)) /\ Cardinality(Playable(t)) \in Nat
          /\ w.required[t] \in {Unset} \cup Nat
      BY TheTemplate DEF Kept, Docs
    <3>2. Cardinality(Those(w, Playable(t), "completed")) \in Nat
      BY <3>1, FS_Subset, FS_CardinalityType DEF Those
    <3>3. NormalRequired(w.required[t], Cardinality(Playable(t))) \in Nat
      BY <3>1 DEF NormalRequired, Unset
    <3> QED BY <1>2, <2>1, <3>2, <3>3 DEF AsksForMore
  <2> QED BY <1>1, <2>2, <2>3 DEF StageDone, Terminal
<1>5. PICK f : SettleRounds(f, w, t) /\ SettleFrom(w, t) = f[N]
  BY SettleFromRounds DEF N
<1>6. f[t] = r
  <2>1. f[t] = IF f[t - 1].stage[t] = "active" THEN Settle(f[t - 1], t) ELSE f[t - 1]
    BY <1>1, <1>5 DEF SettleRounds, N
  <2>2. f[t - 1] = w BY <1>5 DEF SettleRounds
  <2>3. w.stage[t] = "active" BY <1>1 DEF InOrder
  <2> QED BY <1>3, <1>4, <2>1, <2>2, <2>3
<1>7. ASSUME NEW i \in t + 1 .. N, f[i - 1] = r PROVE f[i] = r
  <2>1. i \in Stages /\ i \in t .. N /\ i > t /\ i # t BY <1>1
  <2>2. w.stage[i] = "locked" BY <1>1, <2>1 DEF InOrder
  <2>3. f[i] = IF f[i - 1].stage[i] = "active" THEN Settle(f[i - 1], i) ELSE f[i - 1]
    BY <1>5, <2>1 DEF SettleRounds, N
  <2> QED BY <1>2, <1>7, <2>2, <2>3
<1> DEFINE S == {i \in Int : f[i] = r}
<1>8. t \in S BY <1>1, <1>6
<1>9. \A i \in t + 1 .. N : i - 1 \in S => i \in S BY <1>1, <1>7
<1> HIDE DEF S
<1>10. t .. N \subseteq S BY <1>1, <1>8, <1>9, IntervalInduction
<1>11. N \in S BY <1>1, <1>10
<1> QED BY <1>5, <1>11 DEF S, r

LEMMA SentBackIsOnIt ==
  ASSUME Inv, NEW m, CanReturn(m)
  PROVE  /\ InHand(Returned(doc, m, TRUE)) = {m}
         /\ Returned(doc, m, TRUE).stage[StageOf(m)] = "active"
<1>0. game \in Games BY DEF Inv
<1>1. PICK k \in Positions : InOrder(doc, k) /\ Kept(doc) BY PlayedStage
<1>2. PICK t \in Stages : m \in Playable(t) BY DEF CanReturn
<1>3. StageOf(m) = t /\ m \in Missions /\ m \in InGame BY <1>0, <1>2, TheStageOf, TheTemplate
<1> DEFINE r == ReopenedMission(doc, m)
           w == With(r, {m}, "assigned", "none")
           e == Retired(w, t)
<1>4. Returned(doc, m, TRUE) = SettleFrom(w, t) BY <1>3 DEF Returned
<1>5. doc.stage[t] # "locked" BY <1>3 DEF CanReturn
<1>6. /\ Kept(r) /\ InOrder(r, t) /\ r.status[m] = "unassigned"
      /\ \A x \in InGame : r.status[x] # "assigned"
      /\ AsksForMore(r, t)
  BY <1>0, <1>1, <1>2, <1>5, ReopenedMissionIs
<1> HIDE DEF r
<1>7. /\ Kept(w) /\ InOrder(w, t) /\ w.stage = r.stage /\ w.required = r.required
      /\ \A x \in Missions : w.status[x] = IF x = m THEN "assigned" ELSE r.status[x]
  BY <1>0, <1>2, <1>6, ClaimedIs
<1> HIDE DEF w
<1>8. Playable(t) \subseteq Missions /\ Playable(t) \subseteq InGame
  BY <1>0, TheTemplate, TheStageOf
<1>9. AsksForMore(w, t)
  <2>1. Those(w, Playable(t), "completed") = Those(r, Playable(t), "completed")
    BY <1>6, <1>7, <1>8 DEF Those
  <2> QED BY <1>6, <1>7, <2>1 DEF AsksForMore
<1>10. w.status[m] = "assigned" BY <1>3, <1>7
<1>11. SettleFrom(w, t) = e BY <1>0, <1>2, <1>7, <1>9, <1>10, ClaimedStays
<1>12. /\ Kept(e) /\ e.stage = w.stage
       /\ \A x \in Missions :
            e.status[x] = IF x \in Unreachable(w, t) \cap Playable(t) THEN "skipped" ELSE w.status[x]
       /\ \A x \in Unreachable(w, t) : w.status[x] = "unassigned"
  BY <1>0, <1>7, RetiredIs
<1> HIDE DEF e
<1>13. InOrder(e, t)
  <2>1. \A x \in InGame : e.status[x] = w.status[x] \/ e.status[x] \in Terminal
    BY <1>0, <1>12, TheStageOf DEF Terminal
  <2> QED BY <1>7, <1>12, <2>1, OrderIsOfStages
<1>14. t \in Positions BY <1>0, TheTemplate DEF Positions
<1>15. InHand(e) = Those(e, Playable(t), "assigned") BY <1>0, <1>12, <1>13, <1>14, WhereTheTeamIs
<1>16. e.status[m] = "assigned" BY <1>3, <1>10, <1>12
<1>17. \A x \in Playable(t) : x # m => e.status[x] # "assigned" BY <1>6, <1>7, <1>8, <1>12
<1>18. InHand(e) = {m} BY <1>2, <1>15, <1>16, <1>17 DEF Those
<1>19. e.stage[t] = "active"
  <2>1. t \in Int BY <1>0, TheTemplate
  <2> QED BY <1>13, <2>1 DEF InOrder
<1> QED BY <1>3, <1>4, <1>11, <1>18, <1>19

(* StageFlow.SentBackStaysThere: a team sent back to a mission that could   *)
(* be claimed is on it afterwards.  The requirement is raised over what the *)
(* team has completed, so settling neither ends the stage nor, as the       *)
(* mission is in hand, retires it.                                          *)
THEOREM SentBackStands == Spec => []SentBackStaysThere
<1>1. Inv => SentBackStaysThere BY SentBackIsOnIt DEF SentBackStaysThere
<1> QED BY <1>1, InvHolds, PTL

=============================================================================
