--------------------------- MODULE WorkQueueProofs ---------------------------
(***************************************************************************)
(* Proofs about the work queue for every number of tasks, folders,         *)
(* settings, redirects and restarts.  First what one pump() guarantees,    *)
(* for every table of rows and every setting: the tasks it starts fit the  *)
(* free slots, have folders of their own, pass an older task only when its *)
(* folder is taken, and leave no slot idle.  Then the types, with the      *)
(* account of attempts they rest on, and the refinement of the board.      *)
(***************************************************************************)
EXTENDS WorkQueue, PumpLoop, FiniteSetTheorems, WellFoundedInduction, TLAPS

-----------------------------------------------------------------------------
(* Sets of tasks.                                                          *)

\* Sets of tasks are finite and have a cardinality.
LEMMA TasksFinite ==
    ASSUME NEW S \in SUBSET Task
    PROVE  IsFiniteSet(S) /\ Cardinality(S) \in Nat
<1>1. IsFiniteSet(Task)
  BY TasksAssumption, FS_Interval DEF Task
<1>2. QED
  BY <1>1, FS_Subset, FS_CardinalityType

\* A non-empty set of tasks has a youngest one.
LEMMA Youngest ==
    ASSUME NEW S \in SUBSET Task, S # {}
    PROVE  \E t \in S : \A u \in S : u <= t
<1> DEFINE T == {n \in Nat : \E t \in S : n = MaxTasks - t}
           R == OpToRel(<, Nat)
<1>1. T \subseteq Nat /\ T # {}
  <2>1. PICK t \in S : TRUE
    OBVIOUS
  <2>2. MaxTasks - t \in Nat
    BY TasksAssumption DEF Task
  <2>3. MaxTasks - t \in T
    BY <2>2
  <2>4. QED
    BY <2>3
<1>2. IsWellFoundedOn(R, Nat)
  BY NatLessThanWellFounded
<1>3. PICK n \in T : \A k \in T : ~(<<k, n>> \in R)
  <2> HIDE DEF T, R
  <2> QED BY <1>1, <1>2, WFMin
<1>4. \A k \in T : n <= k
  <2>1. SUFFICES ASSUME NEW k \in T, k < n PROVE FALSE
    BY <1>1
  <2>2. <<k, n>> \in R
    BY <2>1 DEF OpToRel
  <2>3. QED
    BY <1>3, <2>2
<1>5. PICK t \in S : n = MaxTasks - t
  BY DEF T
<1>6. \A u \in S : MaxTasks - u \in T
  BY TasksAssumption DEF Task
<1>7. QED
  BY <1>4, <1>5, <1>6, TasksAssumption DEF Task

\* Of the tasks in S, those before the youngest are all but one.
LEMMA BeforeSizes ==
    ASSUME NEW S \in SUBSET Task, NEW t \in Task
    PROVE  /\ \A u \in Task : t <= u => Cardinality(Before(S, t)) <= Cardinality(Before(S, u))
           /\ (t \in S /\ \A u \in S : u <= t) => Cardinality(S) = Cardinality(Before(S, t)) + 1
<1>1. ASSUME NEW u \in Task, t <= u
      PROVE  Cardinality(Before(S, t)) <= Cardinality(Before(S, u))
  <2>1. \A v \in S : v < t => v < u
    BY <1>1, TasksAssumption DEF Task
  <2>2. Before(S, u) \subseteq Task /\ Before(S, t) \subseteq Before(S, u)
    BY <2>1 DEF Before
  <2>3. QED
    BY <2>2, TasksFinite, FS_Subset
<1>2. ASSUME t \in S, \A u \in S : u <= t
      PROVE  Cardinality(S) = Cardinality(Before(S, t)) + 1
  <2>0. \A v \in S : v < t <=> v # t
    BY <1>2, TasksAssumption DEF Task
  <2>1. Before(S, t) = S \ {t}
    BY <2>0 DEF Before
  <2>2. IsFiniteSet(S) /\ Cardinality(S) \in Nat
    BY TasksFinite
  <2>3. QED
    BY <1>2, <2>1, <2>2, FS_RemoveElement
<1>3. QED
  BY <1>1, <1>2

-----------------------------------------------------------------------------
(* pump().                                                                 *)

\* overlaps() does not care about the order of its arguments.
LEMMA OverlapsSymmetric ==
    ASSUME NEW a, NEW b
    PROVE  Overlaps(a, b) <=> Overlaps(b, a)
BY DEF Overlaps

\* What is running and what starts are different tasks, so their numbers add up.
LEMMA PicksSizes ==
    ASSUME NEW r, NEW n, NEW S, Picks(r, n, S)
    PROVE  /\ S \in SUBSET Task /\ Running(r) \in SUBSET Task
           /\ Cardinality(Running(r) \union S) = Cardinality(Running(r)) + Cardinality(S)
           /\ Cardinality(Running(r)) \in Nat /\ Cardinality(S) \in Nat
<1>1. S \subseteq Task /\ Running(r) \subseteq Task /\ Running(r) \cap S = {}
  BY DEF Picks, With, Running
<1>2. IsFiniteSet(S) /\ IsFiniteSet(Running(r))
      /\ Cardinality(S) \in Nat /\ Cardinality(Running(r)) \in Nat
  BY <1>1, TasksFinite
<1>3. Cardinality(Running(r) \union S)
        = Cardinality(Running(r)) + Cardinality(S) - Cardinality(Running(r) \cap S)
  BY <1>2, FS_Union
<1>4. Cardinality(Running(r) \cap S) = 0
  BY <1>1, FS_EmptySet
<1>5. QED
  BY <1>1, <1>2, <1>3, <1>4

\* The setting: after a pump that starts something, no more tasks run than it allows.
THEOREM PumpWithinCap ==
    ASSUME NEW r, NEW n \in Nat, NEW S, Picks(r, n, S), S # {}
    PROVE  Cardinality(Running(r) \union S) <= n
<1>1. PICK t \in S : \A u \in S : u <= t
  BY PicksSizes, Youngest
<1>2. Cardinality(S) = Cardinality(Before(S, t)) + 1
  BY <1>1, PicksSizes, BeforeSizes
<1>3. Cardinality(Before(S, t)) < n - Cardinality(Running(r))
  BY <1>1 DEF Picks, Fits, FreeSlots
<1>4. Before(S, t) \subseteq Task
  BY PicksSizes DEF Before
<1>5. Cardinality(Before(S, t)) \in Nat
  BY <1>4, TasksFinite
<1>6. QED
  BY <1>2, <1>3, <1>5, PicksSizes

\* The folders: what a pump starts overlaps no running task and nothing else it starts.
THEOREM PumpDisjoint ==
    ASSUME NEW r, NEW n, NEW S, Picks(r, n, S),
           NEW t \in S, NEW u \in (Running(r) \union S) \ {t}
    PROVE  ~Overlaps(r[u].cwd, r[t].cwd)
<1>1. t \in Task /\ u \in Task
  BY PicksSizes
<1>2. CASE u \in Running(r) \/ u < t
  BY <1>1, <1>2 DEF Picks, Fits, Before
<1>3. CASE u \in S /\ t < u
  <2>1. ~Overlaps(r[t].cwd, r[u].cwd)
    BY <1>1, <1>3 DEF Picks, Fits, Before
  <2>2. QED
    BY <2>1, OverlapsSymmetric
<1>4. QED
  BY <1>1, <1>2, <1>3, TasksAssumption DEF Task

\* The order: a waiting task that a later one passes has its folder taken by a task that
\* runs or that started before it.
THEOREM PumpInOrder ==
    ASSUME NEW r, NEW n \in Nat, NEW S, Picks(r, n, S),
           NEW u \in S, NEW t \in With(r, "queued") \ S, t < u
    PROVE  \E v \in Running(r) \union Before(S, t) : Overlaps(r[v].cwd, r[t].cwd)
<1>0. t \in Task /\ u \in Task
  BY PicksSizes DEF With
<1>1. t <= u
  BY <1>0, TasksAssumption DEF Task
<1>2. Cardinality(Before(S, t)) <= Cardinality(Before(S, u))
  BY <1>0, <1>1, PicksSizes, BeforeSizes
<1>3. Cardinality(Before(S, u)) < FreeSlots(r, n)
  BY DEF Picks, Fits
<1>4. Before(S, t) \subseteq Task /\ Before(S, u) \subseteq Task
  BY PicksSizes DEF Before
<1>5. Cardinality(Before(S, t)) \in Nat /\ Cardinality(Before(S, u)) \in Nat
  BY <1>4, TasksFinite
<1>6. Cardinality(Before(S, t)) < FreeSlots(r, n)
  <2>1. Cardinality(Running(r)) \in Nat
    BY PicksSizes
  <2>2. FreeSlots(r, n) \in Int
    BY <2>1 DEF FreeSlots
  <2>3. QED
    BY <1>2, <1>3, <1>5, <2>2
<1>7. QED
  BY <1>6 DEF Picks, Fits

\* No slot is left idle: what still waits after a pump finds every slot taken, or its
\* folder.
THEOREM PumpLeavesNoIdleSlot ==
    ASSUME NEW r, NEW n \in Nat, NEW S, Picks(r, n, S),
           NEW t \in With(r, "queued") \ S
    PROVE  \/ n <= Cardinality(Running(r) \union S)
           \/ \E u \in Running(r) \union S : Overlaps(r[u].cwd, r[t].cwd)
<1>1. Before(S, t) \subseteq S /\ S \subseteq Task
  BY PicksSizes DEF Before
<1>2. Cardinality(Before(S, t)) <= Cardinality(S) /\ Cardinality(Before(S, t)) \in Nat
  BY <1>1, TasksFinite, FS_Subset
<1>3. CASE Cardinality(Before(S, t)) < FreeSlots(r, n)
  BY <1>1, <1>3 DEF Picks, Fits
<1>4. CASE ~(Cardinality(Before(S, t)) < FreeSlots(r, n))
  BY <1>2, <1>4, PicksSizes DEF FreeSlots
<1>5. QED
  BY <1>3, <1>4

-----------------------------------------------------------------------------
(* The loop of pump().  An induction over the naturals is made with a set, *)
(* of the numbers for which the statement holds.                           *)

\* A set with 0, and with the successor of each of its members, has every number.
LEMMA EveryNatural ==
    ASSUME NEW S, 0 \in S, \A i \in Nat : i \in S => i + 1 \in S
    PROVE  Nat \subseteq S
<1> DEFINE T == Nat \ S
           R == OpToRel(<, Nat)
<1>1. SUFFICES ASSUME T # {} PROVE FALSE
  OBVIOUS
<1>2. T \subseteq Nat /\ IsWellFoundedOn(R, Nat)
  BY NatLessThanWellFounded
<1>3. PICK n \in T : \A k \in T : ~(<<k, n>> \in R)
  <2> HIDE DEF T, R
  <2> QED BY <1>1, <1>2, WFMin
<1>4. n # 0 /\ n \in Nat
  OBVIOUS
<1>5. n - 1 \in Nat /\ <<n - 1, n>> \in R
  BY <1>4 DEF OpToRel
<1>6. n - 1 \in S
  BY <1>3, <1>5
<1>7. (n - 1) + 1 \in S
  BY <1>5, <1>6
<1>8. QED
  BY <1>4, <1>7

\* The same up to a number.
LEMMA EveryUpTo ==
    ASSUME NEW m \in Nat, NEW S, 0 \in S, \A i \in 0..(m - 1) : i \in S => i + 1 \in S
    PROVE  \A i \in 0..m : i \in S
<1> DEFINE T == {i \in Nat : i \in 0..m => i \in S}
<1>1. 0 \in T
  OBVIOUS
<1>2. \A i \in Nat : i \in T => i + 1 \in T
  OBVIOUS
<1>3. Nat \subseteq T
  <2> HIDE DEF T
  <2> QED BY <1>1, <1>2, EveryNatural
<1>4. QED
  BY <1>3

\* The loop over the first m rows, and that it is defined.
IsLoop(g, r, n, m) == g = [t \in 0..m |-> IF t = 0 THEN {} ELSE LoopTurn(r, n, g[t - 1], t)]

LEMMA LoopExists ==
    ASSUME NEW r, NEW n, NEW m \in Nat
    PROVE  \E g : IsLoop(g, r, n, m)
<1> DEFINE Goes(k) == \E g : IsLoop(g, r, n, k)
           S == {k \in Nat : Goes(k)}
<1>1. 0 \in S
  <2>1. [t \in 0..0 |-> {}]
          = [t \in 0..0 |-> IF t = 0 THEN {} ELSE LoopTurn(r, n, [u \in 0..0 |-> {}][t - 1], t)]
    OBVIOUS
  <2>2. QED
    BY <2>1 DEF IsLoop
<1>2. ASSUME NEW k \in Nat, k \in S PROVE k + 1 \in S
  <2>1. PICK g : g = [t \in 0..k |-> IF t = 0 THEN {} ELSE LoopTurn(r, n, g[t - 1], t)]
    BY <1>2 DEF IsLoop
  <2> DEFINE h == [t \in 0..(k + 1) |-> IF t = k + 1 THEN LoopTurn(r, n, g[k], k + 1) ELSE g[t]]
  <2>2. ASSUME NEW t \in 0..(k + 1)
        PROVE  h[t] = IF t = 0 THEN {} ELSE LoopTurn(r, n, h[t - 1], t)
    <3>1. CASE t = k + 1
      <4>1. h[t] = LoopTurn(r, n, g[k], t) /\ t # 0 /\ t - 1 = k /\ h[t - 1] = g[k]
        BY <3>1
      <4>2. QED BY <4>1
    <3>2. CASE t # k + 1 /\ t # 0
      <4>1. t \in 0..k /\ t - 1 \in 0..k /\ t - 1 # k + 1
        BY <3>2
      <4>2. h[t] = g[t] /\ h[t - 1] = g[t - 1]
        BY <3>2, <4>1
      <4>3. g[t] = LoopTurn(r, n, g[t - 1], t)
        <5> HIDE DEF h
        <5> QED BY <2>1, <3>2, <4>1
      <4>4. QED
        BY <3>2, <4>2, <4>3
    <3>3. CASE t = 0
      <4>1. h[t] = g[0] /\ 0 \in 0..k
        BY <3>3
      <4>2. g[0] = {}
        <5> HIDE DEF h
        <5> QED BY <2>1, <4>1
      <4>3. QED BY <3>3, <4>1, <4>2
    <3>4. QED BY <3>1, <3>2, <3>3
  <2>3. h = [t \in 0..(k + 1) |-> h[t]]
    OBVIOUS
  <2>4. h = [t \in 0..(k + 1) |-> IF t = 0 THEN {} ELSE LoopTurn(r, n, h[t - 1], t)]
    <3> HIDE DEF h
    <3> QED BY <2>2, <2>3
  <2>5. Goes(k + 1)
    <3> HIDE DEF h
    <3> QED BY <2>4 DEF IsLoop
  <2> QED BY <2>5
<1>3. Nat \subseteq S
  <2> HIDE DEF S
  <2> QED BY <1>1, <1>2, EveryNatural
<1>4. QED
  BY <1>3

\* So the loop goes on from what it has started among the rows before.
LEMMA LoopGoes ==
    ASSUME NEW r, NEW n
    PROVE  /\ StartedUpTo(r, n)[0] = {}
           /\ \A t \in Task : StartedUpTo(r, n)[t] = LoopTurn(r, n, StartedUpTo(r, n)[t - 1], t)
<1> DEFINE f == StartedUpTo(r, n)
<1>0. MaxTasks \in Nat
  BY TasksAssumption
<1>1. f = CHOOSE g : IsLoop(g, r, n, MaxTasks)
  BY DEF StartedUpTo, IsLoop
<1>2. \E g : IsLoop(g, r, n, MaxTasks)
  BY <1>0, LoopExists
<1>3. f = [t \in 0..MaxTasks |-> IF t = 0 THEN {} ELSE LoopTurn(r, n, f[t - 1], t)]
  <2> HIDE DEF f
  <2> QED BY <1>1, <1>2 DEF IsLoop
<1>4. 0 \in 0..MaxTasks /\ \A t \in Task : t \in 0..MaxTasks /\ t # 0
  BY <1>0 DEF Task
<1>5. QED
  <2> HIDE DEF f
  <2>1. f[0] = {} /\ \A t \in Task : f[t] = LoopTurn(r, n, f[t - 1], t)
    BY <1>3, <1>4
  <2>2. QED BY <2>1 DEF f

\* The free slots of a table are a number.
LEMMA FreeSlotsInt ==
    ASSUME NEW r, NEW n \in Nat
    PROVE  FreeSlots(r, n) \in Int
<1>1. Running(r) \in SUBSET Task
  BY DEF Running, With
<1>2. Cardinality(Running(r)) \in Nat
  BY <1>1, TasksFinite
<1>3. QED
  BY <1>2 DEF FreeSlots

\* After m rows the loop has started queued rows among them, those it had started after
\* fewer rows included.
LEMMA LoopGrows ==
    ASSUME NEW r, NEW n, NEW m \in 0..MaxTasks
    PROVE  LET f == StartedUpTo(r, n)
           IN /\ f[m] \subseteq With(r, "queued") /\ \A u \in f[m] : u <= m
              /\ \A t \in 0..m : Before(f[m], t + 1) = f[t]
<1> DEFINE f == StartedUpTo(r, n)
           Grows(k) == /\ f[k] \subseteq With(r, "queued") /\ \A u \in f[k] : u <= k
                       /\ \A t \in 0..k : Before(f[k], t + 1) = f[t]
           S == {k \in Nat : Grows(k)}
<1>0. MaxTasks \in Nat /\ With(r, "queued") \subseteq Task /\ Task = 1..MaxTasks
  BY TasksAssumption DEF With, Task
<1>1. f[0] = {} /\ \A t \in Task : f[t] = LoopTurn(r, n, f[t - 1], t)
  BY LoopGoes
<1> HIDE DEF f
<1>2. 0 \in S
  <2>1. \A t \in 0..0 : t = 0
    OBVIOUS
  <2>2. QED
    BY <1>1, <2>1 DEF Before
<1>3. ASSUME NEW k \in 0..(MaxTasks - 1), k \in S
      PROVE  k + 1 \in S
  <2>1. Grows(k) /\ k + 1 \in Task /\ (k + 1) - 1 = k /\ k \in Nat /\ k + 1 \in Nat
    BY <1>0, <1>3
  <2>2. f[k + 1] = LoopTurn(r, n, f[k], k + 1)
    BY <1>1, <2>1
  <2>3. f[k + 1] = f[k] \/ (f[k + 1] = f[k] \union {k + 1} /\ r[k + 1].status = "queued")
    BY <2>2 DEF LoopTurn
  <2>4. f[k + 1] \subseteq With(r, "queued") /\ f[k] \subseteq Task /\ f[k + 1] \subseteq Task
    BY <1>0, <2>1, <2>3 DEF With
  <2>5. \A u \in f[k] : u \in Nat /\ u <= k
    BY <1>0, <2>1
  <2>6. \A u \in f[k + 1] : u \in Nat /\ u <= k + 1
    BY <2>1, <2>3, <2>5
  <2>7. ASSUME NEW t \in 0..(k + 1)
        PROVE  Before(f[k + 1], t + 1) = f[t]
    <3>1. CASE t = k + 1
      <4>1. \A u \in f[k + 1] : u < t + 1
        BY <2>6, <3>1
      <4>2. QED
        BY <3>1, <4>1 DEF Before
    <3>2. CASE t # k + 1
      <4>1. t \in 0..k /\ ~(k + 1 < t + 1)
        BY <3>2
      <4>2. Before(f[k + 1], t + 1) = Before(f[k], t + 1)
        BY <2>3, <4>1 DEF Before
      <4>3. QED
        BY <2>1, <4>1, <4>2
    <3>3. QED
      BY <3>1, <3>2
  <2>8. Grows(k + 1)
    BY <2>4, <2>6, <2>7
  <2>9. QED
    BY <2>1, <2>8
<1>4. \A k \in 0..MaxTasks : k \in S
  <2> HIDE DEF S
  <2> QED BY <1>0, <1>2, <1>3, EveryUpTo
<1>5. Grows(m)
  BY <1>4
<1>6. QED
  BY <1>5 DEF f

\* What the loop starts is a set that Picks accepts.
LEMMA LoopPicked ==
    ASSUME NEW r, NEW n \in Nat
    PROVE  Picks(r, n, Loop(r, n))
<1> DEFINE f == StartedUpTo(r, n)
           L == Loop(r, n)
<1>0. MaxTasks \in 0..MaxTasks /\ Task = 1..MaxTasks /\ With(r, "queued") \subseteq Task
  BY TasksAssumption DEF Task, With
<1>1. L = f[MaxTasks]
  BY DEF Loop
<1>2. L \subseteq With(r, "queued") /\ \A t \in 0..MaxTasks : Before(L, t + 1) = f[t]
  <2> HIDE DEF L
  <2> QED BY <1>0, <1>1, LoopGrows
<1>3. FreeSlots(r, n) \in Int
  BY FreeSlotsInt
<1>4. ASSUME NEW t \in With(r, "queued")
      PROVE  t \in L <=> Fits(r, n, L, t)
  <2>1. t \in Task /\ t \in Nat /\ t - 1 \in 0..MaxTasks /\ t \in 0..MaxTasks /\ (t - 1) + 1 = t
        /\ r[t].status = "queued"
    BY <1>0 DEF With
  <2>2. f[t - 1] = Before(L, t) /\ f[t] = Before(L, t + 1)
    <3> HIDE DEF L, f
    <3> QED BY <1>2, <2>1
  <2>3. f[t] = LoopTurn(r, n, f[t - 1], t)
    BY <2>1, LoopGoes
  <2> HIDE DEF L, f
  <2>4. t \in L <=> t \in f[t]
    BY <2>1, <2>2 DEF Before
  <2>5. t \notin f[t - 1]
    BY <2>1, <2>2 DEF Before
  <2>6. t \in f[t] <=> /\ ~(FreeSlots(r, n) - Cardinality(f[t - 1]) <= 0)
                       /\ \A u \in Running(r) \union f[t - 1] : ~Overlaps(r[u].cwd, r[t].cwd)
    BY <2>1, <2>3, <2>5 DEF LoopTurn
  <2>7. f[t - 1] \in SUBSET Task
    BY <1>0, <1>2, <2>2 DEF Before
  <2>8. Cardinality(f[t - 1]) \in Nat
    BY <2>7, TasksFinite
  <2>9. ~(FreeSlots(r, n) - Cardinality(f[t - 1]) <= 0) <=> Cardinality(f[t - 1]) < FreeSlots(r, n)
    BY <1>3, <2>8
  <2>10. QED
    BY <2>2, <2>4, <2>6, <2>9 DEF Fits
<1>5. QED
  BY <1>2, <1>4 DEF Picks

\* And it is the only one: row by row, Picks leaves no choice.
LEMMA PicksOnce ==
    ASSUME NEW r, NEW n, NEW S, NEW Z, Picks(r, n, S), Picks(r, n, Z)
    PROVE  S = Z
<1> DEFINE T == {k \in Nat : Before(S, k + 1) = Before(Z, k + 1)}
<1>0. /\ MaxTasks \in Nat /\ Task = 1..MaxTasks
      /\ S \subseteq Task /\ Z \subseteq Task
      /\ S \subseteq With(r, "queued") /\ Z \subseteq With(r, "queued")
  BY TasksAssumption DEF Task, With, Picks
<1>1. 0 \in T
  <2>1. \A u \in Task : ~(u < 0 + 1)
    BY <1>0
  <2>2. QED
    BY <1>0, <2>1 DEF Before
<1>2. ASSUME NEW k \in 0..(MaxTasks - 1), k \in T
      PROVE  k + 1 \in T
  <2>1. k \in Nat /\ Before(S, k + 1) = Before(Z, k + 1)
    BY <1>2
  <2>2. Fits(r, n, S, k + 1) <=> Fits(r, n, Z, k + 1)
    BY <2>1 DEF Fits
  <2>3. k + 1 \in S <=> k + 1 \in Z
    BY <1>0, <2>2 DEF Picks
  <2>4. \A u \in Task : u < (k + 1) + 1 <=> u < k + 1 \/ u = k + 1
    BY <1>0, <2>1
  <2>5. Before(S, (k + 1) + 1) = Before(Z, (k + 1) + 1)
    BY <1>0, <2>1, <2>3, <2>4 DEF Before
  <2>6. QED
    BY <2>1, <2>5
<1>3. MaxTasks \in T
  <2>1. \A k \in 0..MaxTasks : k \in T
    <3> HIDE DEF T
    <3> QED BY <1>0, <1>1, <1>2, EveryUpTo
  <2>2. QED
    BY <1>0, <2>1
<1>4. \A u \in Task : u < MaxTasks + 1
  BY <1>0
<1>5. QED
  BY <1>0, <1>3, <1>4 DEF Before

\* The table a pump leaves behind: what it started runs, the rest is as it was.
LEMMA PumpedRows ==
    ASSUME NEW St, NEW D, NEW r \in [Task -> [status : St, cwd : D]], NEW n \in Nat
    PROVE  /\ Running(Pumped(r, n)) = Running(r) \union Loop(r, n)
           /\ With(Pumped(r, n), "queued") = With(r, "queued") \ Loop(r, n)
           /\ \A t \in Task : Pumped(r, n)[t].cwd = r[t].cwd
<1> DEFINE L == Loop(r, n)
           p == Pumped(r, n)
<1>1. L \subseteq With(r, "queued")
  BY LoopPicked DEF Picks
<1>2. p = [t \in Task |-> IF t \in L THEN [r[t] EXCEPT !.status = "running"] ELSE r[t]]
  BY DEF Pumped
<1> HIDE DEF L, p
<1>3. \A t \in Task : p[t].cwd = r[t].cwd
                      /\ p[t].status = IF t \in L THEN "running" ELSE r[t].status
  BY <1>2
<1>4. Running(p) = Running(r) \union L
  BY <1>1, <1>3 DEF Running, With
<1>5. With(p, "queued") = With(r, "queued") \ L
  BY <1>1, <1>3 DEF With
<1>6. QED
  BY <1>3, <1>4, <1>5 DEF L, p

\* A table that was pumped is one on which nothing can start.
LEMMA PumpedAgain ==
    ASSUME NEW St, NEW D, NEW r \in [Task -> [status : St, cwd : D]], NEW n \in Nat
    PROVE  Loop(Pumped(r, n), n) = {}
<1> DEFINE L == Loop(r, n)
           p == Pumped(r, n)
<1>1. Picks(r, n, L)
  BY LoopPicked
<1>2. /\ Running(p) = Running(r) \union L /\ With(p, "queued") = With(r, "queued") \ L
      /\ \A t \in Task : p[t].cwd = r[t].cwd
  BY PumpedRows
<1>3. Picks(p, n, Loop(p, n))
  BY LoopPicked
<1> HIDE DEF L, p
<1>4. ASSUME NEW t \in With(p, "queued")
      PROVE  ~Fits(p, n, {}, t)
  <2>1. t \in With(r, "queued") \ L /\ t \in Task
    BY <1>2 DEF With
  <2>2. \/ n <= Cardinality(Running(r) \union L)
        \/ \E u \in Running(r) \union L : Overlaps(r[u].cwd, r[t].cwd)
    BY <1>1, <2>1, PumpLeavesNoIdleSlot
  <2>3. Before({}, t) = {} /\ Cardinality({}) = 0
    BY FS_EmptySet DEF Before
  <2>4. Running(r) \union L \in SUBSET Task
    BY <1>1, PicksSizes
  <2>5. Cardinality(Running(r) \union L) \in Nat
    BY <2>4, TasksFinite
  <2>6. CASE n <= Cardinality(Running(r) \union L)
    <3>1. ~(0 < FreeSlots(p, n))
      BY <1>2, <2>5, <2>6 DEF FreeSlots
    <3>2. QED
      BY <2>3, <3>1 DEF Fits
  <2>7. CASE \E u \in Running(r) \union L : Overlaps(r[u].cwd, r[t].cwd)
    <3>1. PICK u \in Running(r) \union L : Overlaps(r[u].cwd, r[t].cwd)
      BY <2>7
    <3>2. u \in Running(p) /\ Overlaps(p[u].cwd, p[t].cwd)
      BY <1>2, <2>1, <2>4, <3>1
    <3>3. QED
      BY <3>2 DEF Fits
  <2>8. QED
    BY <2>2, <2>6, <2>7
<1>5. Picks(p, n, {})
  BY <1>4 DEF Picks
<1>6. Loop(p, n) = {}
  BY <1>3, <1>5, PicksOnce
<1>7. QED
  BY <1>6 DEF p

\* pump() as it is written starts what Picks says, and nothing more when it is run again:
\* for any number of rows, any folders and any setting.
THEOREM PumpIsPicksAlways == PumpSpec => []PumpIsPicks
<1> DEFINE PumpTyped == /\ board \in [Task -> [status : {"queued", "running", "done"}, cwd : Folders]]
                        /\ slots \in Nat
<1>1. PumpInit => PumpTyped
  BY SlotsAssumption DEF PumpInit
<1>2. PumpTyped /\ [PumpNext]_<<board, slots>> => PumpTyped'
  <2> SUFFICES ASSUME PumpTyped, [PumpNext]_<<board, slots>> PROVE PumpTyped'
    OBVIOUS
  <2>1. CASE board' = Pumped(board, slots) /\ UNCHANGED slots
    BY <2>1 DEF Pumped
  <2>2. CASE (\E t \in Running(board) : board' = [board EXCEPT ![t].status = "done"]) /\ UNCHANGED slots
    BY <2>2 DEF Running, With
  <2>3. CASE UNCHANGED <<board, slots>>
    BY <2>3
  <2>4. QED
    BY <2>1, <2>2, <2>3 DEF PumpNext
<1>3. PumpTyped => PumpIsPicks
  <2> SUFFICES ASSUME PumpTyped PROVE PumpIsPicks
    OBVIOUS
  <2>1. Picks(board, slots, Loop(board, slots))
    BY LoopPicked
  <2>2. LoopIsPicks
    <3>1. \A S : Picks(board, slots, S) => S = Loop(board, slots)
      BY <2>1, PicksOnce
    <3>2. Loop(board, slots) \subseteq With(board, "queued")
      BY <2>1 DEF Picks
    <3>3. QED
      BY <2>1, <3>1, <3>2 DEF LoopIsPicks
  <2>3. PumpIsIdempotent
    BY PumpedAgain DEF PumpIsIdempotent
  <2>4. QED
    BY <2>2, <2>3 DEF PumpIsPicks
<1>4. QED
  BY <1>1, <1>2, <1>3, PTL DEF PumpSpec

-----------------------------------------------------------------------------
(* Types of the operators on session records.                              *)

\* A session that was never used is a session record.
LEMMA UnusedType == Unused \in SessionRecord
BY DEF Unused, SessionRecord

\* So is the session of a new agent (#createLocal).
LEMMA SpawnedType ==
    ASSUME NEW msgs \in SUBSET Msg
    PROVE  Spawned(msgs) \in SessionRecord
BY UnusedType DEF Spawned, SessionRecord, Live

\* A signal leaves a process in one of its states.
LEMMA SignalledType ==
    ASSUME NEW x \in SessionRecord
    PROVE  Signalled(x.agent) \in {"none"} \union Live \union Ended
BY DEF Signalled, SessionRecord, Live

\* interrupt() keeps the type of a session.
LEMMA InterruptedType ==
    ASSUME NEW x \in SessionRecord
    PROVE  Interrupted(x) \in SessionRecord
<1>1. Signalled(x.agent) \in {"none"} \union Live \union Ended
  BY SignalledType
<1>2. [x EXCEPT !.interrupted = TRUE, !.agent = Signalled(x.agent)] \in SessionRecord
  BY <1>1 DEF SessionRecord
<1>3. QED
  BY <1>2 DEF Interrupted

\* messageAgent() keeps it.
LEMMA MessagedType ==
    ASSUME NEW x \in SessionRecord, NEW msgs \in SUBSET Msg
    PROVE  Messaged(x, msgs) \in SessionRecord
BY DEF Messaged, SessionRecord

\* #persist keeps it.
LEMMA PersistedType ==
    ASSUME NEW x \in SessionRecord
    PROVE  Persisted(x) \in SessionRecord
BY DEF Persisted, SessionRecord

\* close() keeps it.
LEMMA ClosedType ==
    ASSUME NEW x \in SessionRecord, NEW ingested \in BOOLEAN
    PROVE  Closed(x, ingested) \in SessionRecord
<1> DEFINE y == Persisted(x)
<1>1. y \in SessionRecord
  BY PersistedType
<1>2. Signalled(y.agent) \in {"none"} \union Live \union Ended
  BY <1>1, SignalledType
<1>3. y.agent \in {"none"} \union Live \union Ended /\ y.orphan \in {"none", "interrupted", "plain"}
  BY <1>1 DEF SessionRecord
<1> HIDE DEF y
<1>4. \A a \in {"none"} \union Live \union Ended : \A o \in {"none", "interrupted", "plain"} :
        [y EXCEPT !.held = "no", !.run = "none", !.agent = a, !.interrupted = FALSE,
                  !.orphan = o] \in SessionRecord
  BY <1>1 DEF SessionRecord
<1>5. (IF x.run = "own" THEN Signalled(y.agent) ELSE y.agent) \in {"none"} \union Live \union Ended
  BY <1>2, <1>3
<1>6. (IF x.run # "own" THEN y.orphan
       ELSE IF x.interrupted \/ ~ingested THEN "interrupted" ELSE "plain")
        \in {"none", "interrupted", "plain"}
  BY <1>3
<1>7. QED
  BY <1>4, <1>5, <1>6 DEF Closed, y

\* deleteHistory() keeps it.
LEMMA DeletedType ==
    ASSUME NEW x \in SessionRecord
    PROVE  Deleted(x) \in SessionRecord
BY SignalledType DEF Deleted, SessionRecord

\* openHistory() keeps it.
LEMMA OpenedType ==
    ASSUME NEW x \in SessionRecord
    PROVE  Opened(x) \in SessionRecord
BY DEF Opened, SessionRecord

\* The entry continueWorker finds or restores is a session record.
LEMMA EntryType ==
    ASSUME NEW x \in SessionRecord
    PROVE  Entry(x) \in SessionRecord
BY OpenedType DEF Entry

\* #resumeLocal keeps the type of a session.
LEMMA ResumedType ==
    ASSUME NEW x \in SessionRecord, NEW msgs \in SUBSET Msg
    PROVE  Resumed(x, msgs) \in SessionRecord
BY DEF Resumed, SessionRecord, Live

\* send() keeps it.
LEMMA SentType ==
    ASSUME NEW x \in SessionRecord, NEW msgs \in SUBSET Msg
    PROVE  Sent(x, msgs) \in SessionRecord
<1> DEFINE y == [x EXCEPT !.interrupted = FALSE]
<1>1. y \in SessionRecord
  BY DEF SessionRecord
<1>2. Messaged(y, msgs) \in SessionRecord /\ Resumed(y, msgs) \in SessionRecord
  BY <1>1, MessagedType, ResumedType
<1>3. [Resumed(y, msgs) EXCEPT !.run = "own"] \in SessionRecord
  BY <1>2 DEF SessionRecord
<1>4. QED
  BY <1>2, <1>3 DEF Sent

\* The exit handler keeps it.
LEMMA AfterExitType ==
    ASSUME NEW x \in SessionRecord
    PROVE  AfterExit(x) \in SessionRecord
BY DEF AfterExit, SessionRecord

\* The loss of the server keeps it.
LEMMA AloneType ==
    ASSUME NEW x \in SessionRecord
    PROVE  Alone(x) \in SessionRecord
BY DEF Alone, SessionRecord

-----------------------------------------------------------------------------
(* Rows, calls and pump().                                                 *)

\* A row of the table when the phase is p and the server went down k times.
RowOK(x, p, k) ==
    /\ x \in Row
    /\ x.attempts + (IF x.status \in {"none", "queued"} THEN 1 ELSE 0)
                  + (IF p = "up" THEN 0 ELSE 1)
         <= 1 + x.redirects + k

RowsOK(r, p, k) ==
    /\ r \in [Task -> Row]
    /\ \A t \in Task : RowOK(r[t], p, k)

\* The inductive invariant: types, no row with more attempts than reasons for them, without
\* which an attempt could run past MaxAttempts, and every boot counted, which pays for the
\* recovery of a task created while the server boots.
TypeInv == TypeOK /\ AttemptsAccounted /\ (phase # "up" => restarts >= 1)

\* The inductive invariant, row by row.
LEMMA TypeInvRows ==
    TypeInv <=> /\ phase \in {"down", "booting", "up"} /\ cap \in Cap
                /\ restarts \in 0..MaxRestarts /\ (phase # "up" => restarts >= 1)
                /\ RowsOK(task, phase, restarts)
                /\ calls \subseteq Call
                /\ sess \in [Session -> SessionRecord]
BY DEF TypeInv, TypeOK, AttemptsAccounted, RowsOK, RowOK

\* A queued row has an attempt to spare, so that #start keeps it well formed.
LEMMA StartedRowOK ==
    ASSUME NEW x, NEW p, NEW k \in 0..MaxRestarts, RowOK(x, p, k), x.status = "queued"
    PROVE  /\ RowOK(StartedRow(x), p, k)
           /\ x.attempts + 1 \in 1..MaxAttempts
<1>1. x \in Row /\ x.attempts \in Nat /\ x.redirects \in 0..MaxRedirects
  BY BoundsAssumption DEF RowOK, Row, MaxAttempts
<1>2. x.attempts + 1 + (IF p = "up" THEN 0 ELSE 1) <= 1 + x.redirects + k
  BY DEF RowOK
<1>3. x.attempts + 1 \in 1..MaxAttempts
  BY <1>1, <1>2, BoundsAssumption DEF MaxAttempts
<1>4. StartedRow(x) \in Row
  <2>1. x.attempts + 1 \in 0..MaxAttempts
    BY <1>1, <1>3, BoundsAssumption DEF MaxAttempts
  <2>2. QED
    BY <1>1, <2>1 DEF StartedRow, Row, Status, Active
<1>5. /\ StartedRow(x).status = "running" /\ StartedRow(x).attempts = x.attempts + 1
      /\ StartedRow(x).redirects = x.redirects
  BY <1>1 DEF StartedRow, Row
<1>6. QED
  BY <1>1, <1>2, <1>3, <1>4, <1>5, BoundsAssumption DEF RowOK

\* The call #start makes for a queued row names a session that exists.
LEMMA CallOfType ==
    ASSUME NEW x, NEW p, NEW k \in 0..MaxRestarts, RowOK(x, p, k), x.status = "queued",
           NEW t \in Task
    PROVE  CallOf(x, t) \in Call
<1>1. x.attempts + 1 \in 1..MaxAttempts
  BY StartedRowOK
<1>2. x.sid \in Session \union {NoSession} /\ x.redirects \in 0..MaxRedirects
      /\ x.seen \in 0..MaxRedirects
  BY DEF RowOK, Row
<1>3. <<t, x.attempts + 1>> \in Session
  BY <1>1 DEF Session
<1>4. (x.seen + 1)..x.redirects \in SUBSET Msg /\ 0..x.redirects \in SUBSET Msg
  BY <1>2, BoundsAssumption DEF Msg
<1>5. QED
  BY <1>2, <1>3, <1>4 DEF CallOf, Call

\* pump() keeps rows and calls in their types.
LEMMA PumpType ==
    ASSUME NEW r, NEW n, NEW c \in SUBSET Call, NEW p, NEW k \in 0..MaxRestarts,
           RowsOK(r, p, k), Pump(r, n, c)
    PROVE  RowsOK(task', p, k) /\ calls' \subseteq Call
<1>1. PICK S \in SUBSET With(r, "queued") :
           task' = Started(r, S) /\ calls' = c \union {CallOf(r[t], t) : t \in S}
  BY DEF Pump
<1>2. \A t \in S : t \in Task /\ r[t].status = "queued" /\ RowOK(r[t], p, k)
  BY DEF With, RowsOK
<1>3. \A t \in S : RowOK(StartedRow(r[t]), p, k) /\ CallOf(r[t], t) \in Call
  BY <1>2, StartedRowOK, CallOfType
<1>4. \A t \in Task : RowOK(task'[t], p, k)
  BY <1>1, <1>3 DEF Started, RowsOK
<1>5. task' \in [Task -> Row]
  BY <1>1, <1>4 DEF Started, RowOK
<1>6. QED
  BY <1>1, <1>3, <1>4, <1>5 DEF RowsOK

-----------------------------------------------------------------------------
(* Requests keep the types.                                                *)

\* Rows that change nothing but their status, to one that needs no spare attempt.
LEMMA RestRowOK ==
    ASSUME NEW x, NEW p, NEW k \in Nat, RowOK(x, p, k), NEW st \in Settled
    PROVE  RowOK([x EXCEPT !.status = st], p, k)
<1>1. x \in Row /\ x.attempts \in Nat /\ x.redirects \in Nat
  BY BoundsAssumption DEF RowOK, Row, MaxAttempts
<1>2. [x EXCEPT !.status = st] \in Row
  BY <1>1 DEF Row, Status
<1>3. /\ [x EXCEPT !.status = st].attempts = x.attempts
      /\ [x EXCEPT !.status = st].redirects = x.redirects
      /\ [x EXCEPT !.status = st].status \notin {"none", "queued"}
  BY <1>1 DEF Row, Settled
<1>4. QED
  BY <1>1, <1>2, <1>3 DEF RowOK

\* Cancelled rows stay well formed.
LEMMA CancelledOK ==
    ASSUME NEW r, NEW p, NEW k \in Nat, RowsOK(r, p, k), NEW T
    PROVE  RowsOK(Cancelled(r, T), p, k)
<1>1. \A t \in Task : RowOK([r[t] EXCEPT !.status = "cancelled"], p, k)
  BY RestRowOK DEF RowsOK, Settled
<1>2. \A t \in Task : RowOK(Cancelled(r, T)[t], p, k)
  BY <1>1 DEF Cancelled, RowsOK
<1>3. QED
  BY <1>2 DEF Cancelled, RowsOK, RowOK

\* Settled rows stay well formed.
LEMMA SettledTasksOK ==
    ASSUME NEW r, NEW p, NEW k \in Nat, RowsOK(r, p, k), NEW s, NEW done
    PROVE  RowsOK(SettledTasks(r, s, done), p, k)
<1>1. \A t \in Task : RowOK([r[t] EXCEPT !.status = IF done THEN "done" ELSE "error"], p, k)
  BY RestRowOK DEF RowsOK, Settled
<1>2. \A t \in Task : RowOK(SettledTasks(r, s, done)[t], p, k)
  BY <1>1 DEF SettledTasks, RowsOK
<1>3. QED
  BY <1>2 DEF SettledTasks, RowsOK, RowOK

\* One row of a table is replaced.
LEMMA ReplacedRowOK ==
    ASSUME NEW r, NEW p, NEW k, RowsOK(r, p, k), NEW t \in Task, NEW x, RowOK(x, p, k)
    PROVE  RowsOK([r EXCEPT ![t] = x], p, k)
BY DEF RowsOK, RowOK

\* A redirect pays for the attempt it may need.
LEMMA RedirectRowOK ==
    ASSUME NEW x, NEW p, NEW k \in Nat, RowOK(x, p, k),
           x.status # "none", x.redirects < MaxRedirects
    PROVE  /\ RowOK([x EXCEPT !.status = "queued", !.redirects = @ + 1], p, k)
           /\ RowOK([x EXCEPT !.redirects = @ + 1], p, k)
           /\ RowOK([x EXCEPT !.redirects = @ + 1, !.seen = x.redirects + 1], p, k)
<1>1. x \in Row /\ x.attempts \in Nat /\ x.redirects \in Nat
      /\ x.redirects + 1 \in 0..MaxRedirects
  BY BoundsAssumption DEF RowOK, Row, MaxAttempts
<1>2. /\ [x EXCEPT !.status = "queued", !.redirects = @ + 1] \in Row
      /\ [x EXCEPT !.redirects = @ + 1] \in Row
      /\ [x EXCEPT !.redirects = @ + 1, !.seen = x.redirects + 1] \in Row
  BY <1>1 DEF Row, Status, Active
<1>3. \A y \in Row : y.attempts = x.attempts /\ y.redirects = x.redirects + 1 => RowOK(y, p, k)
  BY <1>1 DEF RowOK
<1>4. QED
  BY <1>1, <1>2, <1>3 DEF Row

\* What has to be shown of a step.
LEMMA TypeInvNext ==
    ASSUME phase' \in {"down", "booting", "up"}, cap' \in Cap, restarts' \in 0..MaxRestarts,
           phase' # "up" => restarts' >= 1, RowsOK(task', phase', restarts'), calls' \subseteq Call,
           sess' \in [Session -> SessionRecord]
    PROVE  TypeInv'
BY DEF TypeInv, TypeOK, AttemptsAccounted, RowsOK, RowOK

\* The common part: a step that leaves the phase, pumps rows that are fine, or leaves rows
\* and calls, and writes session records.
LEMMA PumpStepType ==
    ASSUME TypeInv, UNCHANGED <<phase, restarts>>, cap' \in Cap,
           NEW r, NEW n, NEW c \in SUBSET Call,
           RowsOK(r, phase, restarts), Pump(r, n, c) \/ (task' = r /\ calls' = c),
           sess' \in [Session -> SessionRecord]
    PROVE  TypeInv'
<1>1. phase \in {"down", "booting", "up"} /\ restarts \in 0..MaxRestarts
      /\ (phase # "up" => restarts >= 1)
  BY TypeInvRows
<1>2. RowsOK(task', phase, restarts) /\ calls' \subseteq Call
  BY <1>1, PumpType
<1>3. QED
  BY <1>1, <1>2, TypeInvNext

\* The facts a step starts from.
LEMMA TypeInvFacts ==
    ASSUME TypeInv
    PROVE  /\ phase \in {"down", "booting", "up"} /\ cap \in Cap
           /\ restarts \in 0..MaxRestarts /\ restarts \in Nat /\ (phase # "up" => restarts >= 1)
           /\ RowsOK(task, phase, restarts) /\ task \in [Task -> Row]
           /\ calls \subseteq Call /\ sess \in [Session -> SessionRecord]
BY TypeInvRows, BoundsAssumption DEF RowsOK

\* create() keeps the invariant.
LEMMA CreateType ==
    ASSUME TypeInv, NEW W \in SUBSET Task, NEW d \in [W -> Dir], Create(W, d)
    PROVE  TypeInv'
<1> DEFINE x(t) == [status |-> "queued", cwd |-> d[t], sid |-> NoSession, redirects |-> 0,
                    seen |-> 0, atStart |-> 0, attempts |-> 0]
           made == [t \in Task |-> IF t \in W THEN x(t) ELSE task[t]]
<1>1. \A t \in W : x(t) \in Row
  BY BoundsAssumption DEF Row, Status, Active, MaxAttempts
<1>2. \A t \in W : RowOK(x(t), phase, restarts)
  BY <1>1, TypeInvFacts DEF RowOK
<1>3. \A t \in Task : RowOK(made[t], phase, restarts) /\ made[t] \in Row
  BY <1>2, TypeInvFacts DEF RowsOK, RowOK
<1>4. RowsOK(made, phase, restarts)
  BY <1>3 DEF RowsOK
<1>5. Pump(made, cap, calls) /\ UNCHANGED <<phase, cap, sess, restarts>>
  BY DEF Create
<1>6. QED
  BY <1>4, <1>5, TypeInvFacts, PumpStepType

\* redirect() of a waiting task keeps the invariant.
LEMMA RedirectQueuedType ==
    ASSUME TypeInv, NEW t \in Task, RedirectQueued(t)
    PROVE  TypeInv'
<1>1. RowOK(task[t], phase, restarts) /\ task[t].status # "none"
      /\ task[t].redirects < MaxRedirects
  BY TypeInvFacts DEF RedirectQueued, RowsOK
<1>2. RowOK([task[t] EXCEPT !.redirects = @ + 1], phase, restarts)
  BY <1>1, TypeInvFacts, RedirectRowOK
<1>3. RowsOK([task EXCEPT ![t] = [task[t] EXCEPT !.redirects = @ + 1]], phase, restarts)
  BY <1>2, TypeInvFacts, ReplacedRowOK
<1>4. task' = [task EXCEPT ![t] = [task[t] EXCEPT !.redirects = @ + 1]]
  BY TypeInvFacts DEF RedirectQueued
<1>5. UNCHANGED <<phase, cap, calls, sess, restarts>>
  BY DEF RedirectQueued
<1>6. QED
  BY <1>3, <1>4, <1>5, TypeInvFacts, PumpStepType

\* redirect() of a task whose agent runs keeps the invariant.
LEMMA RedirectRunningType ==
    ASSUME TypeInv, NEW t \in Task, RedirectRunning(t)
    PROVE  TypeInv'
<1> DEFINE x == [task[t] EXCEPT !.redirects = @ + 1, !.seen = task[t].redirects + 1]
           s == task[t].sid
<1>1. RowOK(task[t], phase, restarts) /\ task[t].status # "none"
      /\ task[t].redirects < MaxRedirects
  BY TypeInvFacts DEF RedirectRunning, Reachable, RowsOK
<1>2. RowOK(x, phase, restarts)
  BY <1>1, TypeInvFacts, RedirectRowOK
<1>3. RowsOK([task EXCEPT ![t] = x], phase, restarts)
  BY <1>2, TypeInvFacts, ReplacedRowOK
<1>4. task' = [task EXCEPT ![t] = x]
  BY TypeInvFacts DEF RedirectRunning, Row
<1>5. s \in Session /\ {task[t].redirects + 1} \in SUBSET Msg
  BY <1>1, BoundsAssumption, TypeInvFacts DEF RedirectRunning, Reachable, Row, Msg
<1>6. Messaged(sess[s], {task[t].redirects + 1}) \in SessionRecord
  BY <1>5, TypeInvFacts, MessagedType
<1>7. sess' \in [Session -> SessionRecord]
  BY <1>6, TypeInvFacts DEF RedirectRunning
<1>8. UNCHANGED <<phase, cap, calls, restarts>>
  BY DEF RedirectRunning
<1>9. QED
  BY <1>3, <1>4, <1>7, <1>8, TypeInvFacts, PumpStepType

\* redirect() that re-opens a task keeps the invariant: the redirect pays for the attempt.
LEMMA RedirectReopenType ==
    ASSUME TypeInv, NEW t \in Task, RedirectReopen(t)
    PROVE  TypeInv'
<1> DEFINE x == [task[t] EXCEPT !.status = "queued", !.redirects = @ + 1]
           r == [task EXCEPT ![t].status = "queued", ![t].redirects = @ + 1]
<1>1. RowOK(task[t], phase, restarts) /\ task[t].status # "none"
      /\ task[t].redirects < MaxRedirects
  BY TypeInvFacts DEF RedirectReopen, RowsOK
<1>2. RowOK(x, phase, restarts)
  BY <1>1, TypeInvFacts, RedirectRowOK
<1>3. RowsOK([task EXCEPT ![t] = x], phase, restarts)
  BY <1>2, TypeInvFacts, ReplacedRowOK
<1>4. r = [task EXCEPT ![t] = x]
  BY TypeInvFacts DEF Row
<1>5. Pump(r, cap, calls) /\ UNCHANGED <<phase, cap, sess, restarts>>
  BY DEF RedirectReopen
<1>6. RowsOK(r, phase, restarts)
  BY <1>3, <1>4
<1> HIDE DEF r
<1>7. QED
  BY <1>5, <1>6, TypeInvFacts, PumpStepType

\* cancel() keeps the invariant.
LEMMA CancelType ==
    ASSUME TypeInv, NEW t \in Task, Cancel(t)
    PROVE  TypeInv'
<1>1. RowsOK(Cancelled(task, {t}), phase, restarts)
  BY TypeInvFacts, CancelledOK
<1>2. sess' \in [Session -> SessionRecord]
  <2>1. task[t].sid # NoSession => Interrupted(sess[task[t].sid]) \in SessionRecord
    BY TypeInvFacts, InterruptedType DEF Row
  <2>2. QED
    BY <2>1, TypeInvFacts DEF Cancel
<1>3. Pump(Cancelled(task, {t}), cap, calls) /\ UNCHANGED <<phase, cap, restarts>>
  BY DEF Cancel
<1>4. QED
  BY <1>1, <1>2, <1>3, TypeInvFacts, PumpStepType

\* dropSession() keeps the invariant.
LEMMA CloseSessionType ==
    ASSUME TypeInv, NEW s \in Session, NEW ingested \in BOOLEAN, CloseSession(s, ingested)
    PROVE  TypeInv'
<1> DEFINE r == Cancelled(task, GoneTasks(s))
<1>1. RowsOK(r, phase, restarts)
  BY TypeInvFacts, CancelledOK
<1>2. Closed(sess[s], ingested) \in SessionRecord
  BY TypeInvFacts, ClosedType
<1>3. sess' \in [Session -> SessionRecord]
  BY <1>2, TypeInvFacts DEF CloseSession
<1>4. Pump(r, cap, calls) /\ UNCHANGED <<phase, cap, restarts>>
  BY DEF CloseSession
<1> HIDE DEF r
<1>5. QED
  BY <1>1, <1>3, <1>4, TypeInvFacts, PumpStepType

\* The deletion of a session keeps the invariant.
LEMMA DeleteSessionType ==
    ASSUME TypeInv, NEW s \in Session, DeleteSession(s)
    PROVE  TypeInv'
<1> DEFINE r == Cancelled(task, GoneTasks(s))
<1>1. RowsOK(r, phase, restarts)
  BY TypeInvFacts, CancelledOK
<1>2. Deleted(sess[s]) \in SessionRecord
  BY TypeInvFacts, DeletedType
<1>3. sess' \in [Session -> SessionRecord]
  BY <1>2, TypeInvFacts DEF DeleteSession
<1>4. Pump(r, cap, calls) /\ UNCHANGED <<phase, cap, restarts>>
  BY DEF DeleteSession
<1> HIDE DEF r
<1>5. QED
  BY <1>1, <1>3, <1>4, TypeInvFacts, PumpStepType

\* The stop button keeps the invariant.
LEMMA InterruptSessionType ==
    ASSUME TypeInv, NEW s \in Session, InterruptSession(s)
    PROVE  TypeInv'
<1>1. Interrupted(sess[s]) \in SessionRecord
  BY TypeInvFacts, InterruptedType
<1>2. sess' \in [Session -> SessionRecord] /\ UNCHANGED <<phase, cap, task, calls, restarts>>
  BY <1>1, TypeInvFacts DEF InterruptSession
<1>3. QED
  BY <1>2, TypeInvFacts, PumpStepType

\* resize() keeps the invariant.
LEMMA ResizeType ==
    ASSUME TypeInv, NEW n \in Cap, Resize(n)
    PROVE  TypeInv'
BY TypeInvFacts, PumpStepType DEF Resize

-----------------------------------------------------------------------------
(* The continuations of #start keep the types.                             *)

\* Stopping the worker of a cancelled task keeps the type of its session.
LEMMA StopIfCancelledType ==
    ASSUME NEW t, NEW x \in SessionRecord
    PROVE  StopIfCancelled(t, x) \in SessionRecord
BY InterruptedType DEF StopIfCancelled

\* What is known of a pending call.
LEMMA CallFacts ==
    ASSUME TypeInv, NEW c \in calls
    PROVE  /\ c.task \in Task /\ c.sid \in Session /\ c.msgs \in SUBSET Msg
           /\ RowOK(task[c.task], phase, restarts) /\ sess[c.sid] \in SessionRecord
           /\ calls \ {c} \in SUBSET Call
<1>1. c \in Call
  BY TypeInvFacts
<1>2. QED
  BY <1>1, TypeInvFacts DEF Call, RowsOK

\* A failed start keeps the invariant.
LEMMA StartFailsType ==
    ASSUME TypeInv, NEW c \in calls, StartFails(c)
    PROVE  TypeInv'
<1> DEFINE x == [task[c.task] EXCEPT !.status = "error"]
           r == [task EXCEPT ![c.task].status = "error"]
<1>1. RowOK(x, phase, restarts)
  BY CallFacts, TypeInvFacts, RestRowOK DEF Settled
<1>2. RowsOK([task EXCEPT ![c.task] = x], phase, restarts)
  BY <1>1, CallFacts, TypeInvFacts, ReplacedRowOK
<1>3. r = [task EXCEPT ![c.task] = x]
  BY TypeInvFacts
<1>4. RowsOK(r, phase, restarts)
  BY <1>2, <1>3
<1>5. Entry(sess[c.sid]) \in SessionRecord
  BY CallFacts, EntryType
<1>6. sess' \in [Session -> SessionRecord]
  BY <1>5, CallFacts, TypeInvFacts DEF StartFails
<1>7. UNCHANGED <<phase, cap, restarts>>
      /\ (Pump(r, cap, calls \ {c}) \/ (task' = task /\ calls' = calls \ {c}))
  BY DEF StartFails
<1> HIDE DEF r
<1>8. QED
  BY <1>4, <1>6, <1>7, CallFacts, TypeInvFacts, PumpStepType

\* A started worker keeps the invariant.
LEMMA WorkerStartedType ==
    ASSUME TypeInv, NEW c \in calls, WorkerStarted(c)
    PROVE  TypeInv'
<1> DEFINE x == [task[c.task] EXCEPT !.sid = c.sid]
<1>1. x \in Row /\ x.status = task[c.task].status /\ x.attempts = task[c.task].attempts
      /\ x.redirects = task[c.task].redirects
  BY CallFacts DEF RowOK, Row
<1>2. RowOK(x, phase, restarts)
  BY <1>1, CallFacts DEF RowOK
<1>3. RowsOK([task EXCEPT ![c.task] = x], phase, restarts)
  BY <1>2, CallFacts, TypeInvFacts, ReplacedRowOK
<1>4. task' = [task EXCEPT ![c.task] = x]
  BY TypeInvFacts DEF WorkerStarted
<1>5. StopIfCancelled(c.task, Spawned(c.msgs)) \in SessionRecord
  BY CallFacts, SpawnedType, StopIfCancelledType
<1>6. sess' \in [Session -> SessionRecord]
  BY <1>5, CallFacts, TypeInvFacts DEF WorkerStarted
<1>7. UNCHANGED <<phase, cap, restarts>> /\ calls' = calls \ {c}
  BY DEF WorkerStarted
<1>8. QED
  BY <1>3, <1>4, <1>6, <1>7, CallFacts, TypeInvFacts, PumpStepType

\* A continued worker keeps the invariant.
LEMMA WorkerContinuedType ==
    ASSUME TypeInv, NEW c \in calls, WorkerContinued(c)
    PROVE  TypeInv'
<1>1. Sent(Entry(sess[c.sid]), c.msgs) \in SessionRecord
  BY CallFacts, EntryType, SentType
<1>2. StopIfCancelled(c.task, Sent(Entry(sess[c.sid]), c.msgs)) \in SessionRecord
  BY <1>1, StopIfCancelledType
<1>3. sess' \in [Session -> SessionRecord]
  BY <1>2, CallFacts, TypeInvFacts DEF WorkerContinued
<1>4. UNCHANGED <<phase, cap, restarts>> /\ task' = task /\ calls' = calls \ {c}
  BY DEF WorkerContinued
<1>5. QED
  BY <1>3, <1>4, CallFacts, TypeInvFacts, PumpStepType

\* A resume file that cannot be written keeps the invariant.
LEMMA WorkerNotResumedType ==
    ASSUME TypeInv, NEW c \in calls, WorkerNotResumed(c)
    PROVE  TypeInv'
<1> DEFINE x == Entry(sess[c.sid])
           y == [x EXCEPT !.interrupted = FALSE]
           r == SettledTasks(task, c.sid, x.ok)
<1>0. x \in SessionRecord
  BY CallFacts, EntryType
<1>1. y \in SessionRecord
  <2> HIDE DEF x
  <2> QED BY <1>0 DEF SessionRecord
<1>2. StopIfCancelled(c.task, y) \in SessionRecord
  BY <1>1, StopIfCancelledType
<1>3. sess' \in [Session -> SessionRecord]
  BY <1>2, CallFacts, TypeInvFacts DEF WorkerNotResumed
<1>4. RowsOK(r, phase, restarts)
  BY TypeInvFacts, SettledTasksOK
<1>5. UNCHANGED <<phase, cap, restarts>>
      /\ (Pump(r, cap, calls \ {c}) \/ (task' = task /\ calls' = calls \ {c}))
  BY DEF WorkerNotResumed
<1> HIDE DEF r
<1>6. QED
  BY <1>3, <1>4, <1>5, CallFacts, TypeInvFacts, PumpStepType

-----------------------------------------------------------------------------
(* Agents, exit events and timers keep the types.                          *)

\* A step of one session that concerns nobody else.
LEMMA SessionStepType ==
    ASSUME TypeInv, NEW s \in Session, NEW x \in SessionRecord, sess' = [sess EXCEPT ![s] = x],
           UNCHANGED <<phase, cap, task, calls, restarts>>
    PROVE  TypeInv'
<1>1. sess' \in [Session -> SessionRecord]
  BY TypeInvFacts
<1>2. QED
  BY <1>1, TypeInvFacts, PumpStepType

\* The steps of an agent process keep the invariant.
LEMMA AgentStepsType ==
    ASSUME TypeInv, NEW s \in Session, AgentSteps(s)
    PROVE  TypeInv'
<1> DEFINE x == sess[s]
<1>1. x \in SessionRecord
  BY TypeInvFacts
<1>2. CASE AgentReads(s)
  <2> DEFINE y == [x EXCEPT !.conv = @ \union x.prompt \union x.inbox, !.prompt = {}, !.inbox = {}]
  <2>1. y \in SessionRecord
    <3> HIDE DEF x
    <3> QED BY <1>1 DEF SessionRecord
  <2>2. sess' = [sess EXCEPT ![s] = y] /\ UNCHANGED <<phase, cap, task, calls, restarts>>
    BY <1>2, TypeInvFacts DEF AgentReads
  <2> HIDE DEF y
  <2>3. QED
    BY <2>1, <2>2, SessionStepType
<1>3. ASSUME NEW how \in Ended, AgentExits(s, how)
      PROVE  TypeInv'
  <2> DEFINE a == IF x.run # "none" \/ x.orphan # "none" THEN how ELSE "none"
             y == [x EXCEPT !.agent = a]
  <2>1. y \in SessionRecord
    <3> HIDE DEF x
    <3> QED BY <1>1 DEF SessionRecord
  <2>2. sess' = [sess EXCEPT ![s] = y] /\ UNCHANGED <<phase, cap, task, calls, restarts>>
    BY <1>3, TypeInvFacts DEF AgentExits
  <2> HIDE DEF y
  <2>3. QED
    BY <2>1, <2>2, SessionStepType
<1>4. QED
  BY <1>2, <1>3 DEF AgentSteps

\* An exit that settles its task keeps the invariant.
LEMMA ExitSettlesType ==
    ASSUME TypeInv, NEW s \in Session, ExitSettles(s)
    PROVE  TypeInv'
<1> DEFINE x == sess[s]
           ok == x.agent = "submitted" \/ (x.agent = "crashed" /\ x.ok)
           done == ~WasInterrupted(x) /\ x.agent = "submitted" /\ x.held = "yes"
           waits == \E t \in BySession(task, s) : task[t].status = "queued"
           y == [AfterExit(x) EXCEPT !.ok = ok, !.row = IF x.conv = {} \/ x.deleted THEN @ ELSE x.conv,
                                     !.releasing = @ \/ (BySession(task, s) # {} /\ ~waits)]
           r == SettledTasks(task, s, done)
<1>1. x \in SessionRecord
  BY TypeInvFacts
<1>2. AfterExit(x) \in SessionRecord
  BY <1>1, AfterExitType
<1>3. x.conv \in SUBSET Msg
  BY <1>1 DEF SessionRecord
<1>4. y \in SessionRecord
  <2> DEFINE z == AfterExit(x)
  <2>1. \A b, k \in BOOLEAN : \A w \in SUBSET Msg :
          [z EXCEPT !.ok = b, !.row = w, !.releasing = k] \in SessionRecord
    <3> HIDE DEF z
    <3> QED BY <1>2 DEF SessionRecord, z
  <2>2. z.row \in SUBSET Msg /\ z.releasing \in BOOLEAN
    <3> HIDE DEF z
    <3> QED BY <1>2 DEF SessionRecord, z
  <2>3. (IF x.conv = {} \/ x.deleted THEN z.row ELSE x.conv) \in SUBSET Msg
    BY <1>3, <2>2
  <2>4. ok \in BOOLEAN /\ (z.releasing \/ (BySession(task, s) # {} /\ ~waits)) \in BOOLEAN
    OBVIOUS
  <2>5. QED
    BY <2>1, <2>3, <2>4
<1>5. sess' = [sess EXCEPT ![s] = y]
  BY DEF ExitSettles
<1>6. sess' \in [Session -> SessionRecord]
  <2> HIDE DEF y
  <2> QED BY <1>4, <1>5, TypeInvFacts
<1>7. RowsOK(r, phase, restarts)
  BY TypeInvFacts, SettledTasksOK
<1>8. UNCHANGED <<phase, cap, restarts>>
      /\ (Pump(r, cap, calls) \/ (task' = task /\ calls' = calls))
  BY DEF ExitSettles
<1> HIDE DEF r
<1>9. QED
  BY <1>6, <1>7, <1>8, TypeInvFacts, PumpStepType

\* Every exit handler keeps the invariant.
LEMMA ExitEventsType ==
    ASSUME TypeInv, NEW s \in Session, ExitEvents(s)
    PROVE  TypeInv'
<1> DEFINE x == sess[s]
<1>1. x \in SessionRecord
  BY TypeInvFacts
<1>2. CASE ExitResumes(s)
  <2>1. Resumed(x, x.inbox) \in SessionRecord
    BY <1>1, ResumedType DEF SessionRecord
  <2>2. QED
    BY <1>2, <2>1, SessionStepType DEF ExitResumes
<1>3. CASE ExitNotResumed(s)
  BY <1>1, <1>3, AfterExitType, SessionStepType DEF ExitNotResumed
<1>4. CASE ExitSettles(s)
  BY <1>4, ExitSettlesType
<1>5. CASE AttachedExits(s)
  <2> DEFINE y == [x EXCEPT !.run = "none",
                            !.ok = x.agent = "submitted" \/ (x.agent # "quit" /\ x.ok),
                            !.agent = IF x.orphan = "none" THEN "none" ELSE @]
  <2>1. y \in SessionRecord
    <3> HIDE DEF x
    <3> QED BY <1>1 DEF SessionRecord
  <2>2. sess' = [sess EXCEPT ![s] = y] /\ UNCHANGED <<phase, cap, task, calls, restarts>>
    BY <1>5, TypeInvFacts DEF AttachedExits
  <2> HIDE DEF y
  <2>3. QED
    BY <2>1, <2>2, SessionStepType
<1>6. QED
  BY <1>2, <1>3, <1>4, <1>5 DEF ExitEvents

\* The release timer and the periodic save keep the invariant.
LEMMA TimersType ==
    ASSUME TypeInv, NEW s \in Session, Release(s) \/ PersistDirty(s)
    PROVE  TypeInv'
<1> DEFINE x == sess[s]
           y == Closed(x, FALSE)
<1>1. x \in SessionRecord /\ y \in SessionRecord
  BY TypeInvFacts, ClosedType
<1>2. [y EXCEPT !.releasing = FALSE] \in SessionRecord
      /\ [x EXCEPT !.releasing = FALSE] \in SessionRecord
  <2> HIDE DEF x, y
  <2> QED BY <1>1 DEF SessionRecord
<1>3. CASE Release(s)
  <2>1. PICK z \in SessionRecord : sess' = [sess EXCEPT ![s] = z]
    BY <1>2, <1>3, TypeInvFacts DEF Release
  <2>2. QED
    BY <1>3, <2>1, SessionStepType DEF Release
<1>4. CASE PersistDirty(s)
  BY <1>1, <1>4, PersistedType, SessionStepType DEF PersistDirty
<1>5. QED
  BY <1>3, <1>4

-----------------------------------------------------------------------------
(* A server that goes down pays for the recovery that follows.             *)

\* A server that goes down owes every running row one attempt, which the restart pays for.
LEMMA DownRowsOK ==
    ASSUME NEW r, NEW p, NEW k \in Nat, RowsOK(r, p, k)
    PROVE  RowsOK(r, "down", k + 1)
<1>1. \A t \in Task : /\ r[t] \in Row /\ r[t].attempts \in Nat /\ r[t].redirects \in Nat
                      /\ RowOK(r[t], p, k)
  BY BoundsAssumption DEF RowsOK, RowOK, Row, MaxAttempts
<1>2. \A t \in Task : RowOK(r[t], "down", k + 1)
  BY <1>1 DEF RowOK
<1>3. QED
  BY <1>2 DEF RowsOK

\* recover() of a row uses that up.
LEMMA RecoveredOK ==
    ASSUME NEW x, NEW k \in Nat, RowOK(x, "booting", k)
    PROVE  RowOK(Recovered(x), "up", k)
<1>1. x \in Row /\ x.attempts \in Nat /\ x.redirects \in Nat
      /\ x.seen \in 0..MaxRedirects /\ x.atStart \in 0..MaxRedirects
  BY BoundsAssumption DEF RowOK, Row, MaxAttempts
<1>2. CASE x.status # "running"
  BY <1>1, <1>2 DEF Recovered, RowOK
<1>3. CASE x.status = "running"
  <2> DEFINE n == IF x.seen < x.atStart THEN x.seen ELSE x.atStart
             y == [x EXCEPT !.status = "queued", !.seen = n]
  <2>1. n \in 0..MaxRedirects
    BY <1>1
  <2>2. y \in Row /\ y.attempts = x.attempts /\ y.redirects = x.redirects /\ y.status = "queued"
    <3> HIDE DEF n
    <3> QED BY <1>1, <2>1 DEF Row, Status, Active
  <2>3. RowOK(y, "up", k)
    <3> HIDE DEF y
    <3> QED BY <1>1, <1>3, <2>2 DEF RowOK
  <2>4. QED
    BY <1>3, <2>3 DEF Recovered
<1>4. QED
  BY <1>2, <1>3

\* Going down, booting, restoring and recover() keep the invariant.
LEMMA RestartingType ==
    ASSUME TypeInv, Restarting
    PROVE  TypeInv'
<1>1. CASE StopServer
  <2> DEFINE x(s) == IF sess[s].held = "yes" THEN Persisted(sess[s]) ELSE sess[s]
             y(s) == [x(s) EXCEPT !.agent = IF x(s).run = "own" \/ x(s).orphan # "none"
                                            THEN Signalled(@) ELSE @]
  <2>1. ASSUME NEW s \in Session PROVE Alone(y(s)) \in SessionRecord
    <3> DEFINE z == x(s)
    <3>1. z \in SessionRecord
      BY TypeInvFacts, PersistedType
    <3>2. Signalled(z.agent) \in {"none"} \union Live \union Ended
      BY <3>1, SignalledType
    <3>3. [z EXCEPT !.agent = IF z.run = "own" \/ z.orphan # "none"
                              THEN Signalled(z.agent) ELSE z.agent] \in SessionRecord
      <4> HIDE DEF z
      <4> QED BY <3>1, <3>2 DEF SessionRecord
    <3>4. QED
      BY <3>3, AloneType
  <2>2. sess' = [s \in Session |-> Alone(y(s))]
    BY <1>1 DEF StopServer
  <2>3. sess' \in [Session -> SessionRecord]
    <3> HIDE DEF y
    <3> QED BY <2>1, <2>2
  <2>4. /\ phase' = "down" /\ restarts' = restarts + 1 /\ restarts < MaxRestarts
        /\ calls' = {} /\ UNCHANGED <<cap, task>>
    BY <1>1 DEF StopServer
  <2>5. RowsOK(task', phase', restarts')
    BY <2>4, TypeInvFacts, DownRowsOK
  <2>6. restarts' \in 0..MaxRestarts /\ restarts' >= 1
    BY <2>4, TypeInvFacts, BoundsAssumption
  <2>7. QED
    BY <2>3, <2>4, <2>5, <2>6, TypeInvFacts, TypeInvNext
<1>2. CASE CrashServer
  <2>1. \A s \in Session : Alone(sess[s]) \in SessionRecord
    BY TypeInvFacts, AloneType
  <2>2. sess' \in [Session -> SessionRecord]
    BY <1>2, <2>1 DEF CrashServer
  <2>3. /\ phase' = "down" /\ restarts' = restarts + 1 /\ restarts < MaxRestarts
        /\ calls' = {} /\ UNCHANGED <<cap, task>>
    BY <1>2 DEF CrashServer
  <2>4. RowsOK(task', phase', restarts')
    BY <2>3, TypeInvFacts, DownRowsOK
  <2>5. restarts' \in 0..MaxRestarts /\ restarts' >= 1
    BY <2>3, TypeInvFacts, BoundsAssumption
  <2>6. QED
    BY <2>2, <2>3, <2>4, <2>5, TypeInvFacts, TypeInvNext
<1>3. CASE Boot
  <2>1. phase = "down" /\ phase' = "booting" /\ UNCHANGED <<cap, task, calls, sess, restarts>>
    BY <1>3 DEF Boot
  <2>2. RowsOK(task', phase', restarts')
    BY <2>1, TypeInvFacts DEF RowsOK, RowOK
  <2>3. QED
    BY <2>1, <2>2, TypeInvFacts, TypeInvNext
<1>4. CASE Recover
  <2> DEFINE r == [t \in Task |-> Recovered(task[t])]
  <2>1. phase = "booting" /\ phase' = "up" /\ UNCHANGED <<cap, restarts>> /\ Pump(r, cap, calls)
    BY <1>4 DEF Recover
  <2>2. \A t \in Task : RowOK(Recovered(task[t]), "up", restarts)
    BY <2>1, TypeInvFacts, RecoveredOK DEF RowsOK
  <2>3. RowsOK(r, "up", restarts)
    BY <2>2 DEF RowsOK, RowOK
  <2>4. RowsOK(task', "up", restarts) /\ calls' \subseteq Call
    <3> HIDE DEF r
    <3> QED BY <2>1, <2>3, TypeInvFacts, PumpType
  <2>5. \A s \in Session : Closed(sess[s], FALSE) \in SessionRecord
    BY TypeInvFacts, ClosedType
  <2>6. sess' \in [Session -> SessionRecord]
    BY <1>4, <2>5, TypeInvFacts DEF Recover
  <2>7. QED
    BY <2>1, <2>4, <2>6, TypeInvFacts, TypeInvNext
<1>5. ASSUME NEW s \in Session, Rehydrate(s)
      PROVE  TypeInv'
  <2>1. Opened(sess[s]) \in SessionRecord
    BY TypeInvFacts, OpenedType
  <2>2. QED
    BY <1>5, <2>1, SessionStepType DEF Rehydrate
<1>6. QED
  BY <1>1, <1>2, <1>3, <1>4, <1>5 DEF Restarting

-----------------------------------------------------------------------------
(* The first theorem.                                                      *)

\* The invariant holds in an empty queue.
LEMMA InitType == Init => TypeInv
<1> SUFFICES ASSUME Init PROVE TypeInv
  OBVIOUS
<1>1. NoRow \in Row
  BY DirAssumption, BoundsAssumption DEF NoRow, Row, Status, MaxAttempts
<1>2. NoRow.attempts = 0 /\ NoRow.redirects = 0
  BY DEF NoRow
<1>3. RowOK(NoRow, "up", 0)
  BY <1>1, <1>2 DEF RowOK
<1>4. RowsOK(task, phase, restarts)
  BY <1>1, <1>3 DEF RowsOK, Init
<1>5. sess \in [Session -> SessionRecord] /\ phase = "up" /\ restarts \in 0..MaxRestarts
      /\ calls \subseteq Call /\ cap \in Cap
  BY UnusedType, BoundsAssumption DEF Init
<1>6. QED
  BY <1>4, <1>5, TypeInvRows

\* Every step keeps the invariant.
LEMMA NextType == TypeInv /\ [Next]_vars => TypeInv'
<1> SUFFICES ASSUME TypeInv, [Next]_vars PROVE TypeInv'
  OBVIOUS
<1>1. ASSUME NEW W \in SUBSET Task, NEW d \in [W -> Dir], Create(W, d)
      PROVE  TypeInv'
  BY <1>1, CreateType
<1>2. ASSUME NEW t \in Task, RedirectQueued(t) \/ RedirectRunning(t) \/ RedirectReopen(t) \/ Cancel(t)
      PROVE  TypeInv'
  BY <1>2, RedirectQueuedType, RedirectRunningType, RedirectReopenType, CancelType
<1>3. ASSUME NEW s \in Session, NEW ingested \in BOOLEAN,
             CloseSession(s, ingested) \/ DeleteSession(s) \/ InterruptSession(s)
      PROVE  TypeInv'
  BY <1>3, CloseSessionType, DeleteSessionType, InterruptSessionType
<1>4. ASSUME NEW n \in Cap, Resize(n)
      PROVE  TypeInv'
  BY <1>4, ResizeType
<1>5. CASE Starts
  BY <1>5, StartFailsType, WorkerStartedType, WorkerContinuedType, WorkerNotResumedType DEF Starts
<1>6. ASSUME NEW s \in Session, AgentSteps(s) \/ ExitEvents(s) \/ Release(s) \/ PersistDirty(s)
      PROVE  TypeInv'
  BY <1>6, AgentStepsType, ExitEventsType, TimersType
<1>7. CASE Restarting
  BY <1>7, RestartingType
<1>8. CASE UNCHANGED vars
  BY <1>8, TypeInvFacts, PumpStepType DEF vars
<1>9. CASE Requests
  BY <1>1, <1>2, <1>3, <1>4, <1>9 DEF Requests
<1>10. QED
  BY <1>5, <1>6, <1>7, <1>8, <1>9 DEF Next

\* Type correctness, for every instance: in particular a session id of a fresh start is
\* never out of range, because attempts are accounted for.
THEOREM TypeCorrect == Spec => []TypeOK
<1>1. TypeInv => TypeOK
  BY DEF TypeInv
<1>2. QED
  BY InitType, NextType, <1>1, PTL DEF Spec

\* No worker is started that nobody asked for: a task's attempts never exceed one for the
\* task, one per redirect and one per restart of the server.
THEOREM AttemptsNeverExceedReasons == Spec => []AttemptsAccounted
<1>1. TypeInv => AttemptsAccounted
  BY DEF TypeInv
<1>2. QED
  BY InitType, NextType, <1>1, PTL DEF Spec

-----------------------------------------------------------------------------
(***************************************************************************)
(* The work queue implements the abstract board, for every value of the    *)
(* constants, and what follows from it.  The argument: every step either   *)
(* leaves statuses, folders and the setting alone, or moves rows along the *)
(* board's arrows and then pumps (StepForm); the theorems on pump() above  *)
(* do the rest.                                                            *)
(***************************************************************************)

\* What an operation does to a row before it pumps.
RowMoves(x, y) ==
    \/ y.status = x.status /\ y.cwd = x.cwd
    \/ /\ <<x.status, y.status>> \in Board!Arrow
       /\ x.status # "none" => y.cwd = x.cwd
       /\ x.status \in Settled => y.redirects = x.redirects + 1

\* A step that starts nothing and owes no pump.
QuietStep ==
    /\ \A t \in Task : task'[t].status = task[t].status /\ task'[t].cwd = task[t].cwd
    /\ cap' = cap
    /\ phase' = "up" => phase = "up"

PumpedStep ==
    \E r \in [Task -> Row] : \E S \in SUBSET Task :
        /\ \A t \in Task : RowMoves(task[t], r[t])
        /\ Picks(r, cap', S)
        /\ task' = Started(r, S)

StepForm == QuietStep \/ PumpedStep

-----------------------------------------------------------------------------
(* Every step has that form.                                               *)

\* An action that pumps rows reached by legal moves is a pumped step.
LEMMA PumpForm ==
    ASSUME NEW r \in [Task -> Row], NEW c, \A t \in Task : RowMoves(task[t], r[t]),
           Pump(r, cap', c)
    PROVE  PumpedStep
BY DEF Pump, PumpedStep, With

\* Cancelling active tasks (cancel, sessionGone) is a legal move of every row.
LEMMA CancelledMoves ==
    ASSUME TypeInv, NEW T, \A t \in T \cap Task : task[t].status \in Active
    PROVE  /\ Cancelled(task, T) \in [Task -> Row]
           /\ \A t \in Task : RowMoves(task[t], Cancelled(task, T)[t])
<1>1. Cancelled(task, T) \in [Task -> Row]
  BY TypeInvFacts, CancelledOK DEF RowsOK
<1>2. ASSUME NEW t \in Task
      PROVE  RowMoves(task[t], Cancelled(task, T)[t])
  <2>1. task[t] \in Row
    BY TypeInvFacts
  <2>2. CASE t \notin T
    BY <2>2 DEF Cancelled, RowMoves
  <2>3. CASE t \in T
    <3>1. /\ Cancelled(task, T)[t].status = "cancelled" /\ Cancelled(task, T)[t].cwd = task[t].cwd
      BY <2>1, <2>3 DEF Cancelled, Row
    <3>2. task[t].status = "queued" \/ task[t].status = "running"
      BY <2>3 DEF Active
    <3>3. QED
      BY <3>1, <3>2 DEF RowMoves, Board!Arrow, Board!Resting, Settled
  <2>4. QED
    BY <2>2, <2>3
<1>3. QED
  BY <1>1, <1>2

\* Settling the running task of a session (workerExited) is a legal move of every row.
LEMMA SettledMoves ==
    ASSUME TypeInv, NEW s, NEW done
    PROVE  /\ SettledTasks(task, s, done) \in [Task -> Row]
           /\ \A t \in Task : RowMoves(task[t], SettledTasks(task, s, done)[t])
<1> DEFINE r == SettledTasks(task, s, done)
<1>1. r \in [Task -> Row]
  BY TypeInvFacts, SettledTasksOK DEF RowsOK
<1>2. ASSUME NEW t \in Task
      PROVE  RowMoves(task[t], r[t])
  <2>1. task[t] \in Row
    BY TypeInvFacts
  <2>2. CASE ~(task[t].sid = s /\ task[t].status = "running")
    BY <2>2 DEF SettledTasks, RowMoves
  <2>3. CASE task[t].sid = s /\ task[t].status = "running"
    <3>1. r[t].status \in {"done", "error"} /\ r[t].cwd = task[t].cwd
      BY <2>1, <2>3 DEF SettledTasks, Row
    <3>2. QED
      BY <2>3, <3>1 DEF RowMoves, Board!Arrow, Board!Resting, Settled
  <2>4. QED
    BY <2>2, <2>3
<1>3. QED
  BY <1>1, <1>2

\* A row that stays as it is moves legally.
LEMMA SameRowsMove ==
    \A t \in Task : RowMoves(task[t], task[t])
BY DEF RowMoves

\* create() is a pumped step.
LEMMA CreateForm ==
    ASSUME TypeInv, NEW W \in SUBSET Task, NEW d \in [W -> Dir], Create(W, d)
    PROVE  StepForm
<1> DEFINE x(t) == [status |-> "queued", cwd |-> d[t], sid |-> NoSession, redirects |-> 0,
                    seen |-> 0, atStart |-> 0, attempts |-> 0]
           made == [t \in Task |-> IF t \in W THEN x(t) ELSE task[t]]
<1>1. \A t \in W : x(t) \in Row
  BY BoundsAssumption DEF Row, Status, Active, MaxAttempts
<1>2. made \in [Task -> Row]
  BY <1>1, TypeInvFacts
<1>3. \A t \in W : task[t].status = "none"
  BY DEF Create, With
<1>4. \A t \in Task : RowMoves(task[t], made[t])
  BY <1>3 DEF RowMoves, Board!Arrow, Settled
<1>5. Pump(made, cap', calls)
  BY DEF Create
<1> HIDE DEF made
<1>6. QED
  BY <1>2, <1>4, <1>5, PumpForm DEF StepForm

\* The three outcomes of redirect() have the form of a step; only a re-open pumps.
LEMMA RedirectForm ==
    ASSUME TypeInv, NEW t \in Task,
           RedirectQueued(t) \/ RedirectRunning(t) \/ RedirectReopen(t)
    PROVE  StepForm
<1>1. task[t] \in Row /\ task \in [Task -> Row]
  BY TypeInvFacts
<1>2. CASE RedirectQueued(t)
  BY <1>1, <1>2 DEF RedirectQueued, StepForm, QuietStep, Row
<1>3. CASE RedirectRunning(t)
  BY <1>1, <1>3 DEF RedirectRunning, StepForm, QuietStep, Row
<1>4. CASE RedirectReopen(t)
  <2> DEFINE r == [task EXCEPT ![t].status = "queued", ![t].redirects = @ + 1]
  <2>1. task[t].redirects + 1 \in 0..MaxRedirects
    BY <1>1, <1>4, BoundsAssumption DEF RedirectReopen, Row
  <2>2. r \in [Task -> Row]
    BY <1>1, <2>1 DEF Row, Status, Active
  <2>3. /\ r[t].status = "queued" /\ r[t].cwd = task[t].cwd
        /\ r[t].redirects = task[t].redirects + 1
        /\ \A u \in Task \ {t} : r[u] = task[u]
    BY <1>1 DEF Row
  <2>4. task[t].status \in {"running"} \union Settled
    BY <1>1, <1>4 DEF RedirectReopen, Row, Status, Active
  <2>5. RowMoves(task[t], r[t])
    <3>1. <<task[t].status, "queued">> \in Board!Arrow
      BY <2>4 DEF Board!Arrow, Board!Resting, Settled
    <3> HIDE DEF r
    <3>2. QED
      BY <2>3, <3>1 DEF RowMoves
  <2>6. \A u \in Task : RowMoves(task[u], r[u])
    BY <2>3, <2>5 DEF RowMoves
  <2>7. Pump(r, cap', calls)
    BY <1>4 DEF RedirectReopen
  <2> HIDE DEF r
  <2>8. QED
    BY <2>2, <2>6, <2>7, PumpForm DEF StepForm
<1>5. QED
  BY <1>2, <1>3, <1>4

\* Closing, deleting or interrupting a session has the form of a step.
LEMMA SessionRequestForm ==
    ASSUME TypeInv, NEW s \in Session, NEW ingested \in BOOLEAN,
           CloseSession(s, ingested) \/ DeleteSession(s) \/ InterruptSession(s)
    PROVE  StepForm
<1> DEFINE r == Cancelled(task, GoneTasks(s))
<1>1. \A t \in GoneTasks(s) \cap Task : task[t].status \in Active
  BY DEF GoneTasks
<1>2. r \in [Task -> Row] /\ \A t \in Task : RowMoves(task[t], r[t])
  BY <1>1, CancelledMoves
<1>3. Pump(r, cap', calls) \/ InterruptSession(s)
  BY DEF CloseSession, DeleteSession
<1>4. InterruptSession(s) => QuietStep
  BY DEF InterruptSession, QuietStep
<1> HIDE DEF r
<1>5. QED
  BY <1>2, <1>3, <1>4, PumpForm DEF StepForm

\* cancel() is a pumped step.
LEMMA CancelForm ==
    ASSUME TypeInv, NEW t \in Task, Cancel(t)
    PROVE  StepForm
<1> DEFINE r == Cancelled(task, {t})
<1>1. r \in [Task -> Row] /\ \A u \in Task : RowMoves(task[u], r[u])
  BY CancelledMoves DEF Cancel
<1>2. Pump(r, cap', calls)
  BY DEF Cancel
<1> HIDE DEF r
<1>3. QED
  BY <1>1, <1>2, PumpForm DEF StepForm

\* resize() is a pumped step under the new setting.
LEMMA ResizeForm ==
    ASSUME TypeInv, NEW n \in Cap, Resize(n)
    PROVE  StepForm
<1>1. Pump(task, cap', calls)
  BY DEF Resize
<1>2. QED
  BY <1>1, TypeInvFacts, SameRowsMove, PumpForm DEF StepForm

\* The continuation of #start has the form of a step, also when the row moved on meanwhile.
LEMMA StartsForm ==
    ASSUME TypeInv, NEW c \in calls,
           StartFails(c) \/ WorkerStarted(c) \/ WorkerContinued(c) \/ WorkerNotResumed(c)
    PROVE  StepForm
<1>1. task \in [Task -> Row] /\ c.task \in Task /\ task[c.task] \in Row
  BY TypeInvFacts, CallFacts
<1>2. CASE StartFails(c)
  <2> DEFINE r == [task EXCEPT ![c.task].status = "error"]
  <2>1. CASE task[c.task].status = "running"
    <3>1. r \in [Task -> Row]
      BY <1>1 DEF Row, Status, Settled
    <3>2. /\ r[c.task].status = "error" /\ r[c.task].cwd = task[c.task].cwd
          /\ \A u \in Task \ {c.task} : r[u] = task[u]
      BY <1>1 DEF Row
    <3>3. <<task[c.task].status, "error">> \in Board!Arrow
      BY <2>1 DEF Board!Arrow, Board!Resting
    <3>4. Pump(r, cap', calls \ {c})
      BY <1>2, <2>1 DEF StartFails
    <3> HIDE DEF r
    <3>5. \A u \in Task : RowMoves(task[u], r[u])
      BY <2>1, <3>2, <3>3 DEF RowMoves, Settled
    <3>6. QED
      BY <3>1, <3>4, <3>5, PumpForm DEF StepForm
  <2>2. CASE task[c.task].status # "running"
    BY <1>2, <2>2 DEF StartFails, StepForm, QuietStep
  <2>3. QED
    BY <2>1, <2>2
<1>3. CASE WorkerStarted(c)
  BY <1>1, <1>3 DEF WorkerStarted, StepForm, QuietStep, Row
<1>4. CASE WorkerContinued(c)
  BY <1>4 DEF WorkerContinued, StepForm, QuietStep
<1>5. CASE WorkerNotResumed(c)
  <2> DEFINE r == SettledTasks(task, c.sid, Entry(sess[c.sid]).ok)
  <2>1. r \in [Task -> Row] /\ \A u \in Task : RowMoves(task[u], r[u])
    BY SettledMoves
  <2>2. Pump(r, cap', calls \ {c}) \/ QuietStep
    BY <1>5 DEF WorkerNotResumed, QuietStep
  <2> HIDE DEF r
  <2>3. QED
    BY <2>1, <2>2, PumpForm DEF StepForm
<1>6. QED
  BY <1>2, <1>3, <1>4, <1>5

\* Agents, exit events and timers have the form of a step; only a settling exit pumps.
LEMMA SessionStepsForm ==
    ASSUME TypeInv, NEW s \in Session,
           AgentSteps(s) \/ ExitEvents(s) \/ Release(s) \/ PersistDirty(s)
    PROVE  StepForm
<1>1. CASE ExitSettles(s)
  <2> DEFINE x == sess[s]
             r == SettledTasks(task, s, ~WasInterrupted(x) /\ x.agent = "submitted" /\ x.held = "yes")
  <2>1. r \in [Task -> Row] /\ \A u \in Task : RowMoves(task[u], r[u])
    BY SettledMoves
  <2>2. Pump(r, cap', calls) \/ QuietStep
    BY <1>1 DEF ExitSettles, QuietStep
  <2> HIDE DEF r
  <2>3. QED
    BY <2>1, <2>2, PumpForm DEF StepForm
<1>2. CASE UNCHANGED <<phase, cap, task>>
  BY <1>2 DEF StepForm, QuietStep
<1>3. ~ExitSettles(s) => UNCHANGED <<phase, cap, task>>
  BY DEF AgentSteps, AgentReads, AgentExits, ExitEvents, ExitResumes, ExitNotResumed,
         AttachedExits, Release, PersistDirty
<1>4. QED
  BY <1>1, <1>2, <1>3

\* Going down and booting leave the rows alone, and recover() is a pumped step.
LEMMA RestartingForm ==
    ASSUME TypeInv, Restarting
    PROVE  StepForm
<1>1. CASE Recover
  <2> DEFINE r == [t \in Task |-> Recovered(task[t])]
  <2>1. Pump(r, cap', calls) /\ phase = "booting"
    BY <1>1 DEF Recover
  <2>2. \A t \in Task : RowOK(Recovered(task[t]), "up", restarts)
    BY <2>1, TypeInvFacts, RecoveredOK DEF RowsOK
  <2>3. r \in [Task -> Row]
    BY <2>2 DEF RowOK
  <2>4. ASSUME NEW t \in Task PROVE RowMoves(task[t], r[t])
    <3>1. task[t] \in Row
      BY TypeInvFacts
    <3>2. CASE task[t].status # "running"
      BY <3>2 DEF Recovered, RowMoves
    <3>3. CASE task[t].status = "running"
      <4>1. r[t].status = "queued" /\ r[t].cwd = task[t].cwd
        BY <3>1, <3>3 DEF Recovered, Row
      <4>2. <<task[t].status, "queued">> \in Board!Arrow
        BY <3>3 DEF Board!Arrow
      <4>3. QED
        BY <3>3, <4>1, <4>2 DEF RowMoves, Settled
    <3>4. QED
      BY <3>2, <3>3
  <2> HIDE DEF r
  <2>5. QED
    BY <2>1, <2>3, <2>4, PumpForm DEF StepForm
<1>2. CASE Restarting /\ ~Recover
  BY <1>2 DEF Restarting, StopServer, CrashServer, Boot, Rehydrate, StepForm, QuietStep
<1>3. QED
  BY <1>1, <1>2

\* Every step of the queue has the form of a step.
LEMMA NextForm == TypeInv /\ [Next]_vars => StepForm
<1> SUFFICES ASSUME TypeInv, [Next]_vars PROVE StepForm
  OBVIOUS
<1>1. CASE Requests
  BY <1>1, CreateForm, RedirectForm, CancelForm, SessionRequestForm, ResizeForm DEF Requests
<1>2. CASE Starts
  BY <1>2, StartsForm DEF Starts
<1>3. ASSUME NEW s \in Session, AgentSteps(s) \/ ExitEvents(s) \/ Release(s) \/ PersistDirty(s)
      PROVE  StepForm
  BY <1>3, SessionStepsForm
<1>4. CASE Restarting
  BY <1>4, RestartingForm
<1>5. CASE UNCHANGED vars
  BY <1>5 DEF vars, StepForm, QuietStep
<1>6. QED
  BY <1>1, <1>2, <1>3, <1>4, <1>5 DEF Next

-----------------------------------------------------------------------------
(* What the form gives.                                                    *)

\* What a pump changes of the rows: the status of the picked ones, which were queued.
LEMMA StartedFacts ==
    ASSUME NEW r \in [Task -> Row], NEW n, NEW S, Picks(r, n, S)
    PROVE  /\ \A t \in Task : /\ Started(r, S)[t].cwd = r[t].cwd
                             /\ Started(r, S)[t].redirects = r[t].redirects
                             /\ Started(r, S)[t].status = IF t \in S THEN "running" ELSE r[t].status
           /\ Running(Started(r, S)) = Running(r) \union S
           /\ With(Started(r, S), "queued") = With(r, "queued") \ S
           /\ S \subseteq Task
<1>1. S \subseteq With(r, "queued") /\ S \subseteq Task
  BY DEF Picks, With
<1>2. ASSUME NEW t \in Task
      PROVE  /\ Started(r, S)[t].cwd = r[t].cwd
             /\ Started(r, S)[t].redirects = r[t].redirects
             /\ Started(r, S)[t].status = IF t \in S THEN "running" ELSE r[t].status
  <2>1. r[t] \in Row
    OBVIOUS
  <2>2. QED
    BY <2>1 DEF Started, StartedRow, Row
<1>3. QED
  BY <1>1, <1>2 DEF With, Running

\* A task that runs after the moves ran before them, in the same folder.
LEMMA StillRunning ==
    ASSUME NEW x, NEW y, RowMoves(x, y), y.status = "running"
    PROVE  x.status = "running" /\ x.cwd = y.cwd
BY DEF RowMoves, Board!Arrow, Board!Resting

\* A step keeps the folders of running tasks disjoint: pump() looks at every running row.
LEMMA DisjointStep == RunningDisjoint /\ StepForm => RunningDisjoint'
<1> SUFFICES ASSUME RunningDisjoint, StepForm, NEW t \in Running(task'), NEW u \in Running(task'), t # u
             PROVE  ~Overlaps(task'[t].cwd, task'[u].cwd)
  BY DEF RunningDisjoint
<1>1. CASE QuietStep
  BY <1>1 DEF QuietStep, RunningDisjoint, Running, With
<1>2. CASE PumpedStep
  <2>1. PICK r \in [Task -> Row], S \in SUBSET Task :
             /\ \A v \in Task : RowMoves(task[v], r[v])
             /\ Picks(r, cap', S) /\ task' = Started(r, S)
    BY <1>2 DEF PumpedStep
  <2>2. t \in Running(r) \union S /\ u \in Running(r) \union S /\ t \in Task /\ u \in Task
        /\ task'[t].cwd = r[t].cwd /\ task'[u].cwd = r[u].cwd
    BY <2>1, StartedFacts DEF Running, With
  <2>3. CASE t \in S \/ u \in S
    BY <2>1, <2>2, <2>3, PumpDisjoint, OverlapsSymmetric
  <2>4. CASE t \in Running(r) /\ u \in Running(r)
    <3>1. r[t].status = "running" /\ r[u].status = "running"
      BY <2>4 DEF Running, With
    <3>2. /\ task[t].status = "running" /\ task[t].cwd = r[t].cwd
          /\ task[u].status = "running" /\ task[u].cwd = r[u].cwd
      BY <2>1, <2>2, <3>1, StillRunning
    <3>3. QED
      BY <2>2, <3>2 DEF RunningDisjoint, Running, With
  <2>5. QED
    BY <2>2, <2>3, <2>4
<1>3. QED
  BY <1>1, <1>2 DEF StepForm

\* Two running tasks never share a folder, for any number of tasks and any tree of folders.
THEOREM FoldersDisjoint == Spec => []RunningDisjoint
<1>1. Init => RunningDisjoint
  BY DEF Init, RunningDisjoint, Running, With, NoRow
<1>2. TypeInv /\ RunningDisjoint /\ [Next]_vars => RunningDisjoint'
  BY NextForm, DisjointStep
<1>3. QED
  BY InitType, NextType, <1>1, <1>2, PTL DEF Spec

\* A step leaves no slot idle: what frees a slot or a folder, or queues a task, pumps.
LEMMA NoIdleStep == TypeInv /\ TypeInv' /\ NoIdleSlot /\ StepForm => NoIdleSlot'
<1> SUFFICES ASSUME TypeInv, TypeInv', NoIdleSlot, StepForm, phase' = "up",
                    NEW t \in With(task', "queued")
             PROVE  \/ FreeSlots(task', cap') <= 0
                    \/ \E u \in Running(task') : Overlaps(task'[u].cwd, task'[t].cwd)
  BY DEF NoIdleSlot
<1>1. CASE QuietStep
  <2>1. Running(task') = Running(task) /\ t \in With(task, "queued") /\ phase = "up"
        /\ cap' = cap /\ \A u \in Task : task'[u].cwd = task[u].cwd
    BY <1>1 DEF QuietStep, Running, With
  <2>2. t \in Task /\ Running(task) \subseteq Task
    BY <2>1 DEF Running, With
  <2>3. \/ FreeSlots(task, cap) <= 0
        \/ \E u \in Running(task) : Overlaps(task[u].cwd, task[t].cwd)
    BY <2>1 DEF NoIdleSlot
  <2>4. QED
    BY <2>1, <2>2, <2>3 DEF FreeSlots
<1>2. CASE PumpedStep
  <2>1. PICK r \in [Task -> Row], S \in SUBSET Task :
             Picks(r, cap', S) /\ task' = Started(r, S)
    BY <1>2 DEF PumpedStep
  <2>2. cap' \in Nat
    BY DEF TypeInv, TypeOK, Cap
  <2>3. /\ Running(task') = Running(r) \union S /\ t \in With(r, "queued") \ S
        /\ \A u \in Task : task'[u].cwd = r[u].cwd
    BY <2>1, StartedFacts
  <2>4. \/ cap' <= Cardinality(Running(r) \union S)
        \/ \E u \in Running(r) \union S : Overlaps(r[u].cwd, r[t].cwd)
    BY <2>1, <2>2, <2>3, PumpLeavesNoIdleSlot
  <2>5. Cardinality(Running(r) \union S) \in Nat
    <3>1. Running(r) \union S \in SUBSET Task
      BY DEF Running, With
    <3>2. QED
      BY <3>1, TasksFinite
  <2>6. t \in Task /\ Running(r) \union S \subseteq Task
    BY <2>3 DEF Running, With
  <2>7. QED
    BY <2>2, <2>3, <2>4, <2>5, <2>6 DEF FreeSlots
<1>3. QED
  BY <1>1, <1>2 DEF StepForm

\* No slot is left idle while the server is up: no path frees a slot or a folder, raises the
\* setting or adds a task without pumping.
THEOREM NoSlotIsIdle == Spec => []NoIdleSlot
<1>1. Init => NoIdleSlot
  BY DEF Init, NoIdleSlot, With, NoRow
<1>2. TypeInv /\ TypeInv' /\ NoIdleSlot /\ [Next]_vars => NoIdleSlot'
  BY NextForm, NoIdleStep
<1>3. QED
  BY InitType, NextType, <1>1, <1>2, PTL DEF Spec

\* Only a redirect re-opens a settled task; no late exit, late start or recovery does.
THEOREM OnlyRedirectsReopen == Spec => SettledOnlyReopens
<1> DEFINE Keeps == \A t \in Task : task[t].status \in Settled /\ task'[t].status # task[t].status
                                     => task'[t].redirects = task[t].redirects + 1
<1>1. TypeInv /\ [Next]_vars => Keeps
  <2> SUFFICES ASSUME TypeInv, [Next]_vars, NEW t \in Task, task[t].status \in Settled,
                      task'[t].status # task[t].status
               PROVE  task'[t].redirects = task[t].redirects + 1
    OBVIOUS
  <2>1. StepForm
    BY NextForm
  <2>2. PumpedStep
    BY <2>1 DEF StepForm, QuietStep
  <2>3. PICK r \in [Task -> Row], S \in SUBSET Task :
             RowMoves(task[t], r[t]) /\ Picks(r, cap', S) /\ task' = Started(r, S)
    BY <2>2 DEF PumpedStep
  <2>4. /\ task'[t].redirects = r[t].redirects
        /\ task'[t].status = IF t \in S THEN "running" ELSE r[t].status
        /\ t \in S => r[t].status = "queued"
    BY <2>3, StartedFacts DEF Picks, With
  <2>5. r[t].status # task[t].status
    BY <2>4 DEF Settled
  <2>6. QED
    BY <2>3, <2>4, <2>5 DEF RowMoves
<1>2. TypeInv /\ [Next]_vars => [Keeps]_vars
  BY <1>1
<1>3. SettledOnlyReopens <=> [][Keeps]_vars
  BY DEF SettledOnlyReopens
<1> HIDE DEF Keeps
<1>4. QED
  BY InitType, NextType, <1>2, <1>3, PTL DEF Spec

-----------------------------------------------------------------------------
(* The refinement.                                                         *)

\* The board shows the same running and queued tasks as the rows.
LEMMA BoardOfFacts ==
    ASSUME NEW r
    PROVE  /\ \A t \in Task : BoardOf(r)[t].status = r[t].status /\ BoardOf(r)[t].cwd = r[t].cwd
           /\ Board!Running(BoardOf(r)) = Running(r)
           /\ \A st : Board!With(BoardOf(r), st) = With(r, st)
           /\ Running(r) \subseteq Task
BY DEF BoardOf, Running, With, Board!Running, Board!With, Board!Task, Task

\* A pump is a grant of the board.
LEMMA PumpIsGrant ==
    ASSUME NEW r \in [Task -> Row], NEW n \in Nat, NEW S, Picks(r, n, S)
    PROVE  Board!Grant(BoardOf(r), n, S)
<1> DEFINE m == BoardOf(r)
<1>1. /\ Board!Running(m) = Running(r) /\ Board!With(m, "queued") = With(r, "queued")
      /\ \A t \in Task : m[t].cwd = r[t].cwd
  BY BoardOfFacts
<1>2. S \subseteq Task /\ Running(r) \subseteq Task /\ With(r, "queued") \subseteq Task
  BY PicksSizes DEF With
<1>3. \A a, b : Board!Overlaps(a, b) <=> Overlaps(a, b)
  BY DEF Overlaps, Within, Board!Overlaps, Board!Within
<1>4. S # {} => Cardinality(Running(r) \union S) <= n
  BY PumpWithinCap
<1>5. \A t \in S : \A u \in (Running(r) \union S) \ {t} : ~Overlaps(r[u].cwd, r[t].cwd)
  BY PumpDisjoint
<1>6. \A u \in S : \A t \in With(r, "queued") \ S :
        t < u => \E v \in Running(r) \union {w \in S : w < t} : Overlaps(r[v].cwd, r[t].cwd)
  BY PumpInOrder DEF Before
<1> HIDE DEF m
<1>7. /\ S # {} => Cardinality(Board!Running(m) \union S) <= n
      /\ \A t \in S : \A u \in (Board!Running(m) \union S) \ {t} : ~Board!Overlaps(m[u].cwd, m[t].cwd)
  BY <1>1, <1>2, <1>3, <1>4, <1>5
<1>8. \A u \in S : \A t \in Board!With(m, "queued") \ S :
        t < u => \E v \in Board!Running(m) \union {w \in S : w < t} : Board!Overlaps(m[v].cwd, m[t].cwd)
  BY <1>1, <1>2, <1>3, <1>6
<1>9. Board!Grant(m, n, S)
  <2>1. \A X : Board!Cardinality(X) = Cardinality(X)
    BY Zenon DEF Board!Cardinality, Cardinality, Board!IsFiniteSet, IsFiniteSet
  <2>2. QED
    BY <1>7, <1>8, <2>1 DEF Board!Grant
<1>10. QED
  BY <1>9 DEF m

\* The rows before a pump are what the board calls Asked.
LEMMA AskedIsBefore ==
    ASSUME NEW r \in [Task -> Row], NEW n, NEW S, Picks(r, n, S)
    PROVE  Board!Asked(BoardOf(Started(r, S)), S) = BoardOf(r)
<1>1. S \subseteq With(r, "queued")
  BY DEF Picks
<1>2. ASSUME NEW t \in Task
      PROVE  Board!Asked(BoardOf(Started(r, S)), S)[t] = BoardOf(r)[t]
  <2>1. /\ Started(r, S)[t].cwd = r[t].cwd
        /\ Started(r, S)[t].status = IF t \in S THEN "running" ELSE r[t].status
    BY StartedFacts
  <2>2. CASE t \in S
    BY <1>1, <2>1, <2>2 DEF Board!Asked, BoardOf, With, Board!Task, Task
  <2>3. CASE t \notin S
    BY <2>1, <2>3 DEF Board!Asked, BoardOf, Board!Task, Task
  <2>4. QED
    BY <2>2, <2>3
<1>3. QED
  BY <1>2 DEF Board!Asked, BoardOf, Board!Task, Task

\* Every step of the queue is a step of the board, or changes nothing on it.
LEMMA BoardStep == TypeInv /\ TypeInv' /\ StepForm => [Board!Next]_<<BoardOf(task), cap>>
<1> SUFFICES ASSUME TypeInv, TypeInv', StepForm
             PROVE  [Board!Next]_<<BoardOf(task), cap>>
  OBVIOUS
<1>1. CASE QuietStep
  BY <1>1 DEF QuietStep, BoardOf
<1>2. CASE PumpedStep
  <2>1. PICK r \in [Task -> Row], S \in SUBSET Task :
             /\ \A t \in Task : RowMoves(task[t], r[t])
             /\ Picks(r, cap', S) /\ task' = Started(r, S)
    BY <1>2 DEF PumpedStep
  <2>2. cap' \in Nat /\ cap' \in 1..MaxCap
    BY DEF TypeInv, TypeOK, Cap
  <2>3. BoardOf(task)' = BoardOf(Started(r, S))
    BY <2>1 DEF BoardOf
  <2>4. Board!Asked(BoardOf(task)', S) = BoardOf(r)
    BY <2>1, <2>3, AskedIsBefore
  <2>5. Board!Grant(BoardOf(r), cap', S)
    BY <2>1, <2>2, PumpIsGrant
  <2>6. S \in SUBSET Board!Running(BoardOf(task)')
    <3>1. S \subseteq Running(Started(r, S))
      BY <2>1, StartedFacts
    <3>2. QED
      BY <2>3, <3>1, BoardOfFacts
  <2>7. \A t \in Board!Task : Board!Moves(BoardOf(task)[t], BoardOf(r)[t])
    <3>1. ASSUME NEW t \in Task
          PROVE  Board!Moves(BoardOf(task)[t], BoardOf(r)[t])
      <4>1. RowMoves(task[t], r[t])
        BY <2>1
      <4>2. /\ BoardOf(task)[t] = [status |-> task[t].status, cwd |-> task[t].cwd]
            /\ BoardOf(r)[t] = [status |-> r[t].status, cwd |-> r[t].cwd]
        BY DEF BoardOf
      <4>3. QED
        BY <4>1, <4>2 DEF RowMoves, Board!Moves
    <3>2. QED
      BY <3>1 DEF Board!Task, Task
  <2>8. Board!Next
    BY <2>2, <2>4, <2>5, <2>6, <2>7 DEF Board!Next
  <2>9. QED
    BY <2>8
<1>3. QED
  BY <1>1, <1>2 DEF StepForm

\* The detailed queue, with its workers, messages, lost sessions and restarts, implements
\* the abstract board.
THEOREM QueueImplementsBoard == Spec => ImplementsBoard
<1>1. Init => Board!Init
  BY DirAssumption DEF Init, Board!Init, BoardOf, NoRow, Cap, Board!Task, Task
<1>2. TypeInv /\ TypeInv' /\ [Next]_vars => [Board!Next]_<<BoardOf(task), cap>>
  BY NextForm, BoardStep
<1>3. QED
  BY InitType, NextType, <1>1, <1>2, PTL DEF Spec, ImplementsBoard, Board!Spec

-----------------------------------------------------------------------------
(***************************************************************************)
(* The queue and its agents, for every number of tasks, folders, settings  *)
(* and redirects: until the server goes down for the first time, and with  *)
(* workers that start at once, an agent that the server holds and that was *)
(* not told to stop works for a running task, and is the only one that the *)
(* task has. When resume files can be written, a redirect of a task that   *)
(* was redirected once has been read by the time the task is done.         *)
(* The argument follows a session through its life (SessionOK): which      *)
(* process its entry and its exit handler stand for, what the row of its   *)
(* task says meanwhile, and that an exit handler of a closed entry is      *)
(* never overtaken (Agents). It then follows a redirect from the request   *)
(* to the conversation of the agent (Heard).                               *)
(***************************************************************************)

-----------------------------------------------------------------------------
(* What the operators on sessions do to the fields that matter.            *)

\* interrupt() of a running agent signals it, and nothing else.
LEMMA InterruptedFields ==
    ASSUME NEW x \in SessionRecord
    PROVE  LET y == Interrupted(x) IN
           /\ ~AgentRunning(x) => y = x
           /\ AgentRunning(x) => y.interrupted /\ y.agent = Signalled(x.agent)
           /\ y.held = x.held /\ y.run = x.run /\ y.orphan = x.orphan /\ (y.deleted <=> x.deleted)
           /\ (y.resumed <=> x.resumed) /\ y.prompt = x.prompt /\ y.inbox = x.inbox /\ y.conv = x.conv
BY DEF Interrupted, SessionRecord

\* A message goes to the control file, and changes nothing else.
LEMMA MessagedFields ==
    ASSUME NEW x \in SessionRecord, NEW msgs
    PROVE  LET y == Messaged(x, msgs) IN
           /\ AgentRunning(x) => y.inbox = x.inbox \union msgs
           /\ ~AgentRunning(x) => y = x
           /\ y.agent = x.agent /\ y.held = x.held /\ y.run = x.run /\ y.orphan = x.orphan
           /\ (y.deleted <=> x.deleted) /\ (y.interrupted <=> x.interrupted)
           /\ (y.resumed <=> x.resumed) /\ y.prompt = x.prompt /\ y.conv = x.conv
BY DEF Messaged, SessionRecord

\* close() lets go of the entry: its own process is signalled and keeps its exit handler.
LEMMA ClosedFields ==
    ASSUME NEW x \in SessionRecord, NEW ingested, x.held = "yes"
    PROVE  LET y == Closed(x, ingested) IN
           /\ y.held = "no" /\ y.run = "none" /\ ~y.interrupted /\ (y.deleted <=> x.deleted)
           /\ y.agent = IF x.run = "own" THEN Signalled(x.agent) ELSE x.agent
           /\ y.orphan = IF x.run # "own" THEN x.orphan
                         ELSE IF x.interrupted \/ ~ingested THEN "interrupted" ELSE "plain"
           /\ (y.resumed <=> x.resumed) /\ y.prompt = x.prompt /\ y.inbox = x.inbox /\ y.conv = x.conv
<1> DEFINE z == Persisted(x)
<1>1. /\ z \in SessionRecord
      /\ z.agent = x.agent /\ z.orphan = x.orphan /\ (z.deleted <=> x.deleted) /\ (z.resumed <=> x.resumed)
      /\ z.prompt = x.prompt /\ z.inbox = x.inbox /\ z.conv = x.conv
  BY PersistedType DEF Persisted, SessionRecord
<1>2. Closed(x, ingested) =
        [z EXCEPT !.held = "no", !.run = "none",
            !.agent = IF x.run = "own" THEN Signalled(@) ELSE @,
            !.interrupted = FALSE,
            !.orphan = IF x.run # "own" THEN @
                       ELSE IF x.interrupted \/ ~ingested THEN "interrupted" ELSE "plain"]
  BY DEF Closed
<1> HIDE DEF z
<1>3. QED
  BY <1>1, <1>2 DEF SessionRecord

\* deleteHistory() does the same, and the history is gone.
LEMMA DeletedFields ==
    ASSUME NEW x \in SessionRecord
    PROVE  LET y == Deleted(x) IN
           /\ y.held = "no" /\ y.run = "none" /\ ~y.interrupted /\ y.deleted
           /\ y.agent = IF x.run = "own" THEN Signalled(x.agent) ELSE x.agent
           /\ y.orphan = IF x.run # "own" THEN x.orphan
                         ELSE IF x.interrupted THEN "interrupted" ELSE "plain"
           /\ (y.resumed <=> x.resumed) /\ y.prompt = x.prompt /\ y.inbox = x.inbox /\ y.conv = x.conv
BY DEF Deleted, SessionRecord

\* openHistory() attaches to a process that lives, else follows none.
LEMMA OpenedFields ==
    ASSUME NEW x \in SessionRecord
    PROVE  LET y == Opened(x) IN
           /\ y.held = "yes" /\ y.run = IF x.agent \in Live THEN "attached" ELSE "none"
           /\ x.agent \in Live => y.conv = x.conv
           /\ y.agent = x.agent /\ y.orphan = x.orphan /\ (y.deleted <=> x.deleted)
           /\ (y.interrupted <=> x.interrupted)
           /\ (y.resumed <=> x.resumed) /\ y.prompt = x.prompt /\ y.inbox = x.inbox
BY DEF Opened, SessionRecord

\* #resumeLocal: a new process.
LEMMA ResumedFields ==
    ASSUME NEW x \in SessionRecord, NEW msgs
    PROVE  LET y == Resumed(x, msgs) IN
           /\ y.agent = "alive" /\ y.resumed /\ y.prompt = msgs /\ y.inbox = {}
           /\ y.held = x.held /\ y.run = x.run /\ y.orphan = x.orphan /\ (y.deleted <=> x.deleted)
           /\ (y.interrupted <=> x.interrupted) /\ y.conv = x.conv
BY DEF Resumed, SessionRecord

\* send(): to the agent that runs, or to a new one.
LEMMA SentFields ==
    ASSUME NEW x \in SessionRecord, NEW msgs
    PROVE  LET y == Sent(x, msgs) IN
           /\ ~y.interrupted
           /\ y.held = x.held /\ y.orphan = x.orphan /\ (y.deleted <=> x.deleted) /\ y.conv = x.conv
           /\ AgentRunning(x) => /\ y.run = x.run /\ y.agent = x.agent /\ (y.resumed <=> x.resumed)
                                 /\ y.prompt = x.prompt /\ y.inbox = x.inbox \union msgs
           /\ ~AgentRunning(x) => /\ y.run = "own" /\ y.agent = "alive" /\ y.resumed
                                  /\ y.prompt = msgs /\ y.inbox = {}
<1> DEFINE z == [x EXCEPT !.interrupted = FALSE]
<1>1. /\ z \in SessionRecord /\ ~z.interrupted
      /\ z.agent = x.agent /\ z.held = x.held /\ z.run = x.run /\ z.orphan = x.orphan
      /\ (z.deleted <=> x.deleted)
      /\ (z.resumed <=> x.resumed) /\ z.prompt = x.prompt /\ z.inbox = x.inbox /\ z.conv = x.conv
  BY DEF SessionRecord
<1>0. AgentRunning(z) <=> AgentRunning(x)
  BY <1>1 DEF AgentRunning
<1> HIDE DEF z
<1>2. Sent(x, msgs) = IF AgentRunning(x) THEN Messaged(z, msgs)
                      ELSE [Resumed(z, msgs) EXCEPT !.run = "own"]
  BY DEF Sent, z
<1>3. CASE AgentRunning(x)
  <2> DEFINE w == Messaged(z, msgs)
  <2>1. /\ w.inbox = z.inbox \union msgs
        /\ w.agent = z.agent /\ w.held = z.held /\ w.run = z.run /\ w.orphan = z.orphan
        /\ (w.deleted <=> z.deleted) /\ (w.interrupted <=> z.interrupted)
        /\ (w.resumed <=> z.resumed) /\ w.prompt = z.prompt /\ w.conv = z.conv
    BY <1>0, <1>1, <1>3, MessagedFields
  <2>2. Sent(x, msgs) = w
    BY <1>2, <1>3
  <2> HIDE DEF w
  <2>3. QED
    BY <1>1, <1>3, <2>1, <2>2
<1>4. CASE ~AgentRunning(x)
  <2> DEFINE w == Resumed(z, msgs)
  <2>1. /\ w.agent = "alive" /\ w.resumed /\ w.prompt = msgs /\ w.inbox = {}
        /\ w.held = z.held /\ w.orphan = z.orphan /\ (w.deleted <=> z.deleted)
        /\ (w.interrupted <=> z.interrupted) /\ w.conv = z.conv
    BY <1>1, ResumedFields
  <2>2. w = [z EXCEPT !.agent = "alive", !.resumed = TRUE, !.prompt = msgs, !.inbox = {}]
    BY DEF Resumed
  <2>3. DOMAIN w = DOMAIN z /\ "run" \in DOMAIN w
    BY <1>1, <2>2 DEF SessionRecord
  <2> HIDE DEF w
  <2>4. LET y == [w EXCEPT !.run = "own"] IN
        /\ y.run = "own" /\ y.agent = w.agent /\ (y.resumed <=> w.resumed) /\ y.prompt = w.prompt
        /\ y.inbox = w.inbox /\ y.held = w.held /\ y.orphan = w.orphan /\ (y.deleted <=> w.deleted)
        /\ (y.interrupted <=> w.interrupted) /\ y.conv = w.conv
    BY <2>3
  <2>5. QED
    BY <1>1, <1>2, <1>4, <2>1, <2>4 DEF w
<1>5. QED
  BY <1>3, <1>4

\* The exit handler: of its own process, or of the entry that was closed.
LEMMA AfterExitFields ==
    ASSUME NEW x \in SessionRecord
    PROVE  LET y == AfterExit(x) IN
           /\ y.agent = "none" /\ ~y.resumed /\ y.prompt = {} /\ y.inbox = {}
           /\ ~y.interrupted
           /\ y.orphan = IF x.run = "own" THEN x.orphan ELSE "none"
           /\ y.run = IF x.run = "own" THEN "none" ELSE x.run
           /\ y.held = x.held /\ (y.deleted <=> x.deleted) /\ y.conv = x.conv
BY DEF AfterExit, SessionRecord

-----------------------------------------------------------------------------
(* The life of a session.                                                  *)

\* While the server has not gone down: the process of a session is its entry's own or has
\* the exit handler of a closed entry, and an entry that is held follows the process there
\* is.  A closed entry whose handler may resume belongs to a session that is gone, that was
\* resumed already, or whose exit is about to be handled.
Shape(x) ==
    /\ x.held # "listed"
    /\ x.run # "none" => x.held = "yes"
    /\ x.run = "own" => x.orphan = "none"
    /\ x.agent # "none" <=> x.run = "own" \/ x.orphan # "none"
    /\ x.held = "yes" /\ x.agent # "none" => x.run # "none"
    /\ x.deleted => x.held = "no"
    /\ x.orphan = "plain" => x.deleted \/ x.resumed \/ (x.held = "no" /\ x.agent \in Ended)

\* Its agent works, or a handler is to come that may make it work again.
Works(x) ==
    \/ x.run = "own" /\ ~x.interrupted
    \/ x.held = "yes" /\ x.agent = "alive"

\* Two sessions that Shape, Works and ExitPending do not tell apart.
Alike(x, y) ==
    /\ y.agent = x.agent /\ y.held = x.held /\ y.run = x.run /\ y.orphan = x.orphan
    /\ (y.deleted <=> x.deleted) /\ (y.interrupted <=> x.interrupted) /\ (y.resumed <=> x.resumed)

\* What is alike has the same shape.
LEMMA AlikeShape ==
    ASSUME NEW x, NEW y, Alike(x, y)
    PROVE  (Shape(y) <=> Shape(x)) /\ (Works(y) <=> Works(x)) /\ (ExitPending(y) <=> ExitPending(x))
BY DEF Alike, Shape, Works, ExitPending

\* A session that was never used does nothing.
LEMMA UnusedShape == Shape(Unused) /\ ~Works(Unused) /\ ~ExitPending(Unused)
BY DEF Unused, Shape, Works, ExitPending, Ended

\* A new agent works (#createLocal).
LEMMA SpawnedShape ==
    ASSUME NEW msgs
    PROVE  Shape(Spawned(msgs)) /\ ~ExitPending(Spawned(msgs))
BY DEF Spawned, Unused, Shape, ExitPending, Ended

\* An interrupted session works no more.
LEMMA InterruptedShape ==
    ASSUME NEW x \in SessionRecord, Shape(x)
    PROVE  LET y == Interrupted(x) IN
           Shape(y) /\ ~Works(y) /\ (ExitPending(y) <=> ExitPending(x))
<1> DEFINE y == Interrupted(x)
<1>1. CASE ~AgentRunning(x)
  <2>1. y = x
    BY <1>1, InterruptedFields
  <2>2. x.run = "none" \/ x.held # "yes"
    BY <1>1 DEF AgentRunning
  <2>3. ~Works(x)
    BY <2>2 DEF Shape, Works
  <2>4. QED
    BY <2>1, <2>3
<1>2. CASE AgentRunning(x)
  <2>1. /\ y.interrupted /\ y.agent = Signalled(x.agent)
        /\ y.held = x.held /\ y.run = x.run /\ y.orphan = x.orphan /\ (y.deleted <=> x.deleted)
        /\ (y.resumed <=> x.resumed)
    BY <1>2, InterruptedFields
  <2>2. Shape(y) /\ ~Works(y) /\ (ExitPending(y) <=> ExitPending(x))
    <3> HIDE DEF y
    <3> QED BY <2>1 DEF Shape, Works, ExitPending, Signalled, Ended
  <2>3. QED
    BY <2>2
<1>3. QED
  BY <1>1, <1>2

\* A message changes nothing of it.
LEMMA MessagedShape ==
    ASSUME NEW x \in SessionRecord, NEW msgs
    PROVE  Alike(x, Messaged(x, msgs))
BY MessagedFields DEF Alike

\* A closed session works no more.
LEMMA ClosedShape ==
    ASSUME NEW x \in SessionRecord, Shape(x), NEW ingested,
           ingested => x.agent = "submitted", x.held = "yes"
    PROVE  Shape(Closed(x, ingested)) /\ ~Works(Closed(x, ingested))
<1> DEFINE y == Closed(x, ingested)
<1>1. /\ y.held = "no" /\ y.run = "none" /\ ~y.interrupted /\ (y.deleted <=> x.deleted)
      /\ y.agent = IF x.run = "own" THEN Signalled(x.agent) ELSE x.agent
      /\ y.orphan = IF x.run # "own" THEN x.orphan
                    ELSE IF x.interrupted \/ ~ingested THEN "interrupted" ELSE "plain"
      /\ (y.resumed <=> x.resumed)
  BY ClosedFields
<1>2. Shape(y) /\ ~Works(y)
  <2> HIDE DEF y
  <2> QED BY <1>1 DEF Shape, Works, Signalled, Ended
<1>3. QED
  BY <1>2

\* Nor does one that was deleted.
LEMMA DeletedShape ==
    ASSUME NEW x \in SessionRecord, Shape(x)
    PROVE  Shape(Deleted(x)) /\ ~Works(Deleted(x))
<1> DEFINE y == Deleted(x)
<1>1. /\ y.held = "no" /\ y.run = "none" /\ ~y.interrupted /\ y.deleted
      /\ y.agent = IF x.run = "own" THEN Signalled(x.agent) ELSE x.agent
      /\ y.orphan = IF x.run # "own" THEN x.orphan
                    ELSE IF x.interrupted THEN "interrupted" ELSE "plain"
      /\ (y.resumed <=> x.resumed)
  BY DeletedFields
<1>2. Shape(y) /\ ~Works(y)
  <2> HIDE DEF y
  <2> QED BY <1>1 DEF Shape, Works, Signalled
<1>3. QED
  BY <1>2

\* What continueWorker finds follows the process there is, and none if there is none.
LEMMA EntryShape ==
    ASSUME NEW x \in SessionRecord, Shape(x), ~ExitPending(x), ~x.deleted
    PROVE  LET e == Entry(x) IN
           /\ Shape(e) /\ ~ExitPending(e) /\ e.held = "yes" /\ ~e.deleted
           /\ ~AgentRunning(e) => ~Works(e) /\ e.agent = "none" /\ e.run = "none"
<1> DEFINE e == Entry(x)
<1>1. CASE x.held = "yes"
  <2>1. e = x
    BY <1>1 DEF Entry
  <2>2. ~AgentRunning(x) => x.run = "none"
    BY <1>1 DEF AgentRunning
  <2>3. QED
    BY <1>1, <2>1, <2>2 DEF Shape, Works
<1>2. CASE x.held # "yes"
  <2>1. /\ e.held = "yes" /\ e.run = IF x.agent \in Live THEN "attached" ELSE "none"
        /\ e.agent = x.agent /\ e.orphan = x.orphan /\ (e.deleted <=> x.deleted)
        /\ (e.resumed <=> x.resumed)
    BY <1>2, OpenedFields DEF Entry
  <2>2. x.agent \in {"none"} \union Live \union Ended
    BY DEF SessionRecord
  <2>3. Shape(e) /\ ~ExitPending(e)
    <3> HIDE DEF e
    <3> QED BY <1>2, <2>1, <2>2 DEF Shape, ExitPending, Live, Ended
  <2>4. ~AgentRunning(e) => e.run = "none"
    BY <2>1 DEF AgentRunning
  <2>5. ~AgentRunning(e) => ~Works(e) /\ e.agent = "none"
    <3> HIDE DEF e
    <3> QED BY <2>1, <2>3, <2>4 DEF Shape, Works
  <2>6. QED
    BY <2>1, <2>3, <2>4, <2>5
<1>3. QED
  BY <1>1, <1>2

\* send() keeps it so.
LEMMA SentShape ==
    ASSUME NEW x \in SessionRecord, Shape(x), x.held = "yes", ~x.deleted, NEW msgs,
           ~ExitPending(x)
    PROVE  Shape(Sent(x, msgs)) /\ ~ExitPending(Sent(x, msgs))
<1> DEFINE y == Sent(x, msgs)
<1>1. /\ ~y.interrupted
      /\ y.held = x.held /\ y.orphan = x.orphan /\ (y.deleted <=> x.deleted)
      /\ AgentRunning(x) => y.run = x.run /\ y.agent = x.agent /\ (y.resumed <=> x.resumed)
      /\ ~AgentRunning(x) => y.run = "own" /\ y.agent = "alive" /\ y.resumed
  BY SentFields
<1>2. ~AgentRunning(x) => x.run = "none"
  BY DEF AgentRunning
<1>3. Shape(y) /\ ~ExitPending(y)
  <2> HIDE DEF y
  <2>1. CASE AgentRunning(x)
    BY <1>1, <2>1 DEF Shape, ExitPending
  <2>2. CASE ~AgentRunning(x)
    BY <1>1, <1>2, <2>2 DEF Shape, ExitPending, Ended
  <2>3. QED
    BY <2>1, <2>2
<1>4. QED
  BY <1>3

\* An exit handler that resumes does so for a task that is still at work.
LEMMA ResumedShape ==
    ASSUME NEW x \in SessionRecord, Shape(x), HasExitHandler(x), Unread(x), NEW msgs
    PROVE  LET y == Resumed(x, msgs) IN
           Shape(y) /\ ~ExitPending(y) /\ (Works(y) => Works(x))
<1> DEFINE y == Resumed(x, msgs)
<1>1. /\ y.agent = "alive" /\ y.resumed
      /\ y.held = x.held /\ y.run = x.run /\ y.orphan = x.orphan /\ (y.deleted <=> x.deleted)
      /\ (y.interrupted <=> x.interrupted)
  BY ResumedFields
<1>2. x.agent \in Ended /\ (x.run = "own" \/ x.orphan # "none")
  BY DEF HasExitHandler
<1>3. ~x.resumed /\ (x.run = "own" => ~x.interrupted) /\ (x.run # "own" => x.orphan # "interrupted")
  BY DEF Unread, WasInterrupted
<1>4. x.orphan \in {"none", "interrupted", "plain"} /\ x.run \in {"none", "own", "attached"}
  BY DEF SessionRecord
<1>5. Shape(y) /\ ~ExitPending(y) /\ (Works(y) => Works(x))
  <2> HIDE DEF y
  <2> QED BY <1>1, <1>2, <1>3, <1>4 DEF Shape, Works, ExitPending, Ended
<1>6. QED
  BY <1>5

\* A handler that does not leaves nothing behind.
LEMMA AfterExitShape ==
    ASSUME NEW x \in SessionRecord, Shape(x)
    PROVE  LET y == AfterExit(x) IN Shape(y) /\ ~Works(y) /\ ~ExitPending(y)
<1> DEFINE y == AfterExit(x)
<1>1. /\ y.agent = "none" /\ ~y.resumed /\ ~y.interrupted
      /\ y.orphan = IF x.run = "own" THEN x.orphan ELSE "none"
      /\ y.run = IF x.run = "own" THEN "none" ELSE x.run
      /\ y.held = x.held /\ (y.deleted <=> x.deleted)
  BY AfterExitFields
<1>2. Shape(y) /\ ~Works(y) /\ ~ExitPending(y)
  <2> HIDE DEF y
  <2> QED BY <1>1 DEF Shape, Works, ExitPending, Ended
<1>3. QED
  BY <1>2

-----------------------------------------------------------------------------
(* Rows, calls and sessions together.                                      *)

\* A session belongs to a task.
LEMMA SessionTask ==
    ASSUME NEW s \in Session
    PROVE  s[1] \in Task
BY DEF Session

\* A row that names a session names one of its own, and was started; a call is on its way for
\* a running task, for the session its row names or for the first one, and is its only call.
RowsCalls(r, c) ==
    /\ \A t \in Task :
         /\ r[t].sid # NoSession => r[t].sid[1] = t /\ r[t].attempts > 0
         /\ r[t].status = "none" => r[t].sid = NoSession
    /\ \A d \in c :
         /\ r[d.task].status = "running" /\ r[d.task].attempts > 0 /\ d.sid[1] = d.task
         /\ d.mode = "start" => r[d.task].sid = NoSession
         /\ d.mode # "start" => r[d.task].sid = d.sid
    /\ \A d, e \in c : d.task = e.task => d = e

\* A session that was used is the one its task's row names, and works only while the task
\* runs.  While the exit of its closed entry waits to be handled nobody continues it.
SessionOK(r, c, s, x) ==
    /\ Shape(x)
    /\ x # Unused => r[s[1]].sid = s
    /\ Works(x) => r[s[1]].status = "running"
    /\ ExitPending(x) => /\ \A d \in c : d.sid # s
                         /\ r[s[1]].status = "queued" => c = {}

OnePending(z) == \A s, w \in Session : ExitPending(z[s]) /\ ExitPending(z[w]) => s = w

Agents(r, c, z) ==
    /\ RowsCalls(r, c)
    /\ \A s \in Session : SessionOK(r, c, s, z[s])
    /\ OnePending(z)

\* The server never went down, and no start has to wait for the router.
Undisturbed == restarts = 0 /\ ~RoutedStart

AgentInv == Undisturbed => phase = "up" /\ Agents(task, calls, sess)

\* Without the router there is no slow call, so that a quiet server has none at all.
LEMMA QuietMeans ==
    ASSUME Undisturbed
    PROVE  Quiet <=> calls = {}
BY DEF Undisturbed, Quiet, Slow

\* Sessions that were not used are fine.
LEMMA UnusedOK ==
    ASSUME NEW r, NEW c, NEW s
    PROVE  SessionOK(r, c, s, Unused)
BY UnusedShape DEF SessionOK

\* A task has one session: the others that bear its name were never used.
LEMMA OnlySession ==
    ASSUME NEW r, NEW c, NEW z, Agents(r, c, z), NEW s \in Session,
           z[s] # Unused \/ r[s[1]].sid \in {s, NoSession}
    PROVE  \A w \in Session : w[1] = s[1] /\ w # s => z[w] = Unused
<1> SUFFICES ASSUME NEW w \in Session, w[1] = s[1], w # s, z[w] # Unused
             PROVE  FALSE
  OBVIOUS
<1>1. r[s[1]].sid = w
  BY DEF Agents, SessionOK
<1>2. z[s] # Unused => r[s[1]].sid = s
  BY DEF Agents, SessionOK
<1>3. QED
  BY <1>1, <1>2, SessionAssumption

\* Only sid, status and attempts of rows matter.
LEMMA RowsAlike ==
    ASSUME NEW r0, NEW c, NEW z, Agents(r0, c, z), c \subseteq Call, NEW r,
           \A t \in Task : /\ r[t].sid = r0[t].sid /\ r[t].status = r0[t].status
                           /\ r[t].attempts = r0[t].attempts
    PROVE  Agents(r, c, z)
<1>1. \A d \in c : d.task \in Task
  BY DEF Call
<1>2. RowsCalls(r, c)
  BY <1>1 DEF Agents, RowsCalls
<1>3. \A s \in Session : SessionOK(r, c, s, z[s])
  BY SessionTask DEF Agents, SessionOK
<1>4. QED
  BY <1>2, <1>3 DEF Agents

\* A step of one task and its session.
LEMMA OneSessionStep ==
    ASSUME NEW r0, NEW c0, NEW z0, Agents(r0, c0, z0), NEW s \in Session,
           \A w \in Session : w[1] = s[1] /\ w # s => z0[w] = Unused,
           NEW r, NEW c \in SUBSET c0, NEW z, RowsCalls(r, c),
           \A t \in Task : t # s[1] => r[t].sid = r0[t].sid /\ r[t].status = r0[t].status,
           \A w \in Session : w # s => z[w] = z0[w],
           SessionOK(r, c, s, z[s]),
           ExitPending(z[s]) => \A w \in Session : w # s => ~ExitPending(z0[w])
    PROVE  Agents(r, c, z)
<1>1. ASSUME NEW w \in Session
      PROVE  SessionOK(r, c, w, z[w])
  <2>1. CASE w = s
    BY <2>1
  <2>2. CASE w # s /\ w[1] = s[1]
    BY <2>2, UnusedOK
  <2>3. CASE w[1] # s[1]
    <3>1. z[w] = z0[w] /\ r[w[1]].sid = r0[w[1]].sid /\ r[w[1]].status = r0[w[1]].status
      BY <2>3, SessionTask
    <3>2. SessionOK(r0, c0, w, z0[w])
      BY DEF Agents
    <3>3. QED
      BY <3>1, <3>2 DEF SessionOK
  <2>4. QED
    BY <2>1, <2>2, <2>3
<1>2. OnePending(z)
  BY DEF Agents, OnePending
<1>3. QED
  BY <1>1, <1>2 DEF Agents

\* A change of a session that nobody can tell.
LEMMA AlikeStep ==
    ASSUME NEW r, NEW c, NEW z0, Agents(r, c, z0), NEW s \in Session, z0[s] # Unused, NEW y,
           Alike(z0[s], y), NEW z, z[s] = y, \A w \in Session : w # s => z[w] = z0[w]
    PROVE  Agents(r, c, z)
<1>1. (Shape(y) <=> Shape(z0[s])) /\ (Works(y) <=> Works(z0[s]))
      /\ (ExitPending(y) <=> ExitPending(z0[s]))
  BY AlikeShape
<1>2. SessionOK(r, c, s, z0[s])
  BY DEF Agents
<1>3. SessionOK(r, c, s, y)
  BY <1>1, <1>2 DEF SessionOK
<1>4. \A w \in Session : SessionOK(r, c, w, z[w])
  BY <1>3 DEF Agents
<1>5. OnePending(z)
  BY <1>1 DEF Agents, OnePending
<1>6. QED
  BY <1>4, <1>5 DEF Agents

\* pump() calls for the session a row names, or for a first one.
LEMMA PumpAgents ==
    ASSUME NEW r, NEW n, NEW c \in SUBSET Call, NEW p, NEW k \in 0..MaxRestarts, RowsOK(r, p, k),
           NEW z, Agents(r, c, z), Pump(r, n, c),
           \A s \in Session : ExitPending(z[s]) => r[s[1]].status # "queued"
    PROVE  Agents(task', calls', z)
<1>1. PICK S \in SUBSET With(r, "queued") :
           task' = Started(r, S) /\ calls' = c \union {CallOf(r[t], t) : t \in S}
  BY DEF Pump
<1>2. \A t \in S : t \in Task /\ r[t].status = "queued"
  BY <1>1 DEF With
<1>3. \A t \in Task : r[t] \in Row /\ r[t].attempts \in Nat
  BY BoundsAssumption DEF RowsOK, RowOK, Row, MaxAttempts
<1>4. ASSUME NEW t \in Task
      PROVE  /\ task'[t].sid = r[t].sid /\ task'[t].attempts >= r[t].attempts
             /\ t \in S => task'[t].status = "running" /\ task'[t].attempts > 0
             /\ t \notin S => task'[t] = r[t]
  <2>1. r[t] \in Row /\ r[t].attempts \in Nat
    BY <1>3
  <2>2. /\ StartedRow(r[t]).sid = r[t].sid /\ StartedRow(r[t]).attempts = r[t].attempts + 1
        /\ StartedRow(r[t]).status = "running"
    BY <2>1 DEF StartedRow, Row
  <2>3. QED
    BY <1>1, <2>1, <2>2 DEF Started
<1>5. ASSUME NEW t \in S
      PROVE  LET d == CallOf(r[t], t) IN
             /\ d.task = t /\ d.sid[1] = t
             /\ d.mode = "start" => r[t].sid = NoSession
             /\ d.mode # "start" => r[t].sid = d.sid
  <2>1. r[t].sid # NoSession => r[t].sid[1] = t /\ r[t].attempts > 0
    BY <1>2 DEF Agents, RowsCalls
  <2>2. QED
    BY <2>1 DEF CallOf
<1>6. \A d \in c : d.task \in Task /\ d.task \notin S
  BY <1>2 DEF Agents, RowsCalls, Call
<1>7. RowsCalls(task', calls')
  <2>1. ASSUME NEW t \in Task
        PROVE  /\ task'[t].sid # NoSession => task'[t].sid[1] = t /\ task'[t].attempts > 0
               /\ task'[t].status = "none" => task'[t].sid = NoSession
    BY <1>3, <1>4 DEF Agents, RowsCalls
  <2>2. ASSUME NEW d \in calls'
        PROVE  /\ task'[d.task].status = "running" /\ task'[d.task].attempts > 0
               /\ d.sid[1] = d.task
               /\ d.mode = "start" => task'[d.task].sid = NoSession
               /\ d.mode # "start" => task'[d.task].sid = d.sid
    <3>1. CASE d \in c
      BY <1>4, <1>6, <3>1 DEF Agents, RowsCalls
    <3>2. CASE d \notin c
      <4>1. PICK t \in S : d = CallOf(r[t], t)
        BY <1>1, <3>2
      <4>2. QED
        BY <1>2, <1>4, <1>5, <4>1
    <3>3. QED
      BY <3>1, <3>2
  <2>3. ASSUME NEW d \in calls', NEW e \in calls', d.task = e.task
        PROVE  d = e
    BY <1>1, <1>5, <1>6, <2>3 DEF Agents, RowsCalls
  <2>4. QED
    BY <2>1, <2>2, <2>3 DEF RowsCalls
<1>8. ASSUME NEW s \in Session
      PROVE  SessionOK(task', calls', s, z[s])
  <2>1. SessionOK(r, c, s, z[s]) /\ s[1] \in Task
    BY SessionTask DEF Agents
  <2>2. ASSUME ExitPending(z[s])
        PROVE  task'[s[1]].status # "queued" /\ \A d \in calls' : d.sid # s
    <3>1. r[s[1]].status # "queued" /\ s[1] \notin S
      BY <1>2, <2>2
    <3>2. \A t \in S : CallOf(r[t], t).sid[1] = t
      BY <1>5
    <3>3. QED
      BY <1>1, <1>4, <2>1, <2>2, <3>1, <3>2 DEF SessionOK
  <2>3. Works(z[s]) => task'[s[1]].status = "running"
    BY <1>4, <2>1 DEF SessionOK
  <2>4. z[s] # Unused => task'[s[1]].sid = s
    BY <1>4, <2>1 DEF SessionOK
  <2>5. QED
    BY <2>1, <2>2, <2>3, <2>4 DEF SessionOK
<1>9. QED
  BY <1>7, <1>8 DEF Agents

\* What a step has to show: the rows, calls and sessions before the pump.
LEMMA AgentsPumped ==
    ASSUME TypeInv, phase = "up", UNCHANGED <<phase, restarts>>,
           NEW r, NEW n, NEW c \in SUBSET Call, RowsOK(r, phase, restarts),
           Agents(r, c, sess'), Pump(r, n, c) \/ (task' = r /\ calls' = c),
           \A s \in Session : ExitPending(sess'[s]) => r[s[1]].status # "queued"
    PROVE  AgentInv'
<1>1. Agents(task', calls', sess')
  BY PumpAgents, TypeInvFacts
<1>2. QED
  BY <1>1 DEF AgentInv

-----------------------------------------------------------------------------
(* Requests.                                                               *)

\* A server that takes a request has no call on its way and no exit to handle.
LEMMA ServingFacts ==
    ASSUME Undisturbed, Serving
    PROVE  calls = {} /\ \A s \in Session : ~ExitPending(sess[s])
BY QuietMeans DEF Serving, NoExitPending

\* With no call on its way rows may change their status.
LEMMA RestingRows ==
    ASSUME NEW r0, NEW c, NEW z, Agents(r0, c, z), NEW r,
           \A t \in Task : /\ r[t].sid = r0[t].sid /\ r[t].attempts = r0[t].attempts
                           /\ r[t].status = "none" => r0[t].status = "none"
    PROVE  RowsCalls(r, {})
BY DEF Agents, RowsCalls

\* The fields of cancelled rows.
LEMMA CancelledFields ==
    ASSUME NEW r \in [Task -> Row], NEW T, NEW t \in Task
    PROVE  LET y == Cancelled(r, T)[t] IN
           /\ y.sid = r[t].sid /\ y.attempts = r[t].attempts
           /\ y.status = IF t \in T THEN "cancelled" ELSE r[t].status
<1>1. r[t] \in Row
  OBVIOUS
<1>2. [r[t] EXCEPT !.status = "cancelled"].sid = r[t].sid
      /\ [r[t] EXCEPT !.status = "cancelled"].attempts = r[t].attempts
      /\ [r[t] EXCEPT !.status = "cancelled"].status = "cancelled"
  BY <1>1 DEF Row
<1>3. QED
  BY <1>2 DEF Cancelled

\* create() makes rows without sessions.
LEMMA CreateAgents ==
    ASSUME TypeInv, Undisturbed, phase = "up", Agents(task, calls, sess),
           NEW W \in SUBSET Task, NEW d \in [W -> Dir], Create(W, d)
    PROVE  AgentInv'
<1> DEFINE x(t) == [status |-> "queued", cwd |-> d[t], sid |-> NoSession, redirects |-> 0,
                    seen |-> 0, atStart |-> 0, attempts |-> 0]
           made == [t \in Task |-> IF t \in W THEN x(t) ELSE task[t]]
<1>1. \A t \in W : x(t) \in Row
  BY BoundsAssumption DEF Row, Status, Active, MaxAttempts
<1>2. \A t \in W : RowOK(x(t), phase, restarts)
  BY <1>1, TypeInvFacts DEF RowOK
<1>3. \A t \in Task : RowOK(made[t], phase, restarts) /\ made[t] \in Row
  BY <1>2, TypeInvFacts DEF RowsOK, RowOK
<1>4. RowsOK(made, phase, restarts)
  BY <1>3 DEF RowsOK
<1>5. Pump(made, cap, calls) /\ UNCHANGED <<phase, cap, sess, restarts>> /\ Serving
      /\ \A t \in W : task[t].status = "none"
  BY DEF Create, With
<1>6. calls = {} /\ \A s \in Session : ~ExitPending(sess[s])
  BY <1>5, ServingFacts
<1>7. \A t \in W : task[t].sid = NoSession
  BY <1>5 DEF Agents, RowsCalls
<1>8. RowsCalls(made, {})
  BY <1>7 DEF Agents, RowsCalls
<1>9. ASSUME NEW s \in Session
      PROVE  SessionOK(made, {}, s, sess[s])
  <2>1. SessionOK(task, calls, s, sess[s]) /\ s[1] \in Task
    BY SessionTask DEF Agents
  <2>2. CASE s[1] \in W
    <3>1. sess[s] = Unused
      BY <1>7, <2>1, <2>2, SessionAssumption DEF SessionOK
    <3>2. QED
      BY <3>1, UnusedOK
  <2>3. CASE s[1] \notin W
    <3>1. made[s[1]] = task[s[1]]
      BY <2>1, <2>3
    <3> HIDE DEF made
    <3>2. QED
      BY <1>6, <2>1, <3>1 DEF SessionOK
  <2>4. QED
    BY <2>2, <2>3
<1> HIDE DEF made
<1>10. Agents(made, calls, sess')
  BY <1>5, <1>6, <1>8, <1>9 DEF Agents
<1>11. QED
  BY <1>4, <1>5, <1>6, <1>10, AgentsPumped, TypeInvFacts

\* redirect() of a waiting task changes nothing that matters here.
LEMMA RedirectQueuedAgents ==
    ASSUME TypeInv, Undisturbed, phase = "up", Agents(task, calls, sess),
           NEW t \in Task, RedirectQueued(t)
    PROVE  AgentInv'
<1>1. UNCHANGED <<phase, cap, calls, sess, restarts>>
      /\ task' = [task EXCEPT ![t].redirects = @ + 1]
  BY DEF RedirectQueued
<1>2. \A u \in Task : /\ task'[u].sid = task[u].sid /\ task'[u].status = task[u].status
                      /\ task'[u].attempts = task[u].attempts
  BY <1>1, TypeInvFacts DEF Row
<1>3. Agents(task', calls, sess)
  BY <1>2, RowsAlike, TypeInvFacts
<1>4. QED
  BY <1>1, <1>3 DEF AgentInv

\* Nor does the line it writes to a control file.
LEMMA RedirectRunningAgents ==
    ASSUME TypeInv, Undisturbed, phase = "up", Agents(task, calls, sess),
           NEW t \in Task, RedirectRunning(t)
    PROVE  AgentInv'
<1> DEFINE s == task[t].sid
           y == Messaged(sess[s], {task[t].redirects + 1})
<1>1. /\ UNCHANGED <<phase, cap, calls, restarts>>
      /\ task' = [task EXCEPT ![t].redirects = @ + 1, ![t].seen = task[t].redirects + 1]
      /\ sess' = [sess EXCEPT ![s] = y]
      /\ s # NoSession /\ AgentRunning(sess[s])
  BY DEF RedirectRunning, Reachable
<1>2. \A u \in Task : /\ task'[u].sid = task[u].sid /\ task'[u].status = task[u].status
                      /\ task'[u].attempts = task[u].attempts
  BY <1>1, TypeInvFacts DEF Row
<1>3. s \in Session /\ sess[s] \in SessionRecord
  BY <1>1, TypeInvFacts DEF Row
<1>4. sess[s] # Unused
  BY <1>1 DEF AgentRunning, Unused
<1>5. sess'[s] = y /\ \A w \in Session : w # s => sess'[w] = sess[w]
  BY <1>1, <1>3, TypeInvFacts
<1>6. Alike(sess[s], y)
  BY <1>3, MessagedShape
<1>7. Agents(task', calls, sess)
  BY <1>2, RowsAlike, TypeInvFacts
<1>8. Agents(task', calls, sess')
  BY <1>3, <1>4, <1>5, <1>6, <1>7, AlikeStep
<1>9. QED
  BY <1>1, <1>8 DEF AgentInv

\* Nobody works for a task that cannot be reached.
LEMMA UnreachableRests ==
    ASSUME Agents(task, calls, sess), NEW s \in Session, Works(sess[s])
    PROVE  Reachable(s[1])
<1>1. SessionOK(task, calls, s, sess[s])
  BY DEF Agents
<1>2. sess[s] # Unused
  BY UnusedShape
<1>3. task[s[1]].sid = s /\ task[s[1]].status = "running"
  BY <1>1, <1>2 DEF SessionOK
<1>4. sess[s].held = "yes" /\ sess[s].run # "none"
  BY <1>1 DEF SessionOK, Shape, Works
<1>5. QED
  BY <1>3, <1>4, SessionAssumption DEF Reachable, AgentRunning

\* redirect() re-opens only a task nobody works for.
LEMMA RedirectReopenAgents ==
    ASSUME TypeInv, Undisturbed, phase = "up", Agents(task, calls, sess),
           NEW t \in Task, RedirectReopen(t)
    PROVE  AgentInv'
<1> DEFINE x == [task[t] EXCEPT !.status = "queued", !.redirects = @ + 1]
           r == [task EXCEPT ![t].status = "queued", ![t].redirects = @ + 1]
<1>1. RowOK(task[t], phase, restarts) /\ task[t].status # "none"
      /\ task[t].redirects < MaxRedirects
  BY TypeInvFacts DEF RedirectReopen, RowsOK
<1>2. RowsOK([task EXCEPT ![t] = x], phase, restarts)
  BY <1>1, TypeInvFacts, RedirectRowOK, ReplacedRowOK
<1>3. r = [task EXCEPT ![t] = x]
  BY TypeInvFacts DEF Row
<1>4. Pump(r, cap, calls) /\ UNCHANGED <<phase, cap, sess, restarts>> /\ Serving /\ ~Reachable(t)
  BY DEF RedirectReopen
<1>5. calls = {} /\ \A s \in Session : ~ExitPending(sess[s])
  BY <1>4, ServingFacts
<1>6. \A u \in Task : /\ r[u].sid = task[u].sid /\ r[u].attempts = task[u].attempts
                      /\ u # t => r[u].status = task[u].status
                      /\ r[t].status = "queued"
  BY TypeInvFacts DEF Row
<1>7. RowsOK(r, phase, restarts)
  BY <1>2, <1>3
<1> HIDE DEF r
<1>8. RowsCalls(r, {})
  BY <1>6, RestingRows
<1>9. ASSUME NEW s \in Session
      PROVE  SessionOK(r, {}, s, sess[s])
  <2>1. SessionOK(task, calls, s, sess[s]) /\ s[1] \in Task
    BY SessionTask DEF Agents
  <2>2. Works(sess[s]) => s[1] # t
    BY <1>4, UnreachableRests
  <2>3. QED
    BY <1>5, <1>6, <2>1, <2>2 DEF SessionOK
<1>10. Agents(r, calls, sess')
  BY <1>4, <1>5, <1>8, <1>9 DEF Agents
<1>11. QED
  BY <1>4, <1>5, <1>7, <1>10, AgentsPumped, TypeInvFacts

\* What cancels the tasks of a session and leaves it without a working agent.
LEMMA CancelledAgents ==
    ASSUME TypeInv, Undisturbed, phase = "up", Agents(task, calls, sess), Serving,
           NEW s \in Session, task[s[1]].sid = s, UNCHANGED <<phase, restarts>>,
           \A w \in Session : w # s => sess'[w] = sess[w],
           Shape(sess'[s]), ~Works(sess'[s]),
           NEW T \in SUBSET {s[1]}, task[s[1]].status \in Active => T = {s[1]},
           Pump(Cancelled(task, T), cap, calls)
    PROVE  AgentInv'
<1> DEFINE t == s[1]
           r == Cancelled(task, T)
<1>1. calls = {} /\ \A w \in Session : ~ExitPending(sess[w])
  BY ServingFacts
<1>2. t \in Task /\ task \in [Task -> Row]
  BY SessionTask, TypeInvFacts
<1>3. \A u \in Task : /\ r[u].sid = task[u].sid /\ r[u].attempts = task[u].attempts
                      /\ r[u].status = IF u \in T THEN "cancelled" ELSE task[u].status
  BY <1>2, CancelledFields
<1>4. RowsOK(r, phase, restarts)
  BY TypeInvFacts, CancelledOK
<1> HIDE DEF r
<1>5. RowsCalls(r, {})
  BY <1>3, RestingRows
<1>6. r[t].sid = s /\ r[t].status # "queued"
  BY <1>2, <1>3 DEF Active
<1>7. SessionOK(r, {}, s, sess'[s])
  BY <1>6 DEF SessionOK
<1>8. \A w \in Session : w[1] = t /\ w # s => sess[w] = Unused
  BY OnlySession
<1>9. \A u \in Task : u # t => r[u].sid = task[u].sid /\ r[u].status = task[u].status
  BY <1>3
<1>10. Agents(r, {}, sess')
  <2> HIDE DEF t
  <2>1. {} \in SUBSET calls /\ Agents(task, calls, sess)
    OBVIOUS
  <2>2. QED
    BY <1>1, <1>5, <1>7, <1>8, <1>9, <2>1, OneSessionStep DEF t
<1>11. \A w \in Session : ExitPending(sess'[w]) => r[w[1]].status # "queued"
  BY <1>1, <1>6
<1>12. Pump(r, cap, calls)
  BY DEF r
<1>13. QED
  BY <1>1, <1>4, <1>10, <1>11, <1>12, AgentsPumped, TypeInvFacts

\* cancel() stops the worker of a running task.
LEMMA CancelAgents ==
    ASSUME TypeInv, Undisturbed, phase = "up", Agents(task, calls, sess),
           NEW t \in Task, Cancel(t)
    PROVE  AgentInv'
<1> DEFINE s == task[t].sid
           r == Cancelled(task, {t})
<1>1. /\ UNCHANGED <<phase, cap, restarts>> /\ Pump(r, cap, calls) /\ Serving
      /\ task[t].status \in Active
  BY DEF Cancel
<1>2. calls = {} /\ \A w \in Session : ~ExitPending(sess[w])
  BY <1>1, ServingFacts
<1>3. s # NoSession => s \in Session /\ s[1] = t
  BY TypeInvFacts DEF Row, Agents, RowsCalls
<1>4. CASE s # NoSession /\ task[t].status = "running"
  <2>1. s \in Session /\ s[1] = t /\ sess[s] \in SessionRecord
    BY <1>3, <1>4, TypeInvFacts
  <2>2. Shape(sess[s])
    BY <2>1 DEF Agents, SessionOK
  <2>3. sess'[s] = Interrupted(sess[s]) /\ \A w \in Session : w # s => sess'[w] = sess[w]
    BY <1>4, <2>1, TypeInvFacts DEF Cancel
  <2>4. Shape(sess'[s]) /\ ~Works(sess'[s])
    BY <2>1, <2>2, <2>3, InterruptedShape
  <2>5. QED
    BY <1>1, <2>1, <2>3, <2>4, CancelledAgents
<1>5. CASE s # NoSession /\ task[t].status # "running"
  <2>1. s \in Session /\ s[1] = t
    BY <1>3, <1>5
  <2>2. sess' = sess
    BY <1>5 DEF Cancel
  <2>3. Shape(sess[s]) /\ ~Works(sess[s])
    BY <1>5, <2>1 DEF Agents, SessionOK
  <2>4. QED
    BY <1>1, <2>1, <2>2, <2>3, CancelledAgents
<1>6. CASE s = NoSession
  <2>1. sess' = sess
    BY <1>6 DEF Cancel
  <2>2. \A u \in Task : /\ r[u].sid = task[u].sid /\ r[u].attempts = task[u].attempts
                        /\ r[u].status = IF u = t THEN "cancelled" ELSE task[u].status
    BY CancelledFields, TypeInvFacts
  <2>3. RowsOK(r, phase, restarts)
    BY TypeInvFacts, CancelledOK
  <2> HIDE DEF r
  <2>4. RowsCalls(r, {})
    BY <2>2, RestingRows
  <2>5. ASSUME NEW w \in Session
        PROVE  SessionOK(r, {}, w, sess[w])
    <3>1. SessionOK(task, calls, w, sess[w]) /\ w[1] \in Task
      BY SessionTask DEF Agents
    <3>2. w[1] = t => sess[w] = Unused
      BY <1>6, <3>1, SessionAssumption DEF SessionOK
    <3>3. QED
      BY <1>2, <2>2, <3>1, <3>2, UnusedOK DEF SessionOK
  <2>6. Agents(r, calls, sess')
    BY <1>2, <2>1, <2>4, <2>5 DEF Agents
  <2>7. QED
    BY <1>1, <1>2, <2>1, <2>3, <2>6, AgentsPumped, TypeInvFacts
<1>7. QED
  BY <1>4, <1>5, <1>6

\* A session that is closed or deleted takes its task out of the queue.
LEMMA CloseSessionAgents ==
    ASSUME TypeInv, Undisturbed, phase = "up", Agents(task, calls, sess),
           NEW s \in Session, NEW ingested, CloseSession(s, ingested) \/ DeleteSession(s)
    PROVE  AgentInv'
<1>1. UNCHANGED <<phase, cap, restarts>> /\ Serving
      /\ Pump(Cancelled(task, GoneTasks(s)), cap, calls)
  BY DEF CloseSession, DeleteSession
<1>2. sess[s] \in SessionRecord /\ Shape(sess[s])
  BY TypeInvFacts DEF Agents, SessionOK
<1>3. \A w \in Session : w # s => sess'[w] = sess[w]
  BY TypeInvFacts DEF CloseSession, DeleteSession
<1>4. sess[s] # Unused /\ Shape(sess'[s]) /\ ~Works(sess'[s])
  <2>1. CASE CloseSession(s, ingested)
    <3>1. /\ sess'[s] = Closed(sess[s], ingested) /\ sess[s].held = "yes"
          /\ ingested => sess[s].agent = "submitted"
      BY <2>1, TypeInvFacts DEF CloseSession
    <3>2. sess[s] # Unused
      BY <3>1 DEF Unused
    <3>3. QED
      BY <1>2, <3>1, <3>2, ClosedShape
  <2>2. CASE DeleteSession(s)
    <3>1. sess'[s] = Deleted(sess[s]) /\ sess[s] # Unused
      BY <2>2, TypeInvFacts DEF DeleteSession
    <3>2. QED
      BY <1>2, <3>1, DeletedShape
  <2>3. QED
    BY <2>1, <2>2
<1>5. task[s[1]].sid = s
  BY <1>4 DEF Agents, SessionOK
<1>6. GoneTasks(s) \in SUBSET {s[1]} /\ (task[s[1]].status \in Active => GoneTasks(s) = {s[1]})
  <2>1. ASSUME NEW t \in Task, task[t].sid = s
        PROVE  t = s[1]
    BY <2>1, SessionAssumption DEF Agents, RowsCalls
  <2>2. QED
    BY <1>5, <2>1, SessionTask DEF GoneTasks, BySession
<1>7. QED
  BY <1>1, <1>3, <1>4, <1>5, <1>6, CancelledAgents

\* A step of one session that was used, by itself.
LEMMA SessionStepAgents ==
    ASSUME Undisturbed, phase = "up", Agents(task, calls, sess), NEW s \in Session,
           UNCHANGED <<phase, task, calls, restarts>>,
           \A w \in Session : w # s => sess'[w] = sess[w],
           sess[s] # Unused, Shape(sess'[s]), Works(sess'[s]) => Works(sess[s]),
           ExitPending(sess'[s]) =>
               \/ ExitPending(sess[s])
               \/ calls = {} /\ \A w \in Session : ~ExitPending(sess[w])
    PROVE  AgentInv'
<1>1. SessionOK(task, calls, s, sess[s]) /\ OnePending(sess)
  BY DEF Agents
<1>2. SessionOK(task, calls, s, sess'[s])
  BY <1>1 DEF SessionOK
<1>3. \A w \in Session : SessionOK(task, calls, w, sess'[w])
  BY <1>2 DEF Agents
<1>4. OnePending(sess')
  BY <1>1 DEF OnePending
<1>5. Agents(task', calls', sess')
  BY <1>3, <1>4 DEF Agents
<1>6. QED
  BY <1>5 DEF AgentInv

\* The stop button stops the agent of one session.
LEMMA InterruptSessionAgents ==
    ASSUME TypeInv, Undisturbed, phase = "up", Agents(task, calls, sess),
           NEW s \in Session, InterruptSession(s)
    PROVE  AgentInv'
<1>1. UNCHANGED <<phase, task, calls, restarts>> /\ AgentRunning(sess[s])
      /\ sess'[s] = Interrupted(sess[s]) /\ \A w \in Session : w # s => sess'[w] = sess[w]
  BY TypeInvFacts DEF InterruptSession
<1>2. sess[s] \in SessionRecord /\ Shape(sess[s])
  BY TypeInvFacts DEF Agents, SessionOK
<1>3. sess[s] # Unused
  BY <1>1 DEF AgentRunning, Unused
<1>4. QED
  BY <1>1, <1>2, <1>3, InterruptedShape, SessionStepAgents

\* A new setting changes nothing of rows, calls and sessions before its pump.
LEMMA ResizeAgents ==
    ASSUME TypeInv, Undisturbed, phase = "up", Agents(task, calls, sess),
           NEW n \in Cap, Resize(n)
    PROVE  AgentInv'
<1>1. UNCHANGED <<phase, sess, restarts>> /\ Pump(task, n, calls) /\ Serving
  BY DEF Resize
<1>2. QED
  BY <1>1, ServingFacts, AgentsPumped, TypeInvFacts

-----------------------------------------------------------------------------
(* The worker host answers.                                                *)

\* What is known of a call that is answered: its task runs, its session is the task's only
\* one, and no exit of it waits to be handled.
LEMMA AnsweredFacts ==
    ASSUME TypeInv, Agents(task, calls, sess), NEW c \in calls
    PROVE  /\ c.task \in Task /\ c.sid \in Session /\ c.sid[1] = c.task
           /\ task[c.task].status = "running" /\ task[c.task].attempts > 0
           /\ task[c.task] \in Row
           /\ sess[c.sid] \in SessionRecord /\ Shape(sess[c.sid]) /\ ~ExitPending(sess[c.sid])
           /\ c.mode = "start" => task[c.task].sid = NoSession /\ sess[c.sid] = Unused
           /\ c.mode # "start" => task[c.task].sid = c.sid
           /\ \A w \in Session : w[1] = c.task /\ w # c.sid => sess[w] = Unused
<1>1. c.task \in Task /\ c.sid \in Session /\ sess[c.sid] \in SessionRecord
  BY CallFacts
<1>2. /\ task[c.task].status = "running" /\ task[c.task].attempts > 0 /\ c.sid[1] = c.task
      /\ c.mode = "start" => task[c.task].sid = NoSession
      /\ c.mode # "start" => task[c.task].sid = c.sid
  BY DEF Agents, RowsCalls
<1>3. SessionOK(task, calls, c.sid, sess[c.sid])
  BY <1>1 DEF Agents
<1>4. Shape(sess[c.sid]) /\ ~ExitPending(sess[c.sid])
  BY <1>3 DEF SessionOK
<1>5. c.mode = "start" => sess[c.sid] = Unused
  BY <1>1, <1>2, <1>3, SessionAssumption DEF SessionOK
<1>6. task[c.sid[1]].sid \in {c.sid, NoSession}
  BY <1>2
<1>7. \A w \in Session : w[1] = c.task /\ w # c.sid => sess[w] = Unused
  BY <1>1, <1>2, <1>6, OnlySession
<1>8. task[c.task] \in Row
  BY <1>1, TypeInvFacts
<1>9. QED
  BY <1>1, <1>2, <1>4, <1>5, <1>7, <1>8

\* What the rest of #start has to show.
LEMMA AnswerStep ==
    ASSUME TypeInv, Undisturbed, phase = "up", Agents(task, calls, sess), NEW c \in calls,
           UNCHANGED <<phase, restarts>>,
           NEW r, NEW n, RowsOK(r, phase, restarts),
           \A t \in Task : t # c.task => r[t] = task[t],
           r[c.task].attempts = task[c.task].attempts,
           r[c.task].status \notin {"none", "queued"},
           r[c.task].sid \in {task[c.task].sid, c.sid},
           \A w \in Session : w # c.sid => sess'[w] = sess[w],
           Shape(sess'[c.sid]), ~ExitPending(sess'[c.sid]),
           sess'[c.sid] # Unused => r[c.task].sid = c.sid,
           Works(sess'[c.sid]) => r[c.task].status = "running",
           Pump(r, n, calls \ {c}) \/ (task' = r /\ calls' = calls \ {c})
    PROVE  AgentInv'
<1> DEFINE s == c.sid
           k == calls \ {c}
<1>1. /\ c.task \in Task /\ s \in Session /\ s[1] = c.task
      /\ task[c.task].status = "running" /\ task[c.task].attempts > 0
      /\ \A w \in Session : w[1] = c.task /\ w # s => sess[w] = Unused
  BY AnsweredFacts
<1>2. k \in SUBSET Call /\ \A d \in k : d.task \in Task /\ d.task # c.task
  BY TypeInvFacts DEF Agents, RowsCalls, Call
<1>3. RowsCalls(r, k)
  <2>1. \A t \in Task : /\ r[t].sid # NoSession => r[t].sid[1] = t /\ r[t].attempts > 0
                        /\ r[t].status = "none" => r[t].sid = NoSession
    <3>1. ASSUME NEW t \in Task, t # c.task
          PROVE  /\ r[t].sid # NoSession => r[t].sid[1] = t /\ r[t].attempts > 0
                 /\ r[t].status = "none" => r[t].sid = NoSession
      BY <3>1 DEF Agents, RowsCalls
    <3>2. /\ r[c.task].sid # NoSession => r[c.task].sid[1] = c.task /\ r[c.task].attempts > 0
          /\ r[c.task].status # "none"
      BY <1>1 DEF Agents, RowsCalls
    <3>3. QED
      BY <3>1, <3>2
  <2>2. QED
    BY <1>2, <2>1 DEF Agents, RowsCalls
<1>4. SessionOK(r, k, s, sess'[s])
  BY <1>1 DEF SessionOK
<1>5. Agents(r, k, sess')
  <2> HIDE DEF s
  <2>1. k \in SUBSET calls /\ \A t \in Task : t # s[1] => r[t].sid = task[t].sid /\ r[t].status = task[t].status
    BY <1>1
  <2>2. \A w \in Session : w # s => sess'[w] = sess[w]
    BY DEF s
  <2>3. ~ExitPending(sess'[s])
    BY DEF s
  <2> HIDE DEF k
  <2>4. QED
    BY <1>1, <1>3, <1>4, <2>1, <2>2, <2>3, OneSessionStep
<1>6. ASSUME NEW w \in Session, ExitPending(sess'[w])
      PROVE  r[w[1]].status # "queued"
  <2>1. w # s /\ ExitPending(sess[w]) /\ w[1] \in Task
    BY <1>6, SessionTask
  <2>2. task[w[1]].status # "queued"
    BY <2>1 DEF Agents, SessionOK
  <2>3. QED
    BY <2>1, <2>2
<1>7. QED
  <2> HIDE DEF k
  <2>1. Pump(r, n, k) \/ (task' = r /\ calls' = k)
    BY DEF k
  <2>2. QED
    BY <1>2, <1>5, <1>6, <2>1, AgentsPumped

\* A start that fails leaves no agent at work.
LEMMA StartFailsAgents ==
    ASSUME TypeInv, Undisturbed, phase = "up", Agents(task, calls, sess),
           NEW c \in calls, StartFails(c)
    PROVE  AgentInv'
<1> DEFINE x == sess[c.sid]
           e == [task[c.task] EXCEPT !.status = "error"]
           r == [task EXCEPT ![c.task].status = "error"]
<1>1. /\ c.task \in Task /\ c.sid \in Session /\ task[c.task].status = "running"
      /\ task[c.task] \in Row /\ x \in SessionRecord /\ Shape(x) /\ ~ExitPending(x)
      /\ c.mode = "start" => x = Unused
      /\ c.mode # "start" => task[c.task].sid = c.sid
  BY AnsweredFacts
<1>2. RowOK(e, phase, restarts)
  BY CallFacts, TypeInvFacts, RestRowOK DEF Settled
<1>3. RowsOK([task EXCEPT ![c.task] = e], phase, restarts)
  BY <1>1, <1>2, TypeInvFacts, ReplacedRowOK
<1>4. r = [task EXCEPT ![c.task] = e]
  BY TypeInvFacts
<1>5. /\ e.status = "error" /\ e.attempts = task[c.task].attempts /\ e.sid = task[c.task].sid
  BY <1>1 DEF Row
<1>6. /\ \A t \in Task : t # c.task => r[t] = task[t]
      /\ r[c.task] = e
  BY <1>1, <1>4, TypeInvFacts
<1>7. /\ UNCHANGED <<phase, restarts>> /\ Pump(r, cap, calls \ {c})
      /\ c.mode = "continue" => CannotContinue(x)
      /\ sess' = IF c.mode = "continue" /\ ~x.deleted THEN [sess EXCEPT ![c.sid] = Entry(x)] ELSE sess
  BY <1>1 DEF StartFails
<1>8. c.mode \in {"start", "continue"}
  BY TypeInvFacts DEF Call
<1>9. /\ \A w \in Session : w # c.sid => sess'[w] = sess[w]
      /\ Shape(sess'[c.sid]) /\ ~ExitPending(sess'[c.sid]) /\ ~Works(sess'[c.sid])
      /\ sess'[c.sid] # Unused => task[c.task].sid = c.sid
  <2>1. CASE c.mode = "start"
    BY <1>1, <1>7, <2>1, UnusedShape
  <2>2. CASE c.mode = "continue" /\ x.deleted
    <3>1. sess' = sess
      BY <1>7, <2>2
    <3>2. ~Works(x)
      <4> HIDE DEF x
      <4> QED BY <1>1, <2>2 DEF Shape, Works
    <3>3. QED
      BY <1>1, <2>2, <3>1, <3>2
  <2>3. CASE c.mode = "continue" /\ ~x.deleted
    <3>1. sess'[c.sid] = Entry(x) /\ \A w \in Session : w # c.sid => sess'[w] = sess[w]
      BY <1>1, <1>7, <2>3, TypeInvFacts
    <3>2. ~AgentRunning(Entry(x))
      BY <1>7, <2>3 DEF CannotContinue
    <3>3. Shape(Entry(x)) /\ ~ExitPending(Entry(x)) /\ ~Works(Entry(x))
      BY <1>1, <2>3, <3>2, EntryShape
    <3>4. QED
      BY <1>1, <2>3, <3>1, <3>3
  <2>4. QED
    BY <1>8, <2>1, <2>2, <2>3
<1>10. RowsOK(r, phase, restarts)
  BY <1>3, <1>4
<1> HIDE DEF r, e, x
<1>11. QED
  BY <1>5, <1>6, <1>7, <1>9, <1>10, AnswerStep

\* A started worker is the one its row now names.
LEMMA WorkerStartedAgents ==
    ASSUME TypeInv, Undisturbed, phase = "up", Agents(task, calls, sess),
           NEW c \in calls, WorkerStarted(c)
    PROVE  AgentInv'
<1> DEFINE x == [task[c.task] EXCEPT !.sid = c.sid]
<1>1. /\ c.task \in Task /\ c.sid \in Session /\ task[c.task].status = "running"
      /\ task[c.task] \in Row
  BY AnsweredFacts
<1>2. /\ x \in Row /\ x.status = "running" /\ x.attempts = task[c.task].attempts
      /\ x.redirects = task[c.task].redirects /\ x.sid = c.sid
  BY <1>1 DEF Row
<1>3. RowOK(x, phase, restarts)
  BY <1>1, <1>2, CallFacts DEF RowOK
<1>4. RowsOK([task EXCEPT ![c.task] = x], phase, restarts)
  BY <1>1, <1>3, TypeInvFacts, ReplacedRowOK
<1>5. task' = [task EXCEPT ![c.task] = x]
  BY TypeInvFacts DEF WorkerStarted
<1>6. task'[c.task] = x /\ \A t \in Task : t # c.task => task'[t] = task[t]
  BY <1>1, <1>5, TypeInvFacts
<1>7. /\ sess'[c.sid] = Spawned(c.msgs) /\ \A w \in Session : w # c.sid => sess'[w] = sess[w]
      /\ UNCHANGED <<phase, restarts>> /\ calls' = calls \ {c}
  BY <1>1, TypeInvFacts DEF WorkerStarted, StopIfCancelled
<1>8. Shape(sess'[c.sid]) /\ ~ExitPending(sess'[c.sid])
  BY <1>7, SpawnedShape
<1>9. RowsOK(task', phase, restarts)
  BY <1>4, <1>5
<1> HIDE DEF x
<1>10. QED
  BY <1>1, <1>2, <1>6, <1>7, <1>8, <1>9, AnswerStep

\* A continued worker works for its running task.
LEMMA WorkerContinuedAgents ==
    ASSUME TypeInv, Undisturbed, phase = "up", Agents(task, calls, sess),
           NEW c \in calls, WorkerContinued(c)
    PROVE  AgentInv'
<1> DEFINE x == sess[c.sid]
           e == Entry(x)
<1>1. /\ c.task \in Task /\ c.sid \in Session /\ task[c.task].status = "running"
      /\ x \in SessionRecord /\ Shape(x) /\ ~ExitPending(x) /\ task[c.task].sid = c.sid
  BY AnsweredFacts DEF WorkerContinued
<1>2. /\ UNCHANGED <<phase, restarts>> /\ calls' = calls \ {c} /\ task' = task
      /\ ~CannotContinue(x)
      /\ sess'[c.sid] = Sent(e, c.msgs) /\ \A w \in Session : w # c.sid => sess'[w] = sess[w]
  BY <1>1, TypeInvFacts DEF WorkerContinued, StopIfCancelled
<1>3. ~x.deleted
  BY <1>2 DEF CannotContinue
<1>4. e \in SessionRecord /\ Shape(e) /\ ~ExitPending(e) /\ e.held = "yes" /\ ~e.deleted
  BY <1>1, <1>3, EntryShape, EntryType
<1>5. Shape(Sent(e, c.msgs)) /\ ~ExitPending(Sent(e, c.msgs))
  BY <1>4, SentShape
<1>6. RowsOK(task, phase, restarts)
  BY TypeInvFacts
<1> HIDE DEF e, x
<1>7. QED
  BY <1>1, <1>2, <1>5, <1>6, AnswerStep

\* The tasks that an exit settles: the one of its session, if it runs.
LEMMA SettledFields ==
    ASSUME NEW r \in [Task -> Row], NEW s, NEW done, NEW t \in Task
    PROVE  LET y == SettledTasks(r, s, done)[t] IN
           /\ y.sid = r[t].sid /\ y.attempts = r[t].attempts
           /\ r[t].sid = s /\ r[t].status = "running" => y.status \in {"done", "error"}
           /\ ~(r[t].sid = s /\ r[t].status = "running") => y = r[t]
<1>1. r[t] \in Row
  OBVIOUS
<1>2. \A b \in {"done", "error"} :
        /\ [r[t] EXCEPT !.status = b].sid = r[t].sid
        /\ [r[t] EXCEPT !.status = b].attempts = r[t].attempts
        /\ [r[t] EXCEPT !.status = b].status = b
  BY <1>1 DEF Row
<1>3. QED
  BY <1>2 DEF SettledTasks

\* Without its resume file no agent runs, and its task settles.
LEMMA WorkerNotResumedAgents ==
    ASSUME TypeInv, Undisturbed, phase = "up", Agents(task, calls, sess),
           NEW c \in calls, WorkerNotResumed(c)
    PROVE  AgentInv'
<1> DEFINE x == sess[c.sid]
           e == Entry(x)
           y == [e EXCEPT !.interrupted = FALSE]
           r == SettledTasks(task, c.sid, e.ok)
<1>1. /\ c.task \in Task /\ c.sid \in Session /\ task[c.task].status = "running"
      /\ x \in SessionRecord /\ Shape(x) /\ ~ExitPending(x) /\ task[c.task].sid = c.sid
      /\ c.sid[1] = c.task
  BY AnsweredFacts DEF WorkerNotResumed
<1>2. /\ UNCHANGED <<phase, restarts>> /\ Pump(r, cap, calls \ {c})
      /\ ~CannotContinue(x) /\ ~AgentRunning(e)
      /\ sess'[c.sid] = y /\ \A w \in Session : w # c.sid => sess'[w] = sess[w]
  BY <1>1, TypeInvFacts DEF WorkerNotResumed, StopIfCancelled
<1>3. ~x.deleted
  BY <1>2 DEF CannotContinue
<1>4. e \in SessionRecord /\ Shape(e) /\ ~ExitPending(e) /\ e.agent = "none" /\ e.run = "none"
  BY <1>1, <1>2, <1>3, EntryShape, EntryType
<1>5. /\ y.agent = e.agent /\ y.held = e.held /\ y.run = e.run /\ y.orphan = e.orphan
      /\ (y.deleted <=> e.deleted) /\ (y.resumed <=> e.resumed)
  <2> HIDE DEF e
  <2> QED BY <1>4 DEF SessionRecord
<1>6. Shape(y) /\ ~ExitPending(y) /\ ~Works(y)
  <2> HIDE DEF e, y
  <2> QED BY <1>4, <1>5 DEF Shape, ExitPending, Works
<1>7. ASSUME NEW t \in Task, t # c.task
      PROVE  r[t] = task[t]
  <2>1. task[t].sid # c.sid
    BY <1>1, <1>7, SessionAssumption DEF Agents, RowsCalls
  <2>2. QED
    BY <2>1, SettledFields, TypeInvFacts
<1>8. /\ r[c.task].attempts = task[c.task].attempts /\ r[c.task].sid = c.sid
      /\ r[c.task].status \in {"done", "error"}
  BY <1>1, SettledFields, TypeInvFacts
<1>9. RowsOK(r, phase, restarts)
  BY TypeInvFacts, SettledTasksOK
<1> HIDE DEF r, y, e, x
<1>10. QED
  BY <1>1, <1>2, <1>6, <1>7, <1>8, <1>9, AnswerStep

-----------------------------------------------------------------------------
(* Agents, their exits and the timers.                                     *)

\* An agent reads its messages, or ends.
LEMMA AgentStepsAgents ==
    ASSUME TypeInv, Undisturbed, phase = "up", Agents(task, calls, sess),
           NEW s \in Session, AgentSteps(s)
    PROVE  AgentInv'
<1> DEFINE x == sess[s]
<1>1. x \in SessionRecord /\ Shape(x)
  BY TypeInvFacts DEF Agents, SessionOK
<1>2. UNCHANGED <<phase, task, calls, restarts>>
      /\ \A w \in Session : w # s => sess'[w] = sess[w]
  BY TypeInvFacts DEF AgentSteps, AgentReads, AgentExits
<1>3. x # Unused
  BY DEF AgentSteps, AgentReads, AgentExits, Unused, Live
<1>4. CASE AgentReads(s)
  <2> DEFINE y == [x EXCEPT !.conv = @ \union x.prompt \union x.inbox, !.prompt = {}, !.inbox = {}]
  <2>1. sess'[s] = y
    BY <1>4, TypeInvFacts DEF AgentReads
  <2>2. Alike(x, y)
    <3> HIDE DEF x
    <3> QED BY <1>1 DEF SessionRecord, Alike
  <2>3. Shape(y) /\ (Works(y) => Works(x)) /\ (ExitPending(y) => ExitPending(x))
    BY <1>1, <2>2, AlikeShape
  <2> HIDE DEF y
  <2>4. QED
    BY <1>2, <1>3, <2>1, <2>3, SessionStepAgents
<1>5. ASSUME NEW how \in Ended, AgentExits(s, how)
      PROVE  AgentInv'
  <2> DEFINE y == [x EXCEPT !.agent = how]
  <2>1. x.agent \in Live /\ (x.orphan # "none" => Quiet /\ NoExitPending)
    BY <1>5 DEF AgentExits
  <2>2. x.run # "none" \/ x.orphan # "none"
    BY <1>1, <2>1 DEF Shape, Live
  <2>3. sess'[s] = y
    BY <1>5, <2>2, TypeInvFacts DEF AgentExits
  <2>4. /\ y.agent = how /\ y.held = x.held /\ y.run = x.run /\ y.orphan = x.orphan
        /\ (y.deleted <=> x.deleted) /\ (y.interrupted <=> x.interrupted)
        /\ (y.resumed <=> x.resumed)
    <3> HIDE DEF x
    <3> QED BY <1>1 DEF SessionRecord
  <2>5. Shape(y) /\ (Works(y) => Works(x)) /\ (ExitPending(y) => x.orphan # "none")
    <3> HIDE DEF x, y
    <3> QED BY <1>1, <2>1, <2>4 DEF Shape, Works, ExitPending, Live, Ended
  <2>6. x.orphan # "none" => calls = {} /\ \A w \in Session : ~ExitPending(sess[w])
    BY <2>1, QuietMeans DEF NoExitPending
  <2> HIDE DEF y
  <2>7. QED
    BY <1>2, <1>3, <2>3, <2>5, <2>6, SessionStepAgents
<1>6. QED
  BY <1>4, <1>5 DEF AgentSteps

\* What is known when an exit is handled: no call is on its way, and no other exit of a
\* closed entry waits.
LEMMA HandledFacts ==
    ASSUME TypeInv, Undisturbed, Agents(task, calls, sess), NEW s \in Session, Handles(s)
    PROVE  /\ calls = {} /\ sess[s] \in SessionRecord /\ Shape(sess[s]) /\ sess[s] # Unused
           /\ task[s[1]].sid = s /\ HasExitHandler(sess[s])
           /\ \A w \in Session : w # s => ~ExitPending(sess[w])
<1>1. HasExitHandler(sess[s]) /\ Quiet /\ (NoExitPending \/ ExitPending(sess[s]))
  BY DEF Handles
<1>2. sess[s] # Unused
  BY <1>1 DEF HasExitHandler, Unused, Ended
<1>3. SessionOK(task, calls, s, sess[s]) /\ OnePending(sess)
  BY DEF Agents
<1>4. QED
  BY <1>1, <1>2, <1>3, TypeInvFacts, QuietMeans DEF NoExitPending, SessionOK, OnePending

\* The exit handler settles the task of its session, if it runs.
LEMMA ExitSettlesAgents ==
    ASSUME TypeInv, Undisturbed, phase = "up", Agents(task, calls, sess),
           NEW s \in Session, ExitSettles(s)
    PROVE  AgentInv'
<1> DEFINE x == sess[s]
           ok == x.agent = "submitted" \/ (x.agent = "crashed" /\ x.ok)
           done == ~WasInterrupted(x) /\ x.agent = "submitted" /\ x.held = "yes"
           waits == \E t \in BySession(task, s) : task[t].status = "queued"
           z == AfterExit(x)
           y == [z EXCEPT !.ok = ok, !.row = IF x.conv = {} \/ x.deleted THEN @ ELSE x.conv,
                          !.releasing = @ \/ (BySession(task, s) # {} /\ ~waits)]
           r == SettledTasks(task, s, done)
<1>1. /\ calls = {} /\ x \in SessionRecord /\ Shape(x) /\ x # Unused /\ task[s[1]].sid = s
      /\ \A w \in Session : w # s => ~ExitPending(sess[w])
  BY HandledFacts DEF ExitSettles
<1>2. z \in SessionRecord /\ Shape(z) /\ ~Works(z) /\ ~ExitPending(z)
  BY <1>1, AfterExitType, AfterExitShape
<1>3. Alike(z, y)
  <2> HIDE DEF z, ok, waits, x
  <2> QED BY <1>2 DEF SessionRecord, Alike
<1>4. Shape(y) /\ ~Works(y) /\ ~ExitPending(y)
  BY <1>2, <1>3, AlikeShape
<1>5. sess'[s] = y /\ \A w \in Session : w # s => sess'[w] = sess[w]
  BY TypeInvFacts DEF ExitSettles
<1>6. UNCHANGED <<phase, cap, restarts>>
      /\ (Pump(r, cap, calls) \/ UNCHANGED <<task, calls>>)
  BY DEF ExitSettles
<1> HIDE DEF y
<1>7. CASE UNCHANGED <<task, calls>>
  BY <1>1, <1>4, <1>5, <1>6, <1>7, SessionStepAgents
<1>8. CASE Pump(r, cap, calls)
  <2>1. \A t \in Task : /\ r[t].sid = task[t].sid /\ r[t].attempts = task[t].attempts
                        /\ task[t].sid # s => r[t] = task[t]
                        /\ r[t].status = "none" => task[t].status = "none"
    BY SettledFields, TypeInvFacts
  <2>2. \A t \in Task : t # s[1] => r[t] = task[t]
    BY <2>1, SessionAssumption DEF Agents, RowsCalls
  <2>3. RowsOK(r, phase, restarts)
    BY TypeInvFacts, SettledTasksOK
  <2> HIDE DEF r
  <2>4. RowsCalls(r, {})
    BY <2>1, RestingRows
  <2>5. s[1] \in Task
    BY SessionTask
  <2>6. SessionOK(r, {}, s, sess'[s])
    BY <1>1, <1>4, <1>5, <2>1, <2>5 DEF SessionOK
  <2>7. \A w \in Session : w[1] = s[1] /\ w # s => sess[w] = Unused
    BY <1>1, OnlySession
  <2>8. {} \in SUBSET calls /\ \A t \in Task : t # s[1] => r[t].sid = task[t].sid /\ r[t].status = task[t].status
    BY <2>2
  <2>9. ~ExitPending(sess'[s])
    BY <1>4, <1>5
  <2>10. Agents(r, {}, sess')
    BY <1>5, <2>4, <2>6, <2>7, <2>8, <2>9, OneSessionStep
  <2>11. \A w \in Session : ~ExitPending(sess'[w])
    BY <1>1, <1>5, <2>9
  <2>12. QED
    BY <1>1, <1>6, <1>8, <2>3, <2>10, <2>11, AgentsPumped, TypeInvFacts
<1>9. QED
  BY <1>6, <1>7, <1>8

\* Exit handlers: a session goes on only for a task at work.
LEMMA ExitEventsAgents ==
    ASSUME TypeInv, Undisturbed, phase = "up", Agents(task, calls, sess),
           NEW s \in Session, ExitEvents(s)
    PROVE  AgentInv'
<1> DEFINE x == sess[s]
<1>1. x \in SessionRecord /\ Shape(x)
  BY TypeInvFacts DEF Agents, SessionOK
<1>2. CASE ExitResumes(s)
  <2>1. /\ x # Unused /\ HasExitHandler(x) /\ Unread(x)
    BY <1>2, HandledFacts DEF ExitResumes
  <2>2. /\ UNCHANGED <<phase, task, calls, restarts>>
        /\ sess'[s] = Resumed(x, x.inbox) /\ \A w \in Session : w # s => sess'[w] = sess[w]
    BY <1>2, TypeInvFacts DEF ExitResumes
  <2>3. /\ Shape(sess'[s]) /\ ~ExitPending(sess'[s]) /\ (Works(sess'[s]) => Works(x))
    BY <1>1, <2>1, <2>2, ResumedShape
  <2>4. QED
    BY <2>1, <2>2, <2>3, SessionStepAgents
<1>3. CASE ExitNotResumed(s)
  <2>1. x # Unused
    BY <1>3, HandledFacts DEF ExitNotResumed
  <2>2. /\ UNCHANGED <<phase, task, calls, restarts>>
        /\ sess'[s] = AfterExit(x) /\ \A w \in Session : w # s => sess'[w] = sess[w]
    BY <1>3, TypeInvFacts DEF ExitNotResumed
  <2>3. Shape(sess'[s]) /\ ~ExitPending(sess'[s]) /\ ~Works(sess'[s])
    BY <1>1, <2>2, AfterExitShape
  <2>4. QED
    BY <2>1, <2>2, <2>3, SessionStepAgents
<1>4. CASE ExitSettles(s)
  BY <1>4, ExitSettlesAgents
<1>5. CASE AttachedExits(s)
  <2> DEFINE y == [x EXCEPT !.run = "none",
                            !.ok = x.agent = "submitted" \/ (x.agent # "quit" /\ x.ok),
                            !.agent = IF x.orphan = "none" THEN "none" ELSE @]
  <2>1. /\ x.run = "attached" /\ x.agent \notin Live /\ Serving
        /\ UNCHANGED <<phase, task, calls, restarts>>
        /\ sess'[s] = y /\ \A w \in Session : w # s => sess'[w] = sess[w]
    BY <1>5, TypeInvFacts DEF AttachedExits
  <2>2. ~ExitPending(x)
    BY <2>1, ServingFacts
  <2>3. x.orphan = "none"
    <3> HIDE DEF x
    <3> QED BY <1>1, <2>1, <2>2 DEF Shape, ExitPending, SessionRecord
  <2>4. /\ y.agent = "none" /\ y.held = x.held /\ y.run = "none" /\ y.orphan = "none"
        /\ (y.deleted <=> x.deleted)
    <3> HIDE DEF x
    <3> QED BY <1>1, <2>3 DEF SessionRecord
  <2>5. Shape(y) /\ ~Works(y) /\ ~ExitPending(y) /\ x # Unused
    <3> HIDE DEF x, y
    <3> QED BY <1>1, <2>1, <2>4 DEF Shape, Works, ExitPending, Unused
  <2> HIDE DEF y
  <2>6. QED
    BY <2>1, <2>5, SessionStepAgents
<1>6. QED
  BY <1>2, <1>3, <1>4, <1>5 DEF ExitEvents

\* The release timer closes only what is at rest, and a save changes nothing here.
LEMMA TimersAgents ==
    ASSUME TypeInv, Undisturbed, phase = "up", Agents(task, calls, sess),
           NEW s \in Session, Release(s) \/ PersistDirty(s)
    PROVE  AgentInv'
<1> DEFINE x == sess[s]
<1>1. x \in SessionRecord /\ Shape(x)
  BY TypeInvFacts DEF Agents, SessionOK
<1>2. /\ UNCHANGED <<phase, task, calls, restarts>> /\ Serving
      /\ \A w \in Session : w # s => sess'[w] = sess[w]
  BY TypeInvFacts DEF Release, PersistDirty
<1>3. calls = {} /\ \A w \in Session : ~ExitPending(sess[w])
  BY <1>2, ServingFacts
<1>4. CASE PersistDirty(s)
  <2> DEFINE y == Persisted(x)
  <2>1. sess'[s] = y /\ x.held = "yes"
    BY <1>4, TypeInvFacts DEF PersistDirty
  <2>2. Alike(x, y) /\ x # Unused
    <3> HIDE DEF x
    <3> QED BY <1>1, <2>1 DEF Persisted, SessionRecord, Alike, Unused
  <2>3. Shape(y) /\ (Works(y) => Works(x))
    BY <1>1, <2>2, AlikeShape
  <2> HIDE DEF y
  <2>4. QED
    BY <1>2, <1>3, <2>1, <2>2, <2>3, SessionStepAgents
<1>5. CASE Release(s)
  <2> DEFINE z == Closed(x, FALSE)
  <2>1. x.releasing
    BY <1>5 DEF Release
  <2>2. x # Unused
    BY <2>1 DEF Unused
  <2>3. \/ sess'[s] = [z EXCEPT !.releasing = FALSE]
        \/ sess'[s] = [x EXCEPT !.releasing = FALSE]
    BY <1>5, TypeInvFacts DEF Release
  <2>4. z \in SessionRecord /\ Shape(z) /\ (Works(z) => Works(x))
    <3>1. CASE x.held = "yes"
      BY <1>1, <3>1, ClosedShape, ClosedType
    <3>2. CASE x.held # "yes"
      BY <1>1, <3>2 DEF Closed
    <3>3. QED
      BY <3>1, <3>2
  <2>5. \A k \in SessionRecord : Alike(k, [k EXCEPT !.releasing = FALSE])
    BY DEF SessionRecord, Alike
  <2>6. Shape(sess'[s]) /\ (Works(sess'[s]) => Works(x))
    <3> HIDE DEF z
    <3> QED BY <1>1, <2>3, <2>4, <2>5, AlikeShape
  <2>7. QED
    BY <1>2, <1>3, <2>2, <2>6, SessionStepAgents
<1>6. QED
  BY <1>4, <1>5

-----------------------------------------------------------------------------
(* The invariant.                                                          *)

\* It holds when the server first starts.
LEMMA InitAgents == Init => AgentInv
<1> SUFFICES ASSUME Init PROVE AgentInv
  OBVIOUS
<1>1. phase = "up" /\ task = [t \in Task |-> NoRow] /\ calls = {} /\ sess = [s \in Session |-> Unused]
  BY DEF Init
<1>2. \A t \in Task : task[t].sid = NoSession
  BY <1>1 DEF NoRow
<1>3. RowsCalls(task, calls)
  BY <1>1, <1>2 DEF RowsCalls
<1>4. \A s \in Session : SessionOK(task, calls, s, sess[s])
  BY <1>1, UnusedOK
<1>5. OnePending(sess)
  BY <1>1, UnusedShape DEF OnePending
<1>6. QED
  BY <1>1, <1>3, <1>4, <1>5 DEF AgentInv, Agents

\* As long as nothing disturbs it, what steps is the running server.
LEMMA UndisturbedStep ==
    ASSUME TypeInv, AgentInv, [Next]_vars, Undisturbed'
    PROVE  /\ Undisturbed /\ phase = "up" /\ Agents(task, calls, sess)
           /\ \/ UNCHANGED vars
              \/ Requests
              \/ Starts
              \/ \E s \in Session : AgentSteps(s) \/ ExitEvents(s) \/ Release(s) \/ PersistDirty(s)
<1>1. CASE UNCHANGED vars
  BY <1>1 DEF vars, AgentInv, Undisturbed
<1>2. CASE Restarting
  <2>1. restarts \in Nat /\ (phase # "up" => restarts >= 1)
    BY TypeInvFacts
  <2>2. CASE StopServer \/ CrashServer
    BY <2>1, <2>2 DEF StopServer, CrashServer, Undisturbed
  <2>3. CASE Boot \/ Recover \/ \E s \in Session : Rehydrate(s)
    <3>1. phase # "up" /\ restarts' = restarts
      BY <2>3 DEF Boot, Recover, Rehydrate
    <3>2. QED
      BY <2>1, <3>1 DEF Undisturbed
  <2>4. QED
    BY <1>2, <2>2, <2>3 DEF Restarting
<1>3. ASSUME Next, ~Restarting
      PROVE  restarts' = restarts
  <2>1. CASE Requests
    BY <2>1 DEF Requests, Create, RedirectQueued, RedirectRunning, RedirectReopen, Cancel,
       CloseSession, DeleteSession, InterruptSession, Resize
  <2>2. CASE Starts
    BY <2>2 DEF Starts, StartFails, WorkerStarted, WorkerContinued, WorkerNotResumed
  <2>3. ASSUME NEW s \in Session, AgentSteps(s) \/ ExitEvents(s) \/ Release(s) \/ PersistDirty(s)
        PROVE  restarts' = restarts
    <3>1. CASE AgentSteps(s)
      BY <3>1 DEF AgentSteps, AgentReads, AgentExits
    <3>2. CASE ExitEvents(s)
      BY <3>2 DEF ExitEvents, ExitResumes, ExitNotResumed, ExitSettles, AttachedExits
    <3>3. CASE Release(s) \/ PersistDirty(s)
      BY <3>3 DEF Release, PersistDirty
    <3>4. QED
      BY <2>3, <3>1, <3>2, <3>3
  <2>4. QED
    BY <1>3, <2>1, <2>2, <2>3 DEF Next
<1>4. CASE Next /\ ~Restarting
  BY <1>3, <1>4 DEF Undisturbed, AgentInv, Next
<1>5. QED
  BY <1>1, <1>2, <1>4

\* Every step keeps it.
LEMMA NextAgents == TypeInv /\ AgentInv /\ [Next]_vars => AgentInv'
<1> SUFFICES ASSUME TypeInv, AgentInv, [Next]_vars, Undisturbed'
             PROVE  AgentInv'
  BY DEF AgentInv
<1>1. Undisturbed /\ phase = "up" /\ Agents(task, calls, sess)
  BY UndisturbedStep
<1>2. CASE UNCHANGED vars
  BY <1>2 DEF vars, AgentInv, Undisturbed
<1>3. CASE Requests
  BY <1>1, <1>3, CreateAgents, RedirectQueuedAgents, RedirectRunningAgents,
     RedirectReopenAgents, CancelAgents, CloseSessionAgents, InterruptSessionAgents,
     ResizeAgents DEF Requests
<1>4. CASE Starts
  BY <1>1, <1>4, StartFailsAgents, WorkerStartedAgents, WorkerContinuedAgents,
     WorkerNotResumedAgents DEF Starts
<1>5. CASE \E s \in Session : AgentSteps(s) \/ ExitEvents(s) \/ Release(s) \/ PersistDirty(s)
  BY <1>1, <1>5, AgentStepsAgents, ExitEventsAgents, TimersAgents
<1>6. QED
  BY <1>2, <1>3, <1>4, <1>5, UndisturbedStep

\* While the server runs for the first time and no start waits for the router, an agent of
\* a session it holds that was not told to stop works for a running task, the one whose row
\* names it: no cancel, close, re-open, late exit or failed start leaves an agent at work
\* for nobody (workQueue.ts #start, sessions.ts #createLocal's exit handler).
THEOREM HeldAgentsWork == Spec => [](Undisturbed => HeldAgentWorks)
<1>1. AgentInv => (Undisturbed => HeldAgentWorks)
  <2> SUFFICES ASSUME AgentInv, Undisturbed, NEW s \in Session,
                      sess[s].held = "yes", sess[s].agent = "alive"
               PROVE  task[s[1]].sid = s /\ task[s[1]].status = "running"
    BY DEF HeldAgentWorks
  <2>1. sess[s] # Unused /\ Works(sess[s])
    BY DEF Unused, Works
  <2>2. QED
    BY <2>1 DEF AgentInv, Agents, SessionOK
<1>2. QED
  BY InitType, NextType, InitAgents, NextAgents, <1>1, PTL DEF Spec

\* Until then "a burst of pumps never starts one twice" is also true of the agents: a task has
\* one agent at a time.  A restart, or a start that waits for the router, breaks it (the run
\* started_twice).
THEOREM AgentsNeverStartedTwice == Spec => [](Undisturbed => OneAgentPerTask)
<1>1. AgentInv => (Undisturbed => OneAgentPerTask)
  <2> SUFFICES ASSUME AgentInv, Undisturbed, NEW s \in Session, NEW z \in Session,
                      s[1] = z[1], sess[s].agent = "alive", sess[z].agent = "alive"
               PROVE  s = z
    BY DEF OneAgentPerTask
  <2>1. sess[s] # Unused /\ sess[z] # Unused
    BY DEF Unused
  <2>2. QED
    BY <2>1 DEF AgentInv, Agents, SessionOK
<1>2. QED
  BY InitType, NextType, InitAgents, NextAgents, <1>1, PTL DEF Spec

-----------------------------------------------------------------------------
(* Where a redirect is.                                                    *)

\* A process that ended with a submission had read its command line, and without a process
\* nothing is resumed.
Argv(x) == /\ x.agent = "submitted" => x.prompt = {} /\ x.conv # {}
           /\ x.agent = "none" => ~x.resumed

\* A task that was never redirected: its row waits only for the first start, and its agent
\* has no message but its brief.
NotRedirected(x, y) ==
    /\ x.seen = 0
    /\ x.sid # NoSession => x.status # "queued" /\ y.inbox = {} /\ ~y.resumed

\* A task that was redirected once: the redirect is with the call on its way or somewhere
\* with the agent, an agent that does not look at its control file any more has it, and a
\* task that is done has read it.
RedirectedOnce(x, y, called) ==
    /\ x.sid # NoSession => /\ x.status = "queued" => x.seen = 0
                            /\ y.inbox \subseteq {1}
                            /\ y.resumed => 1 \in y.conv \union y.prompt
    /\ x.status = "running" =>
          called \/ (x.sid # NoSession /\ 1 \in y.conv \union y.prompt \union y.inbox)
    /\ x.status = "done" => x.sid # NoSession /\ 1 \in y.conv

RowHeard(x, y, called) ==
    /\ x.redirects = 0 => NotRedirected(x, y)
    /\ x.redirects = 1 => RedirectedOnce(x, y, called)

\* A call takes the redirect with it.
CallHeard(d, x) ==
    /\ x.redirects = 0 => d.mode = "start"
    /\ x.redirects = 1 => 1 \in d.msgs /\ (d.mode # "start" => d.msgs = {1})

Called(c, t) == \E d \in c : d.task = t

Heard(r, c, z) ==
    /\ \A t \in Task : RowHeard(r[t], z[r[t].sid], Called(c, t))
    /\ \A d \in c : CallHeard(d, r[d.task])
    /\ \A s \in Session : Argv(z[s])

HeardInv == Undisturbed /\ ~DiskFaults => Heard(task, calls, sess)

\* A row without a session is judged by itself.
LEMMA NoSessionHeard ==
    ASSUME NEW x, x.sid = NoSession, NEW y, NEW called, RowHeard(x, y, called), NEW z
    PROVE  RowHeard(x, z, called)
BY DEF RowHeard, NotRedirected, RedirectedOnce

\* Two sessions with the same messages.
SameMessages(x, y) ==
    /\ y.prompt = x.prompt /\ y.inbox = x.inbox /\ y.conv = x.conv /\ (y.resumed <=> x.resumed)

\* A row that stays as it is, or that is cancelled or fails.
RowStays(x, y) ==
    /\ y.sid = x.sid /\ y.redirects = x.redirects /\ y.seen = x.seen
    /\ y.status = x.status \/ y.status \in {"cancelled", "error"}

\* Such a row is judged as before.
LEMMA StaysHeard ==
    ASSUME NEW x, NEW y, RowStays(x, y), NEW v, NEW w, x.sid # NoSession => SameMessages(v, w),
           NEW b, NEW d, RowHeard(x, v, b), y.status = "running" /\ b => d
    PROVE  RowHeard(y, w, d)
BY DEF RowStays, SameMessages, RowHeard, NotRedirected, RedirectedOnce

\* A step that moves no message.
LEMMA StillHeard ==
    ASSUME NEW r0 \in [Task -> Row], NEW c0, NEW z0, Heard(r0, c0, z0),
           NEW r, \A t \in Task : RowStays(r0[t], r[t]),
           NEW c \in SUBSET c0, \A d \in c : d.task \in Task,
           \A t \in Task : r[t].status = "running" /\ Called(c0, t) => Called(c, t),
           NEW z, \A s \in Session : SameMessages(z0[s], z[s]) /\ Argv(z[s])
    PROVE  Heard(r, c, z)
<1>1. ASSUME NEW t \in Task
      PROVE  RowHeard(r[t], z[r[t].sid], Called(c, t))
  <2>1. RowHeard(r0[t], z0[r0[t].sid], Called(c0, t)) /\ RowStays(r0[t], r[t])
    BY DEF Heard
  <2>2. r0[t].sid # NoSession => r0[t].sid \in Session
    BY DEF Row
  <2>3. r[t].sid = r0[t].sid
    BY <2>1 DEF RowStays
  <2>4. r0[t].sid # NoSession => SameMessages(z0[r0[t].sid], z[r[t].sid])
    BY <2>2, <2>3
  <2>5. QED
    BY <2>1, <2>4, StaysHeard
<1>2. ASSUME NEW d \in c
      PROVE  CallHeard(d, r[d.task])
  <2>1. CallHeard(d, r0[d.task]) /\ RowStays(r0[d.task], r[d.task])
    BY DEF Heard
  <2>2. QED
    BY <2>1 DEF CallHeard, RowStays
<1>3. QED
  BY <1>1, <1>2 DEF Heard

\* A step of one task and its sessions.
LEMMA OneTaskHeard ==
    ASSUME NEW r0 \in [Task -> Row], NEW c0, NEW z0, Heard(r0, c0, z0),
           \A u \in Task : r0[u].sid # NoSession => r0[u].sid[1] = u,
           NEW t \in Task, NEW s \in Session, s[1] = t,
           NEW r, \A u \in Task : u # t => r[u] = r0[u],
           NEW c \in SUBSET c0, \A d \in c0 : d.task # t => d \in c,
           \A d \in c : d.task \in Task /\ (d.task = t => CallHeard(d, r[t])),
           NEW z, \A w \in Session : w # s => z[w] = z0[w],
           Argv(z[s]), RowHeard(r[t], z[r[t].sid], Called(c, t))
    PROVE  Heard(r, c, z)
<1>1. ASSUME NEW u \in Task, u # t
      PROVE  RowHeard(r[u], z[r[u].sid], Called(c, u))
  <2>1. RowHeard(r0[u], z0[r0[u].sid], Called(c0, u)) /\ r[u] = r0[u]
    BY <1>1 DEF Heard
  <2>2. Called(c, u) <=> Called(c0, u)
    BY <1>1 DEF Called
  <2>3. CASE r[u].sid = NoSession
    <3>1. RowHeard(r[u], z0[r0[u].sid], Called(c, u))
      BY <2>1, <2>2 DEF RowHeard, NotRedirected, RedirectedOnce
    <3>2. QED
      BY <2>3, <3>1, NoSessionHeard
  <2>4. CASE r[u].sid # NoSession
    <3>1. r0[u].sid \in Session /\ r0[u].sid # s
      BY <1>1, <2>1, <2>4 DEF Row
    <3>2. z[r[u].sid] = z0[r0[u].sid]
      BY <2>1, <3>1
    <3>3. QED
      BY <2>1, <2>2, <3>2 DEF RowHeard, NotRedirected, RedirectedOnce
  <2>5. QED
    BY <2>3, <2>4
<1>2. ASSUME NEW d \in c
      PROVE  CallHeard(d, r[d.task])
  BY DEF Heard
<1>3. QED
  BY <1>1, <1>2 DEF Heard

\* pump() sends the redirects that were not given yet.
LEMMA PumpHeard ==
    ASSUME NEW r \in [Task -> Row], NEW n, NEW c \in SUBSET Call, NEW z, Heard(r, c, z),
           \A t \in Task : r[t].sid # NoSession => r[t].attempts > 0,
           \A d \in c : r[d.task].status # "queued",
           Pump(r, n, c) \/ (task' = r /\ calls' = c)
    PROVE  Heard(task', calls', z)
<1>0. CASE task' = r /\ calls' = c
  BY <1>0
<1> SUFFICES ASSUME Pump(r, n, c)
             PROVE  Heard(task', calls', z)
  BY <1>0
<1>1. PICK S \in SUBSET With(r, "queued") :
           task' = Started(r, S) /\ calls' = c \union {CallOf(r[t], t) : t \in S}
  BY DEF Pump
<1>2. \A t \in S : t \in Task /\ r[t].status = "queued"
  BY <1>1 DEF With
<1>3. ASSUME NEW t \in Task
      PROVE  /\ task'[t].sid = r[t].sid /\ task'[t].redirects = r[t].redirects
             /\ t \in S => task'[t].status = "running" /\ task'[t].seen = r[t].redirects
             /\ t \notin S => task'[t] = r[t]
  <2>1. r[t] \in Row
    OBVIOUS
  <2>2. /\ StartedRow(r[t]).sid = r[t].sid /\ StartedRow(r[t]).redirects = r[t].redirects
        /\ StartedRow(r[t]).status = "running" /\ StartedRow(r[t]).seen = r[t].redirects
    BY <2>1 DEF StartedRow, Row
  <2>3. QED
    BY <1>1, <2>1, <2>2 DEF Started
<1>4. \A t \in Task : CallOf(r[t], t).task = t
  BY DEF CallOf
<1>5. \A d \in c : d.task \in Task /\ d.task \notin S
  BY <1>2 DEF Call
<1>6. ASSUME NEW t \in Task
      PROVE  RowHeard(task'[t], z[task'[t].sid], Called(calls', t))
  <2>1. RowHeard(r[t], z[r[t].sid], Called(c, t))
    BY DEF Heard
  <2>2. CASE t \notin S
    <3>1. Called(calls', t) <=> Called(c, t)
      BY <1>1, <1>2, <1>4, <2>2 DEF Called
    <3>2. task'[t] = r[t]
      BY <1>3, <2>2
    <3>3. QED
      BY <2>1, <3>1, <3>2 DEF RowHeard, NotRedirected, RedirectedOnce
  <2>3. CASE t \in S
    <3>1. Called(calls', t)
      BY <1>1, <1>4, <2>3 DEF Called
    <3>2. /\ task'[t].sid = r[t].sid /\ task'[t].redirects = r[t].redirects
          /\ task'[t].status = "running" /\ task'[t].seen = r[t].redirects
      BY <1>3, <2>3
    <3>3. r[t].status = "queued"
      BY <1>2, <2>3
    <3>4. QED
      BY <2>1, <3>1, <3>2, <3>3 DEF RowHeard, NotRedirected, RedirectedOnce
  <2>4. QED
    BY <2>2, <2>3
<1>7. ASSUME NEW d \in calls'
      PROVE  CallHeard(d, task'[d.task])
  <2>1. CASE d \in c
    BY <1>3, <1>5, <2>1 DEF Heard
  <2>2. CASE d \notin c
    <3>1. PICK t \in S : d = CallOf(r[t], t)
      BY <1>1, <2>2
    <3>2. /\ t \in Task /\ d.task = t /\ r[t].status = "queued" /\ r[t] \in Row
          /\ task'[t].redirects = r[t].redirects
      BY <1>2, <1>3, <1>4, <3>1
    <3>3. /\ d.mode = "start" => d.msgs = 0..r[t].redirects
          /\ d.mode # "start" => r[t].sid # NoSession /\ d.msgs = (r[t].seen + 1)..r[t].redirects
      BY <3>1, <3>2 DEF CallOf
    <3>4. RowHeard(r[t], z[r[t].sid], Called(c, t))
      BY <3>2 DEF Heard
    <3>5. r[t].redirects = 0 => d.mode = "start"
      BY <3>2, <3>3, <3>4 DEF RowHeard, NotRedirected
    <3>6. r[t].redirects = 1 => 1 \in d.msgs /\ (d.mode # "start" => d.msgs = {1})
      <4> SUFFICES ASSUME r[t].redirects = 1
                   PROVE  1 \in d.msgs /\ (d.mode # "start" => d.msgs = {1})
        OBVIOUS
      <4>1. d.mode # "start" => r[t].seen = 0
        BY <3>2, <3>3, <3>4 DEF RowHeard, RedirectedOnce
      <4>2. 0 + 1 = 1 /\ 1..1 = {1} /\ 1 \in 0..1
        OBVIOUS
      <4>3. CASE d.mode = "start"
        BY <3>3, <4>2, <4>3
      <4>4. CASE d.mode # "start"
        BY <3>3, <4>1, <4>2, <4>4
      <4>5. QED
        BY <4>3, <4>4
    <3>7. QED
      BY <3>2, <3>5, <3>6 DEF CallHeard
  <2>3. QED
    BY <2>1, <2>2
<1>8. QED
  BY <1>6, <1>7 DEF Heard

-----------------------------------------------------------------------------
(* Redirects on their way: requests.                                       *)

\* Without a start on its way the rows may be pumped.
LEMMA RestPumped ==
    ASSUME TypeInv, Agents(task, calls, sess), calls = {},
           NEW r \in [Task -> Row],
           \A t \in Task : r[t].sid = task[t].sid /\ r[t].attempts = task[t].attempts,
           Heard(r, {}, sess'), NEW n, Pump(r, n, calls) \/ (task' = r /\ calls' = calls)
    PROVE  Heard(task', calls', sess')
<1>1. \A t \in Task : r[t].sid # NoSession => r[t].attempts > 0
  BY DEF Agents, RowsCalls
<1>2. CASE task' = r /\ calls' = calls
  <2>1. calls' = {}
    BY <1>2
  <2>2. QED
    BY <1>2, <2>1
<1>3. CASE Pump(r, n, calls)
  <2>1. Pump(r, n, {})
    BY <1>3
  <2>2. QED
    BY <1>1, <2>1, PumpHeard
<1>4. QED
  BY <1>2, <1>3

\* New rows were not redirected.
LEMMA CreateHeard ==
    ASSUME TypeInv, Undisturbed, Agents(task, calls, sess), Heard(task, calls, sess),
           NEW W \in SUBSET Task, NEW d \in [W -> Dir], Create(W, d)
    PROVE  Heard(task', calls', sess')
<1> DEFINE x(t) == [status |-> "queued", cwd |-> d[t], sid |-> NoSession, redirects |-> 0,
                    seen |-> 0, atStart |-> 0, attempts |-> 0]
           made == [t \in Task |-> IF t \in W THEN x(t) ELSE task[t]]
<1>1. \A t \in W : x(t) \in Row
  BY BoundsAssumption DEF Row, Status, Active, MaxAttempts
<1>2. made \in [Task -> Row]
  BY <1>1, TypeInvFacts
<1>3. Pump(made, cap, calls) /\ sess' = sess /\ calls = {}
  BY ServingFacts DEF Create
<1>4. ASSUME NEW t \in Task
      PROVE  RowHeard(made[t], sess[made[t].sid], Called({}, t))
  <2>1. CASE t \in W
    BY <2>1 DEF RowHeard, NotRedirected
  <2>2. CASE t \notin W
    <3>1. made[t] = task[t]
      BY <2>2
    <3> HIDE DEF made
    <3>2. QED
      BY <1>3, <3>1 DEF Heard
  <2>3. QED
    BY <2>1, <2>2
<1>5. \A t \in Task : made[t].sid # NoSession => made[t].attempts > 0
  <2>1. \A t \in Task : t \notin W => made[t] = task[t]
    OBVIOUS
  <2>2. \A t \in W : made[t].sid = NoSession
    OBVIOUS
  <2> HIDE DEF made
  <2>3. QED
    BY <2>1, <2>2 DEF Agents, RowsCalls
<1> HIDE DEF made
<1>6. Heard(made, {}, sess')
  BY <1>3, <1>4 DEF Heard
<1>7. Pump(made, cap, {})
  BY <1>3
<1>8. QED
  BY <1>2, <1>5, <1>6, <1>7, PumpHeard

\* The fields of a row that is redirected.
LEMMA RedirectedFields ==
    ASSUME NEW x \in Row
    PROVE  /\ LET y == [x EXCEPT !.redirects = @ + 1] IN
                /\ y.sid = x.sid /\ y.status = x.status /\ y.seen = x.seen /\ y.redirects = x.redirects + 1
           /\ LET y == [x EXCEPT !.redirects = @ + 1, !.seen = x.redirects + 1] IN
                /\ y.sid = x.sid /\ y.status = x.status /\ y.seen = x.redirects + 1
                /\ y.redirects = x.redirects + 1
           /\ LET y == [x EXCEPT !.status = "queued", !.redirects = @ + 1] IN
                /\ y.sid = x.sid /\ y.status = "queued" /\ y.seen = x.seen /\ y.redirects = x.redirects + 1
                /\ y.attempts = x.attempts
           /\ x.redirects \in Nat
BY BoundsAssumption DEF Row

\* The other tasks do not notice a redirect.
LEMMA RedirectHeard ==
    ASSUME TypeInv, Agents(task, calls, sess), calls = {}, Heard(task, calls, sess),
           NEW t \in Task, NEW r, \A u \in Task : u # t => r[u] = task[u],
           r[t].sid = task[t].sid, RowHeard(r[t], sess[r[t].sid], FALSE)
    PROVE  Heard(r, {}, sess)
<1>1. ASSUME NEW u \in Task
      PROVE  RowHeard(r[u], sess[r[u].sid], Called({}, u))
  <2>1. ~Called({}, u) /\ ~Called(calls, u)
    BY DEF Called
  <2>2. CASE u = t
    BY <2>1, <2>2 DEF RowHeard, NotRedirected, RedirectedOnce
  <2>3. CASE u # t
    BY <2>1, <2>3 DEF Heard, RowHeard, NotRedirected, RedirectedOnce
  <2>4. QED
    BY <2>2, <2>3
<1>2. QED
  BY <1>1 DEF Heard

\* A task that waits for its first start is told with its brief.
LEMMA RedirectQueuedHeard ==
    ASSUME TypeInv, Undisturbed, Agents(task, calls, sess), Heard(task, calls, sess),
           NEW t \in Task, RedirectQueued(t)
    PROVE  Heard(task', calls', sess')
<1> DEFINE x == [task[t] EXCEPT !.redirects = @ + 1]
<1>1. /\ task' = [task EXCEPT ![t] = x] /\ UNCHANGED <<calls, sess>> /\ calls = {}
      /\ task[t].status = "queued"
  BY ServingFacts, TypeInvFacts DEF RedirectQueued
<1>2. task'[t] = x /\ \A u \in Task : u # t => task'[u] = task[u]
  BY <1>1, TypeInvFacts
<1>3. /\ x.sid = task[t].sid /\ x.status = "queued" /\ x.seen = task[t].seen
      /\ x.redirects = task[t].redirects + 1 /\ task[t].redirects \in Nat
  BY <1>1, RedirectedFields, TypeInvFacts
<1> HIDE DEF x
<1>4. RowHeard(task[t], sess[task[t].sid], Called(calls, t))
  BY DEF Heard
<1>5. RowHeard(x, sess[x.sid], FALSE)
  BY <1>1, <1>3, <1>4 DEF RowHeard, NotRedirected, RedirectedOnce
<1>6. Heard(task', {}, sess)
  BY <1>1, <1>2, <1>3, <1>5, RedirectHeard
<1>7. QED
  BY <1>1, <1>6

\* A running agent has the redirect in its control file.
LEMMA RedirectRunningHeard ==
    ASSUME TypeInv, Undisturbed, Agents(task, calls, sess), Heard(task, calls, sess),
           NEW t \in Task, RedirectRunning(t)
    PROVE  Heard(task', calls', sess')
<1> DEFINE x == [task[t] EXCEPT !.redirects = @ + 1, !.seen = task[t].redirects + 1]
           s == task[t].sid
           y == Messaged(sess[s], {task[t].redirects + 1})
<1>1. /\ task' = [task EXCEPT ![t] = x] /\ calls' = calls /\ calls = {}
      /\ task[t].status = "running" /\ s # NoSession /\ AgentRunning(sess[s])
      /\ sess' = [sess EXCEPT ![s] = y]
  BY ServingFacts, TypeInvFacts DEF RedirectRunning, Reachable
<1>2. s \in Session /\ s[1] = t /\ sess[s] \in SessionRecord
  BY <1>1, TypeInvFacts DEF Row, Agents, RowsCalls
<1>3. task'[t] = x /\ \A u \in Task : u # t => task'[u] = task[u]
  BY <1>1, TypeInvFacts
<1>4. sess'[s] = y /\ \A w \in Session : w # s => sess'[w] = sess[w]
  BY <1>1, <1>2, TypeInvFacts
<1>5. /\ x.sid = s /\ x.status = "running" /\ x.redirects = task[t].redirects + 1
      /\ task[t].redirects \in Nat
  BY <1>1, RedirectedFields, TypeInvFacts
<1>6. /\ y.inbox = sess[s].inbox \union {task[t].redirects + 1} /\ y.agent = sess[s].agent
      /\ (y.resumed <=> sess[s].resumed) /\ y.prompt = sess[s].prompt /\ y.conv = sess[s].conv
  BY <1>1, <1>2, MessagedFields
<1>7. RowHeard(task[t], sess[s], Called(calls, t)) /\ Argv(sess[s])
  BY <1>2 DEF Heard
<1> HIDE DEF x, y, s
<1>8. Argv(y)
  BY <1>6, <1>7 DEF Argv
<1>9. RowHeard(x, y, FALSE)
  <2>1. task[t].redirects = 0 => y.inbox = {1} /\ ~y.resumed
    BY <1>1, <1>6, <1>7 DEF RowHeard, NotRedirected, s
  <2>2. x.redirects # 0 /\ (x.redirects = 1 => task[t].redirects = 0)
    BY <1>5
  <2>3. QED
    BY <1>1, <1>5, <2>1, <2>2 DEF RowHeard, RedirectedOnce
<1>10. Called({}, t) <=> FALSE
  BY DEF Called
<1>11. RowHeard(task'[t], sess'[task'[t].sid], Called({}, t))
  BY <1>3, <1>4, <1>5, <1>9, <1>10 DEF RowHeard, NotRedirected, RedirectedOnce
<1>12. \A u \in Task : task[u].sid # NoSession => task[u].sid[1] = u
  BY DEF Agents, RowsCalls
<1>13. Heard(task', {}, sess')
  <2>1. Heard(task, {}, sess) /\ task \in [Task -> Row] /\ {} \in SUBSET {}
    BY <1>1, TypeInvFacts
  <2>2. Argv(sess'[s])
    BY <1>4, <1>8
  <2>3. QED
    BY <1>2, <1>3, <1>4, <1>11, <1>12, <2>1, <2>2, OneTaskHeard
<1>14. QED
  BY <1>1, <1>13

\* A task that is re-opened is told when it starts again.
LEMMA RedirectReopenHeard ==
    ASSUME TypeInv, Undisturbed, Agents(task, calls, sess), Heard(task, calls, sess),
           NEW t \in Task, RedirectReopen(t)
    PROVE  Heard(task', calls', sess')
<1> DEFINE x == [task[t] EXCEPT !.status = "queued", !.redirects = @ + 1]
           r == [task EXCEPT ![t] = x]
<1>1. /\ r = [task EXCEPT ![t].status = "queued", ![t].redirects = @ + 1]
      /\ task[t].redirects < MaxRedirects
  BY TypeInvFacts DEF Row, RedirectReopen
<1>2. Pump(r, cap, calls) /\ sess' = sess /\ calls = {}
  BY <1>1, ServingFacts DEF RedirectReopen
<1>3. /\ x.sid = task[t].sid /\ x.status = "queued" /\ x.seen = task[t].seen
      /\ x.redirects = task[t].redirects + 1 /\ task[t].redirects \in Nat
      /\ x.attempts = task[t].attempts
  BY RedirectedFields, TypeInvFacts
<1>4. x \in Row
  <2>1. task[t] \in Row /\ task[t].redirects + 1 \in 0..MaxRedirects
    BY <1>1, <1>3, BoundsAssumption, TypeInvFacts
  <2>2. QED
    BY <2>1 DEF Row, Status, Active
<1>5. r \in [Task -> Row] /\ r[t] = x /\ \A u \in Task : u # t => r[u] = task[u]
  BY <1>4, TypeInvFacts
<1> HIDE DEF x
<1>6. RowHeard(task[t], sess[task[t].sid], Called(calls, t))
  BY DEF Heard
<1>7. RowHeard(x, sess[x.sid], FALSE)
  BY <1>3, <1>6 DEF RowHeard, NotRedirected, RedirectedOnce
<1> HIDE DEF r
<1>8. Heard(r, {}, sess)
  BY <1>2, <1>3, <1>5, <1>7, RedirectHeard
<1>9. \A u \in Task : r[u].sid = task[u].sid /\ r[u].attempts = task[u].attempts
  BY <1>3, <1>5
<1>10. QED
  BY <1>2, <1>5, <1>8, <1>9, RestPumped

\* Signalled or not, a session has the same messages.
LEMMA InterruptedMessages ==
    ASSUME NEW x \in SessionRecord, Argv(x)
    PROVE  SameMessages(x, Interrupted(x)) /\ Argv(Interrupted(x))
<1> DEFINE y == Interrupted(x)
<1>1. /\ (y.resumed <=> x.resumed) /\ y.prompt = x.prompt /\ y.inbox = x.inbox /\ y.conv = x.conv
      /\ y.agent \in {x.agent, Signalled(x.agent)}
  BY InterruptedFields
<1>2. SameMessages(x, y) /\ Argv(y)
  <2> HIDE DEF y
  <2> QED BY <1>1 DEF SameMessages, Argv, Signalled
<1>3. QED
  BY <1>2

\* So has one that is let go of.
LEMMA ClosedMessages ==
    ASSUME NEW x \in SessionRecord, Argv(x), NEW ingested
    PROVE  SameMessages(x, Closed(x, ingested)) /\ Argv(Closed(x, ingested))
<1>1. CASE x.held # "yes"
  BY <1>1 DEF Closed, SameMessages
<1>2. CASE x.held = "yes"
  <2> DEFINE y == Closed(x, ingested)
  <2>1. /\ (y.resumed <=> x.resumed) /\ y.prompt = x.prompt /\ y.inbox = x.inbox /\ y.conv = x.conv
        /\ y.agent \in {x.agent, Signalled(x.agent)}
    BY <1>2, ClosedFields
  <2>2. SameMessages(x, y) /\ Argv(y)
    <3> HIDE DEF y
    <3> QED BY <2>1 DEF SameMessages, Argv, Signalled
  <2>3. QED
    BY <2>2
<1>3. QED
  BY <1>1, <1>2

\* And one that is deleted.
LEMMA DeletedMessages ==
    ASSUME NEW x \in SessionRecord, Argv(x)
    PROVE  SameMessages(x, Deleted(x)) /\ Argv(Deleted(x))
<1> DEFINE y == Deleted(x)
<1>1. /\ (y.resumed <=> x.resumed) /\ y.prompt = x.prompt /\ y.inbox = x.inbox /\ y.conv = x.conv
      /\ y.agent \in {x.agent, Signalled(x.agent)}
  BY DeletedFields
<1>2. SameMessages(x, y) /\ Argv(y)
  <2> HIDE DEF y
  <2> QED BY <1>1 DEF SameMessages, Argv, Signalled
<1>3. QED
  BY <1>2

\* A step of one session that moves no message.
LEMMA OneStillHeard ==
    ASSUME Heard(task, calls, sess), NEW s \in Session, \A w \in Session : w # s => sess'[w] = sess[w],
           SameMessages(sess[s], sess'[s]), Argv(sess'[s])
    PROVE  \A w \in Session : SameMessages(sess[w], sess'[w]) /\ Argv(sess'[w])
BY DEF Heard, SameMessages

\* Cancelled rows stay.
LEMMA CancelledStays ==
    ASSUME NEW r \in [Task -> Row], NEW T, NEW t \in Task
    PROVE  RowStays(r[t], Cancelled(r, T)[t])
<1>1. r[t] \in Row
  OBVIOUS
<1>2. RowStays(r[t], r[t]) /\ RowStays(r[t], [r[t] EXCEPT !.status = "cancelled"])
  BY <1>1 DEF RowStays, Row
<1>3. QED
  BY <1>2 DEF Cancelled

\* Cancelling moves no message.
LEMMA CancelledHeard ==
    ASSUME TypeInv, Agents(task, calls, sess), Heard(task, calls, sess), calls = {}, NEW T,
           \A w \in Session : SameMessages(sess[w], sess'[w]) /\ Argv(sess'[w]),
           Pump(Cancelled(task, T), cap, calls)
    PROVE  Heard(task', calls', sess')
<1> DEFINE r == Cancelled(task, T)
<1>1. \A t \in Task : RowStays(task[t], r[t])
  BY CancelledStays, TypeInvFacts
<1>2. r \in [Task -> Row]
  BY CancelledOK, TypeInvFacts DEF RowsOK
<1>3. \A t \in Task : r[t].sid = task[t].sid /\ r[t].attempts = task[t].attempts
  BY CancelledFields, TypeInvFacts
<1>4. Pump(r, cap, calls)
  OBVIOUS
<1> HIDE DEF r
<1>5. Heard(r, {}, sess')
  <2>1. Heard(task, {}, sess) /\ task \in [Task -> Row] /\ {} \in SUBSET {}
    BY TypeInvFacts
  <2>2. \A t \in Task : ~Called({}, t)
    BY DEF Called
  <2>3. QED
    BY <1>1, <2>1, <2>2, StillHeard
<1>6. QED
  BY <1>2, <1>3, <1>4, <1>5, RestPumped

\* cancel() moves no message.
LEMMA CancelHeard ==
    ASSUME TypeInv, Undisturbed, Agents(task, calls, sess), Heard(task, calls, sess),
           NEW t \in Task, Cancel(t)
    PROVE  Heard(task', calls', sess')
<1>1. calls = {} /\ Pump(Cancelled(task, {t}), cap, calls)
  BY ServingFacts DEF Cancel
<1>2. \A w \in Session : SameMessages(sess[w], sess'[w]) /\ Argv(sess'[w])
  <2>1. CASE task[t].status = "running" /\ task[t].sid # NoSession
    <3>1. task[t].sid \in Session
      BY <2>1, TypeInvFacts DEF Row
    <3>2. PICK s \in Session : s = task[t].sid
      BY <3>1
    <3>3. sess' = [sess EXCEPT ![s] = Interrupted(sess[s])] /\ sess[s] \in SessionRecord
      BY <2>1, <3>2, TypeInvFacts DEF Cancel
    <3>4. sess'[s] = Interrupted(sess[s]) /\ \A w \in Session : w # s => sess'[w] = sess[w]
      BY <3>3, TypeInvFacts
    <3>5. SameMessages(sess[s], sess'[s]) /\ Argv(sess'[s])
      BY <3>3, <3>4, InterruptedMessages DEF Heard
    <3>6. QED
      BY <3>4, <3>5, OneStillHeard
  <2>2. CASE ~(task[t].status = "running" /\ task[t].sid # NoSession)
    <3>1. sess' = sess
      BY <2>2 DEF Cancel
    <3>2. QED
      BY <3>1 DEF Heard, SameMessages
  <2>3. QED
    BY <2>1, <2>2
<1>3. QED
  BY <1>1, <1>2, CancelledHeard

\* Nor does closing or deleting a session.
LEMMA CloseSessionHeard ==
    ASSUME TypeInv, Undisturbed, Agents(task, calls, sess), Heard(task, calls, sess),
           NEW s \in Session, NEW ingested, CloseSession(s, ingested) \/ DeleteSession(s)
    PROVE  Heard(task', calls', sess')
<1>1. calls = {} /\ Pump(Cancelled(task, GoneTasks(s)), cap, calls)
  BY ServingFacts DEF CloseSession, DeleteSession
<1>2. \A w \in Session : w # s => sess'[w] = sess[w]
  BY TypeInvFacts DEF CloseSession, DeleteSession
<1>3. sess[s] \in SessionRecord /\ Argv(sess[s])
  BY TypeInvFacts DEF Heard
<1>4. sess'[s] = Closed(sess[s], ingested) \/ sess'[s] = Deleted(sess[s])
  BY TypeInvFacts DEF CloseSession, DeleteSession
<1>5. SameMessages(sess[s], sess'[s]) /\ Argv(sess'[s])
  BY <1>3, <1>4, ClosedMessages, DeletedMessages
<1>6. \A w \in Session : SameMessages(sess[w], sess'[w]) /\ Argv(sess'[w])
  BY <1>2, <1>5, OneStillHeard
<1>7. QED
  BY <1>1, <1>6, CancelledHeard

\* A step that leaves rows and calls, and moves no message.
LEMMA SessionStillHeard ==
    ASSUME TypeInv, Heard(task, calls, sess), UNCHANGED <<task, calls>>, NEW s \in Session,
           \A w \in Session : w # s => sess'[w] = sess[w],
           SameMessages(sess[s], sess'[s]), Argv(sess'[s])
    PROVE  Heard(task', calls', sess')
<1>1. \A w \in Session : SameMessages(sess[w], sess'[w]) /\ Argv(sess'[w])
  BY OneStillHeard
<1>2. \A t \in Task : RowStays(task[t], task[t])
  BY DEF RowStays
<1>3. calls \in SUBSET calls /\ \A d \in calls : d.task \in Task
  BY TypeInvFacts DEF Call
<1>4. Heard(task, calls, sess')
  BY <1>1, <1>2, <1>3, StillHeard, TypeInvFacts
<1>5. QED
  BY <1>4

\* The stop button moves no message.
LEMMA InterruptSessionHeard ==
    ASSUME TypeInv, Heard(task, calls, sess), NEW s \in Session, InterruptSession(s)
    PROVE  Heard(task', calls', sess')
<1>1. /\ UNCHANGED <<task, calls>> /\ sess'[s] = Interrupted(sess[s])
      /\ \A w \in Session : w # s => sess'[w] = sess[w]
      /\ sess[s] \in SessionRecord
  BY TypeInvFacts DEF InterruptSession
<1>2. Argv(sess[s])
  BY DEF Heard
<1>3. SameMessages(sess[s], sess'[s]) /\ Argv(sess'[s])
  BY <1>1, <1>2, InterruptedMessages
<1>4. QED
  BY <1>1, <1>3, SessionStillHeard

\* A new setting starts what waits, with its redirects.
LEMMA ResizeHeard ==
    ASSUME TypeInv, Undisturbed, Agents(task, calls, sess), Heard(task, calls, sess),
           NEW n \in Cap, Resize(n)
    PROVE  Heard(task', calls', sess')
<1>1. calls = {} /\ Pump(task, n, calls) /\ sess' = sess
  BY ServingFacts DEF Resize
<1>2. Heard(task, {}, sess')
  BY <1>1
<1>3. QED
  BY <1>1, <1>2, RestPumped, TypeInvFacts

-----------------------------------------------------------------------------
(* Redirects on their way: the worker host answers.                        *)

\* What continueWorker finds has the messages there are, and the conversation unless no
\* process was left.
LEMMA EntryMessages ==
    ASSUME NEW x \in SessionRecord, Shape(x), ~ExitPending(x), Argv(x)
    PROVE  LET e == Entry(x) IN
           /\ e.prompt = x.prompt /\ e.inbox = x.inbox /\ (e.resumed <=> x.resumed)
           /\ e.conv = x.conv \/ ~x.resumed
           /\ Argv(e)
<1> DEFINE e == Entry(x)
<1>1. CASE x.held = "yes"
  BY <1>1 DEF Entry
<1>2. CASE x.held # "yes"
  <2>1. /\ x.agent \in Live => e.conv = x.conv
        /\ e.agent = x.agent /\ (e.resumed <=> x.resumed) /\ e.prompt = x.prompt /\ e.inbox = x.inbox
    BY <1>2, OpenedFields DEF Entry
  <2>2. x.agent \in {"none"} \union Live
    <3>1. x.agent \in {"none"} \union Live \union Ended
      BY DEF SessionRecord
    <3>2. QED
      BY <1>2, <3>1 DEF Shape, ExitPending
  <2>3. Argv(e) /\ (e.conv = x.conv \/ ~x.resumed)
    <3> HIDE DEF e
    <3> QED BY <2>1, <2>2 DEF Argv, Live
  <2>4. QED
    BY <2>1, <2>3
<1>3. QED
  BY <1>1, <1>2

\* What the rest of #start has to show: the row of its task, without the call.
LEMMA AnswerHeard ==
    ASSUME TypeInv, Agents(task, calls, sess), Heard(task, calls, sess), NEW c \in calls,
           NEW r \in [Task -> Row], \A t \in Task : t # c.task => r[t] = task[t],
           r[c.task].attempts = task[c.task].attempts,
           \A w \in Session : w # c.sid => sess'[w] = sess[w],
           Argv(sess'[c.sid]), RowHeard(r[c.task], sess'[r[c.task].sid], FALSE),
           NEW n, Pump(r, n, calls \ {c}) \/ (task' = r /\ calls' = calls \ {c})
    PROVE  Heard(task', calls', sess')
<1>0. PICK k \in SUBSET calls : k = calls \ {c}
  OBVIOUS
<1>1. /\ c.task \in Task /\ c.sid \in Session /\ c.sid[1] = c.task /\ task[c.task].attempts > 0
  BY AnsweredFacts
<1>2. \A d \in k : d.task \in Task /\ d.task # c.task
  BY <1>0, TypeInvFacts DEF Agents, RowsCalls, Call
<1>3. ~Called(k, c.task)
  BY <1>2 DEF Called
<1>4. RowHeard(r[c.task], sess'[r[c.task].sid], Called(k, c.task))
  BY <1>3 DEF RowHeard, NotRedirected, RedirectedOnce
<1>5. \A u \in Task : task[u].sid # NoSession => task[u].sid[1] = u
  BY DEF Agents, RowsCalls
<1>6. \A d \in calls : d.task # c.task => d \in k
  BY <1>0
<1>7. Heard(r, k, sess')
  <2>1. PICK t \in Task : t = c.task
    BY <1>1
  <2>2. PICK s \in Session : s = c.sid
    BY <1>1
  <2>3. s[1] = t /\ Argv(sess'[s]) /\ RowHeard(r[t], sess'[r[t].sid], Called(k, t))
    BY <1>1, <1>4, <2>1, <2>2
  <2>4. /\ \A u \in Task : u # t => r[u] = task[u]
        /\ \A w \in Session : w # s => sess'[w] = sess[w]
    BY <2>1, <2>2
  <2>5. /\ \A d \in calls : d.task # t => d \in k
        /\ \A d \in k : d.task \in Task /\ (d.task = t => CallHeard(d, r[t]))
    BY <1>2, <1>6, <2>1
  <2>6. task \in [Task -> Row]
    BY TypeInvFacts
  <2>7. QED
    BY <1>5, <2>3, <2>4, <2>5, <2>6, OneTaskHeard
<1>8. \A t \in Task : r[t].sid # NoSession => r[t].attempts > 0
  BY <1>1 DEF Agents, RowsCalls
<1>9. \A d \in k : r[d.task].status # "queued"
  BY <1>2 DEF Agents, RowsCalls
<1>10. k \in SUBSET Call
  BY TypeInvFacts
<1>11. Pump(r, n, k) \/ (task' = r /\ calls' = k)
  BY <1>0
<1>12. QED
  BY <1>7, <1>8, <1>9, <1>10, <1>11, PumpHeard

\* A start that fails leaves the messages where they were.
LEMMA StartFailsHeard ==
    ASSUME TypeInv, Undisturbed, Agents(task, calls, sess), Heard(task, calls, sess),
           NEW c \in calls, StartFails(c)
    PROVE  Heard(task', calls', sess')
<1> DEFINE x == sess[c.sid]
           v == [task[c.task] EXCEPT !.status = "error"]
           r == [task EXCEPT ![c.task].status = "error"]
<1>1. /\ c.task \in Task /\ c.sid \in Session /\ task[c.task].status = "running"
      /\ task[c.task] \in Row /\ x \in SessionRecord /\ Shape(x) /\ ~ExitPending(x)
      /\ c.mode = "start" => task[c.task].sid = NoSession
      /\ c.mode # "start" => task[c.task].sid = c.sid
      /\ c.mode \in {"start", "continue"}
  BY AnsweredFacts, TypeInvFacts DEF Call
<1>2. Argv(x) /\ RowHeard(task[c.task], sess[task[c.task].sid], Called(calls, c.task))
  BY <1>1 DEF Heard
<1>3. /\ v.status = "error" /\ v.attempts = task[c.task].attempts /\ v.sid = task[c.task].sid
      /\ v.redirects = task[c.task].redirects /\ v.seen = task[c.task].seen /\ v \in Row
  BY <1>1 DEF Row, Status, Settled
<1>4. r = [task EXCEPT ![c.task] = v]
  BY TypeInvFacts
<1>5. r \in [Task -> Row] /\ r[c.task] = v /\ \A t \in Task : t # c.task => r[t] = task[t]
  BY <1>1, <1>3, <1>4, TypeInvFacts
<1>6. /\ Pump(r, cap, calls \ {c})
      /\ sess' = IF c.mode = "continue" /\ ~x.deleted THEN [sess EXCEPT ![c.sid] = Entry(x)] ELSE sess
  BY <1>1 DEF StartFails
<1>7. /\ \A w \in Session : w # c.sid => sess'[w] = sess[w]
      /\ sess'[c.sid] \in {x, Entry(x)} /\ (c.mode = "start" => sess' = sess)
  BY <1>1, <1>6, TypeInvFacts
<1>8. /\ sess'[c.sid].inbox = x.inbox /\ sess'[c.sid].prompt = x.prompt
      /\ (sess'[c.sid].resumed <=> x.resumed)
      /\ sess'[c.sid].conv = x.conv \/ ~x.resumed
      /\ Argv(sess'[c.sid])
  BY <1>1, <1>2, <1>7, EntryMessages
<1> HIDE DEF r, v, x
<1>9. RowHeard(v, sess'[v.sid], FALSE)
  <2>1. CASE c.mode = "start"
    BY <1>1, <1>2, <1>3, <2>1 DEF RowHeard, NotRedirected, RedirectedOnce
  <2>2. CASE c.mode # "start"
    <3>1. v.sid = c.sid /\ task[c.task].sid = c.sid /\ c.sid # NoSession
      BY <1>1, <1>3, <2>2, SessionAssumption
    <3>2. RowHeard(task[c.task], x, Called(calls, c.task))
      BY <1>2, <3>1 DEF x
    <3>3. QED
      BY <1>3, <1>8, <3>1, <3>2 DEF RowHeard, NotRedirected, RedirectedOnce
  <2>3. QED
    BY <2>1, <2>2
<1>10. QED
  BY <1>3, <1>5, <1>6, <1>7, <1>8, <1>9, AnswerHeard

\* A worker is started with the redirects in its brief.
LEMMA WorkerStartedHeard ==
    ASSUME TypeInv, Undisturbed, Agents(task, calls, sess), Heard(task, calls, sess),
           NEW c \in calls, WorkerStarted(c)
    PROVE  Heard(task', calls', sess')
<1> DEFINE x == [task[c.task] EXCEPT !.sid = c.sid]
           y == Spawned(c.msgs)
<1>1. /\ c.task \in Task /\ c.sid \in Session /\ task[c.task].status = "running"
      /\ task[c.task] \in Row
  BY AnsweredFacts
<1>2. /\ x \in Row /\ x.status = "running" /\ x.attempts = task[c.task].attempts
      /\ x.redirects = task[c.task].redirects /\ x.sid = c.sid /\ x.seen = task[c.task].seen
  BY <1>1 DEF Row
<1>3. task' = [task EXCEPT ![c.task] = x] /\ calls' = calls \ {c}
  BY TypeInvFacts DEF WorkerStarted
<1>4. /\ task' \in [Task -> Row] /\ task'[c.task] = x /\ \A t \in Task : t # c.task => task'[t] = task[t]
  BY <1>1, <1>2, <1>3, TypeInvFacts
<1>5. /\ sess'[c.sid] = y /\ \A w \in Session : w # c.sid => sess'[w] = sess[w]
  BY <1>1, TypeInvFacts DEF WorkerStarted, StopIfCancelled
<1>6. y.agent = "alive" /\ y.prompt = c.msgs /\ y.inbox = {} /\ ~y.resumed
  BY DEF Spawned, Unused
<1>7. CallHeard(c, task[c.task]) /\ RowHeard(task[c.task], sess[task[c.task].sid], Called(calls, c.task))
  BY <1>1 DEF Heard
<1> HIDE DEF x, y
<1>8. Argv(y)
  BY <1>6 DEF Argv
<1>9. RowHeard(x, y, FALSE)
  <2>1. x.redirects = 0 => x.seen = 0
    BY <1>2, <1>7 DEF RowHeard, NotRedirected
  <2>2. x.redirects = 1 => 1 \in y.prompt
    BY <1>2, <1>6, <1>7 DEF CallHeard
  <2>3. QED
    BY <1>1, <1>2, <1>6, <2>1, <2>2, SessionAssumption DEF RowHeard, NotRedirected, RedirectedOnce
<1>10. /\ task'[c.task].attempts = task[c.task].attempts /\ Argv(sess'[c.sid])
       /\ RowHeard(task'[c.task], sess'[task'[c.task].sid], FALSE)
  BY <1>2, <1>4, <1>5, <1>8, <1>9
<1>11. QED
  BY <1>3, <1>4, <1>5, <1>10, AnswerHeard

\* A worker is continued with the redirect.
LEMMA WorkerContinuedHeard ==
    ASSUME TypeInv, Undisturbed, Agents(task, calls, sess), Heard(task, calls, sess),
           NEW c \in calls, WorkerContinued(c)
    PROVE  Heard(task', calls', sess')
<1> DEFINE x == sess[c.sid]
           e == Entry(x)
           y == Sent(e, c.msgs)
<1>1. /\ c.task \in Task /\ c.sid \in Session /\ task[c.task].status = "running"
      /\ x \in SessionRecord /\ Shape(x) /\ ~ExitPending(x) /\ task[c.task].sid = c.sid
      /\ c.mode # "start" /\ task \in [Task -> Row] /\ c.sid # NoSession
  BY AnsweredFacts, TypeInvFacts, SessionAssumption DEF WorkerContinued
<1>2. /\ calls' = calls \ {c} /\ task' = task
      /\ sess'[c.sid] = y /\ \A w \in Session : w # c.sid => sess'[w] = sess[w]
  BY <1>1, TypeInvFacts DEF WorkerContinued, StopIfCancelled
<1>3. /\ Argv(x) /\ CallHeard(c, task[c.task])
      /\ RowHeard(task[c.task], x, Called(calls, c.task))
  BY <1>1 DEF Heard
<1>4. /\ e \in SessionRecord /\ Argv(e)
      /\ e.prompt = x.prompt /\ e.inbox = x.inbox /\ (e.resumed <=> x.resumed)
      /\ e.conv = x.conv \/ ~x.resumed
  BY <1>1, <1>3, EntryMessages, EntryType
<1>5. /\ y.conv = e.conv
      /\ AgentRunning(e) => /\ y.agent = e.agent /\ (y.resumed <=> e.resumed)
                            /\ y.prompt = e.prompt /\ y.inbox = e.inbox \union c.msgs
      /\ ~AgentRunning(e) => /\ y.agent = "alive" /\ y.resumed
                             /\ y.prompt = c.msgs /\ y.inbox = {}
  BY <1>4, SentFields
<1> HIDE DEF x, e, y
<1>6. Argv(y)
  BY <1>4, <1>5 DEF Argv
<1>7. task[c.task].redirects # 0 /\ (task[c.task].redirects = 1 => c.msgs = {1})
  BY <1>1, <1>3 DEF CallHeard
<1>8. RowHeard(task[c.task], y, FALSE)
  BY <1>1, <1>3, <1>4, <1>5, <1>7 DEF RowHeard, RedirectedOnce
<1>9. QED
  BY <1>1, <1>2, <1>6, <1>8, AnswerHeard

-----------------------------------------------------------------------------
(* Redirects on their way: agents, exits and timers.                       *)

\* What is known of a session that was used: it is the one of its task's row.
LEMMA UsedHeard ==
    ASSUME TypeInv, Agents(task, calls, sess), Heard(task, calls, sess),
           NEW s \in Session, sess[s] # Unused
    PROVE  /\ s[1] \in Task /\ task[s[1]].sid = s /\ s # NoSession
           /\ sess[s] \in SessionRecord /\ Shape(sess[s]) /\ Argv(sess[s])
           /\ RowHeard(task[s[1]], sess[s], Called(calls, s[1]))
BY SessionTask, SessionAssumption, TypeInvFacts DEF Agents, SessionOK, Heard

\* A step of one used session.
LEMMA OneSessionHeard ==
    ASSUME TypeInv, Agents(task, calls, sess), Heard(task, calls, sess),
           NEW s \in Session, sess[s] # Unused, UNCHANGED <<task, calls>>,
           \A w \in Session : w # s => sess'[w] = sess[w],
           Argv(sess'[s]), RowHeard(task[s[1]], sess'[s], Called(calls, s[1]))
    PROVE  Heard(task', calls', sess')
<1>1. PICK t \in Task : t = s[1] /\ task[t].sid = s
  BY UsedHeard
<1>2. RowHeard(task[t], sess'[task[t].sid], Called(calls, t))
  BY <1>1
<1>3. \A d \in calls : d.task \in Task /\ (d.task = t => CallHeard(d, task[t]))
  BY TypeInvFacts DEF Heard, Call
<1>4. \A u \in Task : task[u].sid # NoSession => task[u].sid[1] = u
  BY DEF Agents, RowsCalls
<1>5. task \in [Task -> Row] /\ calls \in SUBSET calls
  BY TypeInvFacts
<1>6. /\ s[1] = t /\ Argv(sess'[s]) /\ \A u \in Task : u # t => task[u] = task[u]
      /\ \A d \in calls : d.task # t => d \in calls
  BY <1>1
<1>7. Heard(task, calls, sess')
  BY <1>2, <1>3, <1>4, <1>5, <1>6, OneTaskHeard
<1>8. QED
  BY <1>7

\* What an agent reads it has, and it ends by itself only when it has read its brief.
LEMMA AgentStepsHeard ==
    ASSUME TypeInv, Agents(task, calls, sess), Heard(task, calls, sess),
           NEW s \in Session, AgentSteps(s)
    PROVE  Heard(task', calls', sess')
<1> DEFINE x == sess[s]
<1>1. UNCHANGED <<task, calls>> /\ \A w \in Session : w # s => sess'[w] = sess[w]
  BY TypeInvFacts DEF AgentSteps, AgentReads, AgentExits
<1>2. x # Unused
  BY DEF AgentSteps, AgentReads, AgentExits, Unused, Live
<1>3. /\ x \in SessionRecord /\ Shape(x) /\ Argv(x) /\ task[s[1]].sid = s /\ s # NoSession
      /\ RowHeard(task[s[1]], x, Called(calls, s[1]))
  BY <1>2, UsedHeard
<1>4. CASE AgentReads(s)
  <2> DEFINE y == [x EXCEPT !.conv = @ \union x.prompt \union x.inbox, !.prompt = {}, !.inbox = {}]
  <2>1. sess'[s] = y /\ x.agent = "alive"
    BY <1>4, TypeInvFacts DEF AgentReads
  <2>2. /\ y.agent = "alive" /\ y.conv = x.conv \union x.prompt \union x.inbox
        /\ y.prompt = {} /\ y.inbox = {} /\ (y.resumed <=> x.resumed)
    <3> HIDE DEF x
    <3> QED BY <1>3, <2>1 DEF SessionRecord
  <2> HIDE DEF x, y
  <2>3. Argv(y)
    BY <2>2 DEF Argv
  <2>4. RowHeard(task[s[1]], y, Called(calls, s[1]))
    BY <1>3, <2>2 DEF RowHeard, NotRedirected, RedirectedOnce
  <2>5. QED
    BY <1>1, <1>2, <2>1, <2>3, <2>4, OneSessionHeard DEF x
<1>5. ASSUME NEW how \in Ended, AgentExits(s, how)
      PROVE  Heard(task', calls', sess')
  <2> DEFINE y == [x EXCEPT !.agent = how]
  <2>1. x.agent \in Live /\ (how = "submitted" => x.prompt = {} /\ x.conv # {})
    BY <1>5 DEF AgentExits
  <2>2. x.run # "none" \/ x.orphan # "none"
    <3> HIDE DEF x
    <3> QED BY <1>3, <2>1 DEF Shape, Live
  <2>3. sess'[s] = y
    BY <1>5, <2>2, TypeInvFacts DEF AgentExits
  <2>4. /\ y.agent = how /\ y.prompt = x.prompt /\ y.inbox = x.inbox /\ y.conv = x.conv
        /\ (y.resumed <=> x.resumed)
    <3> HIDE DEF x
    <3> QED BY <1>3 DEF SessionRecord
  <2>5. SameMessages(x, y) /\ Argv(y)
    <3> HIDE DEF x, y
    <3> QED BY <2>1, <2>4 DEF SameMessages, Argv, Ended
  <2> HIDE DEF y
  <2>6. QED
    BY <1>1, <2>3, <2>5, SessionStillHeard
<1>6. QED
  BY <1>4, <1>5 DEF AgentSteps

\* The fields of rows that an exit settles.
LEMMA SettledRow ==
    ASSUME NEW r \in [Task -> Row], NEW s, NEW done \in BOOLEAN, NEW t \in Task
    PROVE  LET y == SettledTasks(r, s, done)[t] IN
           /\ y.sid = r[t].sid /\ y.redirects = r[t].redirects /\ y.seen = r[t].seen
           /\ r[t].sid = s /\ r[t].status = "running" => y.status = IF done THEN "done" ELSE "error"
           /\ ~(r[t].sid = s /\ r[t].status = "running") => y = r[t]
<1>1. r[t] \in Row
  OBVIOUS
<1>2. \A b \in {"done", "error"} :
        /\ [r[t] EXCEPT !.status = b].sid = r[t].sid
        /\ [r[t] EXCEPT !.status = b].redirects = r[t].redirects
        /\ [r[t] EXCEPT !.status = b].seen = r[t].seen
        /\ [r[t] EXCEPT !.status = b].status = b
  BY <1>1 DEF Row
<1>3. QED
  BY <1>2 DEF SettledTasks

\* A row that settles when its agent is done has heard the redirect: what was on the command
\* line was read, what was in the control file would have been a turn of its own, unless the
\* agent was resumed, and then it was resumed with the redirect.
LEMMA DoneHeard ==
    ASSUME NEW x, x.sid # NoSession, NEW v, Argv(v), RowHeard(x, v, FALSE), ~Unread(v),
           NEW w, w.conv = v.conv, w.inbox = {}, ~w.resumed,
           NEW y, y.sid = x.sid, y.redirects = x.redirects, y.seen = x.seen,
           \/ y.status = x.status /\ x.status # "running"
           \/ x.status = "running" /\ y.status = "error"
           \/ x.status = "running" /\ y.status = "done" /\ v.agent = "submitted" /\ ~WasInterrupted(v)
    PROVE  RowHeard(y, w, FALSE)
<1>1. ASSUME x.redirects = 1, x.status = "running", v.agent = "submitted", ~WasInterrupted(v)
      PROVE  1 \in v.conv
  <2>1. /\ 1 \in v.conv \union v.prompt \union v.inbox /\ v.prompt = {} /\ v.conv # {}
        /\ v.resumed => 1 \in v.conv \union v.prompt
    BY <1>1 DEF RowHeard, RedirectedOnce, Argv
  <2>2. v.inbox = {} \/ v.resumed
    BY <1>1, <2>1 DEF Unread
  <2>3. QED
    BY <2>1, <2>2
<1>2. QED
  BY <1>1 DEF RowHeard, NotRedirected, RedirectedOnce

\* An exit settles its task when nothing is left to be read.
LEMMA ExitSettlesHeard ==
    ASSUME TypeInv, Undisturbed, Agents(task, calls, sess), Heard(task, calls, sess),
           NEW s \in Session, ExitSettles(s)
    PROVE  Heard(task', calls', sess')
<1> DEFINE x == sess[s]
           ok == x.agent = "submitted" \/ (x.agent = "crashed" /\ x.ok)
           done == ~WasInterrupted(x) /\ x.agent = "submitted" /\ x.held = "yes"
           waits == \E t \in BySession(task, s) : task[t].status = "queued"
           z == AfterExit(x)
           y == [z EXCEPT !.ok = ok, !.row = IF x.conv = {} \/ x.deleted THEN @ ELSE x.conv,
                          !.releasing = @ \/ (BySession(task, s) # {} /\ ~waits)]
           r == SettledTasks(task, s, done)
<1>1. calls = {} /\ x \in SessionRecord /\ x # Unused /\ task[s[1]].sid = s
  BY HandledFacts DEF ExitSettles
<1>2. PICK t \in Task : t = s[1] /\ task[t].sid = s /\ s # NoSession
  BY <1>1, UsedHeard
<1>3. Argv(x) /\ RowHeard(task[t], x, Called(calls, t))
  BY <1>1, <1>2, UsedHeard
<1>4. RowHeard(task[t], x, FALSE)
  <2>1. ~Called(calls, t)
    BY <1>1 DEF Called
  <2> HIDE DEF x
  <2>2. QED
    BY <1>3, <2>1 DEF RowHeard, NotRedirected, RedirectedOnce
<1>5. z \in SessionRecord /\ z.agent = "none" /\ ~z.resumed /\ z.inbox = {} /\ z.conv = x.conv
  BY <1>1, AfterExitFields, AfterExitType
<1>6. y.agent = "none" /\ ~y.resumed /\ y.inbox = {} /\ y.conv = x.conv
  <2> HIDE DEF z, ok, waits, x
  <2> QED BY <1>5 DEF SessionRecord
<1>7. sess'[s] = y /\ \A w \in Session : w # s => sess'[w] = sess[w]
  BY TypeInvFacts DEF ExitSettles
<1>8. /\ ~Unread(x)
      /\ \/ Pump(r, cap, calls)
         \/ /\ UNCHANGED <<task, calls>>
            /\ ~\E u \in BySession(task, s) : task[u].status = "running"
  BY DEF ExitSettles
<1>9. r \in [Task -> Row]
  BY TypeInvFacts, SettledTasksOK DEF RowsOK
<1>10. /\ r[t].sid = task[t].sid /\ r[t].redirects = task[t].redirects /\ r[t].seen = task[t].seen
       /\ task[t].status = "running" => r[t].status = IF done THEN "done" ELSE "error"
       /\ task[t].status # "running" => r[t] = task[t]
  <2>1. done \in BOOLEAN
    OBVIOUS
  <2> HIDE DEF done
  <2>2. QED
    BY <1>2, <2>1, SettledRow, TypeInvFacts
<1>11. \A u \in Task : u # t => r[u] = task[u]
  <2>1. \A u \in Task : u # t => task[u].sid # s
    BY <1>2 DEF Agents, RowsCalls
  <2>2. done \in BOOLEAN
    OBVIOUS
  <2> HIDE DEF done
  <2>3. QED
    BY <2>1, <2>2, SettledRow, TypeInvFacts
<1>12. \A u \in Task : r[u].sid = task[u].sid /\ r[u].attempts = task[u].attempts
  BY SettledFields, TypeInvFacts
<1>13. done => x.agent = "submitted" /\ ~WasInterrupted(x)
  OBVIOUS
<1> HIDE DEF y, x, done, r
<1>14. Argv(y)
  BY <1>6 DEF Argv
<1>15. RowHeard(r[t], y, FALSE)
  BY <1>2, <1>3, <1>4, <1>6, <1>8, <1>10, <1>13, DoneHeard
<1>16. Heard(r, {}, sess')
  <2>1. Heard(task, {}, sess) /\ task \in [Task -> Row] /\ {} \in SUBSET {}
    BY <1>1, TypeInvFacts
  <2>2. Argv(sess'[s]) /\ s[1] = t
    BY <1>2, <1>7, <1>14
  <2>3. ~Called({}, t) /\ r[t].sid = s
    BY <1>2, <1>10 DEF Called
  <2>4. RowHeard(r[t], sess'[r[t].sid], Called({}, t))
    BY <1>7, <1>15, <2>3 DEF RowHeard, NotRedirected, RedirectedOnce
  <2>5. \A u \in Task : task[u].sid # NoSession => task[u].sid[1] = u
    BY DEF Agents, RowsCalls
  <2>6. QED
    BY <1>7, <1>11, <2>1, <2>2, <2>4, <2>5, OneTaskHeard
<1>17. CASE Pump(r, cap, calls)
  BY <1>1, <1>9, <1>12, <1>16, <1>17, RestPumped
<1>18. CASE UNCHANGED <<task, calls>> /\ ~\E u \in BySession(task, s) : task[u].status = "running"
  <2>1. task[t].status # "running"
    BY <1>2, <1>18 DEF BySession
  <2>2. \A u \in Task : r[u] = task[u]
    BY <1>10, <1>11, <2>1
  <2>3. r = task
    BY <1>9, <2>2, TypeInvFacts
  <2>4. QED
    BY <1>1, <1>16, <1>18, <2>3
<1>19. QED
  BY <1>8, <1>17, <1>18

\* Unread messages are given to the next agent, and a task that is done has none.
LEMMA ExitEventsHeard ==
    ASSUME TypeInv, Undisturbed, ~DiskFaults, Agents(task, calls, sess), Heard(task, calls, sess),
           NEW s \in Session, ExitEvents(s)
    PROVE  Heard(task', calls', sess')
<1> DEFINE x == sess[s]
<1>1. CASE ExitResumes(s)
  <2> DEFINE y == Resumed(x, x.inbox)
  <2>1. x # Unused /\ Unread(x)
    BY <1>1, HandledFacts DEF ExitResumes
  <2>2. /\ UNCHANGED <<task, calls>>
        /\ sess'[s] = y /\ \A w \in Session : w # s => sess'[w] = sess[w]
    BY <1>1, TypeInvFacts DEF ExitResumes
  <2>3. /\ x \in SessionRecord /\ task[s[1]].sid = s /\ s # NoSession
        /\ RowHeard(task[s[1]], x, Called(calls, s[1]))
    BY <2>1, UsedHeard
  <2>4. y.agent = "alive" /\ y.resumed /\ y.prompt = x.inbox /\ y.inbox = {} /\ y.conv = x.conv
    BY <2>3, ResumedFields
  <2>5. x.inbox # {}
    BY <2>1 DEF Unread
  <2> HIDE DEF x, y
  <2>6. Argv(y)
    BY <2>4 DEF Argv
  <2>7. RowHeard(task[s[1]], y, Called(calls, s[1]))
    <3>1. task[s[1]].redirects # 0
      BY <2>3, <2>5 DEF RowHeard, NotRedirected
    <3>2. task[s[1]].redirects = 1 => x.inbox = {1}
      BY <2>3, <2>5 DEF RowHeard, RedirectedOnce
    <3>3. QED
      BY <2>3, <2>4, <3>1, <3>2 DEF RowHeard, RedirectedOnce
  <2>8. QED
    BY <2>1, <2>2, <2>6, <2>7, OneSessionHeard DEF x
<1>2. CASE ExitNotResumed(s)
  BY <1>2 DEF ExitNotResumed
<1>3. CASE ExitSettles(s)
  BY <1>3, ExitSettlesHeard
<1>4. CASE AttachedExits(s)
  <2> DEFINE y == [x EXCEPT !.run = "none",
                            !.ok = x.agent = "submitted" \/ (x.agent # "quit" /\ x.ok),
                            !.agent = IF x.orphan = "none" THEN "none" ELSE @]
  <2>1. /\ x.run = "attached" /\ Serving
        /\ UNCHANGED <<task, calls>>
        /\ sess'[s] = y /\ \A w \in Session : w # s => sess'[w] = sess[w]
    BY <1>4, TypeInvFacts DEF AttachedExits
  <2>2. x \in SessionRecord /\ Shape(x) /\ Argv(x)
    BY TypeInvFacts DEF Agents, SessionOK, Heard
  <2>3. /\ y.agent = IF x.orphan = "none" THEN "none" ELSE x.agent
        /\ y.prompt = x.prompt /\ y.inbox = x.inbox /\ y.conv = x.conv /\ (y.resumed <=> x.resumed)
    <3> HIDE DEF x
    <3> QED BY <2>2 DEF SessionRecord
  <2>4. x.orphan = "none" => x.agent = "none"
    <3> HIDE DEF x
    <3> QED BY <2>1, <2>2 DEF Shape
  <2>5. SameMessages(x, y) /\ Argv(y)
    <3> HIDE DEF x, y
    <3> QED BY <2>2, <2>3, <2>4 DEF SameMessages, Argv
  <2> HIDE DEF y
  <2>6. QED
    BY <2>1, <2>5, SessionStillHeard
<1>5. QED
  BY <1>1, <1>2, <1>3, <1>4 DEF ExitEvents

\* Timers move no message.
LEMMA TimersHeard ==
    ASSUME TypeInv, Heard(task, calls, sess), NEW s \in Session, Release(s) \/ PersistDirty(s)
    PROVE  Heard(task', calls', sess')
<1> DEFINE x == sess[s]
<1>1. UNCHANGED <<task, calls>> /\ \A w \in Session : w # s => sess'[w] = sess[w]
  BY TypeInvFacts DEF Release, PersistDirty
<1>2. x \in SessionRecord /\ Argv(x)
  BY TypeInvFacts DEF Heard
<1>3. \/ sess'[s] = Persisted(x)
      \/ sess'[s] = [Closed(x, FALSE) EXCEPT !.releasing = FALSE]
      \/ sess'[s] = [x EXCEPT !.releasing = FALSE]
  BY TypeInvFacts DEF Release, PersistDirty
<1>4. \A k \in SessionRecord : Argv(k) =>
         LET y == [k EXCEPT !.releasing = FALSE] IN SameMessages(k, y) /\ Argv(y)
  BY DEF SessionRecord, SameMessages, Argv
<1>5. SameMessages(x, Persisted(x)) /\ Argv(Persisted(x))
  <2> HIDE DEF x
  <2> QED BY <1>2 DEF Persisted, SessionRecord, SameMessages, Argv
<1>6. /\ SameMessages(x, Closed(x, FALSE)) /\ Argv(Closed(x, FALSE))
      /\ Closed(x, FALSE) \in SessionRecord
  <2>1. CASE x.held = "yes"
    BY <1>2, <2>1, ClosedMessages, ClosedType
  <2>2. CASE x.held # "yes"
    BY <1>2, <2>2, ClosedMessages DEF Closed
  <2>3. QED
    BY <2>1, <2>2
<1>7. SameMessages(x, sess'[s]) /\ Argv(sess'[s])
  <2> HIDE DEF x
  <2>1. CASE sess'[s] = Persisted(x)
    BY <1>5, <2>1
  <2>2. CASE sess'[s] = [Closed(x, FALSE) EXCEPT !.releasing = FALSE]
    <3>1. SameMessages(Closed(x, FALSE), sess'[s]) /\ Argv(sess'[s])
      BY <1>4, <1>6, <2>2
    <3>2. QED
      BY <1>6, <3>1 DEF SameMessages
  <2>3. CASE sess'[s] = [x EXCEPT !.releasing = FALSE]
    BY <1>2, <1>4, <2>3
  <2>4. QED
    BY <1>3, <2>1, <2>2, <2>3
<1>8. QED
  BY <1>1, <1>7, SessionStillHeard

-----------------------------------------------------------------------------
(* A redirect is heard.                                                    *)

\* Nobody was redirected when the server first starts.
LEMMA InitHeard == Init => HeardInv
<1> SUFFICES ASSUME Init PROVE Heard(task, calls, sess)
  BY DEF HeardInv
<1>1. task = [t \in Task |-> NoRow] /\ calls = {} /\ sess = [s \in Session |-> Unused]
  BY DEF Init
<1>2. ASSUME NEW t \in Task
      PROVE  RowHeard(task[t], sess[task[t].sid], Called(calls, t))
  <2>1. task[t].sid = NoSession /\ task[t].redirects = 0 /\ task[t].seen = 0
    BY <1>1 DEF NoRow
  <2>2. QED
    BY <2>1 DEF RowHeard, NotRedirected
<1>3. Argv(Unused)
  BY DEF Argv, Unused
<1>4. QED
  BY <1>1, <1>2, <1>3 DEF Heard

\* Every step keeps track of the redirect.
LEMMA NextHeard == TypeInv /\ AgentInv /\ HeardInv /\ [Next]_vars => HeardInv'
<1> SUFFICES ASSUME TypeInv, AgentInv, HeardInv, [Next]_vars, Undisturbed', ~DiskFaults
             PROVE  Heard(task', calls', sess')
  BY DEF HeardInv, Heard, Called
<1>1. Undisturbed /\ phase = "up" /\ Agents(task, calls, sess) /\ Heard(task, calls, sess)
  BY UndisturbedStep DEF HeardInv
<1>2. CASE UNCHANGED vars
  BY <1>1, <1>2 DEF vars
<1>3. CASE Requests
  BY <1>1, <1>3, CreateHeard, RedirectQueuedHeard, RedirectRunningHeard, RedirectReopenHeard,
     CancelHeard, CloseSessionHeard, InterruptSessionHeard, ResizeHeard DEF Requests
<1>4. CASE Starts
  <2>1. \A c \in calls : ~WorkerNotResumed(c)
    BY DEF WorkerNotResumed
  <2>2. QED
    BY <1>1, <1>4, <2>1, StartFailsHeard, WorkerStartedHeard, WorkerContinuedHeard DEF Starts
<1>5. CASE \E s \in Session : AgentSteps(s) \/ ExitEvents(s) \/ Release(s) \/ PersistDirty(s)
  BY <1>1, <1>5, AgentStepsHeard, ExitEventsHeard, TimersHeard
<1>6. QED
  BY <1>2, <1>3, <1>4, <1>5, UndisturbedStep

\* A task that is done and was redirected once has an agent that read the redirect, be it in
\* its brief, in its control file, after its last step or in a run that followed: under the
\* same two conditions, and as long as a resume file can be written (workQueue.ts redirect(),
\* sessions.ts #createLocal's exit handler, #resumeLocal).
THEOREM RedirectsAreHeard == Spec => [](Undisturbed /\ ~DiskFaults => OnlyRedirectHeard)
<1>1. HeardInv => (Undisturbed /\ ~DiskFaults => OnlyRedirectHeard)
  BY DEF HeardInv, Heard, RowHeard, RedirectedOnce, OnlyRedirectHeard
<1>2. QED
  BY InitType, NextType, InitAgents, NextAgents, InitHeard, NextHeard, <1>1, PTL DEF Spec

=============================================================================
