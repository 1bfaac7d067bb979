--------------------------- MODULE SchedulerProofs ---------------------------
(***************************************************************************)
(* What the scheduler guarantees for every workflow, every limit and every *)
(* number of resumes.  From the invariant Inductive: that nothing is left  *)
(* running, that limits and the retry policy hold, that accepted work is   *)
(* kept.  From VerdictInvariant, for every workflow that obeys the graph   *)
(* rules: that workers run only after everything they depend on, that a    *)
(* completed run has decided every task and phase, and that a route, once  *)
(* resolved, is final.                                                     *)
(***************************************************************************)
EXTENDS Scheduler, FiniteSetTheorems, WellFoundedInduction, TLAPS

-----------------------------------------------------------------------------
(* Induction over data, without operators as parameters                    *)

\* Every non-empty set of naturals has a least element.
LEMMA LeastNatural ==
  ASSUME NEW T \in SUBSET Nat, T # {}
  PROVE  \E n \in T : \A m \in T : n <= m
<1> DEFINE R == {ss \in Nat \X Nat : ss[1] < ss[2]}
<1>1. IsWellFoundedOn(R, Nat)
  BY NatLessThanWellFounded DEF OpToRel
<1> HIDE DEF R
<1>2. PICK x \in T : \A y \in T : ~ (<<y, x>> \in R)
  BY <1>1, WFMin
<1>3. ASSUME NEW y \in T PROVE x <= y
  <2>1. ~ (<<y, x>> \in R) /\ x \in Nat /\ y \in Nat
    BY <1>2
  <2>2. ~ (y < x)
    BY <2>1 DEF R
  <2> QED BY <2>1, <2>2
<1> QED BY <1>3

\* A recursion on D: x takes its value from next[x], whose measure is smaller,
\* until x is in stop.
Recursion(D, S, k, m, next, stop, base, op) ==
  /\ k \in Nat /\ m \in [D -> 0 .. k] /\ next \in [D -> D] /\ stop \in SUBSET D
  /\ base \in [D -> S] /\ op \in [D -> [S -> S]]
  /\ \A x \in D \ stop : m[next[x]] < m[x]

SolvesRecursion(f, D, S, next, stop, base, op) ==
  /\ f \in [D -> S]
  /\ \A x \in D : f[x] = IF x \in stop THEN base[x] ELSE op[x][f[next[x]]]

\* A function may be defined by recursion along a measure that falls.
LEMMA RecursionExists ==
  ASSUME NEW D, NEW S, NEW k, NEW m, NEW next, NEW stop, NEW base, NEW op,
         Recursion(D, S, k, m, next, stop, base, op)
  PROVE  \E f : SolvesRecursion(f, D, S, next, stop, base, op)
<1> USE DEF Recursion
<1> DEFINE B(n) == {x \in D : m[x] <= n}
           Solves(f, n) == /\ f \in [B(n) -> S]
                           /\ \A x \in B(n) : f[x] = IF x \in stop THEN base[x] ELSE op[x][f[next[x]]]
           Bad == {n \in 0 .. k : ~ \E f : Solves(f, n)}
<1>0. \A n : n \in Bad <=> n \in 0 .. k /\ ~ \E f : Solves(f, n)
  OBVIOUS
<1> HIDE DEF Bad
<1>1. Bad = {}
  <2> SUFFICES ASSUME Bad # {} PROVE FALSE
    OBVIOUS
  <2>1. Bad \in SUBSET Nat
    BY <1>0
  <2>2. PICK n \in Bad : \A i \in Bad : n <= i
    BY <2>1, LeastNatural
  <2>3. n \in 0 .. k /\ ~ \E f : Solves(f, n)
    BY <1>0
  <2>4. CASE n = 0
    <3> DEFINE f == [x \in B(0) |-> base[x]]
    <3>1. \A x \in B(0) : x \in stop
      <4> SUFFICES ASSUME NEW x \in B(0), x \notin stop PROVE FALSE
        OBVIOUS
      <4>1. m[next[x]] < m[x] /\ m[x] <= 0 /\ m[x] \in 0 .. k
        OBVIOUS
      <4>2. next[x] \in D
        OBVIOUS
      <4>3. m[next[x]] \in 0 .. k
        BY <4>2
      <4> QED BY <4>1, <4>3
    <3>2. \A x \in B(0) : base[x] \in S
      OBVIOUS
    <3>3. Solves(f, 0)
      BY <3>1, <3>2
    <3> QED BY <2>3, <2>4, <3>3
  <2>5. CASE n # 0
    <3>1. n - 1 \in 0 .. k /\ n \in Nat
      BY <2>3, <2>5
    <3>2. n - 1 \notin Bad
      BY <2>2, <3>1
    <3>3. PICK g : Solves(g, n - 1)
      BY <1>0, <3>1, <3>2
    <3> DEFINE f == [x \in B(n) |-> IF x \in stop THEN base[x] ELSE op[x][g[next[x]]]]
    <3>4. ASSUME NEW x \in B(n), x \notin stop PROVE next[x] \in B(n - 1) /\ next[x] \in B(n)
      <4>1. next[x] \in D /\ m[next[x]] \in 0 .. k /\ m[x] \in 0 .. k
        OBVIOUS
      <4>2. m[next[x]] < m[x] /\ m[x] <= n
        BY <3>4
      <4> QED BY <3>1, <4>1, <4>2
    <3>5. ASSUME NEW x \in B(n) PROVE f[x] \in S
      <4>1. CASE x \in stop
        BY <4>1
      <4>2. CASE x \notin stop
        <5>1. g[next[x]] \in S /\ op[x] \in [S -> S]
          BY <3>3, <3>4, <4>2
        <5> QED BY <4>2, <5>1
      <4> QED BY <4>1, <4>2
    <3>6. \A y \in B(n - 1) : y \in B(n) /\ f[y] = g[y]
      <4> TAKE y \in B(n - 1)
      <4>1. m[y] \in 0 .. k /\ m[y] <= n - 1
        OBVIOUS
      <4>2. y \in B(n)
        BY <3>1, <4>1
      <4>3. g[y] = IF y \in stop THEN base[y] ELSE op[y][g[next[y]]]
        BY <3>3
      <4> QED BY <4>2, <4>3
    <3>7. \A x \in B(n) : f[x] = IF x \in stop THEN base[x] ELSE op[x][f[next[x]]]
      <4> TAKE x \in B(n)
      <4>1. CASE x \in stop
        BY <4>1
      <4>2. CASE x \notin stop
        <5>1. f[next[x]] = g[next[x]]
          BY <3>4, <3>6, <4>2
        <5>2. f[x] = op[x][g[next[x]]]
          BY <4>2
        <5> QED BY <4>2, <5>1, <5>2
      <4> QED BY <4>1, <4>2
    <3>8. f \in [B(n) -> S]
      BY <3>5
    <3> HIDE DEF f
    <3> QED BY <2>3, <3>7, <3>8
  <2> QED BY <2>4, <2>5
<1>2. PICK f : Solves(f, k)
  <2>1. k \notin Bad /\ k \in 0 .. k
    BY <1>1
  <2> QED BY <1>0, <2>1
<1>3. B(k) = D
  OBVIOUS
<1> QED BY <1>2, <1>3 DEF SolvesRecursion

\* A nonempty initial segment of a counter has a largest index.
LEMMA LargestIndex ==
  ASSUME NEW n \in Nat, NEW s \in SUBSET (1 .. n), s # {}
  PROVE  Max(s) \in s
<1> DEFINE T == {n - i : i \in s}
<1>1. T \in SUBSET Nat /\ T # {}
  <2>1. ASSUME NEW i \in s PROVE n - i \in Nat
    <3>1. i \in 1 .. n
      OBVIOUS
    <3> QED BY <3>1
  <2>2. PICK i : i \in s
    OBVIOUS
  <2>3. n - i \in T
    BY <2>2
  <2> QED BY <2>1, <2>3
<1>2. PICK d \in T : \A e \in T : d <= e
  BY <1>1, LeastNatural
<1>3. PICK i \in s : d = n - i
  BY <1>2
<1>4. \A j \in s : i >= j
  <2> TAKE j \in s
  <2>1. n - i <= n - j /\ i \in 1 .. n /\ j \in 1 .. n
    BY <1>2, <1>3
  <2> QED BY <2>1
<1> QED BY <1>4 DEF Max

\* Induction over the sets of indices that a fold goes through
LEMMA FoldInduction ==
  ASSUME NEW n \in Nat, NEW Y, {} \in Y,
         \A s \in SUBSET (1 .. n) : s # {} /\ s \ {Max(s)} \in Y => s \in Y
  PROVE  \A s \in SUBSET (1 .. n) : s \in Y
<1> DEFINE Bad == {s \in SUBSET (1 .. n) : s \notin Y}
           T == {Cardinality(s) : s \in Bad}
<1>1. ASSUME NEW s \in SUBSET (1 .. n) PROVE IsFiniteSet(s) /\ Cardinality(s) \in Nat
  <2>1. IsFiniteSet(1 .. n)
    BY FS_Interval
  <2>2. IsFiniteSet(s)
    BY <2>1, FS_Subset
  <2> QED BY <2>2, FS_CardinalityType
<1>2. Bad = {}
  <2> SUFFICES ASSUME Bad # {} PROVE FALSE
    OBVIOUS
  <2>1. T \in SUBSET Nat /\ T # {}
    <3>1. \A s \in Bad : Cardinality(s) \in Nat
      BY <1>1
    <3> QED BY <3>1
  <2>2. PICK c \in T : \A d \in T : c <= d
    BY <2>1, LeastNatural
  <2>3. PICK s \in Bad : c = Cardinality(s)
    BY <2>2
  <2>4. s # {} /\ Max(s) \in s
    BY LargestIndex
  <2>5. Cardinality(s \ {Max(s)}) = Cardinality(s) - 1 /\ Cardinality(s) \in Nat
    BY <1>1, <2>4, FS_RemoveElement
  <2>6. s \ {Max(s)} \in Bad
    BY <2>4
  <2>7. Cardinality(s) <= Cardinality(s \ {Max(s)})
    BY <2>2, <2>3, <2>6
  <2> QED BY <2>5, <2>7
<1> QED BY <1>2

-----------------------------------------------------------------------------
(* propagateSkips *)

\* From b to c, some tasks that waited are skipped and some phases end.
Progress(b, c) ==
  /\ c \in Boards
  /\ \A t \in AllTasks : \/ c.task[t] = b.task[t]
                         \/ b.task[t] = "queued" /\ c.task[t] = "skipped"
  /\ \A p \in Phases : \/ c.phase[p] = b.phase[p]
                       \/ b.phase[p] \notin FinalPhase /\ c.phase[p] \in FinalPhase

\* Progress is a partial order on boards.
LEMMA ProgressIsPartialOrder ==
  ASSUME NEW b \in Boards, NEW c, NEW d
  PROVE  /\ Progress(b, b)
         /\ Progress(b, c) /\ Progress(c, d) => Progress(b, d)
         /\ Progress(b, c) /\ Progress(c, b) => b = c
<1>1. Progress(b, b)
  BY DEF Progress
<1>2. Progress(b, c) /\ Progress(c, d) => Progress(b, d)
  BY DEF Progress
<1>3. ASSUME Progress(b, c), Progress(c, b) PROVE b = c
  <2>1. c \in Boards
    BY <1>3 DEF Progress
  <2>2. b.task = c.task
    <3>1. \A t \in AllTasks : b.task[t] = c.task[t]
      BY <1>3 DEF Progress
    <3> QED BY <2>1, <3>1 DEF Boards
  <2>3. b.phase = c.phase
    <3>1. \A p \in Phases : b.phase[p] = c.phase[p]
      BY <1>3 DEF Progress
    <3> QED BY <2>1, <3>1 DEF Boards
  <2> QED BY <2>1, <2>2, <2>3 DEF Boards
<1> QED BY <1>1, <1>2, <1>3

\* One step of propagateSkips, on a task or on a phase, progresses.
LEMMA SkipStepsProgress ==
  ASSUME NEW b \in Boards
  PROVE  /\ \A t \in AllTasks : Progress(b, SkipTask(b, t))
         /\ \A p \in Phases : Progress(b, SkipPhase(b, p))
<1>1. ASSUME NEW t \in AllTasks PROVE Progress(b, SkipTask(b, t))
  BY DEF Progress, SkipTask, Boards, TaskStatus, TerminalTask, PermanentFailure
<1>2. ASSUME NEW p \in Phases PROVE Progress(b, SkipPhase(b, p))
  <2>1. PhaseVerdict(b, p) = b.phase[p] \/ PhaseVerdict(b, p) \in FinalPhase
    BY DEF PhaseVerdict, FinalPhase
  <2> HIDE DEF PhaseVerdict
  <2> QED BY <2>1 DEF Progress, SkipPhase, Boards, PhaseStatus
<1> QED BY <1>1, <1>2

\* A fold over indices 1 .. n, by the table of its intermediate boards
IsFoldTable(f, n, step, b) ==
  /\ f \in [SUBSET (1 .. n) -> Boards]
  /\ f[{}] = b
  /\ \A s \in SUBSET (1 .. n) :
       s # {} => Max(s) \in 1 .. n /\ f[s] = step[Max(s)][f[s \ {Max(s)}]]

TaskFold(b) == FoldLeft(SkipTask, b, TaskOrder)
PhaseFold(b) == FoldLeft(SkipPhase, b, PhaseOrder)

\* The two orders list every task and every phase, once.
LEMMA OrderFacts ==
  /\ DOMAIN TaskOrder = 1 .. Len(TaskOrder) /\ Len(TaskOrder) \in Nat
  /\ DOMAIN PhaseOrder = 1 .. Len(PhaseOrder) /\ Len(PhaseOrder) \in Nat
  /\ \A i \in 1 .. Len(TaskOrder) : TaskOrder[i] \in AllTasks
  /\ \A i \in 1 .. Len(PhaseOrder) : PhaseOrder[i] \in Phases
  /\ \A t \in AllTasks : \E i \in 1 .. Len(TaskOrder) : TaskOrder[i] = t
  /\ \A p \in Phases : \E i \in 1 .. Len(PhaseOrder) : PhaseOrder[i] = p
<1>1. TaskOrder \in Seq(AllTasks) /\ PhaseOrder \in Seq(Phases)
  BY OrderRules
<1>2. /\ DOMAIN TaskOrder = 1 .. Len(TaskOrder) /\ Len(TaskOrder) \in Nat
      /\ \A i \in 1 .. Len(TaskOrder) : TaskOrder[i] \in AllTasks
  BY <1>1
<1>3. /\ DOMAIN PhaseOrder = 1 .. Len(PhaseOrder) /\ Len(PhaseOrder) \in Nat
      /\ \A i \in 1 .. Len(PhaseOrder) : PhaseOrder[i] \in Phases
  BY <1>1
<1>4. \A t \in AllTasks : \E i \in DOMAIN TaskOrder : TaskOrder[i] = t
  BY OrderRules DEF ToSet
<1>5. \A p \in Phases : \E i \in DOMAIN PhaseOrder : PhaseOrder[i] = p
  BY OrderRules DEF ToSet
<1> QED BY <1>2, <1>3, <1>4, <1>5

\* The table of intermediate results of a fold over indices exists.
LEMMA FoldTableExists ==
  ASSUME NEW n \in Nat, NEW step \in [1 .. n -> [Boards -> Boards]], NEW b \in Boards
  PROVE  \E f : IsFoldTable(f, n, step, b)
<1> DEFINE S == Boards
           D == SUBSET (1 .. n)
           m == [s \in D |-> Cardinality(s)]
           next == [s \in D |-> s \ {Max(s)}]
           base == [s \in D |-> b]
           op == [s \in D |-> IF s = {} THEN [c \in S |-> c] ELSE step[Max(s)]]
           stop == {{}}
<1>1. m \in [D -> 0 .. n]
  <2>1. IsFiniteSet(1 .. n) /\ Cardinality(1 .. n) = n
    BY FS_Interval
  <2>2. ASSUME NEW s \in D PROVE Cardinality(s) \in 0 .. n
    <3>1. IsFiniteSet(s) /\ Cardinality(s) <= Cardinality(1 .. n)
      <4>1. s \in SUBSET (1 .. n)
        OBVIOUS
      <4> QED BY <2>1, <4>1, FS_Subset
    <3>2. Cardinality(s) \in Nat
      BY <3>1, FS_CardinalityType
    <3> QED BY <2>1, <3>1, <3>2
  <2> QED BY <2>2
<1>2. next \in [D -> D] /\ base \in [D -> S] /\ stop \in SUBSET D
  OBVIOUS
<1>3. op \in [D -> [S -> S]]
  <2>1. ASSUME NEW s \in D, s # {} PROVE step[Max(s)] \in [S -> S]
    BY <2>1, LargestIndex
  <2> QED BY <2>1
<1>4. \A s \in D \ stop : m[next[s]] < m[s]
  <2> TAKE s \in D \ stop
  <2>1. Max(s) \in s
    BY LargestIndex
  <2>2. IsFiniteSet(1 .. n)
    BY FS_Interval
  <2>3. IsFiniteSet(s)
    BY <2>2, FS_Subset
  <2>4. Cardinality(s \ {Max(s)}) = Cardinality(s) - 1 /\ Cardinality(s) \in Nat
    BY <2>1, <2>3, FS_RemoveElement, FS_CardinalityType
  <2>5. s \in D /\ s \ {Max(s)} \in D
    OBVIOUS
  <2>6. m[s] = Cardinality(s) /\ m[next[s]] = Cardinality(s \ {Max(s)})
    BY <2>5
  <2> QED BY <2>4, <2>6
<1> HIDE DEF m
<1>5. Recursion(D, S, n, m, next, stop, base, op)
  BY <1>1, <1>2, <1>3, <1>4 DEF Recursion
<1>6. PICK f : SolvesRecursion(f, D, S, next, stop, base, op)
  <2> HIDE DEF next, base, op, D, stop
  <2> QED BY <1>5, RecursionExists
<1> QED BY <1>6, LargestIndex DEF SolvesRecursion, IsFoldTable

TaskSteps == [i \in 1 .. Len(TaskOrder) |-> [c \in Boards |-> SkipTask(c, TaskOrder[i])]]
PhaseSteps == [i \in 1 .. Len(PhaseOrder) |-> [c \in Boards |-> SkipPhase(c, PhaseOrder[i])]]

\* The steps of a pass take boards to boards.
LEMMA StepsType ==
  /\ TaskSteps \in [1 .. Len(TaskOrder) -> [Boards -> Boards]]
  /\ PhaseSteps \in [1 .. Len(PhaseOrder) -> [Boards -> Boards]]
<1>1. ASSUME NEW i \in 1 .. Len(TaskOrder), NEW c \in Boards
      PROVE SkipTask(c, TaskOrder[i]) \in Boards
  BY OrderFacts, SkipStepsProgress DEF Progress
<1>2. ASSUME NEW i \in 1 .. Len(PhaseOrder), NEW c \in Boards
      PROVE SkipPhase(c, PhaseOrder[i]) \in Boards
  BY OrderFacts, SkipStepsProgress DEF Progress
<1> QED BY <1>1, <1>2 DEF TaskSteps, PhaseSteps

\* The loop over the tasks, as a table of its partial results
LEMMA TaskFoldTable ==
  ASSUME NEW b \in Boards
  PROVE  \E f : IsFoldTable(f, Len(TaskOrder), TaskSteps, b) /\ TaskFold(b) = f[1 .. Len(TaskOrder)]
<1> DEFINE n == Len(TaskOrder)
           Eqn(f) == f = [s \in SUBSET (DOMAIN TaskOrder) |->
                            IF s = {} THEN b ELSE SkipTask(f[s \ {Max(s)}], TaskOrder[Max(s)])]
           g == CHOOSE f : Eqn(f)
<1>1. TaskFold(b) = g[DOMAIN TaskOrder]
  BY DEF FoldLeft, MapThenFoldSet, TaskFold
<1>2. DOMAIN TaskOrder = 1 .. n /\ n \in Nat
  BY OrderFacts
<1>3. PICK h : IsFoldTable(h, n, TaskSteps, b)
  BY <1>2, StepsType, FoldTableExists
<1>4. ASSUME NEW f \in [SUBSET (1 .. n) -> Boards], NEW s \in SUBSET (1 .. n), s # {}
      PROVE  /\ Max(s) \in 1 .. n
             /\ TaskSteps[Max(s)][f[s \ {Max(s)}]] = SkipTask(f[s \ {Max(s)}], TaskOrder[Max(s)])
  <2>1. Max(s) \in 1 .. n
    BY <1>2, <1>4, LargestIndex
  <2>2. f[s \ {Max(s)}] \in Boards
    OBVIOUS
  <2> QED BY <2>1, <2>2 DEF TaskSteps
<1>5. Eqn(h)
  BY <1>2, <1>3, <1>4 DEF IsFoldTable
<1>6. Eqn(g)
  <2> HIDE DEF Eqn
  <2> QED BY <1>5
<1> HIDE DEF g
<1>7. DOMAIN g = SUBSET (1 .. n)
  BY <1>2, <1>6
<1>8. ASSUME NEW s \in SUBSET (1 .. n)
      PROVE  g[s] = IF s = {} THEN b ELSE SkipTask(g[s \ {Max(s)}], TaskOrder[Max(s)])
  BY <1>2, <1>6
<1>9. \A s \in SUBSET (1 .. n) : g[s] \in Boards
  <2> DEFINE Y == {s \in SUBSET (1 .. n) : g[s] \in Boards}
  <2>1. {} \in Y
    BY <1>8
  <2>2. ASSUME NEW s \in SUBSET (1 .. n), s # {}, s \ {Max(s)} \in Y PROVE s \in Y
    <3>1. Max(s) \in 1 .. n
      BY <1>2, <2>2, LargestIndex
    <3>2. SkipTask(g[s \ {Max(s)}], TaskOrder[Max(s)]) \in Boards
      BY <2>2, <3>1, OrderFacts, SkipStepsProgress DEF Progress
    <3> QED BY <1>8, <2>2, <3>2
  <2> HIDE DEF Y
  <2>3. \A s \in SUBSET (1 .. n) : s \in Y
    BY <1>2, <2>1, <2>2, FoldInduction
  <2> QED BY <2>3 DEF Y
<1>10. g \in [SUBSET (1 .. n) -> Boards]
  <2>1. g = [s \in SUBSET (1 .. n) |-> g[s]]
    BY <1>2, <1>6
  <2> QED BY <1>9, <2>1
<1> HIDE DEF Eqn
<1>11. IsFoldTable(g, n, TaskSteps, b)
  BY <1>4, <1>8, <1>10 DEF IsFoldTable
<1> QED BY <1>1, <1>2, <1>11

\* The loop over the phases, as a table of its partial results
LEMMA PhaseFoldTable ==
  ASSUME NEW b \in Boards
  PROVE  \E f : IsFoldTable(f, Len(PhaseOrder), PhaseSteps, b)
                  /\ PhaseFold(b) = f[1 .. Len(PhaseOrder)]
<1> DEFINE n == Len(PhaseOrder)
           Eqn(f) == f = [s \in SUBSET (DOMAIN PhaseOrder) |->
                            IF s = {} THEN b ELSE SkipPhase(f[s \ {Max(s)}], PhaseOrder[Max(s)])]
           g == CHOOSE f : Eqn(f)
<1>1. PhaseFold(b) = g[DOMAIN PhaseOrder]
  BY DEF FoldLeft, MapThenFoldSet, PhaseFold
<1>2. DOMAIN PhaseOrder = 1 .. n /\ n \in Nat
  BY OrderFacts
<1>3. PICK h : IsFoldTable(h, n, PhaseSteps, b)
  BY <1>2, StepsType, FoldTableExists
<1>4. ASSUME NEW f \in [SUBSET (1 .. n) -> Boards], NEW s \in SUBSET (1 .. n), s # {}
      PROVE  /\ Max(s) \in 1 .. n
             /\ PhaseSteps[Max(s)][f[s \ {Max(s)}]] = SkipPhase(f[s \ {Max(s)}], PhaseOrder[Max(s)])
  <2>1. Max(s) \in 1 .. n
    BY <1>2, <1>4, LargestIndex
  <2>2. f[s \ {Max(s)}] \in Boards
    OBVIOUS
  <2> QED BY <2>1, <2>2 DEF PhaseSteps
<1>5. Eqn(h)
  BY <1>2, <1>3, <1>4 DEF IsFoldTable
<1>6. Eqn(g)
  <2> HIDE DEF Eqn
  <2> QED BY <1>5
<1> HIDE DEF g
<1>7. DOMAIN g = SUBSET (1 .. n)
  BY <1>2, <1>6
<1>8. ASSUME NEW s \in SUBSET (1 .. n)
      PROVE  g[s] = IF s = {} THEN b ELSE SkipPhase(g[s \ {Max(s)}], PhaseOrder[Max(s)])
  BY <1>2, <1>6
<1>9. \A s \in SUBSET (1 .. n) : g[s] \in Boards
  <2> DEFINE Y == {s \in SUBSET (1 .. n) : g[s] \in Boards}
  <2>1. {} \in Y
    BY <1>8
  <2>2. ASSUME NEW s \in SUBSET (1 .. n), s # {}, s \ {Max(s)} \in Y PROVE s \in Y
    <3>1. Max(s) \in 1 .. n
      BY <1>2, <2>2, LargestIndex
    <3>2. SkipPhase(g[s \ {Max(s)}], PhaseOrder[Max(s)]) \in Boards
      BY <2>2, <3>1, OrderFacts, SkipStepsProgress DEF Progress
    <3> QED BY <1>8, <2>2, <3>2
  <2> HIDE DEF Y
  <2>3. \A s \in SUBSET (1 .. n) : s \in Y
    BY <1>2, <2>1, <2>2, FoldInduction
  <2> QED BY <2>3 DEF Y
<1>10. g \in [SUBSET (1 .. n) -> Boards]
  <2>1. g = [s \in SUBSET (1 .. n) |-> g[s]]
    BY <1>2, <1>6
  <2> QED BY <1>9, <2>1
<1> HIDE DEF Eqn
<1>11. IsFoldTable(g, n, PhaseSteps, b)
  BY <1>4, <1>8, <1>10 DEF IsFoldTable
<1> QED BY <1>1, <1>2, <1>11

\* A fold stays in every set of boards that its steps stay in.
LEMMA FoldStays ==
  ASSUME NEW f, NEW n \in Nat, NEW step, NEW b, IsFoldTable(f, n, step, b),
         NEW X \in SUBSET Boards, b \in X,
         \A i \in 1 .. n : \A c \in X : step[i][c] \in X
  PROVE  f[1 .. n] \in X
<1> DEFINE Y == {s \in SUBSET (1 .. n) : f[s] \in X}
<1>1. {} \in Y
  BY DEF IsFoldTable
<1>2. ASSUME NEW s \in SUBSET (1 .. n), s # {}, s \ {Max(s)} \in Y PROVE s \in Y
  BY <1>2 DEF IsFoldTable
<1> HIDE DEF Y
<1>3. \A s \in SUBSET (1 .. n) : s \in Y
  BY <1>1, <1>2, FoldInduction
<1> QED BY <1>3 DEF Y

StepsProgress(n, step) == \A i \in 1 .. n : \A c \in Boards : Progress(c, step[i][c])

\* A fold of steps that only progress, and that ends where it began, has
\* stood still at every step.
LEMMA FoldStandsStill ==
  ASSUME NEW f, NEW n \in Nat, NEW step, NEW b \in Boards, IsFoldTable(f, n, step, b),
         StepsProgress(n, step), f[1 .. n] = b
  PROVE  \A i \in 1 .. n : step[i][b] = b
<1> DEFINE Y == {s \in SUBSET (1 .. n) : /\ Progress(b, f[s])
                                         /\ f[s] = b => \A i \in s : step[i][b] = b}
<1>1. {} \in Y
  BY ProgressIsPartialOrder DEF IsFoldTable
<1>2. ASSUME NEW s \in SUBSET (1 .. n), s # {}, s \ {Max(s)} \in Y PROVE s \in Y
  <2> DEFINE c == f[s \ {Max(s)}]
  <2>1. f[s] = step[Max(s)][c] /\ Max(s) \in 1 .. n /\ c \in Boards
    BY <1>2 DEF IsFoldTable
  <2>2. Progress(b, c) /\ Progress(c, f[s])
    BY <1>2, <2>1 DEF StepsProgress
  <2>3. Progress(b, f[s])
    BY <2>1, <2>2, ProgressIsPartialOrder
  <2>4. ASSUME f[s] = b PROVE \A i \in s : step[i][b] = b
    <3>1. c = b
      BY <2>1, <2>2, <2>4, ProgressIsPartialOrder
    <3>2. step[Max(s)][b] = b
      BY <2>1, <2>4, <3>1
    <3> QED BY <1>2, <3>1, <3>2
  <2> QED BY <2>3, <2>4
<1> HIDE DEF Y
<1>3. \A s \in SUBSET (1 .. n) : s \in Y
  BY <1>1, <1>2, FoldInduction
<1> QED BY <1>3 DEF Y

\* Both loops of a pass, as tables
LEMMA FoldsAreTables ==
  ASSUME NEW b \in Boards
  PROVE  /\ \E f : IsFoldTable(f, Len(TaskOrder), TaskSteps, b)
                     /\ TaskFold(b) = f[1 .. Len(TaskOrder)]
         /\ \E f : IsFoldTable(f, Len(PhaseOrder), PhaseSteps, b)
                     /\ PhaseFold(b) = f[1 .. Len(PhaseOrder)]
  BY TaskFoldTable, PhaseFoldTable

\* The sets of boards that every step of propagateSkips stays in
SkipClosed(X) ==
  /\ X \subseteq Boards
  /\ \A c \in X : /\ \A t \in AllTasks : SkipTask(c, t) \in X
                  /\ \A p \in Phases : SkipPhase(c, p) \in X

\* A pass stays in every closed set.
LEMMA SkipPassStays ==
  ASSUME NEW X, SkipClosed(X), NEW b \in X
  PROVE  SkipPass(b) \in X
<1>1. ASSUME NEW c \in X PROVE TaskFold(c) \in X
  <2>1. PICK f : IsFoldTable(f, Len(TaskOrder), TaskSteps, c) /\ TaskFold(c) = f[1 .. Len(TaskOrder)]
    BY FoldsAreTables DEF SkipClosed
  <2>2. \A i \in 1 .. Len(TaskOrder) : \A d \in X : TaskSteps[i][d] \in X
    BY OrderFacts DEF TaskSteps, SkipClosed
  <2>3. X \in SUBSET Boards /\ Len(TaskOrder) \in Nat
    BY OrderFacts DEF SkipClosed
  <2> QED BY <2>1, <2>2, <2>3, FoldStays
<1>2. ASSUME NEW c \in X PROVE PhaseFold(c) \in X
  <2>1. PICK f : IsFoldTable(f, Len(PhaseOrder), PhaseSteps, c)
                   /\ PhaseFold(c) = f[1 .. Len(PhaseOrder)]
    BY FoldsAreTables DEF SkipClosed
  <2>2. \A i \in 1 .. Len(PhaseOrder) : \A d \in X : PhaseSteps[i][d] \in X
    BY OrderFacts DEF PhaseSteps, SkipClosed
  <2>3. X \in SUBSET Boards /\ Len(PhaseOrder) \in Nat
    BY OrderFacts DEF SkipClosed
  <2> QED BY <2>1, <2>2, <2>3, FoldStays
<1>3. SkipPass(b) = PhaseFold(TaskFold(b))
  BY DEF SkipPass, TaskFold, PhaseFold
<1> QED BY <1>1, <1>2, <1>3

\* The boards that b may progress to are closed.
Later(b) == {c \in Boards : Progress(b, c)}

\* What a board progresses to is closed under the steps of a pass.
LEMMA LaterIsClosed ==
  ASSUME NEW b \in Boards
  PROVE  SkipClosed(Later(b)) /\ b \in Later(b)
<1>1. b \in Later(b)
  BY ProgressIsPartialOrder DEF Later
<1>2. ASSUME NEW c \in Boards, NEW d, Progress(b, c), Progress(c, d) PROVE d \in Later(b)
  <2>1. Progress(b, d)
    BY <1>2, ProgressIsPartialOrder
  <2>2. d \in Boards
    BY <1>2 DEF Progress
  <2> QED BY <2>1, <2>2 DEF Later
<1>3. \A c \in Later(b) : c \in Boards /\ Progress(b, c)
  BY DEF Later
<1> QED BY <1>1, <1>2, <1>3, SkipStepsProgress DEF SkipClosed

\* A pass progresses.
LEMMA SkipPassProgress ==
  ASSUME NEW b \in Boards
  PROVE  Progress(b, SkipPass(b))
  BY LaterIsClosed, SkipPassStays DEF Later

\* The boards that propagateSkips leaves alone
SkipsSettled(b) ==
  /\ \A t \in AllTasks : SkipTask(b, t) = b
  /\ \A p \in Phases : SkipPhase(b, p) = b

\* A pass that changes nothing has nothing left to change.
LEMMA StandingPassIsSettled ==
  ASSUME NEW b \in Boards, SkipPass(b) = b
  PROVE  SkipsSettled(b)
<1> DEFINE c == TaskFold(b)
<1>1. SkipPass(b) = PhaseFold(c)
  BY DEF SkipPass, TaskFold, PhaseFold
<1> HIDE DEF c
<1>2. PICK f : IsFoldTable(f, Len(TaskOrder), TaskSteps, b) /\ c = f[1 .. Len(TaskOrder)]
  BY FoldsAreTables DEF c
<1>3. Len(TaskOrder) \in Nat /\ Len(PhaseOrder) \in Nat
  BY OrderFacts
<1>4. StepsProgress(Len(TaskOrder), TaskSteps)
  BY OrderFacts, SkipStepsProgress DEF TaskSteps, StepsProgress
<1>5. StepsProgress(Len(PhaseOrder), PhaseSteps)
  BY OrderFacts, SkipStepsProgress DEF PhaseSteps, StepsProgress
<1>6. c \in Boards /\ Progress(b, c)
  <2>1. Later(b) \in SUBSET Boards /\ b \in Later(b)
    BY LaterIsClosed DEF SkipClosed
  <2>2. \A i \in 1 .. Len(TaskOrder) : \A d \in Later(b) : TaskSteps[i][d] \in Later(b)
    BY OrderFacts, LaterIsClosed DEF TaskSteps, SkipClosed
  <2>3. c \in Later(b)
    BY <1>2, <1>3, <2>1, <2>2, FoldStays
  <2> QED BY <2>3 DEF Later
<1>7. PICK g : IsFoldTable(g, Len(PhaseOrder), PhaseSteps, c) /\ PhaseFold(c) = g[1 .. Len(PhaseOrder)]
  BY <1>6, FoldsAreTables
<1>8. Progress(c, b)
  <2>1. Later(c) \in SUBSET Boards /\ c \in Later(c)
    BY <1>6, LaterIsClosed DEF SkipClosed
  <2>2. \A i \in 1 .. Len(PhaseOrder) : \A d \in Later(c) : PhaseSteps[i][d] \in Later(c)
    BY <1>6, OrderFacts, LaterIsClosed DEF PhaseSteps, SkipClosed
  <2>3. PhaseFold(c) \in Later(c)
    BY <1>3, <1>7, <2>1, <2>2, FoldStays
  <2> QED BY <1>1, <2>3 DEF Later
<1>9. c = b
  BY <1>6, <1>8, ProgressIsPartialOrder
<1>10. \A i \in 1 .. Len(TaskOrder) : TaskSteps[i][b] = b
  <2>1. IsFoldTable(f, Len(TaskOrder), TaskSteps, b) /\ f[1 .. Len(TaskOrder)] = b
    BY <1>2, <1>9
  <2> HIDE DEF c
  <2> QED BY <1>3, <1>4, <2>1, FoldStandsStill
<1>11. \A i \in 1 .. Len(PhaseOrder) : PhaseSteps[i][b] = b
  <2>1. IsFoldTable(g, Len(PhaseOrder), PhaseSteps, b) /\ g[1 .. Len(PhaseOrder)] = b
    BY <1>1, <1>7, <1>9
  <2> QED BY <1>3, <1>5, <2>1, FoldStandsStill
<1>12. ASSUME NEW t \in AllTasks PROVE SkipTask(b, t) = b
  BY <1>10, OrderFacts DEF TaskSteps
<1>13. ASSUME NEW p \in Phases PROVE SkipPhase(b, p) = b
  BY <1>11, OrderFacts DEF PhaseSteps
<1> QED BY <1>12, <1>13 DEF SkipsSettled

-----------------------------------------------------------------------------
(* propagateSkips ends: each pass that changes the board leaves fewer      *)
(* tasks queued or fewer phases undecided.                                 *)

QueuedIn(b) == {t \in AllTasks : b.task[t] = "queued"}
UndecidedIn(b) == {p \in Phases : b.phase[p] \notin FinalPhase}
Pending(b) == Cardinality(QueuedIn(b)) + Cardinality(UndecidedIn(b))

MaxPending == Cardinality(AllTasks) + Cardinality(Phases)

\* Pending is a number with a bound.
LEMMA PendingType ==
  ASSUME NEW b
  PROVE  Pending(b) \in 0 .. MaxPending /\ MaxPending \in Nat
<1>1. /\ IsFiniteSet(QueuedIn(b)) /\ Cardinality(QueuedIn(b)) <= Cardinality(AllTasks)
      /\ IsFiniteSet(UndecidedIn(b)) /\ Cardinality(UndecidedIn(b)) <= Cardinality(Phases)
  BY TasksFinite, FS_Subset DEF QueuedIn, UndecidedIn
<1>2. /\ Cardinality(QueuedIn(b)) \in Nat /\ Cardinality(AllTasks) \in Nat
      /\ Cardinality(UndecidedIn(b)) \in Nat /\ Cardinality(Phases) \in Nat
  BY <1>1, TasksFinite, FS_CardinalityType
<1> QED BY <1>1, <1>2 DEF Pending, MaxPending

\* A proper subset has fewer elements.
LEMMA SmallerSet ==
  ASSUME NEW S, IsFiniteSet(S), NEW T, T \subseteq S
  PROVE  /\ Cardinality(S) \in Nat /\ Cardinality(T) \in Nat
         /\ Cardinality(T) <= Cardinality(S)
         /\ T # S => Cardinality(T) < Cardinality(S)
<1>1. T \in SUBSET S
  OBVIOUS
<1>2. IsFiniteSet(T) /\ Cardinality(T) <= Cardinality(S) /\ (Cardinality(T) = Cardinality(S) => T = S)
  BY <1>1, FS_Subset
<1>3. Cardinality(S) \in Nat /\ Cardinality(T) \in Nat
  BY <1>2, FS_CardinalityType
<1> QED BY <1>2, <1>3

\* A board that progresses has less pending.
LEMMA PendingFalls ==
  ASSUME NEW b \in Boards, NEW c, Progress(b, c), c # b
  PROVE  Pending(c) < Pending(b)
<1>1. QueuedIn(c) \subseteq QueuedIn(b) /\ UndecidedIn(c) \subseteq UndecidedIn(b)
  BY DEF Progress, QueuedIn, UndecidedIn
<1>2. IsFiniteSet(QueuedIn(b)) /\ IsFiniteSet(UndecidedIn(b))
  BY TasksFinite, FS_Subset DEF QueuedIn, UndecidedIn
<1>3. QueuedIn(c) # QueuedIn(b) \/ UndecidedIn(c) # UndecidedIn(b)
  <2> SUFFICES ASSUME QueuedIn(c) = QueuedIn(b), UndecidedIn(c) = UndecidedIn(b) PROVE FALSE
    OBVIOUS
  <2>1. \A t \in AllTasks : c.task[t] = b.task[t]
    BY DEF Progress, QueuedIn
  <2>2. \A p \in Phases : c.phase[p] = b.phase[p]
    BY DEF Progress, UndecidedIn
  <2>3. c \in Boards
    BY DEF Progress
  <2>4. c.task = b.task
    BY <2>1, <2>3 DEF Boards
  <2>5. c.phase = b.phase
    BY <2>2, <2>3 DEF Boards
  <2> QED BY <2>3, <2>4, <2>5 DEF Boards
<1>4. /\ Cardinality(QueuedIn(b)) \in Nat /\ Cardinality(QueuedIn(c)) \in Nat
      /\ Cardinality(QueuedIn(c)) <= Cardinality(QueuedIn(b))
      /\ QueuedIn(c) # QueuedIn(b) => Cardinality(QueuedIn(c)) < Cardinality(QueuedIn(b))
  BY <1>1, <1>2, SmallerSet
<1>5. /\ Cardinality(UndecidedIn(b)) \in Nat /\ Cardinality(UndecidedIn(c)) \in Nat
      /\ Cardinality(UndecidedIn(c)) <= Cardinality(UndecidedIn(b))
      /\ UndecidedIn(c) # UndecidedIn(b) => Cardinality(UndecidedIn(c)) < Cardinality(UndecidedIn(b))
  BY <1>1, <1>2, SmallerSet
<1> QED BY <1>3, <1>4, <1>5 DEF Pending

\* The recursion of propagateSkips has the solution its equation describes.
LEMMA SkipFixpointUnfolds ==
  \A b \in Boards : SkipFixpoint[b] = IF SkipPass(b) = b THEN b ELSE SkipFixpoint[SkipPass(b)]
<1> DEFINE Eqn(f) == f = [b \in Boards |-> IF SkipPass(b) = b THEN b ELSE f[SkipPass(b)]]
<1>1. SkipFixpoint = CHOOSE f : Eqn(f)
  BY DEF SkipFixpoint
<1> DEFINE m == [b \in Boards |-> Pending(b)]
           next == [b \in Boards |-> SkipPass(b)]
           stop == {b \in Boards : SkipPass(b) = b}
           base == [b \in Boards |-> b]
           op == [b \in Boards |-> [c \in Boards |-> c]]
<1>2. Recursion(Boards, Boards, MaxPending, m, next, stop, base, op)
  <2>1. MaxPending \in Nat /\ m \in [Boards -> 0 .. MaxPending]
    <3>1. MaxPending \in Nat
      BY PendingType
    <3> QED BY <3>1, PendingType
  <2>2. \A b \in Boards : SkipPass(b) \in Boards
    BY SkipPassProgress DEF Progress
  <2>3. ASSUME NEW b \in Boards \ stop PROVE m[next[b]] < m[b]
    <3>1. b \in Boards /\ SkipPass(b) # b /\ SkipPass(b) \in Boards
      BY <2>2
    <3>2. Pending(SkipPass(b)) < Pending(b)
      BY <3>1, SkipPassProgress, PendingFalls
    <3> QED BY <3>1, <3>2
  <2> QED BY <2>1, <2>2, <2>3 DEF Recursion
<1>3. PICK f : SolvesRecursion(f, Boards, Boards, next, stop, base, op)
  <2> HIDE DEF m, next, stop, base, op
  <2> QED BY <1>2, RecursionExists
<1>4. Eqn(f)
  <2>1. f \in [Boards -> Boards]
    BY <1>3 DEF SolvesRecursion
  <2>2. ASSUME NEW b \in Boards PROVE f[b] = IF SkipPass(b) = b THEN b ELSE f[SkipPass(b)]
    <3>1. SkipPass(b) \in Boards
      BY SkipPassProgress DEF Progress
    <3>2. f[SkipPass(b)] \in Boards
      BY <2>1, <3>1
    <3>3. f[b] = IF b \in stop THEN base[b] ELSE op[b][f[next[b]]]
      BY <1>3 DEF SolvesRecursion
    <3> QED BY <3>1, <3>2, <3>3
  <2> QED BY <2>1, <2>2
<1> HIDE DEF m, next, stop, base, op
<1>5. Eqn(SkipFixpoint)
  <2> HIDE DEF Eqn
  <2> QED BY <1>1, <1>4
<1> QED BY <1>5

\* What holds of a board that nothing is skipped on, and of a board whenever
\* it holds of the next pass, holds of every board.
LEMMA PassInduction ==
  ASSUME NEW Y,
         \A b \in Boards : SkipPass(b) = b => b \in Y,
         \A b \in Boards : SkipPass(b) \in Y => b \in Y
  PROVE  \A b \in Boards : b \in Y
<1> DEFINE T == {Pending(b) : b \in {c \in Boards : c \notin Y}}
<1> SUFFICES ASSUME NEW z \in Boards, z \notin Y PROVE FALSE
  OBVIOUS
<1>1. T \in SUBSET Nat /\ T # {}
  BY PendingType
<1>2. PICK n \in T : \A k \in T : n <= k
  BY <1>1, LeastNatural
<1>3. PICK b \in Boards : b \notin Y /\ n = Pending(b)
  BY <1>2
<1>4. SkipPass(b) \in Boards /\ SkipPass(b) # b /\ SkipPass(b) \notin Y
  BY <1>3, SkipPassProgress DEF Progress
<1>5. Pending(SkipPass(b)) < Pending(b)
  BY <1>4, SkipPassProgress, PendingFalls
<1>6. n <= Pending(SkipPass(b))
  BY <1>2, <1>4
<1> QED BY <1>3, <1>5, <1>6, PendingType

\* propagateSkips stays in every closed set of boards.
LEMMA PropagateSkipsStays ==
  ASSUME NEW X, SkipClosed(X), NEW b \in X
  PROVE  PropagateSkips(b) \in X
<1> DEFINE Y == {c \in Boards : c \in X => SkipFixpoint[c] \in X}
<1>1. \A c \in Boards : SkipPass(c) = c => c \in Y
  BY SkipFixpointUnfolds
<1>2. \A c \in Boards : SkipPass(c) \in Y => c \in Y
  BY SkipFixpointUnfolds, SkipPassStays
<1> HIDE DEF Y
<1>3. \A c \in Boards : c \in Y
  BY <1>1, <1>2, PassInduction
<1> QED BY <1>3 DEF Y, PropagateSkips, SkipClosed

\* propagateSkips (scheduler.js) ends, on a board where nothing is left to
\* skip; on the way it only skips tasks that waited and decides open phases.
THEOREM PropagateSkipsEnds ==
  ASSUME NEW b \in Boards
  PROVE  Progress(b, PropagateSkips(b)) /\ SkipsSettled(PropagateSkips(b))
<1> DEFINE Y == {c \in Boards : SkipsSettled(SkipFixpoint[c])}
<1>1. \A c \in Boards : SkipPass(c) = c => c \in Y
  BY SkipFixpointUnfolds, StandingPassIsSettled
<1>2. \A c \in Boards : SkipPass(c) \in Y => c \in Y
  BY SkipFixpointUnfolds
<1> HIDE DEF Y
<1>3. \A c \in Boards : c \in Y
  BY <1>1, <1>2, PassInduction
<1>4. PropagateSkips(b) \in Later(b)
  BY LaterIsClosed, PropagateSkipsStays
<1> QED BY <1>3, <1>4 DEF Y, PropagateSkips, Later

-----------------------------------------------------------------------------
(* What the folds do to a board *)

\* From b to c only tasks that waited or were expanded change, and they end.
Settles(b, c) ==
  /\ c \in Boards
  /\ \A t \in AllTasks : \/ c.task[t] = b.task[t]
                         \/ b.task[t] \in {"queued", "expanded"} /\ c.task[t] \in TerminalTask

\* Two folds in a row are a fold.
LEMMA SettlesTwice ==
  ASSUME NEW b, NEW c, NEW d, Settles(b, c), Settles(c, d)
  PROVE  Settles(b, d)
  BY DEF Settles, TerminalTask, PermanentFailure, NonFailureTerminal

\* Propagating skips only ends tasks and phases that had not ended.
LEMMA PropagateSkipsSettles ==
  ASSUME NEW b \in Boards
  PROVE  Settles(b, PropagateSkips(b))
  BY PropagateSkipsEnds DEF Settles, Progress, TerminalTask, PermanentFailure

\* Resolving routes only ends tasks that still wait.
LEMMA RouteAwaySettles ==
  ASSUME NEW b \in Boards, NEW R
  PROVE  Settles(b, RouteAway(b, R))
  BY DEF Settles, RouteAway, Boards, TaskStatus, TerminalTask, NonFailureTerminal

\* A failure that is not retried only ends tasks that still wait.
LEMMA FoldFailureSettles ==
  ASSUME NEW b \in Boards, NEW t
  PROVE  Settles(b, FoldFailure(b, t))
<1>1. CASE PhaseDef[PhaseOf(t)].on_failure = "fail"
  BY <1>1 DEF Settles, FoldFailure, Boards, PhaseStatus, FinalPhase
<1>2. CASE PhaseDef[PhaseOf(t)].on_failure # "fail"
  BY <1>2, PropagateSkipsSettles DEF FoldFailure
<1> QED BY <1>1, <1>2

\* Folding a foreach parent ends that parent, and what its end decides.
LEMMA FoldParentSettles ==
  ASSUME NEW b \in Boards, NEW p
  PROVE  Settles(b, FoldParent(b, p))
<1>1. CASE ~ParentFoldable(b, p)
  BY <1>1 DEF Settles, FoldParent
<1>2. CASE ParentFoldable(b, p) /\ ParentFails(b, p)
  <2> DEFINE c == [b EXCEPT !.task[p] = "failed"]
  <2>1. c \in Boards /\ Settles(b, c)
    BY <1>2 DEF Settles, Boards, ParentFoldable, TaskStatus, TerminalTask, PermanentFailure
  <2>2. FoldParent(b, p) = FoldFailure(c, p)
    BY <1>2 DEF FoldParent
  <2> HIDE DEF c
  <2> QED BY <2>1, <2>2, FoldFailureSettles, SettlesTwice
<1>3. CASE ParentFoldable(b, p) /\ ~ParentFails(b, p)
  <2> DEFINE c == [b EXCEPT !.task[p] = "succeeded"]
  <2>1. c \in Boards /\ Settles(b, c)
    BY <1>3 DEF Settles, Boards, ParentFoldable, TaskStatus, TerminalTask, NonFailureTerminal
  <2>2. FoldParent(b, p) = PropagateSkips(c)
    BY <1>3 DEF FoldParent
  <2> HIDE DEF c
  <2> QED BY <2>1, <2>2, PropagateSkipsSettles, SettlesTwice
<1> QED BY <1>1, <1>2, <1>3

\* The statuses of a typed state are a board.
LEMMA BoardType == TypeOK => Board \in Boards
  BY DEF TypeOK, Board, Boards

\* The board an action installs, when it is reached by folds from Board
LEMMA InstalledBoard ==
  ASSUME TypeOK, NEW b, Settles(Board, b), Install(b)
  PROVE  /\ task' \in [AllTasks -> TaskStatus] /\ phase' \in [Phases -> PhaseStatus]
         /\ \A t \in AllTasks :
              task'[t] = task[t] \/ (task[t] \in {"queued", "expanded"} /\ task'[t] \in TerminalTask)
  BY BoardType DEF Settles, Install, Board, Boards

-----------------------------------------------------------------------------
(* The steps that install a fold, seen from outside *)

\* Startup: the routes a crash left unresolved
LEMMA ReapplyRoutesSettles ==
  ASSUME TypeOK, ReapplyRoutes
  PROVE  \E b : Settles(Board, b) /\ Install(b)
<1> DEFINE pending == {r \in Routers : Unresolved(r)}
           c == RouteAway(Board, pending)
<1>1. CASE pending = {}
  <2>1. Settles(Board, Board) /\ Install(Board)
    BY <1>1, BoardType DEF ReapplyRoutes, Settles, Install, Board, board
  <2> QED BY <2>1
<1>2. CASE pending # {}
  <2>1. Settles(Board, c) /\ c \in Boards
    BY BoardType, RouteAwaySettles DEF Settles
  <2>2. Settles(c, PropagateSkips(c))
    BY <2>1, PropagateSkipsSettles
  <2>3. Install(PropagateSkips(c))
    BY <1>2 DEF ReapplyRoutes
  <2> QED BY <2>1, <2>2, <2>3, SettlesTwice
<1> QED BY <1>1, <1>2

\* Startup: the parents a crash left unfolded
LEMMA RefoldParentSettles ==
  ASSUME TypeOK, NEW p, RefoldParent(p)
  PROVE  \E b : Settles(Board, b) /\ Install(b)
  BY BoardType, FoldParentSettles DEF RefoldParent

\* The fold of a task, with the fold of its parent when it is a child
LEMMA FoldUpSettles ==
  ASSUME NEW b, Settles(Board, b), NEW t, FoldUp(t, b)
  PROVE  /\ \E c : Settles(Board, c) /\ Install(c)
         /\ settledQueue' = Tail(settledQueue)
         /\ BeginAbort("failed") \/ UNCHANGED <<pc, abortVars>>
<1>1. CASE t \in Children
  <2> DEFINE p == ChildDef[t].parent_task_id
  <2>1. Settles(b, FoldParent(b, p))
    BY FoldParentSettles DEF Settles
  <2>2. Settles(Board, FoldParent(b, p))
    BY <2>1, SettlesTwice
  <2>3. FoldTo(FoldParent(b, p), ParentFails(b, p) /\ FailsRun(p))
    BY <1>1 DEF FoldUp
  <2> QED BY <2>2, <2>3 DEF FoldTo
<1>2. CASE t \notin Children
  BY <1>2 DEF FoldUp, FoldTo
<1> QED BY <1>1, <1>2

\* The fold of a success
LEMMA FoldSucceededSettles ==
  ASSUME TypeOK, NEW t, FoldSucceeded(t)
  PROVE  /\ \E c : Settles(Board, c) /\ Install(c)
         /\ settledQueue' = Tail(settledQueue)
         /\ BeginAbort("failed") \/ UNCHANGED <<pc, abortVars>>
<1> DEFINE pending == IF Unresolved(t) THEN {t} ELSE {}
           c == RouteAway(Board, pending)
<1>1. Settles(Board, c) /\ c \in Boards
  BY BoardType, RouteAwaySettles DEF Settles
<1>2. Settles(Board, PropagateSkips(c))
  BY <1>1, PropagateSkipsSettles, SettlesTwice
<1>3. FoldUp(t, PropagateSkips(c))
  BY DEF FoldSucceeded
<1> HIDE DEF c
<1> QED BY <1>2, <1>3, FoldUpSettles

\* The fold of a failure
LEMMA FoldFailedSettles ==
  ASSUME TypeOK, NEW t, FoldFailed(t)
  PROVE  /\ \E c : Settles(Board, c) /\ Install(c)
         /\ settledQueue' = Tail(settledQueue)
         /\ BeginAbort("failed") \/ UNCHANGED <<pc, abortVars>>
<1>1. CASE t \in Children
  BY <1>1, BoardType, PropagateSkipsSettles, FoldUpSettles DEF FoldFailed
<1>2. CASE t \notin Children
  BY <1>2, BoardType, FoldFailureSettles DEF FoldFailed, FoldTo
<1> QED BY <1>1, <1>2

\* The last propagation of a run
LEMMA FinishRunSettles ==
  ASSUME TypeOK, FinishRun
  PROVE  \E b : Settles(Board, b) /\ Install(b)
  BY BoardType, PropagateSkipsSettles DEF FinishRun

-----------------------------------------------------------------------------
(* The inductive invariant: types, and what the loop relies on.            *)

Inductive == TypeOK /\ IsFiniteSet(attempts) /\ LoopInvariant

\* A new attempt has a number.
LEMMA NextAttemptType ==
  ASSUME TypeOK, IsFiniteSet(attempts), NEW t \in AllTasks
  PROVE  NextAttempt(t) \in AllTasks \X Nat
<1>1. IsFiniteSet(AttemptsOf(t))
  BY FS_Subset DEF AttemptsOf
<1>2. Cardinality(AttemptsOf(t)) \in Nat
  BY <1>1, FS_CardinalityType
<1> QED BY <1>2 DEF NextAttempt

\* A route value stays among the declared ones.
LEMMA RouteValueType ==
  ASSUME TypeOK, NEW t \in Routers, NEW status, NEW value \in RouteValuesAfter(t, status)
  PROVE  value \in RouteValues
<1>1. routeValue[t] \in RouteValues
  BY DEF TypeOK
<1>2. Route[t].values \subseteq RouteValues
  BY DEF RouteValues
<1> QED BY <1>1, <1>2 DEF RouteValuesAfter

\* The empty queue is a queue.
LEMMA EmptySeqType == ASSUME NEW S PROVE <<>> \in Seq(S)
  OBVIOUS

\* So is the rest of a queue.
LEMMA TailType ==
  ASSUME NEW S, NEW q \in Seq(S), q # <<>>
  PROVE  Tail(q) \in Seq(S)
  OBVIOUS

\* A process that has gone leaves its memory in the initial state.
LEMMA ForgetMemoryType ==
  ASSUME ForgetMemory
  PROVE  /\ inFlight' \subseteq AllTasks
         /\ settledQueue' \in Seq(AllTasks) /\ unflushed' \in Seq(AllTasks)
         /\ retryAt' \subseteq AllTasks /\ cooling' \subseteq AllTasks
         /\ templateFailures' \subseteq AllTasks /\ ready' \subseteq AllTasks
         /\ launchedThisRun' \in Nat /\ expandedThisPass' \in BOOLEAN
         /\ abortAs' \in {"none", "cancelled", "failed"} /\ abortedIds' \subseteq AllTasks
<1>1. settledQueue' \in Seq(AllTasks) /\ unflushed' \in Seq(AllTasks)
  BY EmptySeqType DEF ForgetMemory
<1> QED BY <1>1 DEF ForgetMemory

\* The invariant holds at first.
LEMMA InitInductive == Init => Inductive
<1> SUFFICES ASSUME Init PROVE Inductive
  OBVIOUS
<1>1. TypeOK
  <2>1. /\ task \in [AllTasks -> TaskStatus] /\ phase \in [Phases -> PhaseStatus]
        /\ routeValue \in [Routers -> RouteValues]
    <3>1. task = [t \in AllTasks |-> IF t \in Children THEN "absent" ELSE "queued"]
      BY DEF Init
    <3>2. phase = [p \in Phases |-> IF PhaseDef[p].depends_on = {} THEN "ready" ELSE "waiting"]
      BY DEF Init
    <3>3. routeValue = [r \in Routers |-> NoValue]
      BY DEF Init
    <3>4. task \in [AllTasks -> TaskStatus]
      BY <3>1 DEF TaskStatus
    <3>5. phase \in [Phases -> PhaseStatus]
      BY <3>2 DEF PhaseStatus
    <3>6. routeValue \in [Routers -> RouteValues]
      BY <3>3 DEF RouteValues
    <3> QED BY <3>4, <3>5, <3>6
  <2>2. resumes \in 0 .. MaxResumes
    BY BoundsType DEF Init
  <2>3. settledQueue \in Seq(AllTasks) /\ unflushed \in Seq(AllTasks)
    BY EmptySeqType DEF Init
  <2> QED BY <2>1, <2>2, <2>3 DEF Init, TypeOK
<1>2. IsFiniteSet(attempts)
  BY FS_EmptySet DEF Init
<1>3. LoopInvariant
  BY DEF Init, LoopInvariant, LaunchesWhatWaits, AwaitsWhatRuns, AbortsWhatRuns, ExpandsOnce,
         RunningIsUnfinished
<1> QED BY <1>1, <1>2, <1>3 DEF Inductive

\* Every step keeps every variable in its type.
LEMMA TypeStep ==
  ASSUME Inductive, [Next]_vars
  PROVE  TypeOK'
<1> USE DEF runVars, board, attemptVars, routeVars, retryVars, passVars, abortVars, flightVars,
            outsideVars, BeginAbort
<1> TypeOK
  BY DEF Inductive
<1>1. CASE Commands
  <2>1. ASSUME NEW limit \in TaskLimits, StartRun(limit) PROVE TypeOK'
    BY <2>1 DEF StartRun, TypeOK, TerminalRun
  <2>2. ASSUME NEW resumeFailed, ResumeRun(resumeFailed) PROVE TypeOK'
    <3>1. task' \in [AllTasks -> TaskStatus] /\ phase' \in [Phases -> PhaseStatus]
      BY <2>2 DEF ResumeRun, TypeOK, TaskStatus, PhaseStatus
    <3>2. runStatus' \in {"approved", "running", "paused"} \cup TerminalRun
          /\ outcome' \in {"none", "success", "partial", "failed", "cancelled", "needs_user_input"}
      BY <2>2 DEF ResumeRun, TypeOK
    <3>3. resumes' \in 0 .. MaxResumes
      BY <2>2, BoundsType DEF ResumeRun, TypeOK
    <3> QED BY <2>2, <3>1, <3>2, <3>3 DEF ResumeRun, TypeOK
  <2>3. CASE RequestCancel
    BY <2>3 DEF RequestCancel, TypeOK
  <2>4. CASE CancelIdleRun
    BY <2>4 DEF CancelIdleRun, TypeOK, TerminalRun
  <2> QED BY <1>1, <2>1, <2>2, <2>3, <2>4 DEF Commands
<1>2. CASE Startup
  <2>1. CASE ReapplyRoutes
    <3>1. task' \in [AllTasks -> TaskStatus] /\ phase' \in [Phases -> PhaseStatus]
      BY <2>1, ReapplyRoutesSettles, InstalledBoard
    <3>2. routeResolved' \in [Routers -> BOOLEAN]
      BY <2>1 DEF ReapplyRoutes, TypeOK
    <3>3. ready' \subseteq AllTasks
      BY <2>1, ForeachType DEF ReapplyRoutes, AllTasks
    <3> QED BY <2>1, <3>1, <3>2, <3>3 DEF ReapplyRoutes, TypeOK
  <2>2. ASSUME NEW p, RefoldParent(p) PROVE TypeOK'
    <3>1. task' \in [AllTasks -> TaskStatus] /\ phase' \in [Phases -> PhaseStatus]
      BY <2>2, RefoldParentSettles, InstalledBoard
    <3> QED BY <2>2, <3>1 DEF RefoldParent, TypeOK
  <2>3. CASE EnterLoop
    BY <2>3 DEF EnterLoop, TypeOK
  <2> QED BY <1>2, <2>1, <2>2, <2>3 DEF Startup
<1>3. CASE Top
  BY <1>3 DEF Top, NoticeCancel, ExceedBudget, BeginDrain, TypeOK
<1>4. CASE Drain
  <2>1. ASSUME NEW t, FoldSucceeded(t) PROVE TypeOK'
    <3>1. task' \in [AllTasks -> TaskStatus] /\ phase' \in [Phases -> PhaseStatus]
      BY <2>1, FoldSucceededSettles, InstalledBoard
    <3>2. settledQueue' \in Seq(AllTasks)
      <4>1. settledQueue \in Seq(AllTasks) /\ settledQueue # <<>>
        BY <2>1 DEF FoldSucceeded, Draining, TypeOK
      <4>2. settledQueue' = Tail(settledQueue)
        BY <2>1, FoldSucceededSettles
      <4> QED BY <4>1, <4>2, TailType
    <3>3. BeginAbort("failed") \/ UNCHANGED <<pc, abortVars>>
      BY <2>1, FoldSucceededSettles
    <3>4. routeResolved' \in [Routers -> BOOLEAN]
      BY <2>1 DEF FoldSucceeded, TypeOK
    <3> QED BY <2>1, <3>1, <3>2, <3>3, <3>4 DEF FoldSucceeded, TypeOK
  <2>2. ASSUME NEW t \in AllTasks, NEW instant, ScheduleRetry(t, instant) PROVE TypeOK'
    <3>1. task' \in [AllTasks -> TaskStatus] /\ phase' \in [Phases -> PhaseStatus]
      BY <2>2, BoardType DEF ScheduleRetry, FoldTo, Install, Board, Boards, TaskStatus
    <3>2. settledQueue' \in Seq(AllTasks)
      BY <2>2 DEF ScheduleRetry, FoldTo, Draining, TypeOK
    <3> QED BY <2>2, <3>1, <3>2 DEF ScheduleRetry, FoldTo, TypeOK
  <2>3. ASSUME NEW t, FoldFailed(t) PROVE TypeOK'
    <3>1. task' \in [AllTasks -> TaskStatus] /\ phase' \in [Phases -> PhaseStatus]
      BY <2>3, FoldFailedSettles, InstalledBoard
    <3>2. settledQueue' \in Seq(AllTasks)
      <4>1. settledQueue \in Seq(AllTasks) /\ settledQueue # <<>>
        BY <2>3 DEF FoldFailed, Draining, TypeOK
      <4>2. settledQueue' = Tail(settledQueue)
        BY <2>3, FoldFailedSettles
      <4> QED BY <4>1, <4>2, TailType
    <3>3. BeginAbort("failed") \/ UNCHANGED <<pc, abortVars>>
      BY <2>3, FoldFailedSettles
    <3> QED BY <2>3, <3>1, <3>2, <3>3 DEF FoldFailed, TypeOK
  <2>4. CASE BeginLaunch
    BY <2>4 DEF BeginLaunch, ReadyTasks, TypeOK
  <2>5. CASE DrainForPause
    BY <2>5 DEF DrainForPause, TypeOK
  <2>6. CASE PauseRun
    BY <2>6, ForgetMemoryType DEF PauseRun, TypeOK
  <2> QED BY <1>4, <2>1, <2>2, <2>3, <2>4, <2>5, <2>6 DEF Drain
<1>5. CASE Expand
  <2> PICK t \in ForeachParents :
        \/ Reexpand(t)
        \/ \E status \in {"failed", "succeeded"} : ExpandNothing(t, status)
        \/ \E n \in 1 .. Foreach[t].max_items : LogExpansion(t, n)
        \/ SaveExpansion(t)
    BY <1>5 DEF Expand
  <2> t \in AllTasks
    BY ForeachType DEF AllTasks
  <2>1. Underway(PhaseOf(t)) \in [Phases -> PhaseStatus]
    BY DEF TypeOK, Underway, PhaseStatus
  <2>2. CASE Reexpand(t)
    BY <2>1, <2>2 DEF Reexpand, TypeOK, TaskStatus
  <2>3. ASSUME NEW status \in {"failed", "succeeded"}, ExpandNothing(t, status) PROVE TypeOK'
    BY <2>1, <2>3 DEF ExpandNothing, TypeOK, TaskStatus, TerminalTask, NonFailureTerminal,
       PermanentFailure
  <2>4. ASSUME NEW n \in 1 .. Foreach[t].max_items, LogExpansion(t, n) PROVE TypeOK'
    <3>1. n \in Nat
      BY ForeachType
    <3> QED BY <2>1, <2>4, <3>1 DEF LogExpansion, TypeOK
  <2>5. CASE SaveExpansion(t)
    <3>1. task' \in [AllTasks -> TaskStatus]
      BY <2>5 DEF SaveExpansion, TypeOK, TaskStatus
    <3> QED BY <2>5, <3>1 DEF SaveExpansion, TypeOK
  <2> QED BY <2>2, <2>3, <2>4, <2>5
<1>6. CASE LaunchNext
  <2> PICK t \in AllTasks :
        \/ ExhaustAgents(t)
        \/ FailTemplate(t)
        \/ \E throws \in BOOLEAN : LaunchWorker(t, throws)
        \/ \E status \in {"succeeded", "failed", "schema_violation"} : LaunchLocal(t, status)
    BY <1>6 DEF LaunchNext
  <2>1. Underway(PhaseOf(t)) \in [Phases -> PhaseStatus]
    BY DEF TypeOK, Underway, PhaseStatus
  <2>2. NextAttempt(t) \in AllTasks \X Nat
    BY NextAttemptType DEF Inductive
  <2>3. Append(unflushed, t) \in Seq(AllTasks)
    BY DEF TypeOK
  <2>4. CASE ExhaustAgents(t)
    BY <2>4 DEF ExhaustAgents, TypeOK
  <2>5. CASE FailTemplate(t)
    BY <2>5 DEF FailTemplate, TypeOK, TaskStatus, TerminalTask, PermanentFailure
  <2>6. ASSUME NEW throws \in BOOLEAN, LaunchWorker(t, throws) PROVE TypeOK'
    BY <2>1, <2>2, <2>3, <2>6 DEF LaunchWorker, Launch, TypeOK, TaskStatus
  <2>7. ASSUME NEW status \in {"succeeded", "failed", "schema_violation"}, LaunchLocal(t, status)
        PROVE  TypeOK'
    BY <2>1, <2>2, <2>3, <2>7 DEF LaunchLocal, Launch, TypeOK, TaskStatus, TerminalTask,
       NonFailureTerminal, PermanentFailure
  <2> QED BY <2>4, <2>5, <2>6, <2>7
<1>7. CASE AfterLaunch
  <2>1. ASSUME NEW next \in {"top", "sleep", "wait"}, EndPass(next) PROVE TypeOK'
    BY <2>1 DEF EndPass, TypeOK
  <2>2. CASE FinishRun
    <3>1. task' \in [AllTasks -> TaskStatus] /\ phase' \in [Phases -> PhaseStatus]
      BY <2>2, FinishRunSettles, InstalledBoard
    <3>2. /\ runStatus' \in {"failed", "completed"}
          /\ outcome' \in {"failed", "success", "partial"}
      BY <2>2 DEF FinishRun
    <3> QED BY <2>2, <3>1, <3>2, ForgetMemoryType DEF FinishRun, TypeOK, TerminalRun
  <2> QED BY <1>7, <2>1, <2>2 DEF AfterLaunch, NextPass, AwaitRetry, AwaitWorkers
<1>8. CASE FlushResolved
  <2>1. task' \in [AllTasks -> TaskStatus]
    BY <1>8 DEF FlushResolved, TypeOK, TaskStatus, TerminalTask, PermanentFailure
  <2>2. settledQueue' \in Seq(AllTasks) /\ unflushed' \in Seq(AllTasks)
    BY <1>8 DEF FlushResolved, TypeOK
  <2> QED BY <1>8, <2>1, <2>2 DEF FlushResolved, TypeOK
<1>9. CASE Wake
  BY <1>9 DEF Wake, TypeOK
<1>10. CASE Abort
  <2>1. CASE SealRun
    <3>1. task' \in [AllTasks -> TaskStatus]
      BY <2>1 DEF SealRun, Inductive, LoopInvariant, AbortsWhatRuns, TypeOK, TaskStatus,
         TerminalTask, PermanentFailure
    <3> QED BY <2>1, <3>1 DEF SealRun, TypeOK
  <2>2. CASE CloseRun
    <3>1. abortAs \in {"cancelled", "failed"}
      BY <2>2 DEF CloseRun, Inductive, LoopInvariant, AbortsWhatRuns, TypeOK
    <3> QED BY <2>2, <3>1, ForgetMemoryType DEF CloseRun, TypeOK, TerminalRun
  <2> QED BY <1>10, <2>1, <2>2 DEF Abort
<1>11. ASSUME NEW t \in AllTasks, Settle(t) PROVE TypeOK'
  <2> PICK status \in WorkerOutcomes \cup {"cancelled", "running"} :
        \E value \in RouteValuesAfter(t, status) : WorkerSettles(t, status, value)
    BY <1>11 DEF Settle
  <2> PICK value \in RouteValuesAfter(t, status) : WorkerSettles(t, status, value)
    OBVIOUS
  <2>1. status \in TaskStatus
    BY OutcomesType DEF TaskStatus, Retryable, TerminalTask, NonFailureTerminal, PermanentFailure
  <2>2. routeValue' \in [Routers -> RouteValues]
    BY RouteValueType DEF WorkerSettles, TypeOK
  <2>3. open' \subseteq attempts
    BY DEF WorkerSettles, TypeOK
  <2> QED BY <2>1, <2>2, <2>3 DEF WorkerSettles, TypeOK
<1>12. ASSUME NEW t, BackoffElapses(t) PROVE TypeOK'
  BY <1>12 DEF BackoffElapses, TypeOK
<1>13. ASSUME NEW t, NEW status, ZombieSettles(t, status) PROVE TypeOK'
  BY <1>13 DEF ZombieSettles, StatusesAfterZombie, TypeOK
<1>14. CASE Crash
  BY <1>14, ForgetMemoryType DEF Crash, TypeOK
<1>15. CASE UNCHANGED vars
  BY <1>15 DEF vars, TypeOK
<1> QED BY <1>1, <1>2, <1>3, <1>4, <1>5, <1>6, <1>7, <1>8, <1>9, <1>10, <1>11, <1>12, <1>13,
       <1>14, <1>15 DEF Next, Loop

\* What a fold does to the tasks, for every action that installs one
LEMMA FoldEffect ==
  ASSUME TypeOK, NEW b, Settles(Board, b), Install(b), NEW t \in AllTasks
  PROVE  /\ task'[t] = "running" <=> task[t] = "running"
         /\ task[t] \in NonFailureTerminal => task'[t] = task[t]
         /\ task'[t] \in {"queued", "absent"} => task'[t] = task[t]
<1>1. task'[t] = task[t] \/ (task[t] \in {"queued", "expanded"} /\ task'[t] \in TerminalTask)
  BY InstalledBoard
<1> QED BY <1>1 DEF TerminalTask, NonFailureTerminal, PermanentFailure

\* The rank of a task is its place in the order.
LEMMA RankType ==
  ASSUME NEW t \in AllTasks
  PROVE  Rank(t) \in Nat /\ TaskOrder[Rank(t)] = t
<1>1. \E i \in DOMAIN TaskOrder : TaskOrder[i] = t
  BY OrderRules DEF ToSet
<1>2. Rank(t) \in DOMAIN TaskOrder /\ TaskOrder[Rank(t)] = t
  BY <1>1 DEF Rank
<1> QED BY <1>2, OrderRules

\* The first of a set is unique.
LEMMA FirstIsUnique ==
  ASSUME NEW S \in SUBSET AllTasks, NEW t, NEW u, IsFirst(t, S), IsFirst(u, S)
  PROVE  t = u
<1>1. Rank(t) <= Rank(u) /\ Rank(u) <= Rank(t)
  BY DEF IsFirst
<1>2. t \in AllTasks /\ u \in AllTasks
  BY DEF IsFirst
<1>3. Rank(t) = Rank(u)
  BY <1>1, <1>2, RankType
<1> QED BY <1>2, <1>3, RankType

\* What a longer queue holds
LEMMA ToSetAppend ==
  ASSUME NEW S, NEW s \in Seq(S), NEW x \in S
  PROVE  ToSet(Append(s, x)) = ToSet(s) \cup {x}
<1>1. DOMAIN Append(s, x) = DOMAIN s \cup {Len(s) + 1} /\ Append(s, x)[Len(s) + 1] = x
  OBVIOUS
<1>2. \A i \in DOMAIN s : Append(s, x)[i] = s[i]
  OBVIOUS
<1> QED BY <1>1, <1>2 DEF ToSet

\* Every step keeps what the loop relies on.
LEMMA LoopStep ==
  ASSUME Inductive, [Next]_vars
  PROVE  LoopInvariant'
<1> USE DEF runVars, board, attemptVars, routeVars, retryVars, passVars, abortVars, flightVars,
            outsideVars, BeginAbort, LoopInvariant, LaunchesWhatWaits, AwaitsWhatRuns,
            AbortsWhatRuns, ExpandsOnce, RunningIsUnfinished
<1> TypeOK /\ LoopInvariant
  BY DEF Inductive
<1>1. CASE Commands
  <2>1. ASSUME NEW limit \in TaskLimits, StartRun(limit) PROVE LoopInvariant'
    BY <2>1 DEF StartRun
  <2>2. ASSUME NEW resumeFailed, ResumeRun(resumeFailed) PROVE LoopInvariant'
    BY <2>2 DEF ResumeRun, TypeOK, TerminalRun
  <2>3. CASE RequestCancel
    BY <2>3 DEF RequestCancel, Launchable, ForeachChildBlocked, ExpandedChildren, Board
  <2>4. CASE CancelIdleRun
    BY <2>4 DEF CancelIdleRun
  <2> QED BY <1>1, <2>1, <2>2, <2>3, <2>4 DEF Commands
<1>2. CASE Startup
  <2>1. CASE ReapplyRoutes
    <3>1. \A t \in AllTasks : task'[t] = "running" <=> task[t] = "running"
      BY <2>1, ReapplyRoutesSettles, FoldEffect
    <3> QED BY <2>1, <3>1 DEF ReapplyRoutes, TypeOK
  <2>2. ASSUME NEW p, RefoldParent(p) PROVE LoopInvariant'
    <3>1. \A t \in AllTasks : task'[t] = "running" <=> task[t] = "running"
      BY <2>2, RefoldParentSettles, FoldEffect
    <3> QED BY <2>2, <3>1 DEF RefoldParent, TypeOK
  <2>3. CASE EnterLoop
    BY <2>3 DEF EnterLoop
  <2> QED BY <1>2, <2>1, <2>2, <2>3 DEF Startup
<1>3. CASE Top
  BY <1>3 DEF Top, NoticeCancel, ExceedBudget, BeginDrain
<1>4. CASE Drain
  <2>1. ASSUME NEW t, FoldSucceeded(t) PROVE LoopInvariant'
    <3>1. \A u \in AllTasks : task'[u] = "running" <=> task[u] = "running"
      BY <2>1, FoldSucceededSettles, FoldEffect
    <3>2. BeginAbort("failed") \/ UNCHANGED <<pc, abortVars>>
      BY <2>1, FoldSucceededSettles
    <3> QED BY <2>1, <3>1, <3>2 DEF FoldSucceeded, Draining, TypeOK
  <2>2. ASSUME NEW t \in AllTasks, NEW instant, ScheduleRetry(t, instant) PROVE LoopInvariant'
    <3>1. task' = [task EXCEPT ![t] = "queued"] /\ task[t] # "running"
      BY <2>2 DEF ScheduleRetry, FoldTo, Install, Board, RetryAllowed, Retryable
    <3> QED BY <2>2, <3>1 DEF ScheduleRetry, FoldTo, Draining, TypeOK
  <2>3. ASSUME NEW t, FoldFailed(t) PROVE LoopInvariant'
    <3>1. \A u \in AllTasks : task'[u] = "running" <=> task[u] = "running"
      BY <2>3, FoldFailedSettles, FoldEffect
    <3>2. BeginAbort("failed") \/ UNCHANGED <<pc, abortVars>>
      BY <2>3, FoldFailedSettles
    <3> QED BY <2>3, <3>1, <3>2 DEF FoldFailed, Draining, TypeOK
  <2>4. CASE BeginLaunch
    BY <2>4 DEF BeginLaunch, ReadyTasks, TaskIsReady
  <2>5. CASE DrainForPause
    BY <2>5 DEF DrainForPause
  <2>6. CASE PauseRun
    BY <2>6 DEF PauseRun, ForgetMemory
  <2> QED BY <1>4, <2>1, <2>2, <2>3, <2>4, <2>5, <2>6 DEF Drain
<1>5. CASE Expand
  <2> PICK t \in ForeachParents :
        \/ Reexpand(t)
        \/ \E status \in {"failed", "succeeded"} : ExpandNothing(t, status)
        \/ \E n \in 1 .. Foreach[t].max_items : LogExpansion(t, n)
        \/ SaveExpansion(t)
    BY <1>5 DEF Expand
  <2> t \in AllTasks
    BY ForeachType DEF AllTasks
  <2> USE DEF Offered, MayLaunch, IsFirst, Launchable
  <2>1. CASE Reexpand(t)
    BY <2>1 DEF Reexpand, TypeOK
  <2>2. ASSUME NEW status \in {"failed", "succeeded"}, ExpandNothing(t, status)
        PROVE  LoopInvariant'
    BY <2>2 DEF ExpandNothing, TypeOK
  <2>3. ASSUME NEW n \in 1 .. Foreach[t].max_items, LogExpansion(t, n) PROVE LoopInvariant'
    <3>1. ExpandsOnce'
      <4>1. ASSUME NEW p \in ForeachParents, IsFirst(p, Launchable)'
            PROVE  ExpandedChildren(Board, p)' = {}
        <5>1. IsFirst(p, Launchable)
          BY <2>3, <4>1 DEF LogExpansion, ForeachChildBlocked
        <5>2. p = t
          BY <2>3, <5>1, FirstIsUnique DEF LogExpansion, TypeOK
        <5> QED BY <2>3, <5>2 DEF LogExpansion, ExpandedChildren, Board
      <4> QED BY <4>1
    <3> QED BY <2>3, <3>1 DEF LogExpansion
  <2>4. CASE SaveExpansion(t)
    <3>1. pc = "expanding" /\ pc' = "launch" /\ t \in ready /\ ready' = ready \ {t}
      BY <2>4 DEF SaveExpansion
    <3>2. ExpandedChildren(Board, t) = {}
      BY <2>4, <3>1 DEF SaveExpansion
    <3>3. ASSUME NEW u \in AllTasks PROVE
            \/ task'[u] = task[u]
            \/ task[u] = "absent" /\ task'[u] = "queued"
            \/ u = t /\ task'[u] \in {"expanded", "queued"}
      BY <2>4, <3>2 DEF SaveExpansion, ExpandedChildren, Board
    <3>4. task[t] = "queued" /\ t \notin inFlight
      BY <3>1
    <3>5. UNCHANGED <<runStatus, open, inFlight, unflushed>>
      BY <2>4 DEF SaveExpansion
    <3>6. LaunchesWhatWaits'
      BY <3>1, <3>3, <3>5 DEF TypeOK
    <3>7. AwaitsWhatRuns'
      BY <3>1, <3>3, <3>4, <3>5 DEF TypeOK
    <3> QED BY <3>1, <3>5, <3>6, <3>7
  <2> QED BY <2>1, <2>2, <2>3, <2>4
<1>6. CASE LaunchNext
  <2> PICK t \in AllTasks :
        \/ ExhaustAgents(t)
        \/ FailTemplate(t)
        \/ \E throws \in BOOLEAN : LaunchWorker(t, throws)
        \/ \E status \in {"succeeded", "failed", "schema_violation"} : LaunchLocal(t, status)
    BY <1>6 DEF LaunchNext
  <2>a. ToSet(Append(unflushed, t)) = ToSet(unflushed) \cup {t}
    BY ToSetAppend DEF TypeOK
  <2>b. ASSUME NEW status, Launch(t, status) PROVE
          /\ pc = "launch" /\ pc' = pc /\ task' = [task EXCEPT ![t] = status]
          /\ inFlight' = inFlight \cup {t} /\ ready' = ready \ {t} /\ runStatus' = runStatus
    BY <2>b DEF Launch, Offered, MayLaunch
  <2> USE DEF Offered, MayLaunch, IsFirst, Launchable
  <2>1. CASE ExhaustAgents(t)
    BY <2>1 DEF ExhaustAgents
  <2>2. CASE FailTemplate(t)
    BY <2>2 DEF FailTemplate, TypeOK
  <2>3. ASSUME NEW throws \in BOOLEAN, LaunchWorker(t, throws) PROVE LoopInvariant'
    <3>1. /\ Launch(t, "running") /\ open' = open \cup {NextAttempt(t)}
          /\ ToSet(unflushed') = ToSet(unflushed) \/ ToSet(unflushed') = ToSet(unflushed) \cup {t}
      BY <2>3, <2>a DEF LaunchWorker
    <3>2. NextAttempt(t)[1] = t
      BY DEF NextAttempt
    <3> QED BY <2>b, <3>1, <3>2 DEF TypeOK
  <2>4. ASSUME NEW status \in {"succeeded", "failed", "schema_violation"}, LaunchLocal(t, status)
        PROVE  LoopInvariant'
    <3>1. /\ Launch(t, status) /\ open' = open
          /\ ToSet(unflushed') = ToSet(unflushed) \cup {t}
      BY <2>4, <2>a DEF LaunchLocal
    <3> QED BY <2>b, <3>1 DEF TypeOK
  <2> QED BY <2>1, <2>2, <2>3, <2>4
<1>7. CASE AfterLaunch
  <2>1. ASSUME NEW next \in {"top", "sleep", "wait"}, EndPass(next) PROVE LoopInvariant'
    BY <2>1 DEF EndPass
  <2>2. CASE FinishRun
    <3>1. \A t \in AllTasks : task'[t] = "running" <=> task[t] = "running"
      BY <2>2, FinishRunSettles, FoldEffect
    <3>2. inFlight = {} /\ pc = "launch" /\ pc' = "off" /\ open' = open /\ ForgetMemory
      BY <2>2 DEF FinishRun, OutOfWork
    <3> QED BY <3>1, <3>2 DEF TypeOK, ForgetMemory
  <2> QED BY <1>7, <2>1, <2>2 DEF AfterLaunch, NextPass, AwaitRetry, AwaitWorkers
<1>8. CASE FlushResolved
  BY <1>8 DEF FlushResolved, TypeOK
<1>9. CASE Wake
  BY <1>9 DEF Wake
<1>10. CASE Abort
  <2>1. CASE SealRun
    BY <2>1 DEF SealRun, TypeOK
  <2>2. CASE CloseRun
    BY <2>2 DEF CloseRun, ForgetMemory
  <2> QED BY <1>10, <2>1, <2>2 DEF Abort
<1>11. ASSUME NEW t \in AllTasks, Settle(t) PROVE LoopInvariant'
  <2> PICK status \in WorkerOutcomes \cup {"cancelled", "running"} :
        \E value \in RouteValuesAfter(t, status) : WorkerSettles(t, status, value)
    BY <1>11 DEF Settle
  <2> PICK value \in RouteValuesAfter(t, status) : WorkerSettles(t, status, value)
    OBVIOUS
  <2>1. "running" \notin WorkerOutcomes
    BY OutcomesType DEF Retryable
  <2> QED BY <2>1 DEF WorkerSettles, TypeOK
<1>12. ASSUME NEW t, BackoffElapses(t) PROVE LoopInvariant'
  BY <1>12 DEF BackoffElapses
<1>13. ASSUME NEW t, NEW status, ZombieSettles(t, status) PROVE LoopInvariant'
  BY <1>13 DEF ZombieSettles, StatusesAfterZombie, Launchable, ForeachChildBlocked,
     ExpandedChildren, Board, IsFirst
<1>14. CASE Crash
  BY <1>14 DEF Crash, ForgetMemory
<1>15. CASE UNCHANGED vars
  BY <1>15 DEF vars, Launchable, ForeachChildBlocked, ExpandedChildren, Board, IsFirst
<1> QED BY <1>1, <1>2, <1>3, <1>4, <1>5, <1>6, <1>7, <1>8, <1>9, <1>10, <1>11, <1>12, <1>13,
       <1>14, <1>15 DEF Next, Loop

\* Attempts are created by launches only, while the agent budget lasts.
LEMMA AttemptsStep ==
  ASSUME Inductive, [Next]_vars
  PROVE  \/ attempts' = attempts
         \/ AgentsLeft /\ \E t \in AllTasks : attempts' = attempts \cup {NextAttempt(t)}
<1> USE DEF runVars, board, attemptVars, routeVars, retryVars, passVars, abortVars, flightVars,
            outsideVars
<1>1. CASE Commands
  BY <1>1 DEF Commands, StartRun, ResumeRun, RequestCancel, CancelIdleRun
<1>2. CASE Startup \/ Top
  BY <1>2 DEF Startup, ReapplyRoutes, RefoldParent, EnterLoop, Top, NoticeCancel, ExceedBudget,
     BeginDrain
<1>3. CASE Drain
  BY <1>3 DEF Drain, FoldSucceeded, ScheduleRetry, FoldFailed, BeginLaunch, DrainForPause, PauseRun
<1>4. CASE Expand
  BY <1>4 DEF Expand, Reexpand, ExpandNothing, LogExpansion, SaveExpansion
<1>5. CASE LaunchNext
  BY <1>5 DEF LaunchNext, ExhaustAgents, FailTemplate, LaunchWorker, LaunchLocal, Launch
<1>6. CASE AfterLaunch \/ FlushResolved \/ Wake \/ Abort
  BY <1>6 DEF AfterLaunch, NextPass, AwaitRetry, AwaitWorkers, EndPass, FinishRun, FlushResolved,
     Wake, Abort, SealRun, CloseRun
<1>7. ASSUME NEW t \in AllTasks, Settle(t) \/ BackoffElapses(t) PROVE attempts' = attempts
  BY <1>7 DEF Settle, WorkerSettles, BackoffElapses
<1>8. ASSUME NEW t, NEW status, ZombieSettles(t, status) PROVE attempts' = attempts
  BY <1>8 DEF ZombieSettles
<1>9. CASE Crash \/ UNCHANGED vars
  BY <1>9 DEF Crash, vars
<1> QED BY <1>1, <1>2, <1>3, <1>4, <1>5, <1>6, <1>7, <1>8, <1>9 DEF Next, Loop

\* Every step keeps the invariant.
LEMMA InductiveStep == Inductive /\ [Next]_vars => Inductive'
<1> SUFFICES ASSUME Inductive, [Next]_vars PROVE Inductive'
  OBVIOUS
<1>1. IsFiniteSet(attempts)'
  BY AttemptsStep, FS_AddElement DEF Inductive
<1> QED BY <1>1, TypeStep, LoopStep DEF Inductive

\* The invariant of the loop holds of every run of every workflow
\* (scheduler.js, executeApprovedRun).
THEOREM InductiveHolds == Spec => []Inductive
  BY InitInductive, InductiveStep, PTL DEF Spec

-----------------------------------------------------------------------------
(* What follows from the inductive invariant                               *)

\* Every variable keeps its type, whatever the workflow.
THEOREM SchedulerTypeOK == Spec => []TypeOK
<1>1. Inductive => TypeOK
  BY DEF Inductive
<1> QED BY <1>1, InductiveHolds, PTL

\* The loop launches what waits, awaits what runs and aborts what runs.
THEOREM SchedulerLoopInvariant == Spec => []LoopInvariant
<1>1. Inductive => LoopInvariant
  BY DEF Inductive
<1> QED BY <1>1, InductiveHolds, PTL

\* A run that is completed, failed or paused has left no task and no attempt
\* running, on every path that ends a run.
THEOREM SchedulerLeavesNothingRunning == Spec => []NothingLeftRunning
<1>1. Inductive => NothingLeftRunning
  BY DEF Inductive, LoopInvariant, RunningIsUnfinished, NothingLeftRunning
<1> QED BY <1>1, InductiveHolds, PTL

-----------------------------------------------------------------------------
(* Budgets *)

\* One more member adds at most one to the size.
LEMMA AddOne ==
  ASSUME NEW S, IsFiniteSet(S), NEW x
  PROVE  /\ Cardinality(S) \in Nat /\ Cardinality(S \cup {x}) \in Nat
         /\ Cardinality(S \cup {x}) <= Cardinality(S) + 1
<1>1. Cardinality(S) \in Nat
  BY FS_CardinalityType
<1>2. Cardinality(S \cup {x}) = IF x \in S THEN Cardinality(S) ELSE Cardinality(S) + 1
  BY FS_AddElement
<1> QED BY <1>1, <1>2

\* No run makes more attempts than max_agents, over all its lives.
THEOREM SchedulerAgentBudget == Spec => []WithinAgentBudget
<1>1. Init => WithinAgentBudget
  BY FS_EmptySet, LimitsType DEF Init, WithinAgentBudget
<1>2. Inductive /\ [Next]_vars /\ WithinAgentBudget => WithinAgentBudget'
  <2> SUFFICES ASSUME Inductive, [Next]_vars, WithinAgentBudget PROVE WithinAgentBudget'
    OBVIOUS
  <2>1. CASE attempts' = attempts
    BY <2>1 DEF WithinAgentBudget
  <2>2. ASSUME AgentsLeft, NEW t \in AllTasks, attempts' = attempts \cup {NextAttempt(t)}
        PROVE  WithinAgentBudget'
    <3>1. /\ Cardinality(attempts) \in Nat /\ Cardinality(attempts') \in Nat
          /\ Cardinality(attempts') <= Cardinality(attempts) + 1
      BY <2>2, AddOne DEF Inductive
    <3> QED BY <2>2, <3>1, LimitsType DEF AgentsLeft, WithinAgentBudget
  <2> QED BY <2>1, <2>2, AttemptsStep
<1> QED BY <1>1, <1>2, InductiveHolds, PTL DEF Spec

\* The set of workers in flight grows by launches only.
LEMMA InFlightStep ==
  ASSUME Inductive, [Next]_vars
  PROVE  \/ inFlight' \subseteq inFlight
         \/ \E t \in AllTasks : Offered(t) /\ inFlight' = inFlight \cup {t}
<1> USE DEF runVars, board, attemptVars, routeVars, retryVars, passVars, abortVars, flightVars,
            outsideVars, ForgetMemory
<1>1. CASE Commands
  BY <1>1 DEF Commands, StartRun, ResumeRun, RequestCancel, CancelIdleRun
<1>2. CASE Startup \/ Top
  BY <1>2 DEF Startup, ReapplyRoutes, RefoldParent, EnterLoop, Top, NoticeCancel, ExceedBudget,
     BeginDrain
<1>3. CASE Drain
  BY <1>3 DEF Drain, FoldSucceeded, ScheduleRetry, FoldFailed, BeginLaunch, DrainForPause, PauseRun
<1>4. CASE Expand
  BY <1>4 DEF Expand, Reexpand, ExpandNothing, LogExpansion, SaveExpansion
<1>5. CASE LaunchNext
  BY <1>5 DEF LaunchNext, ExhaustAgents, FailTemplate, LaunchWorker, LaunchLocal, Launch
<1>6. CASE AfterLaunch \/ FlushResolved \/ Wake \/ Abort
  BY <1>6 DEF AfterLaunch, NextPass, AwaitRetry, AwaitWorkers, EndPass, FinishRun, FlushResolved,
     Wake, Abort, SealRun, CloseRun
<1>7. ASSUME NEW t \in AllTasks, Settle(t) \/ BackoffElapses(t) PROVE inFlight' \subseteq inFlight
  BY <1>7 DEF Settle, WorkerSettles, BackoffElapses
<1>8. ASSUME NEW t, NEW status, ZombieSettles(t, status) PROVE inFlight' \subseteq inFlight
  BY <1>8 DEF ZombieSettles
<1>9. CASE Crash \/ UNCHANGED vars
  BY <1>9 DEF Crash, vars
<1> QED BY <1>1, <1>2, <1>3, <1>4, <1>5, <1>6, <1>7, <1>8, <1>9 DEF Next, Loop

\* At most max_concurrency workers are in flight, and at most
\* foreach.concurrency children of one parent.
THEOREM SchedulerConcurrency == Spec => []WithinConcurrency
<1>1. Init => WithinConcurrency
  <2> SUFFICES ASSUME Init PROVE WithinConcurrency
    OBVIOUS
  <2>1. \A p : ChildrenOf(p) \cap inFlight = {} /\ inFlight = {}
    BY DEF Init
  <2>2. Cardinality({}) = 0 /\ MaxConcurrency \in Nat
    BY FS_EmptySet, LimitsType
  <2>3. \A p \in ForeachParents : Foreach[p].concurrency \in Nat
    BY ForeachType
  <2> QED BY <2>1, <2>2, <2>3 DEF WithinConcurrency
<1>2. Inductive /\ [Next]_vars /\ WithinConcurrency => WithinConcurrency'
  <2> SUFFICES ASSUME Inductive, [Next]_vars, WithinConcurrency PROVE WithinConcurrency'
    OBVIOUS
  <2>1. IsFiniteSet(inFlight) /\ \A p : IsFiniteSet(ChildrenOf(p) \cap inFlight)
    BY TasksFinite, FS_Subset DEF Inductive, TypeOK
  <2>2. CASE inFlight' \subseteq inFlight
    <3>1. Cardinality(inFlight') <= Cardinality(inFlight)
      BY <2>1, <2>2, FS_Subset
    <3>2. \A p : Cardinality(ChildrenOf(p) \cap inFlight') <= Cardinality(ChildrenOf(p) \cap inFlight)
      <4> TAKE p
      <4>1. ChildrenOf(p) \cap inFlight' \subseteq ChildrenOf(p) \cap inFlight
        BY <2>2
      <4> QED BY <2>1, <4>1, FS_Subset
    <3>3. /\ Cardinality(inFlight) \in Nat /\ Cardinality(inFlight') \in Nat
          /\ \A p : /\ Cardinality(ChildrenOf(p) \cap inFlight) \in Nat
                    /\ Cardinality(ChildrenOf(p) \cap inFlight') \in Nat
      <4>1. IsFiniteSet(inFlight') /\ \A p : IsFiniteSet(ChildrenOf(p) \cap inFlight')
        BY <2>1, <2>2, FS_Subset
      <4> QED BY <2>1, <4>1, FS_CardinalityType
    <3>4. Cardinality(inFlight') <= MaxConcurrency
      BY <3>1, <3>3, LimitsType DEF WithinConcurrency
    <3>5. ASSUME NEW p \in ForeachParents
          PROVE  Cardinality(ChildrenOf(p) \cap inFlight') <= Foreach[p].concurrency
      <4>1. Foreach[p].concurrency \in Nat
        BY ForeachType
      <4>2. Cardinality(ChildrenOf(p) \cap inFlight) <= Foreach[p].concurrency
        BY DEF WithinConcurrency
      <4> QED BY <3>2, <3>3, <4>1, <4>2
    <3> QED BY <3>4, <3>5 DEF WithinConcurrency
  <2>3. ASSUME NEW t \in AllTasks, Offered(t), inFlight' = inFlight \cup {t}
        PROVE  WithinConcurrency'
    <3>1. Cardinality(inFlight') <= MaxConcurrency
      <4>1. Cardinality(inFlight) < MaxConcurrency
        BY <2>3 DEF Offered, MayLaunch
      <4>2. /\ Cardinality(inFlight) \in Nat /\ Cardinality(inFlight') \in Nat
            /\ Cardinality(inFlight') <= Cardinality(inFlight) + 1
        BY <2>1, <2>3, AddOne
      <4> QED BY <4>1, <4>2, LimitsType
    <3>2. ASSUME NEW p \in ForeachParents
          PROVE  Cardinality(ChildrenOf(p) \cap inFlight') <= Foreach[p].concurrency
      <4>1. CASE t \notin ChildrenOf(p)
        <5>1. ChildrenOf(p) \cap inFlight' = ChildrenOf(p) \cap inFlight
          BY <2>3, <4>1
        <5> QED BY <5>1 DEF WithinConcurrency
      <4>2. CASE t \in ChildrenOf(p)
        <5>1. Cardinality(ChildrenOf(p) \cap inFlight) < ChildLimit(p)
          <6>1. ~ForeachChildBlocked(t) /\ t \in Children /\ ChildDef[t].parent_task_id = p
            BY <2>3, <4>2 DEF Offered, IsFirst, Launchable, ChildrenOf
          <6>2. Cardinality(ChildrenOf(p) \cap inFlight) \in Nat /\ ChildLimit(p) \in Nat
            BY <2>1, FS_CardinalityType, LimitsType, ForeachType DEF ChildLimit
          <6> QED BY <6>1, <6>2 DEF ForeachChildBlocked
        <5>2. ChildLimit(p) <= Foreach[p].concurrency /\ ChildLimit(p) \in Nat
              /\ Foreach[p].concurrency \in Nat
          BY LimitsType, ForeachType DEF ChildLimit
        <5>3. ChildrenOf(p) \cap inFlight' = (ChildrenOf(p) \cap inFlight) \cup {t}
          BY <2>3, <4>2
        <5>4. /\ Cardinality(ChildrenOf(p) \cap inFlight') <= Cardinality(ChildrenOf(p) \cap inFlight) + 1
              /\ Cardinality(ChildrenOf(p) \cap inFlight) \in Nat
              /\ Cardinality(ChildrenOf(p) \cap inFlight') \in Nat
          BY <2>1, <5>3, AddOne
        <5> QED BY <5>1, <5>2, <5>4
      <4> QED BY <4>1, <4>2
    <3> QED BY <3>1, <3>2 DEF WithinConcurrency
  <2> QED BY <2>2, <2>3, InFlightStep
<1> QED BY <1>1, <1>2, InductiveHolds, PTL DEF Spec

\* Every limit of the run holds at any time.
THEOREM SchedulerLimits == Spec => []WithinLimits
  BY SchedulerConcurrency, SchedulerAgentBudget, PTL DEF WithinLimits

-----------------------------------------------------------------------------
(* What no step may do *)

\* No step takes a task out of succeeded or skipped_by_route.
LEMMA AcceptedStep ==
  ASSUME Inductive, [Next]_vars, NEW t \in AllTasks, task[t] \in NonFailureTerminal
  PROVE  task'[t] = task[t]
<1> USE DEF runVars, board, attemptVars, routeVars, retryVars, passVars, abortVars, flightVars,
            outsideVars, BeginAbort
<1> TypeOK /\ LoopInvariant
  BY DEF Inductive
<1>a. task[t] \notin {"absent", "queued", "running", "expanded"} \cup Resumable
  BY DEF NonFailureTerminal, Resumable, Retryable
<1>1. CASE Commands
  <2>1. ASSUME NEW resumeFailed, ResumeRun(resumeFailed) PROVE task'[t] = task[t]
    BY <2>1, <1>a DEF ResumeRun
  <2> QED BY <1>1, <2>1 DEF Commands, StartRun, RequestCancel, CancelIdleRun
<1>2. CASE Startup \/ Top
  <2>1. CASE ReapplyRoutes
    BY <2>1, ReapplyRoutesSettles, FoldEffect
  <2>2. ASSUME NEW p, RefoldParent(p) PROVE task'[t] = task[t]
    BY <2>2, RefoldParentSettles, FoldEffect
  <2> QED BY <1>2, <2>1, <2>2 DEF Startup, EnterLoop, Top, NoticeCancel, ExceedBudget, BeginDrain
<1>3. CASE Drain
  <2>1. ASSUME NEW u, FoldSucceeded(u) \/ FoldFailed(u) PROVE task'[t] = task[t]
    BY <2>1, FoldSucceededSettles, FoldFailedSettles, FoldEffect
  <2>2. ASSUME NEW u, NEW instant, ScheduleRetry(u, instant) PROVE task'[t] = task[t]
    <3>1. task[u] \in Retryable /\ task' = [task EXCEPT ![u] = "queued"]
      BY <2>2 DEF ScheduleRetry, RetryAllowed, FoldTo, Install, Board
    <3> QED BY <3>1, <1>a DEF TypeOK, Resumable
  <2> QED BY <1>3, <2>1, <2>2 DEF Drain, BeginLaunch, DrainForPause, PauseRun
<1>4. \A u \in ready : pc \in {"launch", "expanding"} => u # t
  BY <1>a DEF LoopInvariant, LaunchesWhatWaits
<1>5. ASSUME NEW u, Offered(u) PROVE u # t /\ u \in AllTasks
  BY <1>5, <1>4 DEF Offered, MayLaunch, IsFirst, Launchable, TypeOK
<1>6. CASE Expand
  <2>1. ASSUME NEW u \in ForeachParents, SaveExpansion(u) PROVE task'[t] = task[t]
    <3>1. u # t
      BY <2>1, <1>4 DEF SaveExpansion, IsFirst, Launchable
    <3>2. ExpandedChildren(Board, u) = {}
      BY <2>1 DEF SaveExpansion, LoopInvariant, ExpandsOnce
    <3>3. t \notin ChildrenOf(u)
      BY <3>2, <1>a DEF ExpandedChildren, Board
    <3> QED BY <2>1, <3>1, <3>3 DEF SaveExpansion
  <2> QED BY <1>6, <1>5, <2>1 DEF Expand, Reexpand, ExpandNothing, LogExpansion, TypeOK
<1>7. CASE LaunchNext
  BY <1>7, <1>5 DEF LaunchNext, ExhaustAgents, FailTemplate, LaunchWorker, LaunchLocal, Launch,
     TypeOK
<1>8. CASE AfterLaunch
  <2>1. CASE FinishRun
    BY <2>1, FinishRunSettles, FoldEffect
  <2> QED BY <1>8, <2>1 DEF AfterLaunch, NextPass, AwaitRetry, AwaitWorkers, EndPass
<1>9. CASE FlushResolved \/ Wake \/ Abort
  BY <1>9, <1>a DEF FlushResolved, Wake, Abort, SealRun, CloseRun
<1>10. ASSUME NEW u \in AllTasks, Settle(u) PROVE task'[t] = task[t]
  <2> PICK status, value : WorkerSettles(u, status, value)
    BY <1>10 DEF Settle
  <2>1. u \in inFlight /\ unflushed = <<>>
    BY DEF WorkerSettles
  <2>2. task[u] = "running"
    BY <2>1 DEF LoopInvariant, AwaitsWhatRuns, ToSet
  <2> QED BY <2>2, <1>a DEF WorkerSettles, TypeOK
<1>11. ASSUME NEW u, BackoffElapses(u) PROVE task'[t] = task[t]
  BY <1>11 DEF BackoffElapses
<1>12. ASSUME NEW u, NEW status, ZombieSettles(u, status) PROVE task'[t] = task[t]
  BY <1>12 DEF ZombieSettles, StatusesAfterZombie
<1>13. CASE Crash \/ UNCHANGED vars
  BY <1>13 DEF Crash, vars
<1> QED BY <1>1, <1>2, <1>3, <1>6, <1>7, <1>8, <1>9, <1>10, <1>11, <1>12, <1>13 DEF Next, Loop

\* Accepted work and routing decisions are kept: no worker, crash, replay or
\* resume takes a task out of succeeded or skipped_by_route.
THEOREM SchedulerKeepsAcceptedWork == Spec => AcceptedWorkIsKept
<1>1. Inductive /\ [Next]_vars =>
        [\A t \in AllTasks : task[t] \in NonFailureTerminal => task'[t] = task[t]]_vars
  BY AcceptedStep
<1> QED BY <1>1, InductiveHolds, PTL DEF Spec, AcceptedWorkIsKept

\* Nothing but a resume changes the statuses of a sealed run.
LEMMA SealedStep ==
  ASSUME Inductive, [Next]_vars, pc \in {"sealed", "off"}, resumes' = resumes
  PROVE  task' = task /\ phase' = phase
<1> USE DEF board
<1>1. CASE Commands
  <2>1. ASSUME NEW resumeFailed, ResumeRun(resumeFailed) PROVE FALSE
    <3>1. resumes' = resumes + 1 /\ resumes \in Nat
      BY <2>1, BoundsType DEF ResumeRun, Inductive, TypeOK
    <3> QED BY <3>1
  <2> QED BY <1>1, <2>1 DEF Commands, StartRun, RequestCancel, CancelIdleRun
<1>2. ~(Startup \/ Top \/ Drain \/ Expand \/ LaunchNext \/ AfterLaunch \/ FlushResolved \/ Wake)
  BY DEF Startup, ReapplyRoutes, RefoldParent, EnterLoop, Top, NoticeCancel, ExceedBudget,
     BeginDrain, Drain, FoldSucceeded, ScheduleRetry, FoldFailed, Draining, BeginLaunch,
     DrainForPause, PauseRun, Expand, Reexpand, ExpandNothing, LogExpansion, SaveExpansion,
     LaunchNext, ExhaustAgents, FailTemplate, LaunchWorker, LaunchLocal, Launch, Offered,
     MayLaunch, AfterLaunch, NextPass, AwaitRetry, AwaitWorkers, EndPass, FinishRun, OutOfWork,
     FlushResolved, Wake
<1>3. CASE Abort
  BY <1>3 DEF Abort, SealRun, CloseRun
<1>4. \A t \in AllTasks : ~Settle(t) /\ ~BackoffElapses(t)
  BY DEF Settle, WorkerSettles, BackoffElapses
<1>5. ASSUME NEW t, NEW status, ZombieSettles(t, status) PROVE task' = task /\ phase' = phase
  BY <1>5 DEF ZombieSettles, StatusesAfterZombie
<1>6. CASE Crash \/ UNCHANGED vars
  BY <1>6 DEF Crash, vars
<1> QED BY <1>1, <1>2, <1>3, <1>4, <1>5, <1>6 DEF Next, Loop

\* The statuses of a sealed or stopped run change by a resume only: a worker
\* that outlived the grace period cannot fold into it.
THEOREM SchedulerSealsStatuses == Spec => SealedStatusesAreKept
<1>1. Inductive /\ [Next]_vars =>
        [(pc \in {"sealed", "off"} /\ resumes' = resumes) => (task' = task /\ phase' = phase)]_vars
  BY SealedStep
<1> QED BY <1>1, InductiveHolds, PTL DEF Spec, SealedStatusesAreKept

-----------------------------------------------------------------------------
(* Retries.  A task that waits has a try left, and a launch uses one up; a *)
(* task gets to wait again by a retry its policy allows, or by a resume.   *)

Waits(t) == task[t] \in {"queued", "absent"}

RetryBudget ==
  \A t \in AllTasks :
    /\ Cardinality(AttemptsOf(t)) <= Tries(t) + resumes
    /\ Waits(t) => Cardinality(AttemptsOf(t)) < Tries(t) + resumes

\* A task may be tried once at least.
LEMMA TriesType ==
  ASSUME NEW t \in AllTasks
  PROVE  Tries(t) \in Nat \ {0}
<1>1. CASE t \in Children
  <2>1. ChildDef[t].parent_task_id \in SpecTasks
    BY <1>1, ForeachType
  <2> QED BY <1>1, <2>1, TaskDefType DEF Tries, DefOf, TaskRecord
<1>2. CASE t \notin Children
  <2>1. t \in SpecTasks
    BY <1>2 DEF AllTasks
  <2> QED BY <1>2, <2>1, TaskDefType DEF Tries, DefOf, TaskRecord
<1> QED BY <1>1, <1>2

\* A worker or local attempt is launched for a task that was queued, and the
\* launch takes it out of the queue; no other step adds an attempt to a task.
LEMMA LaunchStep ==
  ASSUME Inductive, [Next]_vars, attempts' # attempts
  PROVE  \E t \in AllTasks :
           /\ task[t] = "queued" /\ ~Waits(t)' /\ resumes' = resumes
           /\ \A u \in AllTasks : u # t => task'[u] = task[u]
           /\ attempts' = attempts \cup {NextAttempt(t)}
<1> USE DEF runVars, board, attemptVars, routeVars, retryVars, passVars, abortVars, flightVars,
            outsideVars
<1>1. LaunchNext
  BY DEF Next, Loop, Commands, StartRun, ResumeRun, RequestCancel, CancelIdleRun,
     Startup, ReapplyRoutes, RefoldParent, EnterLoop, Top, NoticeCancel, ExceedBudget,
     BeginDrain, Drain, FoldSucceeded, ScheduleRetry, FoldFailed, BeginLaunch, DrainForPause,
     PauseRun, Expand, Reexpand, ExpandNothing, LogExpansion, SaveExpansion, AfterLaunch,
     NextPass, AwaitRetry, AwaitWorkers, EndPass, FinishRun, FlushResolved, Wake, Abort, SealRun,
     CloseRun, Settle, WorkerSettles, BackoffElapses, ZombieSettles, Crash, vars
<1> PICK t \in AllTasks, status \in {"running", "succeeded", "failed", "schema_violation"} :
      Launch(t, status)
  BY <1>1 DEF LaunchNext, ExhaustAgents, FailTemplate, LaunchWorker, LaunchLocal
<1>2. task[t] = "queued"
  BY DEF Launch, Offered, MayLaunch, IsFirst, Launchable, Inductive, LoopInvariant,
     LaunchesWhatWaits
<1>3. task' = [task EXCEPT ![t] = status] /\ attempts' = attempts \cup {NextAttempt(t)}
  BY DEF Launch
<1>4. resumes' = resumes
  BY DEF Launch
<1> QED BY <1>2, <1>3, <1>4 DEF Waits, Inductive, TypeOK

\* A task that waits after a step waited before it, or has a try left by its
\* policy, or was requeued by a resume, which the bound counts.
LEMMA WaitStep ==
  ASSUME Inductive, [Next]_vars, NEW t \in AllTasks, Waits(t)'
  PROVE  Waits(t) \/ RetryAllowed(t) \/ resumes' = resumes + 1
<1> USE DEF runVars, board, attemptVars, routeVars, retryVars, passVars, abortVars, flightVars,
            outsideVars, BeginAbort, Waits
<1> TypeOK /\ LoopInvariant
  BY DEF Inductive
<1>1. CASE Commands
  BY <1>1 DEF Commands, StartRun, ResumeRun, RequestCancel, CancelIdleRun
<1>2. CASE Startup \/ Top
  <2>1. CASE ReapplyRoutes
    BY <2>1, ReapplyRoutesSettles, FoldEffect
  <2>2. ASSUME NEW p, RefoldParent(p) PROVE Waits(t)
    BY <2>2, RefoldParentSettles, FoldEffect
  <2> QED BY <1>2, <2>1, <2>2 DEF Startup, EnterLoop, Top, NoticeCancel, ExceedBudget, BeginDrain
<1>3. CASE Drain
  <2>1. ASSUME NEW u, FoldSucceeded(u) \/ FoldFailed(u) PROVE Waits(t)
    BY <2>1, FoldSucceededSettles, FoldFailedSettles, FoldEffect
  <2>2. ASSUME NEW u, NEW instant, ScheduleRetry(u, instant) PROVE Waits(t) \/ RetryAllowed(t)
    <3>1. RetryAllowed(u) /\ task' = [task EXCEPT ![u] = "queued"]
      BY <2>2 DEF ScheduleRetry, FoldTo, Install, Board
    <3> QED BY <3>1 DEF TypeOK
  <2> QED BY <1>3, <2>1, <2>2 DEF Drain, BeginLaunch, DrainForPause, PauseRun
<1>4. CASE Expand
  <2>1. ASSUME NEW u \in ForeachParents, SaveExpansion(u) PROVE Waits(t)
    <3>1. ExpandedChildren(Board, u) = {}
      BY <2>1 DEF SaveExpansion, LoopInvariant, ExpandsOnce
    <3>2. t \in ChildrenOf(u) => Waits(t)
      BY <3>1 DEF ExpandedChildren, Board
    <3> QED BY <2>1, <3>2 DEF SaveExpansion
  <2> QED BY <1>4, <2>1 DEF Expand, Reexpand, ExpandNothing, LogExpansion, TypeOK
<1>5. CASE LaunchNext
  BY <1>5 DEF LaunchNext, ExhaustAgents, FailTemplate, LaunchWorker, LaunchLocal, Launch, TypeOK
<1>6. CASE AfterLaunch
  <2>1. CASE FinishRun
    BY <2>1, FinishRunSettles, FoldEffect
  <2> QED BY <1>6, <2>1 DEF AfterLaunch, NextPass, AwaitRetry, AwaitWorkers, EndPass
<1>7. CASE FlushResolved \/ Wake \/ Abort
  <2>1. abortAs \notin {"queued", "absent"}
    BY DEF TypeOK
  <2> QED BY <1>7, <2>1 DEF FlushResolved, Wake, Abort, SealRun, CloseRun, TypeOK
<1>8. ASSUME NEW u \in AllTasks, Settle(u) PROVE Waits(t)
  <2> PICK status \in WorkerOutcomes \cup {"cancelled", "running"} :
        \E value \in RouteValuesAfter(u, status) : WorkerSettles(u, status, value)
    BY <1>8 DEF Settle
  <2> PICK value \in RouteValuesAfter(u, status) : WorkerSettles(u, status, value)
    OBVIOUS
  <2>1. status \notin {"queued", "absent"}
    BY OutcomesType DEF Retryable
  <2> QED BY <2>1 DEF WorkerSettles, TypeOK
<1>9. ASSUME NEW u, BackoffElapses(u) PROVE Waits(t)
  BY <1>9 DEF BackoffElapses
<1>10. ASSUME NEW u, NEW status, ZombieSettles(u, status) PROVE Waits(t)
  BY <1>10 DEF ZombieSettles, StatusesAfterZombie
<1>11. CASE Crash \/ UNCHANGED vars
  BY <1>11 DEF Crash, vars
<1> QED BY <1>1, <1>2, <1>3, <1>4, <1>5, <1>6, <1>7, <1>8, <1>9, <1>10, <1>11 DEF Next, Loop

\* The number of resumes never falls.
LEMMA ResumesStep ==
  ASSUME Inductive, [Next]_vars
  PROVE  resumes \in Nat /\ (resumes' = resumes \/ resumes' = resumes + 1)
<1>1. resumes \in Nat
  BY BoundsType DEF Inductive, TypeOK
<1>2. resumes' = resumes \/ resumes' = resumes + 1
  BY DEF Next, Loop, Commands, StartRun, ResumeRun, RequestCancel, CancelIdleRun,
     Startup, ReapplyRoutes, RefoldParent, EnterLoop, Top, NoticeCancel, ExceedBudget,
     BeginDrain, Drain, FoldSucceeded, ScheduleRetry, FoldFailed, BeginLaunch, DrainForPause,
     PauseRun, Expand, Reexpand, ExpandNothing, LogExpansion, SaveExpansion, LaunchNext,
     ExhaustAgents, FailTemplate, LaunchWorker, LaunchLocal, Launch, AfterLaunch,
     NextPass, AwaitRetry, AwaitWorkers, EndPass, FinishRun, FlushResolved, Wake, Abort, SealRun,
     CloseRun, Settle, WorkerSettles, BackoffElapses, ZombieSettles, Crash, vars, outsideVars
<1> QED BY <1>1, <1>2

\* Every step keeps the retry budget.
LEMMA RetryBudgetStep ==
  ASSUME Inductive, [Next]_vars, RetryBudget
  PROVE  RetryBudget'
<1> SUFFICES ASSUME NEW t \in AllTasks
             PROVE  /\ Cardinality(AttemptsOf(t)') <= Tries(t) + resumes'
                    /\ Waits(t)' => Cardinality(AttemptsOf(t)') < Tries(t) + resumes'
  BY DEF RetryBudget, Tries
<1> DEFINE n == Cardinality(AttemptsOf(t))
<1>1. IsFiniteSet(AttemptsOf(t)) /\ n \in Nat
  <2>1. IsFiniteSet(AttemptsOf(t))
    BY FS_Subset DEF AttemptsOf, Inductive
  <2> QED BY <2>1, FS_CardinalityType
<1>2. Tries(t) \in Nat \ {0} /\ resumes \in Nat /\ (resumes' = resumes \/ resumes' = resumes + 1)
  BY TriesType, ResumesStep
<1>3. n <= Tries(t) + resumes /\ (Waits(t) => n < Tries(t) + resumes)
  BY DEF RetryBudget
<1>4. CASE attempts' = attempts
  <2>1. AttemptsOf(t)' = AttemptsOf(t)
    BY <1>4 DEF AttemptsOf
  <2>2. RetryAllowed(t) => n < Tries(t)
    BY DEF RetryAllowed, Tries
  <2>3. Waits(t)' => n < Tries(t) + resumes'
    BY <1>1, <1>2, <1>3, <2>2, WaitStep
  <2> QED BY <1>1, <1>2, <1>3, <2>1, <2>3
<1>5. CASE attempts' # attempts
  <2> PICK u \in AllTasks :
        /\ task[u] = "queued" /\ ~Waits(u)' /\ resumes' = resumes
        /\ \A v \in AllTasks : v # u => task'[v] = task[v]
        /\ attempts' = attempts \cup {NextAttempt(u)}
    BY <1>5, LaunchStep
  <2>1. NextAttempt(u)[1] = u
    BY DEF NextAttempt
  <2>2. CASE u = t
    <3>1. AttemptsOf(t)' = AttemptsOf(t) \cup {NextAttempt(t)}
      BY <2>1, <2>2 DEF AttemptsOf
    <3>2. /\ Cardinality(AttemptsOf(t)') \in Nat
          /\ Cardinality(AttemptsOf(t)') <= n + 1
      BY <1>1, <3>1, AddOne
    <3>3. n < Tries(t) + resumes
      BY <1>3, <2>2 DEF Waits
    <3> QED BY <1>1, <1>2, <2>2, <3>2, <3>3
  <2>3. CASE u # t
    <3>1. AttemptsOf(t)' = AttemptsOf(t)
      BY <2>1, <2>3 DEF AttemptsOf
    <3>2. Waits(t)' => Waits(t)
      BY <2>3 DEF Waits
    <3> QED BY <1>3, <3>1, <3>2
  <2> QED BY <2>2, <2>3
<1> QED BY <1>4, <1>5

\* No task gets more attempts than its retry policy allows and one more for
\* each resume, through retries, crashes, replays and re-expansion.
THEOREM SchedulerRetryPolicy == Spec => []RetryPolicyHeld
<1>1. Init => RetryBudget
  <2> SUFFICES ASSUME Init, NEW t \in AllTasks
               PROVE  Cardinality(AttemptsOf(t)) < Tries(t) + resumes
                      /\ Cardinality(AttemptsOf(t)) <= Tries(t) + resumes
    BY DEF RetryBudget
  <2>1. AttemptsOf(t) = {} /\ resumes = 0
    BY DEF Init, AttemptsOf
  <2> QED BY <2>1, FS_EmptySet, TriesType
<1>2. Inductive /\ RetryBudget /\ [Next]_vars => RetryBudget'
  BY RetryBudgetStep
<1>3. RetryBudget => RetryPolicyHeld
  BY DEF RetryBudget, RetryPolicyHeld
<1> QED BY <1>1, <1>2, <1>3, InductiveHolds, PTL DEF Spec
-----------------------------------------------------------------------------
(* The invariant                                                           *)

Tried(t) == AttemptsOf(t) # {}

\* A phase that succeeded has no task left or failed; one that failed has a
\* task that failed or waits for its retry; one that was skipped has a phase it
\* depends on that ended badly, or a task that was skipped.
PhasesAgree(b) ==
  \A p \in Phases :
    /\ b.phase[p] = "succeeded" => \A t \in PhaseTasks(p) : b.task[t] \in NonFailureTerminal
    /\ b.phase[p] = "failed" =>
         \E t \in PhaseTasks(p) : \/ b.task[t] \in PermanentFailure
                                  \/ b.task[t] = "queued" /\ Tried(t)
    /\ b.phase[p] = "skipped" =>
         \/ \E q \in PhaseDef[p].depends_on : b.phase[q] \in {"failed", "skipped"}
         \/ \E t \in PhaseTasks(p) : b.task[t] = "skipped"

\* What t was launched or expanded after
Entered(t) ==
  /\ \A d \in Prerequisites(t) : task[d] \in NonFailureTerminal
  /\ PhaseEntered(PhaseOf(t))

\* What a started task leaves behind
Started(t) ==
  \/ task[t] \in {"running", "expanded", "succeeded"}
  \/ Tried(t)
  \/ t \in ForeachParents /\ itemCount[t] # 0
  \/ t \in Children /\ task[t] # "absent"

EnteredOnce ==
  /\ \A t \in AllTasks : Started(t) => Entered(t)
  /\ pc \in {"launch", "expanding"} =>
       \A t \in ready : Entered(t) /\ phase[PhaseOf(t)] \notin {"failed", "skipped"}

Settled == {"succeeded"} \cup Retryable

\* Every task is at most once in flight or in the queue, with a status that
\* its fold knows.
QueueAgrees ==
  /\ \A t \in AllTasks : t \in inFlight \/ task[t] = "running" => Tried(t)
  /\ \A t \in AllTasks : task[t] = "absent" => t \in Children
  /\ pc = "off" => settledQueue = <<>> /\ unflushed = <<>>
  /\ IsInjective(unflushed) /\ ToSet(unflushed) \subseteq inFlight
  /\ \A t \in ToSet(unflushed) : task[t] \in Settled \cup {"running"}
  /\ pc \notin {"aborting", "sealed"} =>
       /\ IsInjective(settledQueue) /\ ToSet(settledQueue) \cap inFlight = {}
       /\ \A t \in ToSet(settledQueue) :
            /\ task[t] \in Settled
            /\ Tried(t) \/ t \in templateFailures \cup ForeachParents

\* Routes are resolved before their case tasks are tried.
RoutesAgree ==
  /\ \A r \in Routers : routeResolved[r] => task[r] = "succeeded"
  /\ \A t \in AllTasks : task[t] = "skipped_by_route" =>
       \E r \in RoutesListing(t) : routeResolved[r]
  /\ \A t \in AllTasks : Tried(t) => \A r \in RoutesListing(t) : routeResolved[r]
  /\ pc \in {"parents", "top", "drain", "wait", "sleep"} =>
       \A r \in Routers : Unresolved(r) => r \in ToSet(settledQueue)
  /\ pc \in {"launch", "expanding"} => \A r \in Routers : ~Unresolved(r)

VerdictInvariant == PhasesAgree(Board) /\ EnteredOnce /\ QueueAgrees /\ RoutesAgree

-----------------------------------------------------------------------------
(* What the folds keep of it                                               *)

\* A task belongs to its phase.
LEMMA PhaseTasksFacts ==
  ASSUME NEW t \in SpecTasks
  PROVE  PhaseOf(t) \in Phases /\ t \in PhaseTasks(PhaseOf(t)) /\ t \in AllTasks
<1>1. t \notin Children
  BY ForeachType
<1>2. TaskDef[t].phase_id \in Phases
  BY TaskDefType DEF TaskRecord
<1> QED BY <1>1, <1>2 DEF PhaseOf, DefOf, PhaseTasks, AllTasks

\* Skipping a task keeps the phases in agreement with the tasks.
LEMMA SkipTaskAgrees ==
  ASSUME NEW b \in Boards, PhasesAgree(b), NEW t \in AllTasks
  PROVE  PhasesAgree(SkipTask(b, t))
<1> DEFINE c == SkipTask(b, t)
<1>1. CASE c = b
  BY <1>1
<1>2. CASE c # b
  <2>1. b.task[t] = "queued" /\ c = [b EXCEPT !.task[t] = "skipped"]
    BY <1>2 DEF SkipTask
  <2>2. c.phase = b.phase /\ c.task[t] = "skipped" /\ \A u \in AllTasks : u # t => c.task[u] = b.task[u]
    BY <2>1 DEF Boards
  <2>3. \A p \in Phases : PhaseTasks(p) \subseteq AllTasks
    BY DEF PhaseTasks, AllTasks
  <2> HIDE DEF c
  <2> SUFFICES ASSUME NEW p \in Phases
               PROVE  /\ b.phase[p] = "succeeded" =>
                           \A u \in PhaseTasks(p) : c.task[u] \in NonFailureTerminal
                      /\ b.phase[p] = "failed" =>
                           \E u \in PhaseTasks(p) : \/ c.task[u] \in PermanentFailure
                                                    \/ c.task[u] = "queued" /\ Tried(u)
                      /\ b.phase[p] = "skipped" =>
                           \/ \E q \in PhaseDef[p].depends_on : b.phase[q] \in {"failed", "skipped"}
                           \/ \E u \in PhaseTasks(p) : c.task[u] = "skipped"
    BY <2>2 DEF PhasesAgree, c
  <2>4. b.phase[p] = "succeeded" => \A u \in PhaseTasks(p) : c.task[u] \in NonFailureTerminal
    BY <2>1, <2>2, <2>3 DEF PhasesAgree, NonFailureTerminal
  <2>5. b.phase[p] = "failed" => \E u \in PhaseTasks(p) : \/ c.task[u] \in PermanentFailure
                                                          \/ c.task[u] = "queued" /\ Tried(u)
    <3> SUFFICES ASSUME b.phase[p] = "failed"
                 PROVE  \E u \in PhaseTasks(p) : \/ c.task[u] \in PermanentFailure
                                                 \/ c.task[u] = "queued" /\ Tried(u)
      OBVIOUS
    <3>1. PICK u \in PhaseTasks(p) : \/ b.task[u] \in PermanentFailure
                                     \/ b.task[u] = "queued" /\ Tried(u)
      BY DEF PhasesAgree
    <3>2. c.task[u] = b.task[u] \/ c.task[u] \in PermanentFailure
      BY <2>2, <2>3 DEF PermanentFailure
    <3> QED BY <3>1, <3>2
  <2>6. b.phase[p] = "skipped" =>
          \/ \E q \in PhaseDef[p].depends_on : b.phase[q] \in {"failed", "skipped"}
          \/ \E u \in PhaseTasks(p) : c.task[u] = "skipped"
    BY <2>2, <2>3 DEF PhasesAgree
  <2> QED BY <2>4, <2>5, <2>6
<1> QED BY <1>1, <1>2

\* The verdict on a phase agrees with its tasks and leaves the others alone.
LEMMA SkipPhaseAgrees ==
  ASSUME NEW b \in Boards, PhasesAgree(b), NEW p \in Phases
  PROVE  PhasesAgree(SkipPhase(b, p))
<1> DEFINE c == SkipPhase(b, p)
<1>1. CASE b.phase[p] \in FinalPhase
  BY <1>1 DEF SkipPhase
<1>2. CASE b.phase[p] \notin FinalPhase
  <2> DEFINE verdict == PhaseVerdict(b, p)
             statuses == {b.task[t] : t \in PhaseTasks(p)}
  <2>1. c.task = b.task /\ c.phase[p] = verdict /\ \A q \in Phases : q # p => c.phase[q] = b.phase[q]
    BY <1>2 DEF SkipPhase, Boards
  <2>2. verdict = "succeeded" => statuses \subseteq NonFailureTerminal
    BY <1>2 DEF PhaseVerdict, FinalPhase
  <2>3. verdict = "failed" => \E t \in PhaseTasks(p) : b.task[t] \in PermanentFailure
    <3>1. verdict = "failed" => statuses \subseteq TerminalTask /\ ~(statuses \subseteq NonFailureTerminal)
      BY <1>2 DEF PhaseVerdict, FinalPhase
    <3> QED BY <3>1 DEF TerminalTask
  <2>4. verdict = "skipped" =>
          \/ \E q \in PhaseDef[p].depends_on : b.phase[q] \in {"failed", "skipped"}
          \/ \E t \in PhaseTasks(p) : b.task[t] = "skipped"
    BY <1>2 DEF PhaseVerdict, FinalPhase
  <2>5. \A q \in Phases : PhaseDef[q].depends_on \subseteq Phases
    BY PhaseDefType DEF PhaseRecord
  <2> HIDE DEF c, verdict
  <2> SUFFICES ASSUME NEW q \in Phases
               PROVE  /\ c.phase[q] = "succeeded" =>
                           \A u \in PhaseTasks(q) : b.task[u] \in NonFailureTerminal
                      /\ c.phase[q] = "failed" =>
                           \E u \in PhaseTasks(q) : \/ b.task[u] \in PermanentFailure
                                                    \/ b.task[u] = "queued" /\ Tried(u)
                      /\ c.phase[q] = "skipped" =>
                           \/ \E s \in PhaseDef[q].depends_on : c.phase[s] \in {"failed", "skipped"}
                           \/ \E u \in PhaseTasks(q) : b.task[u] = "skipped"
    BY <2>1 DEF PhasesAgree, c
  <2>6. \A s \in Phases : b.phase[s] \in {"failed", "skipped"} => c.phase[s] = b.phase[s]
    BY <1>2, <2>1 DEF FinalPhase
  <2>7. CASE q = p
    BY <2>1, <2>2, <2>3, <2>4, <2>5, <2>6, <2>7
  <2>8. CASE q # p
    BY <2>1, <2>5, <2>6, <2>8 DEF PhasesAgree
  <2> QED BY <2>7, <2>8
<1> QED BY <1>1, <1>2

\* Propagating skips keeps phases and tasks in agreement.
LEMMA PropagateSkipsAgrees ==
  ASSUME NEW b \in Boards, PhasesAgree(b)
  PROVE  PhasesAgree(PropagateSkips(b))
<1> DEFINE X == {c \in Boards : PhasesAgree(c)}
<1>1. SkipClosed(X)
  <2>1. ASSUME NEW c \in Boards, PhasesAgree(c), NEW t \in AllTasks PROVE SkipTask(c, t) \in X
    BY <2>1, SkipStepsProgress, SkipTaskAgrees DEF Progress
  <2>2. ASSUME NEW c \in Boards, PhasesAgree(c), NEW p \in Phases PROVE SkipPhase(c, p) \in X
    BY <2>2, SkipStepsProgress, SkipPhaseAgrees DEF Progress
  <2> QED BY <2>1, <2>2 DEF SkipClosed
<1>2. b \in X
  OBVIOUS
<1> HIDE DEF X
<1>3. PropagateSkips(b) \in X
  BY <1>1, <1>2, PropagateSkipsStays
<1> QED BY <1>3 DEF X

\* A foreach parent that ended did so with its children, within its tolerance.
FoldedRight(b, p) ==
  /\ \A c \in ExpandedChildren(b, p) : b.task[c] \in TerminalTask
  /\ b.task[p] = "succeeded" =>
       Cardinality(FailedChildren(b, p)) <= Foreach[p].tolerated_failure_count

\* A folded parent stays right while its ended and absent children stay.
LEMMA FoldedRightKept ==
  ASSUME NEW b, NEW d, NEW p, FoldedRight(b, p), d.task[p] = b.task[p],
         \A c \in ChildrenOf(p) : /\ b.task[c] \in TerminalTask => d.task[c] = b.task[c]
                                  /\ b.task[c] = "absent" => d.task[c] = "absent"
  PROVE  FoldedRight(d, p)
<1>1. \A c \in ExpandedChildren(b, p) : b.task[c] \in TerminalTask /\ d.task[c] = b.task[c]
  BY DEF FoldedRight, ExpandedChildren
<1>2. ExpandedChildren(d, p) = ExpandedChildren(b, p)
  BY <1>1 DEF ExpandedChildren
<1>3. FailedChildren(d, p) = FailedChildren(b, p)
  BY <1>1, <1>2 DEF FailedChildren
<1> QED BY <1>1, <1>2, <1>3 DEF FoldedRight

\* What a fold may do to a board while the routes in R are resolved
Advances(b, c, R) ==
  /\ c \in Boards /\ PhasesAgree(c)
  /\ \A t \in AllTasks :
       \/ c.task[t] = b.task[t]
       \/ b.task[t] = "queued" /\ c.task[t] = "skipped"
       \/ b.task[t] = "queued" /\ c.task[t] = "skipped_by_route" /\ t \in Deselected(R)
       \/ /\ b.task[t] = "expanded" /\ c.task[t] \in {"succeeded", "failed"}
          /\ t \in ForeachParents /\ FoldedRight(c, t)
  /\ \A p \in Phases :
       /\ b.phase[p] = "succeeded" => c.phase[p] = "succeeded"
       /\ b.phase[p] \in {"failed", "skipped"} => c.phase[p] \in {"failed", "skipped"}

\* Two folds in a row are a fold.
LEMMA AdvancesTwice ==
  ASSUME NEW b, NEW c, NEW d, NEW R, Advances(b, c, R), Advances(c, d, R)
  PROVE  Advances(b, d, R)
<1>1. ASSUME NEW t \in AllTasks
      PROVE \/ d.task[t] = b.task[t]
            \/ b.task[t] = "queued" /\ d.task[t] = "skipped"
            \/ b.task[t] = "queued" /\ d.task[t] = "skipped_by_route" /\ t \in Deselected(R)
            \/ /\ b.task[t] = "expanded" /\ d.task[t] \in {"succeeded", "failed"}
               /\ t \in ForeachParents /\ FoldedRight(d, t)
  <2>1. \A u \in AllTasks : /\ c.task[u] \in TerminalTask \cup {"absent"} => d.task[u] = c.task[u]
    BY DEF Advances, TerminalTask, NonFailureTerminal, PermanentFailure
  <2>2. CASE b.task[t] = "expanded" /\ c.task[t] \in {"succeeded", "failed"}
    <3>1. t \in ForeachParents /\ FoldedRight(c, t) /\ d.task[t] = c.task[t]
      BY <2>1, <2>2 DEF Advances, TerminalTask, NonFailureTerminal, PermanentFailure
    <3>2. ChildrenOf(t) \subseteq AllTasks
      BY DEF ChildrenOf, AllTasks
    <3>3. FoldedRight(d, t)
      BY <2>1, <3>1, <3>2, FoldedRightKept
    <3> QED BY <2>2, <3>1, <3>3
  <2>3. CASE ~(b.task[t] = "expanded" /\ c.task[t] \in {"succeeded", "failed"})
    <3>1. \/ c.task[t] = b.task[t]
          \/ b.task[t] = "queued" /\ c.task[t] = "skipped"
          \/ b.task[t] = "queued" /\ c.task[t] = "skipped_by_route" /\ t \in Deselected(R)
      BY <2>3 DEF Advances
    <3>2. \/ d.task[t] = c.task[t]
          \/ c.task[t] = "queued" /\ d.task[t] = "skipped"
          \/ c.task[t] = "queued" /\ d.task[t] = "skipped_by_route" /\ t \in Deselected(R)
          \/ /\ c.task[t] = "expanded" /\ d.task[t] \in {"succeeded", "failed"}
             /\ t \in ForeachParents /\ FoldedRight(d, t)
      BY DEF Advances
    <3> QED BY <3>1, <3>2
  <2> QED BY <2>2, <2>3
<1>2. ASSUME NEW p \in Phases
      PROVE  /\ b.phase[p] = "succeeded" => d.phase[p] = "succeeded"
             /\ b.phase[p] \in {"failed", "skipped"} => d.phase[p] \in {"failed", "skipped"}
  BY DEF Advances
<1> QED BY <1>1, <1>2 DEF Advances

\* Propagating skips is a fold.
LEMMA PropagateSkipsAdvances ==
  ASSUME NEW b \in Boards, PhasesAgree(b), NEW R
  PROVE  Advances(b, PropagateSkips(b), R)
<1>1. Progress(b, PropagateSkips(b)) /\ PhasesAgree(PropagateSkips(b))
  BY PropagateSkipsEnds, PropagateSkipsAgrees
<1> QED BY <1>1 DEF Progress, Advances, FinalPhase

\* A task with no retry left fails its phase, or what depends on it.
LEMMA FoldFailureAdvances ==
  ASSUME NEW b \in Boards, PhasesAgree(b), NEW t \in SpecTasks, b.task[t] \in PermanentFailure, NEW R
  PROVE  Advances(b, FoldFailure(b, t), R)
<1> DEFINE p == PhaseOf(t)
<1>0. p \in Phases /\ t \in PhaseTasks(p) /\ t \in AllTasks
  BY PhaseTasksFacts
<1>1. CASE PhaseDef[p].on_failure = "fail"
  <2> DEFINE c == [b EXCEPT !.phase[p] = "failed"]
  <2>1. c \in Boards /\ c.task = b.task /\ c.phase[p] = "failed"
        /\ \A q \in Phases : q # p => c.phase[q] = b.phase[q]
    BY <1>0 DEF Boards, PhaseStatus, FinalPhase
  <2>2. b.phase[p] # "succeeded"
    BY <1>0 DEF PhasesAgree, NonFailureTerminal, PermanentFailure
  <2>3. \A q \in Phases : PhaseDef[q].depends_on \subseteq Phases
    BY PhaseDefType DEF PhaseRecord
  <2> HIDE DEF c, p
  <2>4. ASSUME NEW q \in Phases
        PROVE  /\ c.phase[q] = "succeeded" =>
                    \A u \in PhaseTasks(q) : b.task[u] \in NonFailureTerminal
               /\ c.phase[q] = "failed" =>
                    \E u \in PhaseTasks(q) : \/ b.task[u] \in PermanentFailure
                                             \/ b.task[u] = "queued" /\ Tried(u)
               /\ c.phase[q] = "skipped" =>
                    \/ \E s \in PhaseDef[q].depends_on : c.phase[s] \in {"failed", "skipped"}
                    \/ \E u \in PhaseTasks(q) : b.task[u] = "skipped"
    <3>1. CASE q = p
      BY <1>0, <2>1, <3>1
    <3>2. CASE q # p
      BY <2>1, <2>3, <3>2 DEF PhasesAgree
    <3> QED BY <3>1, <3>2
  <2>5. PhasesAgree(c)
    BY <2>1, <2>4 DEF PhasesAgree
  <2>6. FoldFailure(b, t) = c
    BY <1>1 DEF FoldFailure, c, p
  <2> QED BY <2>1, <2>2, <2>5, <2>6 DEF Advances
<1>2. CASE PhaseDef[p].on_failure # "fail"
  BY <1>2, PropagateSkipsAdvances DEF FoldFailure
<1> QED BY <1>1, <1>2

\* A foreach parent ends with its children.
LEMMA FoldParentAdvances ==
  ASSUME NEW b \in Boards, PhasesAgree(b), NEW p \in ForeachParents, NEW R
  PROVE  Advances(b, FoldParent(b, p), R)
<1>0. p \in SpecTasks /\ p \in AllTasks
  BY ForeachType DEF AllTasks
<1>1. CASE ~ParentFoldable(b, p)
  BY <1>1 DEF Advances, FoldParent
<1>2. CASE ParentFoldable(b, p)
  <2>0. IsFiniteSet(FailedChildren(b, p))
    <3>1. FailedChildren(b, p) \subseteq AllTasks
      BY DEF FailedChildren, ExpandedChildren, ChildrenOf, AllTasks
    <3> QED BY <3>1, TasksFinite, FS_Subset
  <2>1. ASSUME NEW status \in {"succeeded", "failed"}, status = "succeeded" => ~ParentFails(b, p)
        PROVE  /\ [b EXCEPT !.task[p] = status] \in Boards
               /\ Advances(b, [b EXCEPT !.task[p] = status], R)
               /\ [b EXCEPT !.task[p] = status].task[p] = status
    <3> DEFINE c == [b EXCEPT !.task[p] = status]
    <3>1. b.task[p] = "expanded"
      BY <1>2 DEF ParentFoldable
    <3>2. c \in Boards /\ c.phase = b.phase /\ c.task[p] = status
          /\ \A t \in AllTasks : t # p => c.task[t] = b.task[t]
      BY <1>0 DEF Boards, TaskStatus, TerminalTask, NonFailureTerminal, PermanentFailure
    <3>3. \A q \in Phases : PhaseTasks(q) \subseteq AllTasks
      BY DEF PhaseTasks, AllTasks
    <3> HIDE DEF c
    <3>4. PhasesAgree(c)
      BY <3>1, <3>2, <3>3 DEF PhasesAgree, NonFailureTerminal, PermanentFailure
    <3>5. FoldedRight(c, p)
      <4>1. p \notin ChildrenOf(p) /\ ChildrenOf(p) \subseteq AllTasks
        BY <1>0, ForeachType DEF ChildrenOf, AllTasks
      <4>2. \A u \in ChildrenOf(p) : c.task[u] = b.task[u]
        BY <3>2, <4>1
      <4>3. ExpandedChildren(c, p) = ExpandedChildren(b, p)
        BY <4>2 DEF ExpandedChildren
      <4>4. FailedChildren(c, p) = FailedChildren(b, p)
        BY <4>2, <4>3 DEF FailedChildren, ExpandedChildren
      <4>5. \A u \in ExpandedChildren(c, p) : c.task[u] \in TerminalTask
        BY <1>2, <4>2, <4>3 DEF ParentFoldable, ExpandedChildren
      <4>6. status = "succeeded" => Cardinality(FailedChildren(b, p)) <= Foreach[p].tolerated_failure_count
        <5>1. Cardinality(FailedChildren(b, p)) \in Nat /\ Foreach[p].tolerated_failure_count \in Nat
          BY <2>0, FS_CardinalityType, ForeachType
        <5> QED BY <1>2, <2>1, <5>1 DEF ParentFails
      <4> QED BY <3>2, <4>4, <4>5, <4>6 DEF FoldedRight
    <3>6. Advances(b, c, R)
      BY <3>1, <3>2, <3>4, <3>5 DEF Advances
    <3> QED BY <3>2, <3>6 DEF c
  <2>2. CASE ParentFails(b, p)
    <3> DEFINE c == [b EXCEPT !.task[p] = "failed"]
    <3>1. c \in Boards /\ Advances(b, c, R) /\ c.task[p] \in PermanentFailure
      BY <2>1 DEF PermanentFailure
    <3>2. FoldParent(b, p) = FoldFailure(c, p)
      BY <1>2, <2>2 DEF FoldParent
    <3> HIDE DEF c
    <3>3. Advances(c, FoldFailure(c, p), R)
      BY <1>0, <3>1, FoldFailureAdvances DEF Advances
    <3> QED BY <3>1, <3>2, <3>3, AdvancesTwice
  <2>3. CASE ~ParentFails(b, p)
    <3> DEFINE c == [b EXCEPT !.task[p] = "succeeded"]
    <3>1. c \in Boards /\ Advances(b, c, R)
      BY <2>1, <2>3
    <3>2. FoldParent(b, p) = PropagateSkips(c)
      BY <1>2, <2>3 DEF FoldParent
    <3> HIDE DEF c
    <3>3. Advances(c, PropagateSkips(c), R)
      BY <3>1, PropagateSkipsAdvances DEF Advances
    <3> QED BY <3>1, <3>2, <3>3, AdvancesTwice
  <2> QED BY <2>2, <2>3
<1> QED BY <1>1, <1>2

\* Resolving a route sends away tasks that were never tried.
LEMMA RouteAwayAdvances ==
  ASSUME NEW b \in Boards, PhasesAgree(b), NEW R, \A t \in Deselected(R) : ~Tried(t)
  PROVE  Advances(b, RouteAway(b, R), R)
<1> DEFINE c == RouteAway(b, R)
<1>1. c.phase = b.phase /\ c \in Boards
  BY DEF RouteAway, Boards, TaskStatus, TerminalTask, NonFailureTerminal
<1>2. \A t \in AllTasks :
        c.task[t] = IF t \in Deselected(R) /\ b.task[t] = "queued" THEN "skipped_by_route" ELSE b.task[t]
  BY DEF RouteAway, Boards
<1>3. \A p \in Phases : PhaseTasks(p) \subseteq AllTasks
  BY DEF PhaseTasks, AllTasks
<1> HIDE DEF c
<1>4. PhasesAgree(c)
  BY <1>1, <1>2, <1>3 DEF PhasesAgree, NonFailureTerminal, PermanentFailure
<1> QED BY <1>1, <1>2, <1>4 DEF Advances, c

-----------------------------------------------------------------------------
(* The actions that fold                                                   *)

FoldStep ==
  \/ ReapplyRoutes
  \/ \E p \in ForeachParents : RefoldParent(p)
  \/ \E t \in AllTasks : FoldSucceeded(t) \/ FoldFailed(t)
  \/ FinishRun

\* The statuses after an installation are the board installed.
LEMMA InstallBoard ==
  ASSUME NEW b \in Boards, Install(b)
  PROVE  Board' = b
  BY DEF Boards, Install, Board

\* The head of a queue is in it.
LEMMA HeadInQueue ==
  ASSUME NEW S, NEW q \in Seq(S), q # <<>>
  PROVE  Head(q) \in ToSet(q) /\ Head(q) \in S
<1>1. 1 \in DOMAIN q /\ Head(q) = q[1] /\ q[1] \in S
  OBVIOUS
<1> QED BY <1>1 DEF ToSet

\* The case tasks of an unresolved route were never tried.
LEMMA UntriedDeselected ==
  ASSUME TypeOK, RoutesAgree, NEW R, \A r \in R : Unresolved(r)
  PROVE  \A t \in Deselected(R) : ~Tried(t)
<1> SUFFICES ASSUME NEW r \in R, NEW t \in CaseTasks(r) PROVE ~Tried(t)
  BY DEF Deselected
<1>1. r \in Routers /\ ~routeResolved[r]
  BY DEF Unresolved
<1>2. r \in RoutesListing(t)
  BY <1>1 DEF RoutesListing
<1>3. t \in AllTasks
  BY <1>1, RouteType DEF AllTasks
<1> QED BY <1>1, <1>2, <1>3 DEF RoutesAgree

\* The fold of a task, with the fold of its parent when it is a child
LEMMA FoldUpAdvances ==
  ASSUME TypeOK, NEW R, NEW b, Advances(Board, b, R), NEW t \in AllTasks, FoldUp(t, b)
  PROVE  Advances(Board, Board', R) /\ Advances(b, Board', R)
<1>1. CASE t \in Children
  <2> DEFINE p == ChildDef[t].parent_task_id
  <2>1. p \in ForeachParents
    BY <1>1, ForeachType
  <2>2. Advances(b, FoldParent(b, p), R)
    BY <2>1, FoldParentAdvances DEF Advances
  <2>3. Install(FoldParent(b, p))
    BY <1>1 DEF FoldUp, FoldTo
  <2> HIDE DEF p
  <2>4. Advances(Board, FoldParent(b, p), R)
    BY <2>2, AdvancesTwice
  <2>5. Board' = FoldParent(b, p)
    BY <2>3, <2>4, InstallBoard DEF Advances
  <2> QED BY <2>2, <2>4, <2>5
<1>2. CASE t \notin Children
  BY <1>2, InstallBoard DEF FoldUp, FoldTo, Advances
<1> QED BY <1>1, <1>2

\* Every step that folds advances the board, and resolves the routes it applies.
LEMMA FoldStepAdvances ==
  ASSUME TypeOK, VerdictInvariant, FoldStep
  PROVE  \E R \in SUBSET Routers :
           /\ Advances(Board, Board', R)
           /\ \A r \in R : Unresolved(r)
           /\ \A r \in Routers : routeResolved'[r] <=> routeResolved[r] \/ r \in R
           /\ \A u \in AllTasks \cap Deselected(R) : task'[u] # "queued"
<1> USE DEF VerdictInvariant, routeVars
<1> Board \in Boards
  BY BoardType
<1>0. Deselected({}) = {}
  BY DEF Deselected
<1>1. CASE ReapplyRoutes
  <2> DEFINE R == {r \in Routers : Unresolved(r)}
             b == RouteAway(Board, R)
  <2>1. Advances(Board, b, R)
    BY UntriedDeselected, RouteAwayAdvances
  <2>2. Advances(b, PropagateSkips(b), R)
    BY <2>1, PropagateSkipsAdvances DEF Advances
  <2>3. Advances(Board, Board, R)
    BY DEF Advances
  <2>4. routeResolved' = [r \in Routers |-> routeResolved[r] \/ r \in R]
    BY <1>1 DEF ReapplyRoutes
  <2>5. R \in SUBSET Routers /\ \A r \in R : Unresolved(r)
    OBVIOUS
  <2>6. (UNCHANGED board /\ R = {}) \/ Install(PropagateSkips(b))
    BY <1>1 DEF ReapplyRoutes
  <2>u. \A u \in AllTasks \cap Deselected(R) : b.task[u] # "queued"
    BY DEF RouteAway, Boards
  <2> HIDE DEF b, R
  <2>7. Advances(Board, PropagateSkips(b), R)
    BY <2>1, <2>2, AdvancesTwice
  <2>8. Advances(Board, Board', R)
    <3>1. UNCHANGED board => Board' = Board
      BY DEF board, Board
    <3>2. Install(PropagateSkips(b)) => Board' = PropagateSkips(b)
      BY <2>7, InstallBoard DEF Advances
    <3> QED BY <2>3, <2>6, <2>7, <3>1, <3>2
  <2>v. \A u \in AllTasks \cap Deselected(R) : task'[u] # "queued"
    <3>1. CASE R = {}
      BY <1>0, <3>1
    <3>2. CASE Install(PropagateSkips(b))
      <4>1. task' = PropagateSkips(b).task
        BY <3>2 DEF Install
      <4> QED BY <2>2, <2>u, <4>1 DEF Advances
    <3> QED BY <2>6, <3>1, <3>2
  <2>9. \A r \in Routers : routeResolved'[r] <=> routeResolved[r] \/ r \in R
    BY <2>4
  <2> QED BY <2>5, <2>8, <2>9, <2>v
<1>2. ASSUME NEW p \in ForeachParents, RefoldParent(p)
      PROVE  Advances(Board, Board', {}) /\ routeResolved' = routeResolved
  <2>1. Advances(Board, FoldParent(Board, p), {})
    BY FoldParentAdvances
  <2>2. Install(FoldParent(Board, p)) /\ routeResolved' = routeResolved
    BY <1>2 DEF RefoldParent
  <2>3. Board' = FoldParent(Board, p)
    BY <2>1, <2>2, InstallBoard DEF Advances
  <2> QED BY <2>1, <2>2, <2>3
<1>3. ASSUME NEW t \in AllTasks, FoldSucceeded(t)
      PROVE  \E R \in SUBSET Routers :
               /\ Advances(Board, Board', R)
               /\ \A r \in R : Unresolved(r)
               /\ \A r \in Routers : routeResolved'[r] <=> routeResolved[r] \/ r \in R
               /\ \A u \in AllTasks \cap Deselected(R) : task'[u] # "queued"
  <2> DEFINE R == IF Unresolved(t) THEN {t} ELSE {}
             b == RouteAway(Board, R)
  <2>1. R \in SUBSET Routers /\ \A r \in R : Unresolved(r)
    BY DEF Unresolved
  <2>2. Advances(Board, b, R)
    BY <2>1, UntriedDeselected, RouteAwayAdvances
  <2>3. FoldUp(t, PropagateSkips(b)) /\ routeResolved' = [r \in Routers |-> routeResolved[r] \/ r \in R]
    BY <1>3 DEF FoldSucceeded
  <2>u. \A u \in AllTasks \cap Deselected(R) : b.task[u] # "queued"
    BY DEF RouteAway, Boards
  <2> HIDE DEF R, b
  <2>4. Advances(b, PropagateSkips(b), R)
    BY <2>2, PropagateSkipsAdvances DEF Advances
  <2>5. Advances(Board, PropagateSkips(b), R)
    BY <2>2, <2>4, AdvancesTwice
  <2>6. Advances(Board, Board', R) /\ Advances(PropagateSkips(b), Board', R)
    BY <2>3, <2>5, FoldUpAdvances
  <2>v. \A u \in AllTasks \cap Deselected(R) : task'[u] # "queued"
    BY <2>4, <2>6, <2>u DEF Advances, Board
  <2>7. \A r \in Routers : routeResolved'[r] <=> routeResolved[r] \/ r \in R
    BY <2>3
  <2> QED BY <2>1, <2>6, <2>7, <2>v
<1>4. ASSUME NEW t \in AllTasks, FoldFailed(t)
      PROVE  Advances(Board, Board', {}) /\ routeResolved' = routeResolved
  <2>1. Advances(Board, PropagateSkips(Board), {})
    BY PropagateSkipsAdvances
  <2>2. routeResolved' = routeResolved
    BY <1>4 DEF FoldFailed
  <2>3. CASE t \in Children
    BY <1>4, <2>1, <2>2, <2>3, FoldUpAdvances DEF FoldFailed
  <2>4. CASE t \notin Children
    <3>1. pc = "drain" /\ t \in ToSet(settledQueue) /\ task[t] # "succeeded"
      BY <1>4, HeadInQueue DEF FoldFailed, Draining, TypeOK
    <3>2. task[t] \in PermanentFailure
      BY <3>1 DEF QueueAgrees, Settled, Retryable, PermanentFailure
    <3>3. t \in SpecTasks /\ Board.task[t] \in PermanentFailure
      BY <2>4, <3>2 DEF AllTasks, Board
    <3>4. Advances(Board, FoldFailure(Board, t), {})
      BY <3>3, FoldFailureAdvances
    <3>5. Install(FoldFailure(Board, t))
      BY <1>4, <2>4 DEF FoldFailed, FoldTo
    <3>6. Board' = FoldFailure(Board, t)
      BY <3>4, <3>5, InstallBoard DEF Advances
    <3> QED BY <2>2, <3>4, <3>6
  <2> QED BY <2>3, <2>4
<1>5. ASSUME FinishRun PROVE Advances(Board, Board', {}) /\ routeResolved' = routeResolved
  <2>1. Advances(Board, PropagateSkips(Board), {})
    BY PropagateSkipsAdvances
  <2>2. Install(PropagateSkips(Board)) /\ routeResolved' = routeResolved
    BY <1>5 DEF FinishRun
  <2>3. Board' = PropagateSkips(Board)
    BY <2>1, <2>2, InstallBoard DEF Advances
  <2> QED BY <2>1, <2>2, <2>3
<1>6. {} \in SUBSET Routers /\ \A r \in {} : Unresolved(r)
  OBVIOUS
<1>7. \A r \in Routers : routeResolved[r] <=> routeResolved[r] \/ r \in {}
  OBVIOUS
<1> QED BY <1>0, <1>1, <1>2, <1>3, <1>4, <1>5, <1>6, <1>7 DEF FoldStep

-----------------------------------------------------------------------------
(* The kinds of steps                                                      *)

\* Steps of the loop that only move on, and commands that only leave a mark
QuietStep ==
  /\ UNCHANGED <<board, attempts, routeVars, itemCount, flightVars, templateFailures>>
  /\ \/ pc' = pc /\ ready' = ready
     \/ pc = "off" /\ pc' = "routes"
     \/ /\ pc \in {"parents", "top", "drain", "launch", "wait", "sleep"}
        /\ pc' \in {"top", "drain", "wait", "sleep", "aborting"}
     \/ BeginLaunch

\* The process ends and keeps the board as it is.
ForgetStep ==
  /\ UNCHANGED <<board, attempts, routeVars, itemCount>>
  /\ pc' = "off" /\ ForgetMemory

ExpandStep(t) ==
  \/ Reexpand(t)
  \/ \E status \in {"failed", "succeeded"} : ExpandNothing(t, status)
  \/ \E n \in 1 .. Foreach[t].max_items : LogExpansion(t, n)
  \/ SaveExpansion(t)

TryStep(t) ==
  \/ \E throws \in BOOLEAN : LaunchWorker(t, throws)
  \/ \E status \in {"succeeded", "failed", "schema_violation"} : LaunchLocal(t, status)

\* Every step is of one of these kinds.
LEMMA StepKinds ==
  ASSUME [Next]_vars
  PROVE  \/ QuietStep \/ ForgetStep \/ FoldStep
         \/ \E resumeFailed \in {FALSE, MayResumeFailed} : ResumeRun(resumeFailed)
         \/ \E t \in AllTasks, instant \in BOOLEAN : ScheduleRetry(t, instant)
         \/ \E t \in ForeachParents : ExpandStep(t)
         \/ \E t \in AllTasks : FailTemplate(t) \/ TryStep(t) \/ Settle(t)
         \/ FlushResolved \/ SealRun
<1> USE DEF runVars, board, attemptVars, routeVars, retryVars, passVars, abortVars, flightVars,
            outsideVars, BeginAbort
<1>1. CASE Commands
  <2>1. ASSUME NEW limit \in TaskLimits, StartRun(limit) PROVE QuietStep
    BY <2>1 DEF StartRun, QuietStep
  <2>2. CASE RequestCancel \/ CancelIdleRun
    BY <2>2 DEF RequestCancel, CancelIdleRun, QuietStep
  <2>3. CASE ResumeRun(FALSE)
    BY <2>3
  <2>4. CASE MayResumeFailed /\ ResumeRun(TRUE)
    BY <2>4, BoundsType
  <2> QED BY <1>1, <2>1, <2>2, <2>3, <2>4 DEF Commands
<1>2. CASE Startup
  BY <1>2 DEF Startup, FoldStep, EnterLoop, QuietStep
<1>3. CASE Top
  BY <1>3 DEF Top, NoticeCancel, ExceedBudget, BeginDrain, QuietStep
<1>4. CASE Drain
  <2>1. CASE BeginLaunch \/ DrainForPause
    BY <2>1 DEF BeginLaunch, DrainForPause, QuietStep
  <2>2. CASE PauseRun
    BY <2>2 DEF PauseRun, ForgetStep
  <2> QED BY <1>4, <2>1, <2>2 DEF Drain, FoldStep
<1>5. CASE Expand
  BY <1>5 DEF Expand, ExpandStep
<1>6. CASE LaunchNext
  <2>1. ASSUME NEW t \in AllTasks, ExhaustAgents(t) PROVE QuietStep
    BY <2>1 DEF ExhaustAgents, Offered, MayLaunch, QuietStep
  <2> QED BY <1>6, <2>1 DEF LaunchNext, TryStep
<1>7. CASE AfterLaunch
  <2>1. ASSUME NEW next \in {"top", "sleep", "wait"}, EndPass(next) PROVE QuietStep
    BY <2>1 DEF EndPass, QuietStep
  <2> QED BY <1>7, <2>1 DEF AfterLaunch, NextPass, AwaitRetry, AwaitWorkers, FoldStep
<1>8. CASE Wake
  BY <1>8 DEF Wake, QuietStep
<1>9. CASE CloseRun
  BY <1>9 DEF CloseRun, ForgetStep
<1>10. ASSUME NEW t \in AllTasks, BackoffElapses(t) PROVE QuietStep
  BY <1>10 DEF BackoffElapses, QuietStep
<1>11. ASSUME NEW t, NEW status, ZombieSettles(t, status) PROVE QuietStep
  BY <1>11 DEF ZombieSettles, StatusesAfterZombie, QuietStep
<1>12. CASE Crash
  BY <1>12 DEF Crash, ForgetStep
<1>13. CASE UNCHANGED vars
  BY <1>13 DEF vars, QuietStep
<1> QED BY <1>1, <1>2, <1>3, <1>4, <1>5, <1>6, <1>7, <1>8, <1>9, <1>10, <1>11, <1>12, <1>13
        DEF Next, Loop, Abort

\* What the steps that fold do besides
LEMMA FoldStepFacts ==
  ASSUME FoldStep
  PROVE  /\ attempts' = attempts /\ itemCount' = itemCount
         /\ \/ /\ pc = "launch" /\ pc' = "off" /\ ForgetMemory /\ routeResolved' = routeResolved
            \/ /\ pc = "routes" /\ pc' = "parents" /\ UNCHANGED <<flightVars, templateFailures>>
               /\ routeResolved' = [r \in Routers |-> routeResolved[r] \/ Unresolved(r)]
            \/ /\ pc = "parents" /\ pc' \in {"parents", "aborting"}
               /\ UNCHANGED <<flightVars, templateFailures, routeResolved>>
            \/ /\ pc = "drain" /\ pc' \in {"drain", "aborting"}
               /\ settledQueue # <<>> /\ settledQueue' = Tail(settledQueue)
               /\ UNCHANGED <<inFlight, unflushed, templateFailures>>
               /\ \/ routeResolved' = [r \in Routers |-> routeResolved[r] \/
                                         (Unresolved(r) /\ r = Head(settledQueue))]
                  \/ routeResolved' = routeResolved /\ task[Head(settledQueue)] # "succeeded"
<1> USE DEF runVars, board, attemptVars, routeVars, retryVars, passVars, abortVars, flightVars,
            outsideVars, BeginAbort
<1>1. CASE ReapplyRoutes
  BY <1>1 DEF ReapplyRoutes
<1>2. ASSUME NEW p \in ForeachParents, RefoldParent(p)
      PROVE  /\ attempts' = attempts /\ itemCount' = itemCount
             /\ pc = "parents" /\ pc' \in {"parents", "aborting"}
             /\ UNCHANGED <<flightVars, templateFailures, routeResolved>>
  BY <1>2 DEF RefoldParent
<1>3. ASSUME NEW t, NEW b, FoldUp(t, b)
      PROVE  settledQueue' = Tail(settledQueue) /\ pc' \in {pc, "aborting"}
  BY <1>3 DEF FoldUp, FoldTo
<1>4. ASSUME NEW t \in AllTasks, FoldSucceeded(t)
      PROVE  /\ attempts' = attempts /\ itemCount' = itemCount
             /\ pc = "drain" /\ pc' \in {"drain", "aborting"}
             /\ settledQueue # <<>> /\ settledQueue' = Tail(settledQueue)
             /\ UNCHANGED <<inFlight, unflushed, templateFailures>>
             /\ routeResolved' = [r \in Routers |-> routeResolved[r] \/
                                      (Unresolved(r) /\ r = Head(settledQueue))]
  <2>1. pc = "drain" /\ settledQueue # <<>> /\ t = Head(settledQueue)
    BY <1>4 DEF FoldSucceeded, Draining
  <2>2. settledQueue' = Tail(settledQueue) /\ pc' \in {pc, "aborting"}
    BY <1>3, <1>4 DEF FoldSucceeded
  <2>3. routeResolved' = [r \in Routers |-> routeResolved[r] \/
                            r \in (IF Unresolved(t) THEN {t} ELSE {})]
    BY <1>4 DEF FoldSucceeded
  <2>4. \A r : r \in (IF Unresolved(t) THEN {t} ELSE {}) <=> Unresolved(r) /\ r = t
    OBVIOUS
  <2>5. UNCHANGED <<attempts, itemCount, inFlight, unflushed, templateFailures>>
    BY <1>4 DEF FoldSucceeded
  <2> QED BY <2>1, <2>2, <2>3, <2>4, <2>5
<1>5. ASSUME NEW t \in AllTasks, FoldFailed(t)
      PROVE  /\ attempts' = attempts /\ itemCount' = itemCount
             /\ pc = "drain" /\ pc' \in {"drain", "aborting"}
             /\ settledQueue # <<>> /\ settledQueue' = Tail(settledQueue)
             /\ UNCHANGED <<inFlight, unflushed, templateFailures>>
             /\ routeResolved' = routeResolved /\ task[Head(settledQueue)] # "succeeded"
  BY <1>3, <1>5 DEF FoldFailed, Draining, FoldTo
<1>6. CASE FinishRun
  BY <1>6 DEF FinishRun, OutOfWork
<1> QED BY <1>1, <1>2, <1>4, <1>5, <1>6 DEF FoldStep

-----------------------------------------------------------------------------
(* Queues                                                                  *)

\* A queue without repetitions keeps none when something new joins it,
LEMMA InjectiveAppend ==
  ASSUME NEW S, NEW s \in Seq(S), IsInjective(s), NEW x \in S, x \notin ToSet(s)
  PROVE  IsInjective(Append(s, x)) /\ ToSet(Append(s, x)) = ToSet(s) \cup {x}
<1>1. DOMAIN Append(s, x) = DOMAIN s \cup {Len(s) + 1} /\ Append(s, x)[Len(s) + 1] = x
      /\ Len(s) + 1 \notin DOMAIN s
  OBVIOUS
<1>2. \A i \in DOMAIN s : Append(s, x)[i] = s[i]
  OBVIOUS
<1>3. \A i \in DOMAIN s : s[i] # x
  BY DEF ToSet
<1>4. IsInjective(Append(s, x))
  BY <1>1, <1>2, <1>3 DEF IsInjective
<1> QED BY <1>4, ToSetAppend

\* ... when its head leaves it,
LEMMA InjectiveTail ==
  ASSUME NEW S, NEW s \in Seq(S), s # <<>>, IsInjective(s)
  PROVE  /\ Tail(s) \in Seq(S) /\ IsInjective(Tail(s))
         /\ ToSet(Tail(s)) = ToSet(s) \ {Head(s)}
<1>1. /\ Len(s) \in Nat /\ Len(s) >= 1 /\ DOMAIN s = 1 .. Len(s)
      /\ DOMAIN Tail(s) = 1 .. Len(s) - 1 /\ Head(s) = s[1]
      /\ \A i \in 1 .. Len(s) - 1 : Tail(s)[i] = s[i + 1]
  OBVIOUS
<1>2. \A i, j \in 1 .. Len(s) : s[i] = s[j] => i = j
  BY <1>1 DEF IsInjective
<1>3. ASSUME NEW i \in 1 .. Len(s) - 1, NEW j \in 1 .. Len(s) - 1, Tail(s)[i] = Tail(s)[j]
      PROVE  i = j
  <2>1. i + 1 \in 1 .. Len(s) /\ j + 1 \in 1 .. Len(s)
    BY <1>1
  <2>2. s[i + 1] = s[j + 1]
    BY <1>1, <1>3
  <2>3. i + 1 = j + 1
    BY <1>2, <2>1, <2>2
  <2> QED BY <2>3
<1>4. ToSet(Tail(s)) \subseteq ToSet(s) \ {Head(s)}
  <2> SUFFICES ASSUME NEW i \in 1 .. Len(s) - 1
               PROVE  Tail(s)[i] \in ToSet(s) /\ Tail(s)[i] # Head(s)
    BY <1>1 DEF ToSet
  <2>1. i + 1 \in 1 .. Len(s) /\ 1 \in 1 .. Len(s) /\ i + 1 # 1
    BY <1>1
  <2>2. Tail(s)[i] = s[i + 1]
    BY <1>1
  <2>3. s[i + 1] # s[1]
    BY <1>2, <2>1
  <2> QED BY <1>1, <2>1, <2>2, <2>3 DEF ToSet
<1>5. ToSet(s) \ {Head(s)} \subseteq ToSet(Tail(s))
  <2> SUFFICES ASSUME NEW i \in 1 .. Len(s), s[i] # s[1]
               PROVE  s[i] \in ToSet(Tail(s))
    BY <1>1 DEF ToSet
  <2>1. i - 1 \in 1 .. Len(s) - 1 /\ (i - 1) + 1 = i
    BY <1>1
  <2>2. Tail(s)[i - 1] = s[i]
    BY <1>1, <2>1
  <2> QED BY <1>1, <2>1, <2>2 DEF ToSet
<1>6. IsInjective(Tail(s))
  BY <1>1, <1>3 DEF IsInjective
<1> QED BY <1>4, <1>5, <1>6, TailType

\* ... and when another such queue with other members joins it.
LEMMA InjectiveConcat ==
  ASSUME NEW S, NEW s \in Seq(S), NEW u \in Seq(S), IsInjective(s), IsInjective(u),
         ToSet(s) \cap ToSet(u) = {}
  PROVE  IsInjective(s \o u) /\ ToSet(s \o u) = ToSet(s) \cup ToSet(u)
<1> DEFINE c == s \o u
<1>1. /\ Len(s) \in Nat /\ Len(u) \in Nat
      /\ DOMAIN s = 1 .. Len(s) /\ DOMAIN u = 1 .. Len(u) /\ DOMAIN c = 1 .. Len(s) + Len(u)
  OBVIOUS
<1>2. ASSUME NEW i \in 1 .. Len(s) + Len(u)
      PROVE  \/ i \in 1 .. Len(s) /\ c[i] = s[i]
             \/ i - Len(s) \in 1 .. Len(u) /\ c[i] = u[i - Len(s)]
  BY <1>1
<1>3. ASSUME NEW i \in 1 .. Len(s) PROVE i \in 1 .. Len(s) + Len(u) /\ c[i] = s[i]
  BY <1>1
<1>4. ASSUME NEW i \in 1 .. Len(u)
      PROVE  Len(s) + i \in 1 .. Len(s) + Len(u) /\ c[Len(s) + i] = u[i]
  BY <1>1
<1> HIDE DEF c
<1>5. \A i \in 1 .. Len(s), j \in 1 .. Len(u) : s[i] # u[j]
  BY <1>1 DEF ToSet
<1>6. IsInjective(c)
  <2> SUFFICES ASSUME NEW i \in 1 .. Len(s) + Len(u), NEW j \in 1 .. Len(s) + Len(u), c[i] = c[j]
               PROVE  i = j
    BY <1>1 DEF IsInjective
  <2>1. /\ \A x, y \in 1 .. Len(s) : s[x] = s[y] => x = y
        /\ \A x, y \in 1 .. Len(u) : u[x] = u[y] => x = y
    BY <1>1 DEF IsInjective
  <2>2. CASE i \in 1 .. Len(s) /\ c[i] = s[i]
    <3>1. CASE j \in 1 .. Len(s) /\ c[j] = s[j]
      BY <2>1, <2>2, <3>1
    <3>2. CASE j - Len(s) \in 1 .. Len(u) /\ c[j] = u[j - Len(s)]
      BY <1>5, <2>2, <3>2
    <3> QED BY <1>2, <3>1, <3>2
  <2>3. CASE i - Len(s) \in 1 .. Len(u) /\ c[i] = u[i - Len(s)]
    <3>1. CASE j \in 1 .. Len(s) /\ c[j] = s[j]
      BY <1>5, <2>3, <3>1
    <3>2. CASE j - Len(s) \in 1 .. Len(u) /\ c[j] = u[j - Len(s)]
      <4>1. i - Len(s) = j - Len(s)
        BY <2>1, <2>3, <3>2
      <4> QED BY <1>1, <4>1
    <3> QED BY <1>2, <3>1, <3>2
  <2> QED BY <1>2, <2>2, <2>3
<1>7. ToSet(c) = ToSet(s) \cup ToSet(u)
  BY <1>1, <1>2, <1>3, <1>4 DEF ToSet
<1> QED BY <1>6, <1>7 DEF c

\* A longer queue holds what the shorter one held.
LEMMA PrefixInConcat ==
  ASSUME NEW S, NEW s \in Seq(S), NEW u \in Seq(S)
  PROVE  ToSet(s) \subseteq ToSet(s \o u)
<1>1. \A i \in DOMAIN s : i \in DOMAIN (s \o u) /\ (s \o u)[i] = s[i]
  OBVIOUS
<1> QED BY <1>1 DEF ToSet

\* Nothing waits in the empty queue.
LEMMA EmptyQueue == ToSet(<<>>) = {} /\ IsInjective(<<>>)
  BY DEF ToSet, IsInjective

\* Attempts are never taken back.
LEMMA TriedStep ==
  ASSUME Inductive, [Next]_vars, NEW t, Tried(t)
  PROVE  Tried(t)'
<1>1. attempts \subseteq attempts'
  BY AttemptsStep
<1> QED BY <1>1 DEF Tried, AttemptsOf

\* What a fold leaves as it was
LEMMA FoldKeeps ==
  ASSUME NEW R, Advances(Board, Board', R), NEW t \in AllTasks
  PROVE  /\ task[t] \notin {"queued", "expanded"} => task'[t] = task[t]
         /\ task'[t] \in {"queued", "expanded", "running", "absent"} => task'[t] = task[t]
         /\ task'[t] = "succeeded" => task[t] = "succeeded" \/ (task[t] = "expanded" /\ t \in ForeachParents)
         /\ task'[t] = "skipped_by_route" => task[t] = "skipped_by_route" \/ t \in Deselected(R)
  BY DEF Advances, Board

\* A task that is offered for launch waits.
LEMMA OfferedFacts ==
  ASSUME Inductive, NEW t, Offered(t)
  PROVE  /\ pc = "launch" /\ t \in AllTasks /\ t \in ready
         /\ task[t] = "queued" /\ t \notin inFlight
  BY DEF Offered, MayLaunch, IsFirst, Launchable, Inductive, TypeOK, LoopInvariant,
         LaunchesWhatWaits

\* Every step keeps the queue in agreement with the tasks.
LEMMA QueueStep ==
  ASSUME Inductive, VerdictInvariant, [Next]_vars
  PROVE  QueueAgrees'
<1> USE DEF runVars, board, attemptVars, routeVars, retryVars, passVars, abortVars, flightVars,
            outsideVars, BeginAbort, VerdictInvariant
<1> TypeOK /\ LoopInvariant
  BY DEF Inductive
<1>a. \A t \in AllTasks : Tried(t) => Tried(t)'
  BY TriedStep
<1>b. ToSet(settledQueue) \subseteq AllTasks /\ ToSet(unflushed) \subseteq AllTasks
  BY DEF TypeOK, ToSet
<1>1. CASE QuietStep
  BY <1>a, <1>b, <1>1 DEF QuietStep, BeginLaunch, QueueAgrees, TypeOK
<1>2. CASE ForgetStep
  BY <1>a, <1>2, EmptyQueue DEF ForgetStep, ForgetMemory, QueueAgrees
<1>3. CASE FoldStep
  <2> PICK R : Advances(Board, Board', R)
    BY <1>3, FoldStepAdvances
  <2>1. \A t \in AllTasks :
          /\ task[t] \in Settled \cup {"running"} => task'[t] = task[t]
          /\ task'[t] \in {"running", "absent"} => task'[t] = task[t]
    BY FoldKeeps DEF Settled, Retryable
  <2>2. CASE pc = "launch" /\ pc' = "off" /\ ForgetMemory
    BY <1>a, <2>1, <2>2, EmptyQueue DEF ForgetMemory, QueueAgrees
  <2>3. CASE /\ pc \in {"routes", "parents"} /\ pc' # "off"
             /\ UNCHANGED <<flightVars, templateFailures>>
    BY <1>a, <1>b, <2>1, <2>3 DEF QueueAgrees
  <2>4. CASE /\ pc = "drain" /\ pc' # "off"
             /\ settledQueue # <<>> /\ settledQueue' = Tail(settledQueue)
             /\ UNCHANGED <<inFlight, unflushed, templateFailures>>
    <3>1. IsInjective(Tail(settledQueue)) /\ ToSet(Tail(settledQueue)) \subseteq ToSet(settledQueue)
      BY <2>4, InjectiveTail DEF TypeOK, QueueAgrees
    <3> QED BY <1>a, <1>b, <2>1, <2>4, <3>1 DEF QueueAgrees
  <2> QED BY <1>3, <2>2, <2>3, <2>4, FoldStepFacts
<1>4. ASSUME NEW resumeFailed, ResumeRun(resumeFailed) PROVE QueueAgrees'
  BY <1>a, <1>4, EmptyQueue DEF ResumeRun, QueueAgrees, LoopInvariant, RunningIsUnfinished
<1>5. ASSUME NEW t \in AllTasks, NEW instant, ScheduleRetry(t, instant) PROVE QueueAgrees'
  <2>1. /\ pc = "drain" /\ pc' = pc /\ settledQueue # <<>> /\ t = Head(settledQueue)
        /\ settledQueue' = Tail(settledQueue) /\ task' = [task EXCEPT ![t] = "queued"]
        /\ UNCHANGED <<inFlight, unflushed, templateFailures>>
    BY <1>5 DEF ScheduleRetry, Draining, FoldTo, Install, Board
  <2>2. IsInjective(settledQueue') /\ ToSet(settledQueue') = ToSet(settledQueue) \ {t}
    BY <2>1, InjectiveTail DEF TypeOK, QueueAgrees
  <2>3. t \notin inFlight
    BY <2>1, HeadInQueue DEF TypeOK, QueueAgrees
  <2> QED BY <1>a, <1>b, <2>1, <2>2, <2>3 DEF QueueAgrees, TypeOK
<1>6. ASSUME NEW t \in ForeachParents, ExpandStep(t) PROVE QueueAgrees'
  <2> t \in AllTasks
    BY ForeachType DEF AllTasks
  <2>1. CASE Reexpand(t)
    BY <1>a, <1>b, <2>1, OfferedFacts DEF Reexpand, QueueAgrees, TypeOK, Settled, Retryable
  <2>2. ASSUME NEW status \in {"failed", "succeeded"}, ExpandNothing(t, status) PROVE QueueAgrees'
    <3>1. /\ pc = "launch" /\ pc' = pc /\ task[t] = "queued" /\ t \notin inFlight
          /\ task' = [task EXCEPT ![t] = status] /\ settledQueue' = Append(settledQueue, t)
          /\ UNCHANGED <<inFlight, unflushed, templateFailures>>
      BY <2>2, OfferedFacts DEF ExpandNothing
    <3>2. t \notin ToSet(settledQueue)
      BY <3>1 DEF QueueAgrees, Settled, Retryable
    <3>3. IsInjective(settledQueue') /\ ToSet(settledQueue') = ToSet(settledQueue) \cup {t}
      BY <3>1, <3>2, InjectiveAppend DEF TypeOK, QueueAgrees
    <3>4. status \in Settled
      BY DEF Settled, Retryable
    <3> QED BY <1>a, <1>b, <3>1, <3>3, <3>4 DEF QueueAgrees, TypeOK
  <2>3. ASSUME NEW n, LogExpansion(t, n) PROVE QueueAgrees'
    BY <1>a, <1>b, <2>3, OfferedFacts DEF LogExpansion, QueueAgrees, TypeOK
  <2>4. CASE SaveExpansion(t)
    <3>1. /\ pc = "expanding" /\ pc' = "launch" /\ t \in ready
          /\ UNCHANGED <<inFlight, settledQueue, unflushed, templateFailures>>
      BY <2>4 DEF SaveExpansion, IsFirst, Launchable
    <3>2. task[t] = "queued"
      BY <3>1 DEF LoopInvariant, LaunchesWhatWaits
    <3>3. ExpandedChildren(Board, t) = {}
      BY <2>4, <3>1 DEF SaveExpansion, LoopInvariant, ExpandsOnce
    <3>4. ASSUME NEW u \in AllTasks
          PROVE  \/ task'[u] = task[u]
                 \/ task[u] \in {"queued", "absent"} /\ task'[u] \in {"queued", "expanded"}
      BY <2>4, <3>2, <3>3 DEF SaveExpansion, ExpandedChildren, Board
    <3>5. \A u \in AllTasks : /\ task[u] \in Settled \cup {"running"} => task'[u] = task[u]
                              /\ task'[u] \in {"running", "absent"} => task'[u] = task[u]
      BY <3>4 DEF Settled, Retryable
    <3> QED BY <1>a, <1>b, <3>1, <3>5 DEF QueueAgrees
  <2> QED BY <1>6, <2>1, <2>2, <2>3, <2>4 DEF ExpandStep
<1>7. ASSUME NEW t \in AllTasks, FailTemplate(t) PROVE QueueAgrees'
  <2>1. /\ pc = "launch" /\ pc' = pc /\ task[t] = "queued" /\ t \notin inFlight
        /\ task' = [task EXCEPT ![t] = "failed"] /\ settledQueue' = Append(settledQueue, t)
        /\ templateFailures' = templateFailures \cup {t} /\ UNCHANGED <<inFlight, unflushed>>
    BY <1>7, OfferedFacts DEF FailTemplate
  <2>2. t \notin ToSet(settledQueue)
    BY <2>1 DEF QueueAgrees, Settled, Retryable
  <2>3. IsInjective(settledQueue') /\ ToSet(settledQueue') = ToSet(settledQueue) \cup {t}
    BY <2>1, <2>2, InjectiveAppend DEF TypeOK, QueueAgrees
  <2>4. "failed" \in Settled
    BY DEF Settled, Retryable
  <2> QED BY <1>a, <1>b, <2>1, <2>3, <2>4 DEF QueueAgrees, TypeOK
<1>8. ASSUME NEW t \in AllTasks, TryStep(t) PROVE QueueAgrees'
  <2>1. PICK status \in {"running", "succeeded", "failed", "schema_violation"} :
          Launch(t, status) /\ unflushed' \in {unflushed, Append(unflushed, t)}
    BY <1>8 DEF TryStep, LaunchWorker, LaunchLocal
  <2>2. /\ pc = "launch" /\ pc' = pc /\ task[t] = "queued" /\ t \notin inFlight
        /\ task' = [task EXCEPT ![t] = status] /\ inFlight' = inFlight \cup {t}
        /\ UNCHANGED <<settledQueue, templateFailures>>
    BY <2>1, OfferedFacts DEF Launch
  <2>3. t \notin ToSet(settledQueue) /\ t \notin ToSet(unflushed)
    BY <2>2 DEF QueueAgrees, Settled, Retryable
  <2>4. IsInjective(unflushed') /\ ToSet(unflushed') \subseteq ToSet(unflushed) \cup {t}
    <3>1. IsInjective(unflushed) /\ unflushed \in Seq(AllTasks)
      BY DEF TypeOK, QueueAgrees
    <3>2. IsInjective(Append(unflushed, t)) /\ ToSet(Append(unflushed, t)) = ToSet(unflushed) \cup {t}
      BY <2>3, <3>1, InjectiveAppend
    <3> QED BY <2>1, <3>1, <3>2
  <2>5. status \in Settled \cup {"running"}
    BY DEF Settled, Retryable
  <2>6. Tried(t)'
    <3>1. NextAttempt(t) \in attempts' /\ NextAttempt(t)[1] = t
      BY <2>1 DEF Launch, NextAttempt
    <3> QED BY <3>1 DEF Tried, AttemptsOf
  <2> QED BY <1>a, <1>b, <2>2, <2>3, <2>4, <2>5, <2>6 DEF QueueAgrees, TypeOK
<1>9. CASE FlushResolved
  <2>1. /\ pc \in {"wait", "aborting"} /\ pc' \in {"top", "aborting"} /\ (pc' # "aborting" => pc = "wait")
        /\ inFlight' = inFlight \ ToSet(unflushed) /\ unflushed' = <<>>
        /\ settledQueue' = settledQueue \o unflushed /\ templateFailures' = templateFailures
    BY <1>9 DEF FlushResolved
  <2>2. \A t \in AllTasks :
          task'[t] = IF t \in ToSet(unflushed) /\ task[t] = "running" THEN "failed" ELSE task[t]
    BY <1>9 DEF FlushResolved
  <2>3. \A t \in ToSet(unflushed) : t \in inFlight /\ task'[t] \in Settled /\ Tried(t)
    BY <1>b, <2>2 DEF QueueAgrees, Settled, Retryable
  <2>4. pc = "wait" => /\ IsInjective(settledQueue')
                       /\ ToSet(settledQueue') = ToSet(settledQueue) \cup ToSet(unflushed)
    <3>1. pc = "wait" => ToSet(settledQueue) \cap ToSet(unflushed) = {}
      BY DEF QueueAgrees
    <3> QED BY <2>1, <3>1, InjectiveConcat DEF TypeOK, QueueAgrees
  <2>5. pc = "wait" => \A t \in ToSet(settledQueue) : task'[t] = task[t]
    BY <1>b, <2>2 DEF QueueAgrees
  <2>6. \A t \in AllTasks : task'[t] \in {"running", "absent"} => task'[t] = task[t]
    BY <2>2
  <2>7. \A t \in AllTasks : t \in inFlight' \/ task'[t] = "running" => Tried(t)'
    BY <1>a, <2>1, <2>6 DEF QueueAgrees
  <2>8. IsInjective(unflushed') /\ ToSet(unflushed') = {}
    BY <2>1, EmptyQueue
  <2>9. pc = "wait" => \A t \in ToSet(settledQueue') :
                         /\ t \notin inFlight' /\ task'[t] \in Settled
                         /\ Tried(t)' \/ t \in templateFailures' \cup ForeachParents
    BY <1>a, <1>b, <2>1, <2>3, <2>4, <2>5 DEF QueueAgrees
  <2> QED BY <2>1, <2>4, <2>6, <2>7, <2>8, <2>9 DEF QueueAgrees
<1>10. ASSUME NEW t \in AllTasks, Settle(t) PROVE QueueAgrees'
  <2> PICK status \in WorkerOutcomes \cup {"cancelled", "running"} :
        \E value \in RouteValuesAfter(t, status) : WorkerSettles(t, status, value)
    BY <1>10 DEF Settle
  <2> PICK value \in RouteValuesAfter(t, status) : WorkerSettles(t, status, value)
    OBVIOUS
  <2>1. /\ pc \in {"wait", "aborting"} /\ pc' \in {"top", "aborting"} /\ (pc' # "aborting" => pc = "wait")
        /\ unflushed = <<>> /\ t \in inFlight /\ task' = [task EXCEPT ![t] = status]
        /\ inFlight' = inFlight \ {t} /\ settledQueue' = Append(settledQueue, t)
        /\ UNCHANGED <<unflushed, templateFailures>>
        /\ (pc = "wait" => status \in WorkerOutcomes)
    BY DEF WorkerSettles
  <2>2. Tried(t)
    BY <2>1 DEF QueueAgrees
  <2>3. pc = "wait" => /\ IsInjective(settledQueue') /\ ToSet(settledQueue') = ToSet(settledQueue) \cup {t}
                       /\ status \in Settled
    <3>1. pc = "wait" => t \notin ToSet(settledQueue)
      BY <2>1 DEF QueueAgrees
    <3>2. pc = "wait" => status \in Settled
      BY <2>1, OutcomesType DEF Settled
    <3> QED BY <2>1, <3>1, <3>2, InjectiveAppend DEF TypeOK, QueueAgrees
  <2>4. status # "absent"
    BY OutcomesType DEF Retryable
  <2>5. ToSet(unflushed) = {}
    BY <2>1, EmptyQueue
  <2> QED BY <1>a, <1>b, <2>1, <2>2, <2>3, <2>4, <2>5 DEF QueueAgrees, TypeOK
<1>11. CASE SealRun
  <2>1. /\ pc' = "sealed" /\ inFlight' = {} /\ unflushed = <<>> /\ unflushed' = <<>>
    BY <1>11 DEF SealRun
  <2>2. \A t \in AllTasks : task'[t] \notin {"running", "absent"} \/ task'[t] = task[t]
    BY <1>11 DEF SealRun, TypeOK
  <2>3. abortAs # "absent"
    BY DEF TypeOK
  <2> QED BY <1>a, <2>1, <2>2, EmptyQueue DEF QueueAgrees
<1> QED BY <1>1, <1>2, <1>3, <1>4, <1>5, <1>6, <1>7, <1>8, <1>9, <1>10, <1>11, StepKinds

-----------------------------------------------------------------------------
(* What a task was launched after stays done.                              *)

\* A child has the phase and the prerequisites of its parent.
LEMMA ChildFacts ==
  ASSUME NEW c \in Children
  PROVE  LET p == ChildDef[c].parent_task_id
         IN  /\ p \in ForeachParents /\ p \in SpecTasks /\ p \in AllTasks /\ p \notin Children
             /\ PhaseOf(c) = PhaseOf(p) /\ Prerequisites(c) = Prerequisites(p)
             /\ c \in AllTasks
<1> DEFINE p == ChildDef[c].parent_task_id
<1>1. p \in ForeachParents /\ p \in SpecTasks
  BY ForeachType
<1>2. p \notin Children /\ p \in AllTasks /\ c \in AllTasks
  BY <1>1, ForeachType DEF AllTasks
<1>3. DefOf(p) = TaskDef[p] /\ DefOf(c) = [TaskDef[p] EXCEPT !.depends_on = {}]
  BY <1>2 DEF DefOf
<1>4. PhaseOf(c) = PhaseOf(p)
  BY <1>1, <1>3, TaskDefType DEF PhaseOf, TaskRecord
<1>5. Prerequisites(c) = Prerequisites(p)
  BY <1>2 DEF Prerequisites
<1> QED BY <1>1, <1>2, <1>4, <1>5

\* Prerequisites are tasks, and phases depend on phases.
LEMMA PrerequisitesType ==
  ASSUME NEW t \in AllTasks
  PROVE  /\ Prerequisites(t) \subseteq AllTasks
         /\ PhaseOf(t) \in Phases /\ PhaseDef[PhaseOf(t)].depends_on \subseteq Phases
<1>1. ASSUME NEW u \in SpecTasks
      PROVE  /\ Prerequisites(u) = TaskDef[u].depends_on /\ Prerequisites(u) \subseteq AllTasks
             /\ PhaseOf(u) \in Phases
  <2>1. u \notin Children
    BY ForeachType
  <2>2. Prerequisites(u) = TaskDef[u].depends_on
    BY <2>1 DEF Prerequisites, DependsOn, DefOf
  <2>3. TaskDef[u].depends_on \subseteq AllTasks
    BY TaskDefType DEF TaskRecord, AllTasks
  <2> QED BY <2>2, <2>3, PhaseTasksFacts
<1>2. Prerequisites(t) \subseteq AllTasks /\ PhaseOf(t) \in Phases
  <2>1. CASE t \in SpecTasks
    BY <1>1, <2>1
  <2>2. CASE t \notin SpecTasks
    <3>1. t \in Children
      BY <2>2 DEF AllTasks
    <3> QED BY <1>1, <3>1, ChildFacts
  <2> QED BY <2>1, <2>2
<1>3. PhaseDef[PhaseOf(t)].depends_on \subseteq Phases
  BY <1>2, PhaseDefType DEF PhaseRecord
<1> QED BY <1>2, <1>3

\* A phase that is marked as running was not decided.
LEMMA UnderwayFacts ==
  ASSUME TypeOK, NEW p \in Phases, NEW q \in Phases
  PROVE  /\ phase[q] = "succeeded" => Underway(p)[q] = "succeeded"
         /\ Underway(p)[q] \in FinalPhase <=> phase[q] \in FinalPhase
         /\ phase[q] \in FinalPhase => Underway(p)[q] = phase[q]
  BY DEF TypeOK, Underway, FinalPhase

\* The phase of what is launched or expanded is marked as running.
LEMMA LaunchPhases ==
  ASSUME NEW t, ExpandStep(t) \/ FailTemplate(t) \/ TryStep(t)
  PROVE  phase' = phase \/ phase' = Underway(PhaseOf(t))
  BY DEF ExpandStep, Reexpand, ExpandNothing, LogExpansion, SaveExpansion, FailTemplate, TryStep,
         LaunchWorker, LaunchLocal, Launch

\* A phase that succeeded stays so.
LEMMA SucceededPhasesKept ==
  ASSUME Inductive, VerdictInvariant, [Next]_vars, NEW p \in Phases, phase[p] = "succeeded"
  PROVE  phase'[p] = "succeeded"
<1> TypeOK
  BY DEF Inductive
<1>1. CASE QuietStep \/ ForgetStep \/ FlushResolved \/ SealRun
  BY <1>1 DEF QuietStep, ForgetStep, FlushResolved, SealRun, board
<1>2. CASE FoldStep
  BY <1>2, FoldStepAdvances DEF Advances, Board
<1>3. ASSUME NEW resumeFailed, ResumeRun(resumeFailed) PROVE phase'[p] = "succeeded"
  BY <1>3 DEF ResumeRun
<1>4. ASSUME NEW t, NEW instant, ScheduleRetry(t, instant) PROVE phase'[p] = "succeeded"
  BY <1>4 DEF ScheduleRetry, FoldTo, Install, Board
<1>5. ASSUME NEW t \in AllTasks, ExpandStep(t) \/ FailTemplate(t) \/ TryStep(t)
      PROVE  phase'[p] = "succeeded"
  <2>1. PhaseOf(t) \in Phases
    BY PrerequisitesType
  <2> QED BY <1>5, <2>1, LaunchPhases, UnderwayFacts
<1>6. ASSUME NEW t, Settle(t) PROVE phase'[p] = "succeeded"
  BY <1>6 DEF Settle, WorkerSettles
<1>7. ForeachParents \subseteq AllTasks
  BY ForeachType DEF AllTasks
<1> QED BY <1>1, <1>2, <1>3, <1>4, <1>5, <1>6, <1>7, StepKinds

\* What a task was started after stays done.
LEMMA EnteredKept ==
  ASSUME Inductive, VerdictInvariant, [Next]_vars, NEW t \in AllTasks, Entered(t)
  PROVE  Entered(t)'
<1>1. \A d \in Prerequisites(t) : task'[d] \in NonFailureTerminal
  BY PrerequisitesType, AcceptedStep DEF Entered
<1>2. \A q \in PhaseDef[PhaseOf(t)].depends_on : phase'[q] = "succeeded"
  BY PrerequisitesType, SucceededPhasesKept DEF Entered, PhaseEntered
<1> QED BY <1>1, <1>2 DEF Entered, PhaseEntered

\* Only what is ready is launched or expanded.
LEMMA LaunchesReady ==
  ASSUME Inductive, NEW t, ExpandStep(t) \/ FailTemplate(t) \/ TryStep(t)
  PROVE  /\ t \in ready /\ t \in AllTasks /\ task[t] = "queued"
         /\ pc \in {"launch", "expanding"} /\ pc' \in {"launch", "expanding"}
         /\ ready' \subseteq ready /\ routeResolved' = routeResolved
<1>1. CASE FailTemplate(t) \/ TryStep(t)
  BY <1>1, OfferedFacts DEF FailTemplate, TryStep, LaunchWorker, LaunchLocal, Launch, routeVars
<1>2. CASE ExpandStep(t) /\ ~SaveExpansion(t)
  BY <1>2, OfferedFacts DEF ExpandStep, Reexpand, ExpandNothing, LogExpansion, routeVars, passVars
<1>3. CASE SaveExpansion(t)
  BY <1>3 DEF SaveExpansion, IsFirst, Launchable, routeVars, Inductive, LoopInvariant,
     LaunchesWhatWaits, TypeOK
<1> QED BY <1>1, <1>2, <1>3

\* A launch or an expansion touches its task and, if it expands, the children.
LEMMA LaunchTouches ==
  ASSUME TypeOK, NEW u \in AllTasks, ExpandStep(u) \/ FailTemplate(u) \/ TryStep(u),
         NEW t \in AllTasks, t # u
  PROVE  /\ task'[t] = task[t] \/ (t \in ChildrenOf(u) /\ task'[t] = "queued")
         /\ t \in ForeachParents => itemCount'[t] = itemCount[t]
         /\ AttemptsOf(t)' = AttemptsOf(t)
<1> USE DEF runVars, attemptVars
<1>1. CASE Reexpand(u)
  <2>1. task' = [task EXCEPT ![u] = "expanded"] /\ itemCount' = itemCount /\ attempts' = attempts
    BY <1>1 DEF Reexpand
  <2> QED BY <2>1 DEF AttemptsOf, TypeOK
<1>2. ASSUME NEW status, ExpandNothing(u, status)
      PROVE  task'[t] = task[t] /\ itemCount' = itemCount /\ AttemptsOf(t)' = AttemptsOf(t)
  <2>1. task' = [task EXCEPT ![u] = status] /\ itemCount' = itemCount /\ attempts' = attempts
    BY <1>2 DEF ExpandNothing
  <2> QED BY <2>1 DEF AttemptsOf, TypeOK
<1>3. ASSUME NEW n, LogExpansion(u, n)
      PROVE  /\ task'[t] = task[t] /\ AttemptsOf(t)' = AttemptsOf(t)
             /\ t \in ForeachParents => itemCount'[t] = itemCount[t]
  <2>1. task' = task /\ itemCount' = [itemCount EXCEPT ![u] = n] /\ attempts' = attempts
    BY <1>3 DEF LogExpansion
  <2> QED BY <2>1 DEF AttemptsOf, TypeOK
<1>4. CASE SaveExpansion(u)
  <2>1. itemCount' = itemCount /\ attempts' = attempts
    BY <1>4 DEF SaveExpansion
  <2>2. task'[t] = task[t] \/ (t \in ChildrenOf(u) /\ task'[t] = "queued")
    BY <1>4 DEF SaveExpansion
  <2> QED BY <2>1, <2>2 DEF AttemptsOf
<1>5. CASE FailTemplate(u)
  <2>1. task' = [task EXCEPT ![u] = "failed"] /\ itemCount' = itemCount /\ attempts' = attempts
    BY <1>5 DEF FailTemplate
  <2> QED BY <2>1 DEF AttemptsOf, TypeOK
<1>6. CASE TryStep(u)
  <2>1. PICK status : Launch(u, status)
    BY <1>6 DEF TryStep, LaunchWorker, LaunchLocal
  <2>2. /\ task' = [task EXCEPT ![u] = status] /\ itemCount' = itemCount
        /\ attempts' = attempts \cup {NextAttempt(u)}
    BY <2>1 DEF Launch
  <2>3. NextAttempt(u)[1] # t
    BY DEF NextAttempt
  <2> QED BY <2>2, <2>3 DEF AttemptsOf, TypeOK
<1> QED BY <1>1, <1>2, <1>3, <1>4, <1>5, <1>6 DEF ExpandStep

\* A task that was not started before a step is started by it only as one of
\* the tasks that are ready, or as the child of one that was expanded.
LEMMA StartStep ==
  ASSUME Inductive, VerdictInvariant, [Next]_vars, NEW t \in AllTasks, Started(t)', ~Started(t)
  PROVE  Entered(t)
<1> USE DEF board, routeVars, attemptVars, VerdictInvariant
<1> TypeOK
  BY DEF Inductive
<1>a. /\ task[t] \notin {"running", "expanded", "succeeded"} /\ ~Tried(t)
      /\ t \in ForeachParents => itemCount[t] = 0
      /\ t \in Children => task[t] = "absent"
  BY DEF Started
<1>1. CASE QuietStep \/ ForgetStep
  <2>1. task' = task /\ attempts' = attempts /\ itemCount' = itemCount
    BY <1>1 DEF QuietStep, ForgetStep
  <2> QED BY <1>a, <2>1 DEF Started, Tried, AttemptsOf
<1>2. CASE FoldStep
  <2> PICK R : Advances(Board, Board', R)
    BY <1>2, FoldStepAdvances
  <2>1. /\ task'[t] \notin {"running", "expanded", "succeeded"}
        /\ task[t] = "absent" => task'[t] = "absent"
    BY <1>a, FoldKeeps
  <2>2. attempts' = attempts /\ itemCount' = itemCount
    BY <1>2, FoldStepFacts
  <2> QED BY <1>a, <2>1, <2>2 DEF Started, Tried, AttemptsOf
<1>3. ASSUME NEW resumeFailed, ResumeRun(resumeFailed) PROVE Entered(t)
  <2>1. task'[t] \in {"queued", task[t]} /\ attempts' = attempts /\ itemCount' = itemCount
    BY <1>3 DEF ResumeRun
  <2>2. t \in Children /\ task'[t] # "absent"
    BY <1>a, <2>1 DEF Started, Tried, AttemptsOf
  <2> DEFINE p == ChildDef[t].parent_task_id
  <2>3. p \in ForeachParents /\ p \in AllTasks /\ itemCount[p] \in Nat
    BY <2>2, ChildFacts DEF TypeOK
  <2>4. ChildDef[t].item_index < itemCount[p] /\ ChildDef[t].item_index \in Nat
    <3>1. ChildDef[t].item_index \in Nat
      BY <2>2, ForeachType
    <3>2. task[t] = "absent"
      BY <1>a, <2>2
    <3>3. ChildDef[t].item_index < itemCount[p]
      BY <1>3, <2>2, <3>2 DEF ResumeRun, Resumable, Retryable
    <3> QED BY <3>1, <3>3
  <2>5. Started(p)
    BY <2>3, <2>4 DEF Started
  <2>6. Entered(p)
    BY <2>3, <2>5 DEF EnteredOnce
  <2> QED BY <2>2, <2>6, ChildFacts DEF Entered
<1>4. ASSUME NEW u \in AllTasks, NEW instant, ScheduleRetry(u, instant) PROVE Entered(t)
  <2>1. task' = [task EXCEPT ![u] = "queued"] /\ attempts' = attempts /\ itemCount' = itemCount
    BY <1>4 DEF ScheduleRetry, FoldTo, Install, Board
  <2>2. task[u] # "absent"
    BY <1>4 DEF ScheduleRetry, RetryAllowed, Retryable
  <2> QED BY <1>a, <2>1, <2>2 DEF Started, Tried, AttemptsOf, TypeOK
<1>5. ASSUME NEW u \in AllTasks, ExpandStep(u) \/ FailTemplate(u) \/ TryStep(u) PROVE Entered(t)
  <2>1. Entered(u)
    BY <1>5, LaunchesReady DEF EnteredOnce
  <2>2. CASE t = u
    BY <2>1, <2>2
  <2>3. CASE t # u
    <3>1. /\ task'[t] = task[t] \/ (t \in ChildrenOf(u) /\ task'[t] = "queued")
          /\ t \in ForeachParents => itemCount'[t] = itemCount[t]
          /\ AttemptsOf(t)' = AttemptsOf(t)
      BY <1>5, <2>3, LaunchTouches
    <3>4. t \in ChildrenOf(u)
      BY <1>a, <3>1 DEF Started, Tried
    <3>5. t \in Children /\ ChildDef[t].parent_task_id = u
      BY <3>4 DEF ChildrenOf
    <3> QED BY <2>1, <3>5, ChildFacts DEF Entered
  <2> QED BY <2>2, <2>3
<1>6. CASE FlushResolved \/ SealRun
  <2>1. attempts' = attempts /\ itemCount' = itemCount
    BY <1>6 DEF FlushResolved, SealRun
  <2>2. task'[t] = task[t]
    BY <1>6, <1>a DEF FlushResolved, SealRun
  <2> QED BY <1>a, <2>1, <2>2 DEF Started, Tried, AttemptsOf
<1>7. ASSUME NEW u \in AllTasks, Settle(u) PROVE Entered(t)
  <2>1. PICK status, value : WorkerSettles(u, status, value)
    BY <1>7 DEF Settle
  <2>2. u \in inFlight /\ task' = [task EXCEPT ![u] = status] /\ attempts' = attempts
        /\ itemCount' = itemCount
    BY <2>1 DEF WorkerSettles
  <2>3. Tried(u)
    BY <2>2 DEF QueueAgrees, TypeOK
  <2>4. u # t
    BY <1>a, <2>3
  <2> QED BY <1>a, <2>2, <2>4 DEF Started, Tried, AttemptsOf, TypeOK
<1>8. ForeachParents \subseteq AllTasks
  BY ForeachType DEF AllTasks
<1> QED BY <1>1, <1>2, <1>3, <1>4, <1>5, <1>6, <1>7, <1>8, StepKinds

\* Every step keeps it that what was started was started after what it needs.
LEMMA EnteredStep ==
  ASSUME Inductive, VerdictInvariant, [Next]_vars
  PROVE  EnteredOnce'
<1> USE DEF VerdictInvariant
<1> TypeOK
  BY DEF Inductive
<1>1. ASSUME NEW t \in AllTasks, Started(t)' PROVE Entered(t)'
  <2>1. Entered(t)
    BY <1>1, StartStep DEF EnteredOnce
  <2> QED BY <2>1, EnteredKept
<1>2. ASSUME pc' \in {"launch", "expanding"}, NEW t \in ready'
      PROVE  Entered(t)' /\ phase'[PhaseOf(t)] \notin {"failed", "skipped"}
  <2>1. CASE BeginLaunch
    <3>1. t \in AllTasks /\ TaskIsReady(t) /\ phase' = phase
      BY <1>2, <2>1 DEF BeginLaunch, ReadyTasks, board
    <3>2. Entered(t)
      <4>1. CASE t \in Children
        <5>1. Started(t)
          BY <3>1, <4>1 DEF Started, TaskIsReady
        <5> QED BY <3>1, <5>1 DEF EnteredOnce
      <4>2. CASE t \notin Children
        BY <3>1, <4>2 DEF Entered, Prerequisites, TaskIsReady
      <4> QED BY <4>1, <4>2
    <3> QED BY <3>1, <3>2, EnteredKept DEF TaskIsReady
  <2>2. CASE QuietStep /\ ~BeginLaunch
    <3>1. pc' = pc /\ ready' = ready /\ phase' = phase
      BY <1>2, <2>2 DEF QuietStep, board
    <3>2. Entered(t) /\ t \in AllTasks /\ phase[PhaseOf(t)] \notin {"failed", "skipped"}
      BY <1>2, <3>1 DEF EnteredOnce, TypeOK
    <3> QED BY <3>1, <3>2, EnteredKept
  <2>3. ASSUME NEW u \in AllTasks, ExpandStep(u) \/ FailTemplate(u) \/ TryStep(u)
        PROVE  Entered(t)' /\ phase'[PhaseOf(t)] \notin {"failed", "skipped"}
    <3>1. t \in ready /\ pc \in {"launch", "expanding"}
      BY <1>2, <2>3, LaunchesReady
    <3>2. t \in AllTasks /\ Entered(t) /\ phase[PhaseOf(t)] \notin {"failed", "skipped"}
      BY <3>1 DEF EnteredOnce, TypeOK
    <3>3. phase' = phase \/ phase' = Underway(PhaseOf(u))
      BY <2>3, LaunchPhases
    <3>4. phase'[PhaseOf(t)] \notin {"failed", "skipped"}
      <4>1. PhaseOf(t) \in Phases /\ PhaseOf(u) \in Phases
        BY <3>2, PrerequisitesType
      <4>2. Underway(PhaseOf(u))[PhaseOf(t)] \notin {"failed", "skipped"}
        BY <3>2, <4>1, UnderwayFacts DEF FinalPhase
      <4> QED BY <3>2, <3>3, <4>2
    <3> QED BY <3>2, <3>4, EnteredKept
  <2>4. ~ForgetStep /\ ~FoldStep /\ ~FlushResolved /\ ~SealRun
    <3>1. ~FoldStep
      BY <1>2, FoldStepFacts
    <3>2. ~ForgetStep /\ ~FlushResolved /\ ~SealRun
      BY <1>2 DEF ForgetStep, FlushResolved, SealRun
    <3> QED BY <3>1, <3>2
  <2>5. \A resumeFailed : ~ResumeRun(resumeFailed)
    BY <1>2 DEF ResumeRun
  <2>6. \A u, instant : ~ScheduleRetry(u, instant)
    BY <1>2 DEF ScheduleRetry, Draining, FoldTo
  <2>7. \A u : ~Settle(u)
    BY <1>2 DEF Settle, WorkerSettles
  <2>8. ForeachParents \subseteq AllTasks
    BY ForeachType DEF AllTasks
  <2> QED BY <2>1, <2>2, <2>3, <2>4, <2>5, <2>6, <2>7, <2>8, StepKinds
<1> QED BY <1>1, <1>2 DEF EnteredOnce

-----------------------------------------------------------------------------
(* Routes are resolved before their case tasks are tried.                  *)

\* V4: a task is a case of at most one route.
LEMMA OneRoute ==
  ASSUME NEW t \in SpecTasks, NEW r \in RoutesListing(t)
  PROVE  RoutesListing(t) = {r}
<1>1. IsFiniteSet(RoutesListing(t))
  <2>1. RoutesListing(t) \subseteq AllTasks
    BY RouteType DEF RoutesListing, AllTasks
  <2> QED BY <2>1, TasksFinite, FS_Subset
<1>2. Cardinality(RoutesListing(t)) <= 1
  BY GraphRules DEF RouteTopology
<1> SUFFICES ASSUME NEW q \in RoutesListing(t), q # r PROVE FALSE
  OBVIOUS
<1>3. {q, r} \subseteq RoutesListing(t)
  OBVIOUS
<1>4. Cardinality({q, r}) <= Cardinality(RoutesListing(t))
  BY <1>1, <1>3, FS_Subset
<1>5. Cardinality({q}) = 1 /\ IsFiniteSet({q})
  BY FS_Singleton
<1>6. Cardinality({q} \cup {r}) = Cardinality({q}) + 1
  BY <1>5, FS_AddElement
<1>7. {q} \cup {r} = {q, r}
  OBVIOUS
<1>8. Cardinality(RoutesListing(t)) \in Nat
  BY <1>1, FS_CardinalityType
<1> QED BY <1>2, <1>4, <1>5, <1>6, <1>7, <1>8

\* A case task is entered only after its routing task has succeeded: what it
\* depends on is succeeded, or routed away by the same route.
LEMMA RouterPrecedes ==
  ASSUME TypeOK, VerdictInvariant, NEW t \in AllTasks, Entered(t), NEW r \in RoutesListing(t)
  PROVE  task[r] = "succeeded"
<1> USE DEF VerdictInvariant
<1> SUFFICES ASSUME task[r] # "succeeded" PROVE FALSE
  OBVIOUS
<1>1. r \in Routers /\ r \in SpecTasks /\ t \in CaseTasks(r) /\ t \in SpecTasks
  BY RouteType DEF RoutesListing
<1>2. ~routeResolved[r]
  BY <1>1 DEF RoutesAgree
<1> DEFINE deps == [u \in SpecTasks |-> TaskDef[u].depends_on]
           Y == {d \in SpecTasks : task[d] = "succeeded" /\ RoutesListing(d) \subseteq {r}}
<1>3. ASSUME NEW u \in SpecTasks, Entered(u), RoutesListing(u) \subseteq {r}
      PROVE  TaskDef[u].depends_on \subseteq Y
  <2> SUFFICES ASSUME NEW d \in TaskDef[u].depends_on PROVE d \in Y
    OBVIOUS
  <2>1. d \in SpecTasks /\ d \in AllTasks
    BY TaskDefType DEF TaskRecord, AllTasks
  <2>2. Prerequisites(u) = TaskDef[u].depends_on
    <3>1. u \notin Children
      BY ForeachType
    <3> QED BY <3>1 DEF Prerequisites, DependsOn, DefOf
  <2>3. task[d] \in NonFailureTerminal
    BY <1>3, <2>2 DEF Entered
  <2>4. RoutesListing(d) \subseteq {r}
    <3>1. RoutesListing(d) # {} => r \in RoutesListing(d)
      BY <1>3, GraphRules DEF RouteTopology
    <3> QED BY <2>1, <3>1, OneRoute
  <2>5. task[d] # "skipped_by_route"
    BY <1>2, <2>1, <2>4 DEF RoutesAgree
  <2> QED BY <2>1, <2>3, <2>4, <2>5 DEF NonFailureTerminal
<1>4. TaskDef[t].depends_on \subseteq Y
  BY <1>1, <1>3, OneRoute
<1>5. ASSUME NEW d \in Y PROVE TaskDef[d].depends_on \subseteq Y
  <2>1. Started(d) /\ d \in AllTasks
    BY DEF Started, AllTasks
  <2>2. Entered(d)
    BY <2>1 DEF EnteredOnce
  <2> QED BY <1>3, <2>2
<1>6. Y \in SUBSET (DOMAIN deps) /\ deps[t] \subseteq Y /\ \A d \in Y : deps[d] \subseteq Y
  BY <1>1, <1>4, <1>5
<1>7. r \in Upstream(deps)[t]
  <2>1. r \in DependencyClosure[t]
    BY <1>1, GraphRules DEF RouteTopology
  <2> QED BY <2>1 DEF DependencyClosure
<1>8. r \in Y
  <2>1. t \in DOMAIN deps
    BY <1>1
  <2> HIDE DEF deps, Y
  <2> QED BY <1>6, <1>7, <2>1 DEF Upstream
<1> QED BY <1>8

\* Only folds resolve routes and route tasks away.
LEMMA OtherStepsRoute ==
  ASSUME Inductive, [Next]_vars, ~FoldStep
  PROVE  /\ routeResolved' = routeResolved
         /\ \A t \in AllTasks : task'[t] = "skipped_by_route" => task[t] = "skipped_by_route"
<1> USE DEF board, routeVars
<1> TypeOK
  BY DEF Inductive
<1>1. CASE QuietStep \/ ForgetStep
  BY <1>1 DEF QuietStep, ForgetStep
<1>2. ASSUME NEW resumeFailed, ResumeRun(resumeFailed)
      PROVE  /\ routeResolved' = routeResolved
             /\ \A t \in AllTasks : task'[t] = "skipped_by_route" => task[t] = "skipped_by_route"
  BY <1>2 DEF ResumeRun
<1>3. ASSUME NEW u, NEW instant, ScheduleRetry(u, instant)
      PROVE  /\ routeResolved' = routeResolved
             /\ \A t \in AllTasks : task'[t] = "skipped_by_route" => task[t] = "skipped_by_route"
  <2>1. task' = [task EXCEPT ![u] = "queued"] /\ routeResolved' = routeResolved
    BY <1>3 DEF ScheduleRetry, FoldTo, Install, Board
  <2> QED BY <2>1 DEF TypeOK
<1>4. ASSUME NEW u \in AllTasks, ExpandStep(u) \/ FailTemplate(u) \/ TryStep(u)
      PROVE  /\ routeResolved' = routeResolved
             /\ \A t \in AllTasks : task'[t] = "skipped_by_route" => task[t] = "skipped_by_route"
  <2>1. routeResolved' = routeResolved
    BY <1>4, LaunchesReady
  <2>2. ASSUME NEW t \in AllTasks, t # u, task'[t] = "skipped_by_route"
        PROVE  task[t] = "skipped_by_route"
    BY <1>4, <2>2, LaunchTouches
  <2>3. task'[u] # "skipped_by_route" \/ task'[u] = task[u]
    <3>1. CASE Reexpand(u)
      BY <3>1 DEF Reexpand, TypeOK
    <3>2. ASSUME NEW status \in {"failed", "succeeded"}, ExpandNothing(u, status)
          PROVE  task'[u] # "skipped_by_route"
      BY <3>2 DEF ExpandNothing, TypeOK
    <3>3. ASSUME NEW n, LogExpansion(u, n) PROVE task'[u] = task[u]
      BY <3>3 DEF LogExpansion
    <3>4. CASE SaveExpansion(u)
      BY <3>4 DEF SaveExpansion
    <3>5. CASE FailTemplate(u)
      BY <3>5 DEF FailTemplate, TypeOK
    <3>6. CASE TryStep(u)
      <4>1. PICK status \in {"running", "succeeded", "failed", "schema_violation"} :
              task' = [task EXCEPT ![u] = status]
        BY <3>6 DEF TryStep, LaunchWorker, LaunchLocal, Launch
      <4> QED BY <4>1 DEF TypeOK
    <3> QED BY <1>4, <3>1, <3>2, <3>3, <3>4, <3>5, <3>6 DEF ExpandStep
  <2> QED BY <2>1, <2>2, <2>3
<1>5. CASE FlushResolved
  BY <1>5 DEF FlushResolved
<1>6. CASE SealRun
  BY <1>6 DEF SealRun, TypeOK
<1>7. ASSUME NEW u \in AllTasks, Settle(u)
      PROVE  /\ routeResolved' = routeResolved
             /\ \A t \in AllTasks : task'[t] = "skipped_by_route" => task[t] = "skipped_by_route"
  <2> PICK status \in WorkerOutcomes \cup {"cancelled", "running"} :
        \E value \in RouteValuesAfter(u, status) : WorkerSettles(u, status, value)
    BY <1>7 DEF Settle
  <2> PICK value \in RouteValuesAfter(u, status) : WorkerSettles(u, status, value)
    OBVIOUS
  <2>1. task' = [task EXCEPT ![u] = status] /\ routeResolved' = routeResolved
    BY DEF WorkerSettles
  <2>2. status # "skipped_by_route"
    BY OutcomesType DEF Retryable
  <2> QED BY <2>1, <2>2 DEF TypeOK
<1>8. ForeachParents \subseteq AllTasks
  BY ForeachType DEF AllTasks
<1> QED BY <1>1, <1>2, <1>3, <1>4, <1>5, <1>6, <1>7, <1>8, StepKinds

\* A route whose routing task has succeeded is resolved, or about to be.
RoutersQueued ==
  /\ pc \in {"parents", "top", "drain", "wait", "sleep"} =>
       \A r \in Routers : Unresolved(r) => r \in ToSet(settledQueue)
  /\ pc \in {"launch", "expanding"} => \A r \in Routers : ~Unresolved(r)

\* Every step keeps in the queue the routes that are left to resolve.
LEMMA RoutersQueuedStep ==
  ASSUME Inductive, VerdictInvariant, [Next]_vars
  PROVE  RoutersQueued'
<1> USE DEF board, routeVars, flightVars, VerdictInvariant
<1> TypeOK /\ RoutersQueued
  BY DEF Inductive, RoutesAgree, RoutersQueued
<1>0. \A r \in Routers : r \in AllTasks /\ r \notin ForeachParents /\ ~IsLocal(r)
  BY RouteType DEF AllTasks
<1>1. CASE QuietStep
  <2>1. /\ \A r \in Routers : Unresolved(r)' <=> Unresolved(r)
        /\ settledQueue' = settledQueue
    BY <1>1 DEF QuietStep, Unresolved
  <2>2. CASE BeginLaunch
    BY <2>1, <2>2, EmptyQueue DEF BeginLaunch, RoutersQueued
  <2>3. CASE ~BeginLaunch
    BY <1>1, <2>1, <2>3 DEF QuietStep, RoutersQueued
  <2> QED BY <2>2, <2>3
<1>2. CASE ForgetStep \/ SealRun
  BY <1>2 DEF ForgetStep, SealRun, RoutersQueued
<1>3. CASE FoldStep
  <2> PICK R : Advances(Board, Board', R)
    BY <1>3, FoldStepAdvances
  <2>1. \A r \in Routers : task'[r] = "succeeded" => task[r] = "succeeded"
    BY <1>0, FoldKeeps
  <2>2. CASE pc = "launch" /\ pc' = "off"
    BY <2>2 DEF RoutersQueued
  <2>3. CASE /\ pc' = "parents"
             /\ routeResolved' = [r \in Routers |-> routeResolved[r] \/ Unresolved(r)]
    <3>1. \A r \in Routers : routeResolved'[r] <=> routeResolved[r] \/ Unresolved(r)
      BY <2>3
    <3>2. \A r \in Routers : ~Unresolved(r)'
      BY <2>1, <3>1 DEF Unresolved
    <3> QED BY <2>3, <3>2 DEF RoutersQueued
  <2>4. CASE /\ pc = "parents" /\ pc' \in {"parents", "aborting"}
             /\ UNCHANGED <<flightVars, templateFailures, routeResolved>>
    <3>1. \A r \in Routers : Unresolved(r)' => Unresolved(r)
      BY <2>1, <2>4 DEF Unresolved
    <3> QED BY <2>4, <3>1 DEF RoutersQueued
  <2>5. CASE /\ pc = "drain" /\ pc' \in {"drain", "aborting"}
             /\ settledQueue # <<>> /\ settledQueue' = Tail(settledQueue)
             /\ \/ routeResolved' = [r \in Routers |-> routeResolved[r] \/
                                        (Unresolved(r) /\ r = Head(settledQueue))]
                \/ routeResolved' = routeResolved /\ task[Head(settledQueue)] # "succeeded"
    <3>1. ToSet(settledQueue') = ToSet(settledQueue) \ {Head(settledQueue)}
      BY <2>5, InjectiveTail DEF TypeOK, QueueAgrees
    <3>2. ASSUME NEW r \in Routers, Unresolved(r)'
          PROVE  Unresolved(r) /\ r # Head(settledQueue)
      <4>1. task[r] = "succeeded" /\ ~routeResolved'[r]
        BY <2>1, <3>2 DEF Unresolved
      <4>2. CASE routeResolved' = [q \in Routers |-> routeResolved[q] \/
                                     (Unresolved(q) /\ q = Head(settledQueue))]
        <5>1. routeResolved'[r] <=> routeResolved[r] \/ (Unresolved(r) /\ r = Head(settledQueue))
          BY <4>2
        <5> QED BY <4>1, <5>1 DEF Unresolved
      <4>3. CASE routeResolved' = routeResolved /\ task[Head(settledQueue)] # "succeeded"
        BY <4>1, <4>3 DEF Unresolved
      <4> QED BY <2>5, <4>2, <4>3
    <3> QED BY <2>5, <3>1, <3>2 DEF RoutersQueued
  <2> QED BY <1>3, <2>2, <2>3, <2>4, <2>5, FoldStepFacts
<1>4. ASSUME NEW resumeFailed, ResumeRun(resumeFailed) PROVE RoutersQueued'
  BY <1>4 DEF ResumeRun, RoutersQueued
<1>5. ASSUME NEW t \in AllTasks, NEW instant, ScheduleRetry(t, instant) PROVE RoutersQueued'
  <2>1. /\ pc = "drain" /\ pc' = pc /\ settledQueue # <<>> /\ t = Head(settledQueue)
        /\ settledQueue' = Tail(settledQueue) /\ task' = [task EXCEPT ![t] = "queued"]
        /\ routeResolved' = routeResolved
    BY <1>5 DEF ScheduleRetry, Draining, FoldTo, Install, Board
  <2>2. ToSet(settledQueue') = ToSet(settledQueue) \ {t}
    BY <2>1, InjectiveTail DEF TypeOK, QueueAgrees
  <2>3. \A r \in Routers : Unresolved(r)' => Unresolved(r) /\ r # t
    BY <1>0, <2>1 DEF Unresolved, TypeOK
  <2> QED BY <2>1, <2>2, <2>3 DEF RoutersQueued
<1>6. ASSUME NEW t \in AllTasks, (ExpandStep(t) /\ t \in ForeachParents) \/ FailTemplate(t) \/ TryStep(t)
      PROVE  RoutersQueued'
  <2>1. /\ pc \in {"launch", "expanding"} /\ pc' \in {"launch", "expanding"}
        /\ routeResolved' = routeResolved
    BY <1>6, LaunchesReady
  <2>2. ASSUME NEW r \in Routers, task'[r] = "succeeded" PROVE task[r] = "succeeded"
    <3>1. CASE r # t
      <4>1. task'[r] = task[r] \/ task'[r] = "queued"
        BY <1>0, <1>6, <3>1, LaunchTouches
      <4> QED BY <2>2, <4>1
    <3>2. CASE r = t
      <4>1. ~ExpandStep(t) \/ t \notin ForeachParents
        BY <1>0, <3>2
      <4>2. ~FailTemplate(t)
        BY <2>2, <3>2 DEF FailTemplate, TypeOK
      <4>3. ~TryStep(t)
        BY <1>0, <2>2, <3>2 DEF TryStep, LaunchWorker, LaunchLocal, Launch, TypeOK
      <4> QED BY <1>6, <4>1, <4>2, <4>3
    <3> QED BY <3>1, <3>2
  <2> QED BY <2>1, <2>2 DEF RoutersQueued, Unresolved
<1>7. ASSUME NEW t \in AllTasks, Settle(t) PROVE RoutersQueued'
  <2>1. PICK status, value : WorkerSettles(t, status, value)
    BY <1>7 DEF Settle
  <2>2. /\ pc \in {"wait", "aborting"} /\ pc' \in {"top", "aborting"} /\ (pc' = "top" => pc = "wait")
        /\ task' = [task EXCEPT ![t] = status] /\ routeResolved' = routeResolved
        /\ settledQueue' = Append(settledQueue, t)
    BY <2>1 DEF WorkerSettles
  <2>3. ToSet(settledQueue') = ToSet(settledQueue) \cup {t}
    BY <2>2, ToSetAppend DEF TypeOK
  <2>4. \A r \in Routers : Unresolved(r)' => Unresolved(r) \/ r = t
    BY <1>0, <2>2 DEF Unresolved, TypeOK
  <2> QED BY <2>2, <2>3, <2>4 DEF RoutersQueued
<1>8. CASE FlushResolved
  <2>1. /\ pc \in {"wait", "aborting"} /\ pc' \in {"top", "aborting"} /\ (pc' = "top" => pc = "wait")
        /\ routeResolved' = routeResolved /\ settledQueue' = settledQueue \o unflushed
    BY <1>8 DEF FlushResolved
  <2>2. \A t \in ToSet(settledQueue) : t \in ToSet(settledQueue')
    BY <2>1, PrefixInConcat DEF TypeOK
  <2>3. \A r \in Routers : Unresolved(r)' => Unresolved(r)
    BY <1>0, <1>8, <2>1 DEF FlushResolved, Unresolved
  <2> QED BY <2>1, <2>2, <2>3 DEF RoutersQueued
<1>9. ForeachParents \subseteq AllTasks
  BY ForeachType DEF AllTasks
<1> QED BY <1>1, <1>2, <1>3, <1>4, <1>5, <1>6, <1>7, <1>8, <1>9, StepKinds

\* Only its launch gives a task its first attempt.
LEMMA TriedBy ==
  ASSUME Inductive, [Next]_vars, NEW t \in AllTasks, ~Tried(t), Tried(t)'
  PROVE  TryStep(t)
<1> USE DEF attemptVars
<1> TypeOK
  BY DEF Inductive
<1>1. ASSUME attempts' = attempts PROVE FALSE
  BY <1>1 DEF Tried, AttemptsOf
<1>2. ~QuietStep /\ ~ForgetStep /\ ~FoldStep /\ ~FlushResolved /\ ~SealRun
  BY <1>1, FoldStepFacts DEF QuietStep, ForgetStep, FlushResolved, SealRun
<1>3. \A resumeFailed : ~ResumeRun(resumeFailed)
  BY <1>1 DEF ResumeRun
<1>4. \A u, instant : ~ScheduleRetry(u, instant)
  BY <1>1 DEF ScheduleRetry
<1>5. \A u : ~Settle(u)
  BY <1>1 DEF Settle, WorkerSettles
<1>6. \A u : ~ExpandStep(u) /\ ~FailTemplate(u)
  BY <1>1 DEF ExpandStep, Reexpand, ExpandNothing, LogExpansion, SaveExpansion, FailTemplate
<1>7. PICK u \in AllTasks : TryStep(u)
  BY <1>2, <1>3, <1>4, <1>5, <1>6, StepKinds
<1>8. u = t
  <2>1. t # u => AttemptsOf(t)' = AttemptsOf(t)
    BY <1>7, LaunchTouches
  <2> QED BY <2>1 DEF Tried
<1> QED BY <1>7, <1>8

\* Every step keeps the routes in agreement with the tasks.
LEMMA RoutesStep ==
  ASSUME Inductive, VerdictInvariant, [Next]_vars
  PROVE  RoutesAgree'
<1> USE DEF VerdictInvariant
<1> TypeOK
  BY DEF Inductive
<1>1. PICK R \in SUBSET Routers :
        /\ \A r \in R : Unresolved(r)
        /\ \A r \in Routers : routeResolved'[r] <=> routeResolved[r] \/ r \in R
        /\ \A t \in AllTasks : task'[t] = "skipped_by_route" =>
                                 task[t] = "skipped_by_route" \/ t \in Deselected(R)
  <2>1. CASE FoldStep
    BY <2>1, FoldStepAdvances, FoldKeeps
  <2>2. CASE ~FoldStep
    <3>1. /\ {} \in SUBSET Routers /\ \A r \in {} : Unresolved(r)
          /\ \A r \in Routers : routeResolved'[r] <=> routeResolved[r] \/ r \in {}
      BY <2>2, OtherStepsRoute
    <3> QED BY <2>2, <3>1, OtherStepsRoute
  <2> QED BY <2>1, <2>2
<1>2. ASSUME NEW r \in Routers, routeResolved'[r] PROVE task'[r] = "succeeded"
  <2>1. task[r] = "succeeded" /\ r \in AllTasks
    BY <1>1, <1>2, RouteType DEF RoutesAgree, Unresolved, AllTasks
  <2> QED BY <2>1, AcceptedStep DEF NonFailureTerminal
<1>3. ASSUME NEW t \in AllTasks, task'[t] = "skipped_by_route"
      PROVE  \E r \in RoutesListing(t) : routeResolved'[r]
  <2>1. CASE task[t] = "skipped_by_route"
    BY <1>1, <2>1 DEF RoutesAgree, RoutesListing
  <2>2. CASE t \in Deselected(R)
    BY <1>1, <2>2 DEF Deselected, RoutesListing
  <2> QED BY <1>1, <1>3, <2>1, <2>2
<1>4. ASSUME NEW t \in AllTasks, Tried(t)', NEW r \in RoutesListing(t) PROVE routeResolved'[r]
  <2>0. r \in Routers
    BY DEF RoutesListing
  <2>1. CASE Tried(t)
    BY <1>1, <2>0, <2>1 DEF RoutesAgree
  <2>2. CASE ~Tried(t)
    <3>1. TryStep(t)
      BY <1>4, <2>2, TriedBy
    <3>2. pc = "launch" /\ t \in ready
      BY <3>1, OfferedFacts DEF TryStep, LaunchWorker, LaunchLocal, Launch
    <3>3. Entered(t)
      BY <3>2 DEF EnteredOnce
    <3>4. task[r] = "succeeded"
      BY <3>3, RouterPrecedes
    <3>5. routeResolved[r]
      BY <2>0, <3>2, <3>4 DEF RoutesAgree, Unresolved
    <3> QED BY <1>1, <2>0, <3>5
  <2> QED BY <2>1, <2>2
<1> QED BY <1>2, <1>3, <1>4, RoutersQueuedStep DEF RoutesAgree, RoutersQueued

-----------------------------------------------------------------------------
(* The phases agree with their tasks.                                      *)

\* Steps other than folds decide no phase, and leave to a decided one the
\* tasks it was decided by.
CarriesOver ==
  /\ \A p \in Phases : phase'[p] \in FinalPhase \/ phase[p] \in FinalPhase => phase'[p] = phase[p]
  /\ \A t \in SpecTasks :
       /\ task[t] = "skipped" => task'[t] = "skipped"
       /\ \/ task[t] \in PermanentFailure
          \/ task[t] = "queued" /\ Tried(t) /\ phase[PhaseOf(t)] = "failed"
          => task'[t] \in PermanentFailure \/ (task'[t] = "queued" /\ Tried(t)')

\* Such steps keep phases and tasks in agreement.
LEMMA CarriedOver ==
  ASSUME Inductive, VerdictInvariant, [Next]_vars, CarriesOver
  PROVE  PhasesAgree(Board)'
<1> USE DEF VerdictInvariant
<1>0. \A p \in Phases : /\ \A t \in PhaseTasks(p) : t \in SpecTasks /\ t \in AllTasks /\ PhaseOf(t) = p
                       /\ PhaseDef[p].depends_on \subseteq Phases
  <2>1. \A p \in Phases : PhaseDef[p].depends_on \subseteq Phases
    BY PhaseDefType DEF PhaseRecord
  <2>2. ASSUME NEW p \in Phases, NEW t \in PhaseTasks(p)
        PROVE  t \in SpecTasks /\ t \in AllTasks /\ PhaseOf(t) = p
    <3>1. t \in SpecTasks /\ TaskDef[t].phase_id = p
      BY DEF PhaseTasks
    <3>2. t \notin Children
      BY <3>1, ForeachType
    <3> QED BY <3>1, <3>2 DEF AllTasks, PhaseOf, DefOf
  <2> QED BY <2>1, <2>2
<1> SUFFICES ASSUME NEW p \in Phases
             PROVE  /\ phase'[p] = "succeeded" => \A t \in PhaseTasks(p) : task'[t] \in NonFailureTerminal
                    /\ phase'[p] = "failed" =>
                         \E t \in PhaseTasks(p) : \/ task'[t] \in PermanentFailure
                                                  \/ task'[t] = "queued" /\ Tried(t)'
                    /\ phase'[p] = "skipped" =>
                         \/ \E q \in PhaseDef[p].depends_on : phase'[q] \in {"failed", "skipped"}
                         \/ \E t \in PhaseTasks(p) : task'[t] = "skipped"
  BY DEF PhasesAgree, Board
<1>1. phase'[p] \in FinalPhase => phase'[p] = phase[p]
  BY DEF CarriesOver
<1>2. phase'[p] = "succeeded" => \A t \in PhaseTasks(p) : task'[t] \in NonFailureTerminal
  <2> SUFFICES ASSUME phase[p] = "succeeded", NEW t \in PhaseTasks(p)
               PROVE  task'[t] \in NonFailureTerminal
    BY <1>1 DEF FinalPhase
  <2>1. task[t] \in NonFailureTerminal
    BY DEF PhasesAgree, Board
  <2> QED BY <1>0, <2>1, AcceptedStep
<1>3. phase'[p] = "failed" =>
        \E t \in PhaseTasks(p) : \/ task'[t] \in PermanentFailure
                                 \/ task'[t] = "queued" /\ Tried(t)'
  <2> SUFFICES ASSUME phase[p] = "failed"
               PROVE  \E t \in PhaseTasks(p) : \/ task'[t] \in PermanentFailure
                                               \/ task'[t] = "queued" /\ Tried(t)'
    BY <1>1 DEF FinalPhase
  <2>1. PICK t \in PhaseTasks(p) : task[t] \in PermanentFailure \/ (task[t] = "queued" /\ Tried(t))
    BY DEF PhasesAgree, Board
  <2>2. t \in SpecTasks /\ PhaseOf(t) = p
    BY <1>0
  <2>3. task'[t] \in PermanentFailure \/ (task'[t] = "queued" /\ Tried(t)')
    BY <2>1, <2>2 DEF CarriesOver
  <2> QED BY <2>3
<1>4. phase'[p] = "skipped" =>
        \/ \E q \in PhaseDef[p].depends_on : phase'[q] \in {"failed", "skipped"}
        \/ \E t \in PhaseTasks(p) : task'[t] = "skipped"
  <2> SUFFICES ASSUME phase[p] = "skipped"
               PROVE  \/ \E q \in PhaseDef[p].depends_on : phase'[q] \in {"failed", "skipped"}
                      \/ \E t \in PhaseTasks(p) : task'[t] = "skipped"
    BY <1>1 DEF FinalPhase
  <2>1. \/ \E q \in PhaseDef[p].depends_on : phase[q] \in {"failed", "skipped"}
        \/ \E t \in PhaseTasks(p) : task[t] = "skipped"
    BY DEF PhasesAgree, Board
  <2>2. \A q \in PhaseDef[p].depends_on : phase[q] \in {"failed", "skipped"} => phase'[q] = phase[q]
    BY <1>0 DEF CarriesOver, FinalPhase
  <2>3. \A t \in PhaseTasks(p) : task[t] = "skipped" => task'[t] = "skipped"
    BY <1>0 DEF CarriesOver
  <2> QED BY <2>1, <2>2, <2>3
<1> QED BY <1>2, <1>3, <1>4

\* Every step keeps phases and tasks in agreement.
LEMMA PhasesStep ==
  ASSUME Inductive, VerdictInvariant, [Next]_vars
  PROVE  PhasesAgree(Board)'
<1> USE DEF board, attemptVars, VerdictInvariant
<1> TypeOK /\ LoopInvariant
  BY DEF Inductive
<1>0. \A t \in SpecTasks : t \in AllTasks /\ PhaseOf(t) \in Phases /\ t \notin Children
  BY PhaseTasksFacts, ForeachType
<1>t. \A t \in AllTasks : Tried(t) => Tried(t)'
  BY TriedStep
<1>1. CASE QuietStep \/ ForgetStep
  <2>1. task' = task /\ phase' = phase /\ attempts' = attempts
    BY <1>1 DEF QuietStep, ForgetStep
  <2>2. CarriesOver
    BY <1>0, <1>t, <2>1 DEF CarriesOver
  <2> QED BY <2>2, CarriedOver
<1>2. CASE FoldStep
  <2>1. PICK R : Advances(Board, Board', R)
    BY <1>2, FoldStepAdvances
  <2>2. attempts' = attempts
    BY <1>2, FoldStepFacts
  <2>3. PhasesAgree(Board')
    BY <2>1 DEF Advances
  <2> QED BY <2>2, <2>3 DEF PhasesAgree, Tried, AttemptsOf
<1>3. ASSUME NEW resumeFailed, ResumeRun(resumeFailed) PROVE PhasesAgree(Board)'
  <2> DEFINE resumable == /\ resumeFailed
                          /\ \/ runStatus = "failed"
                             \/ runStatus = "completed" /\ outcome = "partial"
  <2>1. CASE resumable
    <3>1. \A p \in Phases : phase'[p] = CASE phase[p] = "running" -> "ready"
                                          [] phase[p] \in {"failed", "skipped"} -> "waiting"
                                          [] OTHER -> phase[p]
      BY <1>3, <2>1 DEF ResumeRun
    <3>2. \A p \in Phases : phase'[p] \notin {"failed", "skipped"}
      BY <3>1
    <3>3. \A p \in Phases : phase'[p] = "succeeded" => phase[p] = "succeeded"
      BY <3>1
    <3>4. ASSUME NEW p \in Phases, phase[p] = "succeeded", NEW t \in PhaseTasks(p)
          PROVE  task'[t] \in NonFailureTerminal
      <4>1. task[t] \in NonFailureTerminal /\ t \in AllTasks
        BY <3>4 DEF PhasesAgree, Board, PhaseTasks, AllTasks
      <4> QED BY <4>1, AcceptedStep
    <3> QED BY <3>2, <3>3, <3>4 DEF PhasesAgree, Board
  <2>2. CASE ~resumable
    <3>1. \A p \in Phases : phase'[p] = CASE phase[p] = "running" -> "ready"
                                          [] OTHER -> phase[p]
      BY <1>3, <2>2 DEF ResumeRun
    <3>2. \A t \in SpecTasks : task'[t] = IF task[t] = "running" THEN "queued" ELSE task[t]
      BY <1>0, <1>3, <2>2 DEF ResumeRun
    <3>3. CarriesOver
      BY <1>0, <1>t, <3>1, <3>2 DEF CarriesOver, FinalPhase, PermanentFailure
    <3> QED BY <3>3, CarriedOver
  <2> QED BY <2>1, <2>2
<1>4. ASSUME NEW u \in AllTasks, NEW instant, ScheduleRetry(u, instant) PROVE PhasesAgree(Board)'
  <2>1. /\ pc = "drain" /\ settledQueue # <<>> /\ u = Head(settledQueue)
        /\ task' = [task EXCEPT ![u] = "queued"] /\ phase' = phase
        /\ task[u] \in Retryable /\ u \notin templateFailures \cup ForeachParents
    BY <1>4 DEF ScheduleRetry, Draining, FoldTo, Install, Board, RetryAllowed
  <2>2. Tried(u)
    BY <2>1, HeadInQueue DEF TypeOK, QueueAgrees
  <2>3. CarriesOver
    BY <1>0, <1>t, <2>1, <2>2 DEF CarriesOver, TypeOK, Retryable
  <2> QED BY <2>3, CarriedOver
<1>5. ASSUME NEW u \in AllTasks, ExpandStep(u) \/ FailTemplate(u) \/ TryStep(u)
      PROVE  PhasesAgree(Board)'
  <2>1. task[u] = "queued" /\ phase[PhaseOf(u)] \notin {"failed", "skipped"} /\ PhaseOf(u) \in Phases
    <3>1. u \in ready /\ pc \in {"launch", "expanding"} /\ task[u] = "queued"
      BY <1>5, LaunchesReady
    <3> QED BY <3>1, PrerequisitesType DEF EnteredOnce
  <2>2. \A p \in Phases :
          phase'[p] \in FinalPhase \/ phase[p] \in FinalPhase => phase'[p] = phase[p]
    BY <1>5, <2>1, LaunchPhases, UnderwayFacts
  <2>3. \A t \in SpecTasks : t # u => task'[t] = task[t]
    <3>1. \A t \in SpecTasks : t \notin ChildrenOf(u)
      BY <1>0 DEF ChildrenOf
    <3> QED BY <1>0, <1>5, <3>1, LaunchTouches
  <2>4. CarriesOver
    BY <1>0, <1>t, <2>1, <2>2, <2>3 DEF CarriesOver, PermanentFailure
  <2> QED BY <2>4, CarriedOver
<1>6. CASE FlushResolved
  <2>1. phase' = phase /\ \A t \in AllTasks : task[t] # "running" => task'[t] = task[t]
    BY <1>6 DEF FlushResolved
  <2>2. CarriesOver
    BY <1>0, <1>t, <2>1 DEF CarriesOver, PermanentFailure
  <2> QED BY <2>2, CarriedOver
<1>7. CASE SealRun
  <2>1. phase' = phase /\ \A t \in AllTasks : task[t] # "running" => task'[t] = task[t]
    BY <1>7 DEF SealRun
  <2>2. CarriesOver
    BY <1>0, <1>t, <2>1 DEF CarriesOver, PermanentFailure
  <2> QED BY <2>2, CarriedOver
<1>8. ASSUME NEW u \in AllTasks, Settle(u) PROVE PhasesAgree(Board)'
  <2>1. PICK status, value : WorkerSettles(u, status, value)
    BY <1>8 DEF Settle
  <2>2. u \in inFlight /\ unflushed = <<>> /\ phase' = phase /\ task' = [task EXCEPT ![u] = status]
    BY <2>1 DEF WorkerSettles
  <2>3. task[u] = "running"
    BY <2>2, EmptyQueue DEF LoopInvariant, AwaitsWhatRuns
  <2>4. CarriesOver
    BY <1>0, <1>t, <2>2, <2>3 DEF CarriesOver, PermanentFailure, TypeOK
  <2> QED BY <2>4, CarriedOver
<1>9. ForeachParents \subseteq AllTasks
  BY ForeachType DEF AllTasks
<1> QED BY <1>1, <1>2, <1>3, <1>4, <1>5, <1>6, <1>7, <1>8, <1>9, StepKinds

-----------------------------------------------------------------------------
(* The invariant holds                                                     *)

\* The invariant holds at first.
LEMMA VerdictInit == Init => VerdictInvariant
<1> SUFFICES ASSUME Init PROVE VerdictInvariant
  OBVIOUS
<1> USE DEF Init
<1>1. /\ \A t \in AllTasks : /\ ~Tried(t) /\ task[t] \in {"absent", "queued"}
                             /\ task[t] = "absent" <=> t \in Children
      /\ \A p \in Phases : phase[p] \in {"ready", "waiting"}
      /\ \A p \in ForeachParents : itemCount[p] = 0
      /\ \A r \in Routers : ~routeResolved[r]
  BY DEF Tried, AttemptsOf
<1>2. PhasesAgree(Board)
  BY <1>1 DEF PhasesAgree, Board
<1>3. EnteredOnce
  BY <1>1 DEF EnteredOnce, Started
<1>4. QueueAgrees
  BY <1>1, EmptyQueue DEF QueueAgrees
<1>5. RoutesAgree
  BY <1>1 DEF RoutesAgree
<1> QED BY <1>2, <1>3, <1>4, <1>5 DEF VerdictInvariant

\* What the scheduler decides is consistent at any time: phases with their
\* tasks, the started tasks with what they were started after, the queue of
\* settled tasks with their statuses, and routes with the tasks they list.
THEOREM VerdictHolds == Spec => []VerdictInvariant
<1>1. Init => VerdictInvariant
  BY VerdictInit
<1>2. Inductive /\ VerdictInvariant /\ [Next]_vars => VerdictInvariant'
  BY PhasesStep, EnteredStep, QueueStep, RoutesStep DEF VerdictInvariant
<1> QED BY <1>1, <1>2, InductiveHolds, PTL DEF Spec

-----------------------------------------------------------------------------
(* Workers run after everything they depend on.                            *)

\* A worker only ever runs with every prerequisite done and every phase its
\* phase depends on succeeded, through retries, crashes, resumes that requeue
\* tasks and phases, and re-expansion (scheduler.js, taskIsReady).
THEOREM SchedulerDependencies == Spec => []DependenciesSatisfied
<1>1. Inductive /\ VerdictInvariant => DependenciesSatisfied
  <2> SUFFICES ASSUME Inductive, VerdictInvariant, NEW t \in inFlight
               PROVE  /\ \A d \in Prerequisites(t) : task[d] \in NonFailureTerminal
                      /\ \A q \in PhaseDef[PhaseOf(t)].depends_on : phase[q] = "succeeded"
    BY DEF DependenciesSatisfied
  <2>1. t \in AllTasks
    BY DEF Inductive, TypeOK
  <2>2. Started(t)
    BY <2>1 DEF VerdictInvariant, QueueAgrees, Started
  <2>3. Entered(t)
    BY <2>1, <2>2 DEF VerdictInvariant, EnteredOnce
  <2> QED BY <2>3 DEF Entered, PhaseEntered
<1> QED BY <1>1, InductiveHolds, VerdictHolds, PTL

-----------------------------------------------------------------------------
(* A completed run has decided everything.                                 *)

\* In an acyclic graph, a set each of whose members depends on another of its
\* members is empty.
LEMMA DescentEnds ==
  ASSUME NEW deps, IsFiniteSet(DOMAIN deps), \A x \in DOMAIN deps : x \notin Upstream(deps)[x],
         NEW S \in SUBSET (DOMAIN deps), \A x \in S : \E y \in S : y \in deps[x]
  PROVE  S = {}
<1> DEFINE U(x) == Upstream(deps)[x]
           T == {Cardinality(U(x)) : x \in S}
<1>1. ASSUME NEW x \in DOMAIN deps, NEW d \in DOMAIN deps
      PROVE  d \in U(x) <=>
               \A X \in SUBSET (DOMAIN deps) :
                 deps[x] \subseteq X /\ (\A y \in X : deps[y] \subseteq X) => d \in X
  BY DEF Upstream
<1>2. \A x \in DOMAIN deps : U(x) \subseteq DOMAIN deps
  BY DEF Upstream
<1> HIDE DEF U
<1>3. \A x \in S : IsFiniteSet(U(x)) /\ Cardinality(U(x)) \in Nat
  BY <1>2, FS_Subset, FS_CardinalityType
<1> SUFFICES ASSUME S # {} PROVE FALSE
  OBVIOUS
<1>4. T \in SUBSET Nat /\ T # {}
  BY <1>3
<1>5. PICK x \in S : \A y \in S : Cardinality(U(x)) <= Cardinality(U(y))
  <2>1. PICK n \in T : \A m \in T : n <= m
    BY <1>4, LeastNatural
  <2> QED BY <2>1
<1>6. PICK y \in S : y \in deps[x]
  OBVIOUS
<1>7. y \in U(x) /\ y \notin U(y)
  BY <1>1, <1>6 DEF U
<1>8. U(y) \subseteq U(x)
  <2> SUFFICES ASSUME NEW d \in U(y), NEW X \in SUBSET (DOMAIN deps), deps[x] \subseteq X,
                      \A z \in X : deps[z] \subseteq X
               PROVE  d \in X
    BY <1>1, <1>2
  <2>1. deps[y] \subseteq X
    BY <1>6
  <2> QED BY <1>1, <1>2, <2>1
<1>9. Cardinality(U(y)) < Cardinality(U(x))
  <2>1. Cardinality(U(y)) <= Cardinality(U(x))
    BY <1>3, <1>8, FS_Subset
  <2>2. Cardinality(U(y)) = Cardinality(U(x)) => U(y) = U(x)
    BY <1>3, <1>8, FS_Subset
  <2> QED BY <1>3, <1>7, <2>1, <2>2
<1> QED BY <1>3, <1>5, <1>9

\* A board on which propagateSkips has no more to do and no task is live has
\* decided every phase that has tasks.
LEMMA SettledBoardIsDecided ==
  ASSUME NEW b \in Boards, SkipsSettled(b), PhasesAgree(b),
         \A t \in AllTasks : b.task[t] \notin {"queued", "running", "expanded"},
         \A t \in AllTasks : b.task[t] = "absent" => t \in Children,
         NEW p \in Phases, PhaseTasks(p) # {}
  PROVE  /\ b.phase[p] \in FinalPhase
         /\ b.phase[p] = "succeeded" => \A t \in PhaseTasks(p) : b.task[t] \in NonFailureTerminal
         /\ b.phase[p] = "failed" => \E t \in PhaseTasks(p) : b.task[t] \in PermanentFailure
<1>1. \A t \in PhaseTasks(p) : t \in AllTasks /\ b.task[t] \in TerminalTask
  <2>1. \A t \in PhaseTasks(p) : t \in AllTasks /\ t \notin Children
    BY ForeachType DEF PhaseTasks, AllTasks
  <2> QED BY <2>1 DEF Boards, TaskStatus
<1>2. b.phase[p] \in FinalPhase
  <2> SUFFICES ASSUME b.phase[p] \notin FinalPhase PROVE FALSE
    OBVIOUS
  <2> DEFINE statuses == {b.task[t] : t \in PhaseTasks(p)}
  <2>1. statuses # {} /\ statuses \subseteq TerminalTask
    BY <1>1
  <2>2. PhaseVerdict(b, p) \in FinalPhase
    BY <2>1 DEF PhaseVerdict, FinalPhase
  <2>3. SkipPhase(b, p).phase[p] = PhaseVerdict(b, p)
    BY DEF SkipPhase, Boards
  <2> QED BY <2>2, <2>3 DEF SkipsSettled
<1> QED BY <1>1, <1>2 DEF PhasesAgree, TerminalTask, PermanentFailure, NonFailureTerminal

\* If, besides, no task failed or was skipped, every such phase succeeded.
LEMMA CleanBoardSucceeds ==
  ASSUME NEW b \in Boards, SkipsSettled(b), PhasesAgree(b),
         \A t \in AllTasks : b.task[t] \in NonFailureTerminal \cup {"absent"},
         \A t \in AllTasks : b.task[t] = "absent" => t \in Children,
         NEW p \in Phases, PhaseTasks(p) # {}
  PROVE  b.phase[p] = "succeeded"
<1> DEFINE deps == [q \in Phases |-> PhaseDef[q].depends_on]
           Bad == {q \in Phases : b.phase[q] \in {"failed", "skipped"}}
<1>1. \A q \in Phases : \A t \in PhaseTasks(q) : b.task[t] \in NonFailureTerminal
  BY ForeachType DEF PhaseTasks, AllTasks
<1>2. \A q \in Phases : b.phase[q] # "failed"
  BY <1>1 DEF PhasesAgree, NonFailureTerminal, PermanentFailure
<1>3. ASSUME NEW q \in Bad PROVE \E s \in Bad : s \in deps[q]
  <2>1. b.phase[q] = "skipped" /\ q \in Phases
    BY <1>2
  <2>2. PICK s \in PhaseDef[q].depends_on : b.phase[s] \in {"failed", "skipped"}
    BY <1>1, <2>1 DEF PhasesAgree, NonFailureTerminal
  <2>3. s \in Phases
    BY <2>1, PhaseDefType DEF PhaseRecord
  <2> QED BY <2>1, <2>2, <2>3
<1>4. Bad = {}
  <2>1. IsFiniteSet(DOMAIN deps) /\ Bad \in SUBSET (DOMAIN deps)
    BY TasksFinite
  <2>2. \A q \in DOMAIN deps : q \notin Upstream(deps)[q]
    BY GraphRules DEF PhaseClosure
  <2> HIDE DEF deps, Bad
  <2> QED BY <1>3, <2>1, <2>2, DescentEnds
<1>5. \A t \in AllTasks : b.task[t] \notin {"queued", "running", "expanded"}
  BY DEF NonFailureTerminal
<1>6. b.phase[p] \in FinalPhase
  BY <1>5, SettledBoardIsDecided
<1> QED BY <1>4, <1>6 DEF FinalPhase

\* The steps that write the status and outcome of the run
LEMMA RunVarsKept ==
  ASSUME [Next]_vars, ~CancelIdleRun, ~PauseRun, ~FinishRun, ~CloseRun,
         \A limit : ~StartRun(limit), \A resumeFailed : ~ResumeRun(resumeFailed)
  PROVE  UNCHANGED runVars
<1>1. CASE Commands
  BY <1>1 DEF Commands, RequestCancel
<1>2. CASE Startup \/ Top \/ Drain
  BY <1>2 DEF Startup, ReapplyRoutes, RefoldParent, EnterLoop, Top, NoticeCancel, ExceedBudget,
     BeginDrain, Drain, FoldSucceeded, ScheduleRetry, FoldFailed, BeginLaunch, DrainForPause
<1>3. CASE Expand \/ LaunchNext \/ AfterLaunch
  BY <1>3 DEF Expand, Reexpand, ExpandNothing, LogExpansion, SaveExpansion, LaunchNext,
     ExhaustAgents, FailTemplate, LaunchWorker, LaunchLocal, Launch, AfterLaunch, NextPass,
     AwaitRetry, AwaitWorkers, EndPass
<1>4. CASE FlushResolved \/ Wake \/ Abort
  BY <1>4 DEF FlushResolved, Wake, Abort, SealRun
<1>5. CASE \E t \in AllTasks : Settle(t) \/ BackoffElapses(t)
  BY <1>5 DEF Settle, WorkerSettles, BackoffElapses
<1>6. CASE \E t \in AllTasks : \E status \in WorkerOutcomes : ZombieSettles(t, status)
  BY <1>6 DEF ZombieSettles
<1>7. CASE Crash \/ UNCHANGED vars
  BY <1>7 DEF Crash, vars, runVars
<1> QED BY <1>1, <1>2, <1>3, <1>4, <1>5, <1>6, <1>7 DEF Next, Loop

\* Nothing but a resume changes what a completed run recorded, and it reopens it.
LEMMA CompletedStays ==
  ASSUME Inductive, [Next]_vars, ~FinishRun, runStatus' = "completed"
  PROVE  runStatus = "completed" /\ UNCHANGED <<outcome, task, phase>>
<1> TypeOK /\ LoopInvariant
  BY DEF Inductive
<1>1. ~CancelIdleRun /\ ~PauseRun /\ ~CloseRun /\ \A limit : ~StartRun(limit)
  BY DEF CancelIdleRun, PauseRun, CloseRun, StartRun, TypeOK
<1>2. \A resumeFailed : ~ResumeRun(resumeFailed)
  BY DEF ResumeRun, TerminalRun, runVars
<1>3. runStatus = "completed" /\ outcome' = outcome
  BY <1>1, <1>2, RunVarsKept DEF runVars
<1>4. pc = "off"
  BY <1>3 DEF LoopInvariant, RunningIsUnfinished
<1>5. resumes' = resumes
  <2>1. ~Loop /\ ~Crash
    BY <1>1, <1>4 DEF Crash, Loop, Startup, ReapplyRoutes, RefoldParent, EnterLoop, Top, NoticeCancel,
       ExceedBudget, BeginDrain, Drain, FoldSucceeded, ScheduleRetry, FoldFailed, Draining,
       BeginLaunch, DrainForPause, Expand, Reexpand, ExpandNothing, LogExpansion,
       SaveExpansion, LaunchNext, ExhaustAgents, FailTemplate, LaunchWorker, LaunchLocal, Launch,
       Offered, MayLaunch, AfterLaunch, NextPass, AwaitRetry, AwaitWorkers, EndPass,
       FinishRun, OutOfWork, FlushResolved, Wake, Abort, SealRun
  <2>2. \A t : ~Settle(t) /\ ~BackoffElapses(t)
    BY <1>4 DEF Settle, WorkerSettles, BackoffElapses
  <2>3. ~Commands
    BY <1>1, <1>2, <1>4 DEF Commands, RequestCancel
  <2>4. \A t, status : ZombieSettles(t, status) => resumes' = resumes
    BY DEF ZombieSettles
  <2>5. UNCHANGED vars => resumes' = resumes
    BY DEF vars
  <2> QED BY <2>1, <2>2, <2>3, <2>4, <2>5 DEF Next
<1> QED BY <1>3, <1>4, <1>5, SealedStep

\* Every step keeps the verdict of a completed run.
LEMMA CompletedStep ==
  ASSUME Inductive, VerdictInvariant, VerdictInvariant', CompletedIsDecided, [Next]_vars
  PROVE  CompletedIsDecided'
<1> USE DEF runVars, board, VerdictInvariant
<1> TypeOK /\ LoopInvariant
  BY DEF Inductive
<1> SUFFICES ASSUME runStatus' = "completed"
             PROVE  /\ \A t \in AllTasks : task'[t] \in TerminalTask \cup {"absent"}
                    /\ \A p \in Phases : PhaseTasks(p) # {} =>
                         /\ phase'[p] \in FinalPhase
                         /\ phase'[p] = "succeeded" => \A t \in PhaseTasks(p) : task'[t] \in NonFailureTerminal
                         /\ phase'[p] = "failed" => \E t \in PhaseTasks(p) : task'[t] \in PermanentFailure
                    /\ outcome' = "success" => \A p \in Phases : PhaseTasks(p) # {} => phase'[p] = "succeeded"
  BY DEF CompletedIsDecided
<1>1. CASE FinishRun
  <2> DEFINE b == PropagateSkips(Board)
  <2>1. b \in Boards /\ SkipsSettled(b)
    BY BoardType, PropagateSkipsEnds DEF Progress
  <2>2. Install(b)
    BY <1>1 DEF FinishRun
  <2>3. Board' = b
    BY <2>1, <2>2, InstallBoard
  <2>4. b.task = task' /\ b.phase = phase'
    BY <2>3 DEF Board
  <2>5. PhasesAgree(b)
    BY BoardType, PropagateSkipsAgrees
  <2>6. \A t \in AllTasks : b.task[t] = "absent" => t \in Children
    BY <2>4 DEF QueueAgrees
  <2>7. \A t \in AllTasks : b.task[t] \notin {"queued", "running", "expanded"}
    BY <1>1 DEF FinishRun
  <2>8. outcome' = "success" => \A t \in AllTasks : b.task[t] \in NonFailureTerminal \cup {"absent"}
    BY <1>1 DEF FinishRun
  <2> HIDE DEF b
  <2>9. \A t \in AllTasks : b.task[t] \in TerminalTask \cup {"absent"}
    BY <2>1, <2>7 DEF Boards, TaskStatus
  <2>10. \A p \in Phases : PhaseTasks(p) # {} =>
           /\ b.phase[p] \in FinalPhase
           /\ b.phase[p] = "succeeded" => \A t \in PhaseTasks(p) : b.task[t] \in NonFailureTerminal
           /\ b.phase[p] = "failed" => \E t \in PhaseTasks(p) : b.task[t] \in PermanentFailure
    BY <2>1, <2>5, <2>6, <2>7, SettledBoardIsDecided
  <2>11. outcome' = "success" => \A p \in Phases : PhaseTasks(p) # {} => b.phase[p] = "succeeded"
    BY <2>1, <2>5, <2>6, <2>8, CleanBoardSucceeds
  <2> QED BY <2>4, <2>9, <2>10, <2>11
<1>2. CASE ~FinishRun
  <2>1. runStatus = "completed" /\ UNCHANGED <<outcome, task, phase>>
    BY <1>2, CompletedStays
  <2> QED BY <2>1 DEF CompletedIsDecided
<1> QED BY <1>1, <1>2

\* A completed run has decided every task and every phase that has tasks, its
\* phases agree with their tasks, and success means that all of them
\* succeeded (scheduler.js, finalizeCompletion).
THEOREM SchedulerDecides == Spec => []CompletedIsDecided
<1>1. Init => CompletedIsDecided
  BY DEF Init, CompletedIsDecided
<1>2. Inductive /\ VerdictInvariant /\ VerdictInvariant' /\ CompletedIsDecided /\ [Next]_vars
      => CompletedIsDecided'
  BY CompletedStep
<1> QED BY <1>1, <1>2, InductiveHolds, VerdictHolds, PTL DEF Spec

-----------------------------------------------------------------------------
(* Routes are final                                                        *)

\* The case tasks a resolved route left out were never tried and do not wait.
RouteKept ==
  \A r \in Routers : routeResolved[r] =>
    \A c \in Deselected({r}) : ~Tried(c) /\ task[c] # "queued"

\* The value of a resolved route does not change any more.
LEMMA RouteValueKept ==
  ASSUME Inductive, VerdictInvariant, [Next]_vars, NEW r \in Routers,
         \A t \in AllTasks : Settle(t) => t # r
  PROVE  routeValue'[r] = routeValue[r]
<1> USE DEF routeVars
<1>1. ASSUME NEW t \in AllTasks, Settle(t) PROVE routeValue'[r] = routeValue[r]
  <2>1. PICK status, value : WorkerSettles(t, status, value)
    BY <1>1 DEF Settle
  <2>2. t # r
    BY <1>1
  <2> QED BY <2>1, <2>2 DEF WorkerSettles, Inductive, TypeOK
<1>2. CASE QuietStep \/ ForgetStep
  BY <1>2 DEF QuietStep, ForgetStep
<1>3. CASE FoldStep
  BY <1>3 DEF FoldStep, ReapplyRoutes, RefoldParent, FoldSucceeded, FoldFailed, FinishRun
<1>4. ASSUME NEW resumeFailed, ResumeRun(resumeFailed) PROVE routeValue'[r] = routeValue[r]
  BY <1>4 DEF ResumeRun
<1>5. ASSUME NEW t, NEW instant, ScheduleRetry(t, instant) PROVE routeValue'[r] = routeValue[r]
  BY <1>5 DEF ScheduleRetry
<1>6. ASSUME NEW t, ExpandStep(t) \/ FailTemplate(t) \/ TryStep(t) PROVE routeValue'[r] = routeValue[r]
  BY <1>6 DEF ExpandStep, Reexpand, ExpandNothing, LogExpansion, SaveExpansion, FailTemplate,
     TryStep, LaunchWorker, LaunchLocal, Launch
<1>7. CASE FlushResolved \/ SealRun
  BY <1>7 DEF FlushResolved, SealRun
<1> QED BY <1>1, <1>2, <1>3, <1>4, <1>5, <1>6, <1>7, StepKinds

\* Every step keeps the resolved routes.
LEMMA RouteKeptStep ==
  ASSUME ~MayResumeFailed, Inductive, VerdictInvariant, VerdictInvariant', RouteKept, [Next]_vars
  PROVE  RouteKept'
<1> USE DEF VerdictInvariant
<1> TypeOK /\ LoopInvariant
  BY DEF Inductive
<1> SUFFICES ASSUME NEW r \in Routers, routeResolved'[r],
                    NEW v, v = routeValue'[r], NEW c \in CaseTasks(r) \ Selected(r, v)
             PROVE  ~Tried(c)' /\ task'[c] # "queued"
  BY DEF RouteKept, Deselected
<1>1. /\ r \in AllTasks /\ r \in SpecTasks /\ r \notin ForeachParents
      /\ c \in AllTasks /\ c \in SpecTasks /\ c \notin Children
  BY RouteType, ForeachType DEF AllTasks
<1>2. CASE routeResolved[r]
  <2>1. task[r] = "succeeded"
    BY <1>2 DEF RoutesAgree
  <2>2. \A t \in AllTasks : Settle(t) => t # r
    <3> SUFFICES ASSUME Settle(r) PROVE FALSE
      OBVIOUS
    <3>1. r \in inFlight /\ unflushed = <<>>
      BY DEF Settle, WorkerSettles
    <3> QED BY <2>1, <3>1, EmptyQueue DEF LoopInvariant, AwaitsWhatRuns
  <2>3. c \in Deselected({r})
    BY <2>2, RouteValueKept DEF Deselected
  <2>4. ~Tried(c) /\ task[c] # "queued"
    BY <1>2, <2>3 DEF RouteKept
  <2>5. ~Tried(c)'
    <3> SUFFICES ASSUME Tried(c)' PROVE FALSE
      OBVIOUS
    <3>1. TryStep(c)
      BY <1>1, <2>4, TriedBy
    <3> QED BY <2>4, <3>1, LaunchesReady
  <2>6. task'[c] # "queued"
    <3> SUFFICES ASSUME task'[c] = "queued" PROVE FALSE
      OBVIOUS
    <3>1. CASE QuietStep \/ ForgetStep
      BY <2>4, <3>1 DEF QuietStep, ForgetStep, board
    <3>2. CASE FoldStep
      BY <1>1, <2>4, <3>2, FoldStepAdvances, FoldKeeps
    <3>3. CASE ResumeRun(FALSE)
      <4>1. task[c] = "running"
        BY <1>1, <2>4, <3>3 DEF ResumeRun
      <4> QED BY <1>1, <2>4, <4>1 DEF QueueAgrees
    <3>4. ASSUME NEW t \in AllTasks, NEW instant, ScheduleRetry(t, instant) PROVE FALSE
      <4>1. /\ pc = "drain" /\ settledQueue # <<>> /\ t = Head(settledQueue)
            /\ task' = [task EXCEPT ![t] = "queued"]
            /\ t \notin templateFailures \cup ForeachParents
        BY <3>4 DEF ScheduleRetry, Draining, FoldTo, Install, Board, RetryAllowed
      <4>2. Tried(t)
        BY <4>1, HeadInQueue DEF TypeOK, QueueAgrees
      <4> QED BY <1>1, <2>4, <4>1, <4>2 DEF TypeOK
    <3>5. ASSUME NEW t \in AllTasks, ExpandStep(t) \/ FailTemplate(t) \/ TryStep(t) PROVE FALSE
      <4>1. task[t] = "queued"
        BY <3>5, LaunchesReady
      <4>2. c \notin ChildrenOf(t)
        BY <1>1 DEF ChildrenOf
      <4>3. c # t => task'[c] = task[c]
        BY <1>1, <3>5, <4>2, LaunchTouches
      <4> QED BY <2>4, <4>1, <4>3
    <3>6. CASE FlushResolved \/ SealRun
      <4>1. task'[c] = task[c] \/ task'[c] \in {"failed", abortAs}
        BY <1>1, <3>6 DEF FlushResolved, SealRun
      <4> QED BY <2>4, <4>1 DEF TypeOK
    <3>7. ASSUME NEW t \in AllTasks, Settle(t) PROVE FALSE
      <4> PICK status \in WorkerOutcomes \cup {"cancelled", "running"} :
            \E value \in RouteValuesAfter(t, status) : WorkerSettles(t, status, value)
        BY <3>7 DEF Settle
      <4>1. task' = [task EXCEPT ![t] = status]
        BY DEF WorkerSettles
      <4>2. status # "queued"
        BY OutcomesType DEF Retryable
      <4> QED BY <1>1, <2>4, <4>1, <4>2 DEF TypeOK
    <3>8. ForeachParents \subseteq AllTasks
      BY ForeachType DEF AllTasks
    <3> QED BY <3>1, <3>2, <3>3, <3>4, <3>5, <3>6, <3>7, <3>8, StepKinds, BoundsType
  <2> QED BY <2>5, <2>6
<1>3. CASE ~routeResolved[r]
  <2>1. FoldStep
    BY <1>3, OtherStepsRoute
  <2>2. PICK R \in SUBSET Routers :
          /\ \A q \in R : Unresolved(q)
          /\ \A q \in Routers : routeResolved'[q] <=> routeResolved[q] \/ q \in R
          /\ \A u \in AllTasks \cap Deselected(R) : task'[u] # "queued"
    BY <2>1, FoldStepAdvances
  <2>3. r \in R
    BY <1>3, <2>2
  <2>4. \A t \in AllTasks : Settle(t) => t # r
    <3>1. pc \notin {"wait", "aborting"}
      BY <2>1, FoldStepFacts
    <3> QED BY <3>1 DEF Settle, WorkerSettles
  <2>5. c \in Deselected(R)
    BY <2>3, <2>4, RouteValueKept DEF Deselected
  <2>6. ~Tried(c)
    BY <2>2, <2>5, UntriedDeselected
  <2>7. attempts' = attempts
    BY <2>1, FoldStepFacts
  <2> QED BY <1>1, <2>2, <2>5, <2>6, <2>7 DEF Tried, AttemptsOf
<1> QED BY <1>2, <1>3

\* Once a route is resolved, no case task it leaves out is ever given to a
\* worker, through retries, crashes and resumes -- as long as no resume is given
\* --resume-failed, which requeues a case task skipped before its route was
\* resolved (scheduler.js, resolveRoute).
THEOREM SchedulerRouteIsFinal ==
  ASSUME ~MayResumeFailed
  PROVE  Spec => []RouteIsFinal
<1>1. Init => RouteKept
  BY DEF Init, RouteKept
<1>2. /\ Inductive /\ VerdictInvariant /\ VerdictInvariant' /\ RouteKept /\ [Next]_vars
      => RouteKept'
  BY RouteKeptStep
<1>3. RouteKept => RouteIsFinal
  BY DEF RouteKept, RouteIsFinal, Tried
<1> QED BY <1>1, <1>2, <1>3, InductiveHolds, VerdictHolds, PTL DEF Spec

-----------------------------------------------------------------------------
(* Expansions: an expansion that is in the log has all its children, once  *)
(* the process is past the save or a resume has replayed it.               *)

ParentOf(c) == ChildDef[c].parent_task_id
Logged(c) == ChildDef[c].item_index < itemCount[ParentOf(c)]

\* The state of a run that may launch, fold and end
Replayed == pc \notin {"off", "expanding"} \/ runStatus \in {"approved", "paused"}

ChildrenCreated ==
  /\ Replayed => \A c \in Children : Logged(c) => task[c] # "absent"
  /\ pc = "expanding" =>
       \A c \in Children : Logged(c) /\ task[c] = "absent" => IsFirst(ParentOf(c), Launchable)
  /\ \A c \in Children : task[ParentOf(c)] # "queued" /\ Logged(c) => task[c] # "absent"
  /\ \A c \in Children : task[c] # "absent" => Logged(c)
  /\ \A p \in ForeachParents : ~Tried(p)
  /\ \A p \in ForeachParents : itemCount[p] # 0 => \A r \in RoutesListing(p) : routeResolved[r]

\* A child that was created stays so.
LEMMA CreatedKept ==
  ASSUME Inductive, VerdictInvariant, [Next]_vars, NEW t \in AllTasks, task'[t] = "absent"
  PROVE  task[t] = "absent"
<1> TypeOK
  BY DEF Inductive
<1>1. CASE QuietStep \/ ForgetStep
  BY <1>1 DEF QuietStep, ForgetStep, board
<1>2. CASE FoldStep
  BY <1>2, FoldStepAdvances, FoldKeeps
<1>3. ASSUME NEW resumeFailed, ResumeRun(resumeFailed) PROVE task[t] = "absent"
  BY <1>3 DEF ResumeRun
<1>4. ASSUME NEW u, NEW instant, ScheduleRetry(u, instant) PROVE task[t] = "absent"
  <2>1. task' = [task EXCEPT ![u] = "queued"]
    BY <1>4 DEF ScheduleRetry, FoldTo, Install, Board
  <2> QED BY <2>1 DEF TypeOK
<1>5. ASSUME NEW u \in AllTasks, ExpandStep(u) \/ FailTemplate(u) \/ TryStep(u) PROVE task[t] = "absent"
  <2>1. CASE t # u
    <3>1. task'[t] = task[t] \/ task'[t] = "queued"
      BY <1>5, <2>1, LaunchTouches
    <3> QED BY <3>1
  <2>2. CASE t = u
    <3>1. CASE Reexpand(u)
      BY <2>2, <3>1 DEF Reexpand, TypeOK
    <3>2. ASSUME NEW status \in {"failed", "succeeded"}, ExpandNothing(u, status) PROVE FALSE
      BY <2>2, <3>2 DEF ExpandNothing, TypeOK
    <3>3. ASSUME NEW n, LogExpansion(u, n) PROVE task[t] = "absent"
      BY <3>3 DEF LogExpansion
    <3>4. CASE SaveExpansion(u)
      BY <2>2, <3>4 DEF SaveExpansion
    <3>5. CASE FailTemplate(u)
      BY <2>2, <3>5 DEF FailTemplate, TypeOK
    <3>6. CASE TryStep(u)
      <4>1. PICK status \in {"running", "succeeded", "failed", "schema_violation"} :
              task' = [task EXCEPT ![u] = status]
        BY <3>6 DEF TryStep, LaunchWorker, LaunchLocal, Launch
      <4> QED BY <2>2, <4>1 DEF TypeOK
    <3> QED BY <1>5, <3>1, <3>2, <3>3, <3>4, <3>5, <3>6 DEF ExpandStep
  <2> QED BY <2>1, <2>2
<1>6. CASE FlushResolved
  BY <1>6 DEF FlushResolved
<1>7. CASE SealRun
  BY <1>7 DEF SealRun, TypeOK
<1>8. ASSUME NEW u \in AllTasks, Settle(u) PROVE task[t] = "absent"
  <2> PICK status \in WorkerOutcomes \cup {"cancelled", "running"} :
        \E value \in RouteValuesAfter(u, status) : WorkerSettles(u, status, value)
    BY <1>8 DEF Settle
  <2>1. task' = [task EXCEPT ![u] = status]
    BY DEF WorkerSettles
  <2>2. status # "absent"
    BY OutcomesType DEF Retryable
  <2> QED BY <2>1, <2>2 DEF TypeOK
<1>9. ForeachParents \subseteq AllTasks
  BY ForeachType DEF AllTasks
<1> QED BY <1>1, <1>2, <1>3, <1>4, <1>5, <1>6, <1>7, <1>8, <1>9, StepKinds

\* Only the log of an expansion changes the number of its items.
LEMMA ItemCountKept ==
  ASSUME [Next]_vars, \A p \in ForeachParents : \A n \in 1 .. Foreach[p].max_items : ~LogExpansion(p, n)
  PROVE  itemCount' = itemCount
<1>1. CASE QuietStep \/ ForgetStep \/ FoldStep
  BY <1>1, FoldStepFacts DEF QuietStep, ForgetStep
<1>2. CASE \E resumeFailed : ResumeRun(resumeFailed)
  BY <1>2 DEF ResumeRun
<1>3. CASE \E t, instant : ScheduleRetry(t, instant)
  BY <1>3 DEF ScheduleRetry
<1>4. CASE \E t \in ForeachParents : ExpandStep(t)
  BY <1>4 DEF ExpandStep, Reexpand, ExpandNothing, SaveExpansion
<1>5. CASE \E t : FailTemplate(t) \/ TryStep(t) \/ Settle(t)
  BY <1>5 DEF FailTemplate, TryStep, LaunchWorker, LaunchLocal, Launch, Settle, WorkerSettles
<1>6. CASE FlushResolved \/ SealRun
  BY <1>6 DEF FlushResolved, SealRun
<1> QED BY <1>1, <1>2, <1>3, <1>4, <1>5, <1>6, StepKinds

\* While the process is off, or between the log and the save of an expansion,
\* only a resume or the save changes the board.
LEMMA StillStep ==
  ASSUME Inductive, [Next]_vars, pc \in {"off", "expanding"},
         \A resumeFailed : ~ResumeRun(resumeFailed), \A t : ~SaveExpansion(t)
  PROVE  /\ UNCHANGED <<task, itemCount, attempts>>
         /\ \/ pc' = pc /\ ready' = ready /\ inFlight' = inFlight /\ runStatus' \in {runStatus, "cancelled"}
            \/ pc' = "off" /\ runStatus' = "running"
            \/ pc' = "routes" /\ runStatus \in {"approved", "paused"}
<1> USE DEF runVars, board, attemptVars, passVars, flightVars
<1>1. CASE Commands
  BY <1>1 DEF Commands, StartRun, RequestCancel, CancelIdleRun
<1>2. ~(Startup \/ Top \/ Drain \/ AfterLaunch \/ FlushResolved \/ Wake)
  BY DEF Startup, ReapplyRoutes, RefoldParent, EnterLoop, Top, NoticeCancel, ExceedBudget,
     BeginDrain, Drain, FoldSucceeded, ScheduleRetry, FoldFailed, Draining, BeginLaunch,
     DrainForPause, PauseRun, AfterLaunch, NextPass, AwaitRetry, AwaitWorkers, EndPass, FinishRun,
     OutOfWork, FlushResolved, Wake
<1>3. ~(Expand \/ LaunchNext \/ Abort)
  BY DEF Expand, Reexpand, ExpandNothing, LogExpansion, LaunchNext, ExhaustAgents, FailTemplate,
     LaunchWorker, LaunchLocal, Launch, Offered, MayLaunch, Abort, SealRun, CloseRun
<1>4. \A t : ~Settle(t) /\ ~BackoffElapses(t)
  BY DEF Settle, WorkerSettles, BackoffElapses
<1>5. CASE \E t \in AllTasks : \E status \in WorkerOutcomes : ZombieSettles(t, status)
  BY <1>5 DEF ZombieSettles, StatusesAfterZombie
<1>6. CASE Crash
  BY <1>6 DEF Crash, Inductive, LoopInvariant, RunningIsUnfinished
<1>7. CASE UNCHANGED vars
  BY <1>7 DEF vars
<1> QED BY <1>1, <1>2, <1>3, <1>4, <1>5, <1>6, <1>7 DEF Next, Loop

\* No child appears that the expansion of its parent does not name.
LEMMA AbsentStays ==
  ASSUME Inductive, VerdictInvariant, [Next]_vars, NEW c \in Children, task[c] = "absent",
         ~Logged(c)
  PROVE  task'[c] = "absent"
<1> TypeOK /\ LoopInvariant /\ c \in AllTasks
  BY DEF Inductive, AllTasks
<1>1. CASE QuietStep \/ ForgetStep
  BY <1>1 DEF QuietStep, ForgetStep, board
<1>2. CASE FoldStep
  BY <1>2, FoldStepAdvances, FoldKeeps
<1>3. ASSUME NEW resumeFailed, ResumeRun(resumeFailed) PROVE task'[c] = "absent"
  BY <1>3 DEF ResumeRun, Logged, ParentOf, Resumable, Retryable
<1>4. ASSUME NEW u \in AllTasks, NEW instant, ScheduleRetry(u, instant) PROVE task'[c] = "absent"
  <2>1. task' = [task EXCEPT ![u] = "queued"] /\ task[u] \in Retryable
    BY <1>4 DEF ScheduleRetry, FoldTo, Install, Board, RetryAllowed
  <2> QED BY <2>1 DEF TypeOK, Retryable
<1>5. ASSUME NEW u \in AllTasks, ExpandStep(u) \/ FailTemplate(u) \/ TryStep(u) PROVE task'[c] = "absent"
  <2>1. task[u] = "queued"
    BY <1>5, LaunchesReady
  <2>2. CASE SaveExpansion(u)
    BY <2>1, <2>2 DEF SaveExpansion, Logged, ParentOf, ChildrenOf
  <2>3. CASE ~SaveExpansion(u)
    BY <1>5, <2>1, <2>3 DEF ExpandStep, Reexpand, ExpandNothing, LogExpansion, FailTemplate,
       TryStep, LaunchWorker, LaunchLocal, Launch, TypeOK
  <2> QED BY <2>2, <2>3
<1>6. CASE FlushResolved \/ SealRun
  BY <1>6 DEF FlushResolved, SealRun
<1>7. ASSUME NEW u \in AllTasks, Settle(u) PROVE task'[c] = "absent"
  <2>1. PICK status, value : WorkerSettles(u, status, value)
    BY <1>7 DEF Settle
  <2>2. u \in inFlight /\ unflushed = <<>> /\ task' = [task EXCEPT ![u] = status]
    BY <2>1 DEF WorkerSettles
  <2>3. task[u] = "running"
    BY <2>2, EmptyQueue DEF LoopInvariant, AwaitsWhatRuns
  <2> QED BY <2>2, <2>3 DEF TypeOK
<1>8. ForeachParents \subseteq AllTasks
  BY ForeachType DEF AllTasks
<1> QED BY <1>1, <1>2, <1>3, <1>4, <1>5, <1>6, <1>7, <1>8, StepKinds

\* Every step keeps the expansions whole.
LEMMA ChildrenCreatedStep ==
  ASSUME Inductive, VerdictInvariant, ChildrenCreated, [Next]_vars
  PROVE  ChildrenCreated'
<1> TypeOK /\ LoopInvariant
  BY DEF Inductive
<1>a. \A c \in Children : c \in AllTasks /\ ParentOf(c) \in ForeachParents /\ ParentOf(c) \in AllTasks
  BY ChildFacts DEF ParentOf
<1>b. \A c \in Children : task'[c] = "absent" => task[c] = "absent"
  BY <1>a, CreatedKept
<1>d. \A c \in Children : itemCount' = itemCount /\ task'[c] # "absent" => Logged(c)'
  BY AbsentStays DEF ChildrenCreated, Logged
<1>e. \A r \in Routers : routeResolved[r] => routeResolved'[r]
  <2>1. CASE FoldStep
    BY <2>1, FoldStepAdvances
  <2>2. CASE ~FoldStep
    BY <2>2, OtherStepsRoute
  <2> QED BY <2>1, <2>2
<1>f. \A p \in ForeachParents :
        itemCount' = itemCount /\ itemCount'[p] # 0 => \A r \in RoutesListing(p) : routeResolved'[r]
  BY <1>e DEF ChildrenCreated, RoutesListing
<1>c. \A p \in ForeachParents : ~Tried(p)'
  <2> SUFFICES ASSUME NEW p \in ForeachParents, Tried(p)' PROVE FALSE
    OBVIOUS
  <2>1. p \in AllTasks
    BY ForeachType DEF AllTasks
  <2>2. TryStep(p)
    BY <2>1, TriedBy DEF ChildrenCreated
  <2> QED BY <2>2 DEF TryStep, LaunchWorker, LaunchLocal, Launch
<1>1. ASSUME NEW resumeFailed, ResumeRun(resumeFailed) PROVE ChildrenCreated'
  <2>1. pc = "off" /\ pc' = pc /\ itemCount' = itemCount
    BY <1>1 DEF ResumeRun
  <2>2. ASSUME NEW c \in Children, Logged(c), task'[c] = "absent" PROVE FALSE
    BY <1>1, <1>a, <1>b, <2>2 DEF ResumeRun, Logged, ParentOf
  <2> QED BY <1>c, <1>d, <1>f, <2>1, <2>2 DEF ChildrenCreated, Logged
<1>2. ASSUME NEW t, SaveExpansion(t) PROVE ChildrenCreated'
  <2>1. pc = "expanding" /\ pc' = "launch" /\ itemCount' = itemCount /\ IsFirst(t, Launchable)
    BY <1>2 DEF SaveExpansion
  <2>2. ASSUME NEW c \in Children, Logged(c), task'[c] = "absent" PROVE FALSE
    <3>1. IsFirst(ParentOf(c), Launchable)
      BY <1>b, <2>1, <2>2 DEF ChildrenCreated
    <3>2. Launchable \in SUBSET AllTasks
      BY DEF Launchable, TypeOK
    <3>3. ParentOf(c) = t
      BY <2>1, <3>1, <3>2, FirstIsUnique
    <3> QED BY <1>2, <1>a, <2>2, <3>3 DEF SaveExpansion, Logged, ParentOf, ChildrenOf
  <2> QED BY <1>c, <1>d, <1>f, <2>1, <2>2 DEF ChildrenCreated, Logged
<1>3. ASSUME pc \in {"off", "expanding"}, \A resumeFailed : ~ResumeRun(resumeFailed),
             \A t : ~SaveExpansion(t)
      PROVE  ChildrenCreated'
  <2>1. /\ UNCHANGED <<task, itemCount, attempts>>
        /\ \/ pc' = pc /\ ready' = ready /\ inFlight' = inFlight /\ runStatus' \in {runStatus, "cancelled"}
           \/ pc' = "off" /\ runStatus' = "running"
           \/ pc' = "routes" /\ runStatus \in {"approved", "paused"}
    BY <1>3, StillStep
  <2>2. Replayed' => Replayed
    BY <1>3, <2>1 DEF Replayed
  <2>3. pc' = "expanding" => pc = "expanding" /\ Launchable' = Launchable
    BY <1>3, <2>1 DEF Launchable, ForeachChildBlocked
  <2> QED BY <1>c, <1>d, <1>f, <2>1, <2>2, <2>3 DEF ChildrenCreated, Logged
<1>4. CASE pc \notin {"off", "expanding"}
  <2>1. \A c \in Children : Logged(c) => task[c] # "absent"
    BY <1>4 DEF ChildrenCreated, Replayed
  <2>2. ASSUME NEW p \in ForeachParents, NEW n, LogExpansion(p, n) PROVE ChildrenCreated'
    <3>1. /\ pc' = "expanding" /\ IsFirst(p, Launchable) /\ task[p] = "queued"
          /\ task' = task /\ itemCount' = [itemCount EXCEPT ![p] = n]
          /\ Launchable' = Launchable /\ runStatus' = runStatus
      BY <2>2, OfferedFacts DEF LogExpansion, Offered, Launchable, ForeachChildBlocked, passVars, flightVars,
         runVars
    <3>2. runStatus' = "running"
      BY <1>4, <3>1 DEF LoopInvariant, RunningIsUnfinished
    <3>3. \A c \in Children : ParentOf(c) # p => (Logged(c)' <=> Logged(c))
      BY <1>a, <3>1 DEF Logged, TypeOK
    <3>4. \A c \in Children : Logged(c)' /\ task'[c] = "absent" => ParentOf(c) = p
      BY <2>1, <3>1, <3>3
    <3>5. \A c \in Children : task'[c] # "absent" => Logged(c)'
      <4>1. \A c \in ChildrenOf(p) : task[c] = "absent"
        BY <2>2 DEF LogExpansion, ExpandedChildren, Board
      <4>2. \A c \in Children : ParentOf(c) = p => task[c] = "absent"
        BY <4>1 DEF ChildrenOf, ParentOf
      <4> QED BY <3>1, <3>3, <4>2 DEF ChildrenCreated
    <3>6. \A q \in ForeachParents : itemCount'[q] # 0 => \A r \in RoutesListing(q) : routeResolved'[r]
      <4>1. \A q \in ForeachParents : q # p => itemCount'[q] = itemCount[q]
        BY <3>1 DEF TypeOK
      <4>2. ASSUME NEW r \in RoutesListing(p) PROVE routeResolved[r]
        <5>1. pc = "launch" /\ p \in ready /\ p \in AllTasks
          BY <2>2, OfferedFacts DEF LogExpansion
        <5>2. Entered(p)
          BY <5>1 DEF VerdictInvariant, EnteredOnce
        <5>3. task[r] = "succeeded" /\ r \in Routers
          BY <5>1, <5>2, RouterPrecedes DEF RoutesListing
        <5> QED BY <5>1, <5>3 DEF VerdictInvariant, RoutesAgree, Unresolved
      <4> QED BY <1>e, <4>1, <4>2 DEF ChildrenCreated, RoutesListing
    <3> QED BY <1>c, <3>1, <3>2, <3>4, <3>5, <3>6 DEF ChildrenCreated, Replayed
  <2>3. ASSUME \A p \in ForeachParents : \A n \in 1 .. Foreach[p].max_items : ~LogExpansion(p, n)
        PROVE  ChildrenCreated'
    <3>1. itemCount' = itemCount
      BY <2>3, ItemCountKept
    <3>2. \A c \in Children : Logged(c)' => task'[c] # "absent"
      BY <1>b, <2>1, <3>1 DEF Logged
    <3> QED BY <1>c, <1>d, <1>f, <3>1, <3>2 DEF ChildrenCreated
  <2> QED BY <2>2, <2>3
<1> QED BY <1>1, <1>2, <1>3, <1>4

\* An expansion in the log has all its children as soon as the run may go on.
LEMMA ChildrenCreatedHolds == Spec => []ChildrenCreated
<1>1. Init => ChildrenCreated
  <2> SUFFICES ASSUME Init PROVE ChildrenCreated
    OBVIOUS
  <2>1. \A c \in Children : ~Logged(c)
    BY ForeachType DEF Init, Logged, ParentOf
  <2>2. \A c \in Children : task[c] = "absent"
    BY DEF Init, AllTasks
  <2> QED BY <2>1, <2>2 DEF Init, ChildrenCreated, Tried, AttemptsOf
<1>2. Inductive /\ VerdictInvariant /\ ChildrenCreated /\ [Next]_vars => ChildrenCreated'
  BY ChildrenCreatedStep
<1> QED BY <1>1, <1>2, InductiveHolds, VerdictHolds, PTL DEF Spec

-----------------------------------------------------------------------------
(* Folded parents.  Where a task has one try, what has ended stays so.     *)

\* Neither a retry nor a resume gives t another try.
SingleTry(t) == ~MayResumeFailed /\ Tries(t) = 1

\* What has ended stays so, where a task has a single try.
LEMMA EndedStays ==
  ASSUME Inductive, VerdictInvariant, [Next]_vars, NEW t \in AllTasks, SingleTry(t),
         task[t] \in TerminalTask
  PROVE  task'[t] = task[t]
<1> USE DEF VerdictInvariant
<1> TypeOK /\ LoopInvariant
  BY DEF Inductive
<1>a. task[t] \notin {"queued", "absent", "running", "expanded"}
  BY DEF TerminalTask, NonFailureTerminal, PermanentFailure
<1>1. CASE QuietStep \/ ForgetStep
  BY <1>1 DEF QuietStep, ForgetStep, board
<1>2. CASE FoldStep
  BY <1>2, <1>a, FoldStepAdvances, FoldKeeps
<1>3. CASE ResumeRun(FALSE)
  BY <1>3, <1>a DEF ResumeRun
<1>4. ASSUME NEW u \in AllTasks, NEW instant, ScheduleRetry(u, instant) PROVE task'[t] = task[t]
  <2>1. /\ pc = "drain" /\ settledQueue # <<>> /\ u = Head(settledQueue)
        /\ task' = [task EXCEPT ![u] = "queued"] /\ u \notin templateFailures \cup ForeachParents
        /\ DefOf(u).retryable /\ Cardinality(AttemptsOf(u)) < DefOf(u).max_attempts
    BY <1>4 DEF ScheduleRetry, Draining, FoldTo, Install, Board, RetryAllowed
  <2>2. AttemptsOf(u) # {}
    BY <2>1, HeadInQueue DEF TypeOK, QueueAgrees, Tried
  <2>3. u # t
    <3> SUFFICES ASSUME u = t PROVE FALSE
      OBVIOUS
    <3>1. Cardinality(AttemptsOf(t)) < 1
      BY <2>1 DEF SingleTry, Tries
    <3>2. IsFiniteSet(AttemptsOf(t))
      BY FS_Subset DEF AttemptsOf, Inductive
    <3>3. Cardinality(AttemptsOf(t)) \in Nat
      BY <3>2, FS_CardinalityType
    <3>4. Cardinality(AttemptsOf(t)) = 0
      BY <3>1, <3>3
    <3> QED BY <2>2, <3>2, <3>4, FS_EmptySet
  <2> QED BY <2>1, <2>3 DEF TypeOK
<1>5. ASSUME NEW u \in AllTasks,
             (u \in ForeachParents /\ ExpandStep(u)) \/ FailTemplate(u) \/ TryStep(u)
      PROVE  task'[t] = task[t]
  <2>1. task[u] = "queued"
    BY <1>5, LaunchesReady
  <2>2. CASE u \in ForeachParents /\ SaveExpansion(u)
    <3>1. ExpandedChildren(Board, u) = {}
      BY <2>2 DEF SaveExpansion, LoopInvariant, ExpandsOnce
    <3>2. t \notin ChildrenOf(u)
      BY <1>a, <3>1 DEF ExpandedChildren, Board
    <3> QED BY <1>a, <2>1, <2>2, <3>2 DEF SaveExpansion
  <2>3. CASE ~(u \in ForeachParents /\ SaveExpansion(u))
    <3>1. t # u
      BY <1>a, <2>1
    <3>2. task'[t] = task[t]
      BY <1>5, <2>3, <3>1 DEF ExpandStep, Reexpand, ExpandNothing, LogExpansion, FailTemplate,
         TryStep, LaunchWorker, LaunchLocal, Launch, TypeOK
    <3> QED BY <3>2
  <2> QED BY <2>2, <2>3
<1>6. CASE FlushResolved \/ SealRun
  BY <1>6, <1>a DEF FlushResolved, SealRun
<1>7. ASSUME NEW u \in AllTasks, Settle(u) PROVE task'[t] = task[t]
  <2>1. PICK status, value : WorkerSettles(u, status, value)
    BY <1>7 DEF Settle
  <2>2. u \in inFlight /\ unflushed = <<>> /\ task' = [task EXCEPT ![u] = status]
    BY <2>1 DEF WorkerSettles
  <2>3. task[u] = "running"
    BY <2>2, EmptyQueue DEF LoopInvariant, AwaitsWhatRuns
  <2> QED BY <1>a, <2>2, <2>3 DEF TypeOK
<1>8. ForeachParents \subseteq AllTasks
  BY ForeachType DEF AllTasks
<1> QED BY <1>1, <1>2, <1>3, <1>4, <1>5, <1>6, <1>7, <1>8, StepKinds, BoundsType DEF SingleTry

\* A parent ends by a fold, or by an expansion that creates no child.
LEMMA ParentEnds ==
  ASSUME Inductive, VerdictInvariant, ChildrenCreated, [Next]_vars, NEW p \in ForeachParents,
         task[p] \notin {"succeeded", "failed"}, task'[p] \in {"succeeded", "failed"}
  PROVE  FoldedRight(Board', p) \/ ExpandedChildren(Board', p) = {}
<1> USE DEF VerdictInvariant
<1> TypeOK /\ LoopInvariant
  BY DEF Inductive
<1>0. p \in AllTasks /\ p \notin Children /\ ForeachParents \subseteq AllTasks
  BY ForeachType DEF AllTasks
<1>a. task[p] # "running" /\ p \notin inFlight
  BY <1>0 DEF ChildrenCreated, QueueAgrees
<1>1. CASE QuietStep \/ ForgetStep
  BY <1>1 DEF QuietStep, ForgetStep, board
<1>2. CASE FoldStep
  <2> PICK R : Advances(Board, Board', R)
    BY <1>2, FoldStepAdvances
  <2>1. Board.task = task /\ Board'.task = task'
    BY DEF Board
  <2> QED BY <1>0, <2>1 DEF Advances
<1>3. ASSUME NEW resumeFailed, ResumeRun(resumeFailed) PROVE FALSE
  BY <1>0, <1>3 DEF ResumeRun
<1>4. ASSUME NEW u, NEW instant, ScheduleRetry(u, instant) PROVE FALSE
  <2>1. task' = [task EXCEPT ![u] = "queued"]
    BY <1>4 DEF ScheduleRetry, FoldTo, Install, Board
  <2> QED BY <1>0, <2>1 DEF TypeOK
<1>5. ASSUME NEW u \in AllTasks, ExpandStep(u) \/ FailTemplate(u) \/ TryStep(u)
      PROVE  ExpandedChildren(Board', p) = {}
  <2>1. u = p
    <3> SUFFICES ASSUME u # p PROVE FALSE
      OBVIOUS
    <3>1. p \notin ChildrenOf(u)
      BY <1>0 DEF ChildrenOf
    <3> QED BY <1>0, <1>5, <3>1, LaunchTouches
  <2>2. ~FailTemplate(u) /\ ~TryStep(u)
    BY <2>1 DEF FailTemplate, TryStep, LaunchWorker, LaunchLocal, Launch
  <2>3. ~Reexpand(u)
    BY <1>0, <2>1 DEF Reexpand, TypeOK
  <2>4. \A n : ~LogExpansion(u, n)
    BY <2>1 DEF LogExpansion
  <2>5. ~SaveExpansion(u)
    BY <1>0, <2>1 DEF SaveExpansion, ChildrenOf
  <2>6. PICK status : ExpandNothing(u, status)
    BY <1>5, <2>2, <2>3, <2>4, <2>5 DEF ExpandStep
  <2>7. ExpandedChildren(Board, p) = {} /\ task' = [task EXCEPT ![p] = status]
    BY <2>1, <2>6 DEF ExpandNothing
  <2>8. \A c \in ChildrenOf(p) : task'[c] = task[c]
    BY <1>0, <2>7 DEF ChildrenOf, TypeOK
  <2> QED BY <2>7, <2>8 DEF ExpandedChildren, Board
<1>6. CASE FlushResolved \/ SealRun
  BY <1>0, <1>a, <1>6 DEF FlushResolved, SealRun
<1>7. ASSUME NEW u \in AllTasks, Settle(u) PROVE FALSE
  <2>1. PICK status, value : WorkerSettles(u, status, value)
    BY <1>7 DEF Settle
  <2>2. u \in inFlight /\ task' = [task EXCEPT ![u] = status]
    BY <2>1 DEF WorkerSettles
  <2> QED BY <1>0, <1>a, <2>2 DEF TypeOK
<1> QED BY <1>0, <1>1, <1>2, <1>3, <1>4, <1>5, <1>6, <1>7, StepKinds

\* A child has the tries of its parent.
LEMMA ChildTries ==
  ASSUME NEW c \in Children
  PROVE  Tries(c) = Tries(ParentOf(c))
<1> DEFINE p == ParentOf(c)
<1>1. p \in SpecTasks /\ p \notin Children
  BY ChildFacts DEF ParentOf
<1>2. DefOf(p) = TaskDef[p] /\ DefOf(c) = [TaskDef[p] EXCEPT !.depends_on = {}]
  BY <1>1 DEF DefOf, ParentOf
<1>3. TaskDef[p] \in TaskRecord
  BY <1>1, TaskDefType
<1> HIDE DEF p
<1>4. DefOf(c).retryable = DefOf(p).retryable /\ DefOf(c).max_attempts = DefOf(p).max_attempts
  BY <1>2, <1>3 DEF TaskRecord
<1> QED BY <1>4 DEF Tries, p

\* Every step keeps the folded parents settled.
LEMMA FoldedParentStep ==
  ASSUME ~MayResumeFailed, \A p \in ForeachParents : Tries(p) = 1,
         Inductive, VerdictInvariant, ChildrenCreated, FoldedParentIsSettled, [Next]_vars
  PROVE  FoldedParentIsSettled'
<1> SUFFICES ASSUME NEW p \in ForeachParents, task'[p] \in {"succeeded", "failed"},
                    ExpandedChildren(Board', p) # {}
             PROVE  FoldedRight(Board', p)
  BY DEF FoldedParentIsSettled, FoldedRight, Board, ExpandedChildren, FailedChildren
<1>0. p \in AllTasks /\ \A c \in ChildrenOf(p) : c \in Children /\ c \in AllTasks /\ ParentOf(c) = p
  BY ForeachType DEF AllTasks, ChildrenOf, ParentOf
<1>1. CASE task[p] \in {"succeeded", "failed"}
  <2>1. task'[p] = task[p]
    BY <1>0, <1>1, EndedStays DEF SingleTry, TerminalTask, NonFailureTerminal, PermanentFailure
  <2>2. ASSUME NEW c \in ChildrenOf(p), task[c] \in TerminalTask PROVE task'[c] = task[c]
    <3>1. SingleTry(c)
      BY <1>0, ChildTries DEF SingleTry
    <3> QED BY <1>0, <2>2, <3>1, EndedStays
  <2>3. ASSUME NEW c \in ChildrenOf(p), task[c] = "absent" PROVE task'[c] = "absent"
    <3>1. task[p] # "queued"
      BY <1>1
    <3>2. ~Logged(c)
      BY <1>0, <2>3, <3>1 DEF ChildrenCreated
    <3> QED BY <1>0, <2>3, <3>2, AbsentStays
  <2>4. ExpandedChildren(Board, p) # {}
    BY <2>3 DEF ExpandedChildren, Board
  <2>5. FoldedRight(Board, p)
    BY <1>1, <2>4 DEF FoldedParentIsSettled, FoldedRight, Board
  <2>6. /\ Board'.task[p] = Board.task[p]
        /\ \A c \in ChildrenOf(p) : /\ Board.task[c] \in TerminalTask => Board'.task[c] = Board.task[c]
                                    /\ Board.task[c] = "absent" => Board'.task[c] = "absent"
    BY <2>1, <2>2, <2>3 DEF Board
  <2> QED BY <2>5, <2>6, FoldedRightKept
<1>2. CASE task[p] \notin {"succeeded", "failed"}
  BY <1>2, ParentEnds
<1> QED BY <1>1, <1>2

\* Where children have a single try and no resume is given --resume-failed, a
\* foreach parent is folded once, when all its children are done, and it
\* succeeded only within its tolerance (scheduler.js, foldExpandedParent) --
\* through crashes that split an expansion, replays and re-expansions.
THEOREM SchedulerFoldsParentsOnce ==
  ASSUME ~MayResumeFailed, \A p \in ForeachParents : Tries(p) = 1
  PROVE  Spec => []FoldedParentIsSettled
<1>1. Init => FoldedParentIsSettled
  <2>1. ASSUME Init, NEW p \in ForeachParents PROVE task[p] \notin {"succeeded", "failed"}
    <3>1. p \in AllTasks
      BY ForeachType DEF AllTasks
    <3> QED BY <2>1, <3>1 DEF Init
  <2> QED BY <2>1 DEF FoldedParentIsSettled
<1>2. Inductive /\ VerdictInvariant /\ ChildrenCreated /\ FoldedParentIsSettled /\ [Next]_vars
      => FoldedParentIsSettled'
  BY FoldedParentStep
<1> QED BY <1>1, <1>2, InductiveHolds, VerdictHolds, ChildrenCreatedHolds, PTL DEF Spec

-----------------------------------------------------------------------------
(* Skips have a cause, where every task has one try.                       *)

\* What a skip of t is derived from
Caused(b, t) ==
  \/ \E d \in DependsOn(t) : b.task[d] \in PermanentFailure
  \/ \E u \in PhaseTasks(PhaseOf(t)) : b.task[u] \in PermanentFailure \ {"skipped"}
  \/ \E q \in PhaseDef[PhaseOf(t)].depends_on : b.phase[q] \in {"failed", "skipped"}

\* Nothing of phase p is left to skip.
Over(b, p) ==
  /\ \A t \in PhaseTasks(p) : b.task[t] \in TerminalTask
  /\ \A c \in Children : PhaseOf(c) = p => b.task[c] \in TerminalTask \cup {"absent"}

\* A phase that fails or is skipped leaves a cause for what it will skip.
PhaseCaused(b, p) ==
  /\ b.phase[p] = "failed" =>
       Over(b, p) \/ \E u \in PhaseTasks(p) : b.task[u] \in PermanentFailure \ {"skipped"}
  /\ b.phase[p] = "skipped" =>
       Over(b, p) \/ \E q \in PhaseDef[p].depends_on : b.phase[q] \in {"failed", "skipped"}

\* A parent ends with its children, or before them when its phase ended badly.
EndsWithParent(b, c) ==
  b.task[ParentOf(c)] \in TerminalTask =>
    \/ b.task[c] \in TerminalTask \cup {"absent"}
    \/ b.task[ParentOf(c)] = "skipped" /\ b.phase[PhaseOf(c)] \in {"failed", "skipped"}

\* A child was created after what its parent depends on.
CreatedAfter(b, c) ==
  b.task[c] # "absent" => \A d \in DependsOn(ParentOf(c)) : b.task[d] \in NonFailureTerminal

CausesHold(b) ==
  /\ \A t \in AllTasks : b.task[t] = "skipped" => Caused(b, t)
  /\ \A p \in Phases : PhaseCaused(b, p)
  /\ \A c \in Children : EndsWithParent(b, c) /\ CreatedAfter(b, c)

\* What causes refer to stays once it has ended.
KeepsEnds(b, c) ==
  /\ \A t \in AllTasks : b.task[t] \in TerminalTask => c.task[t] = b.task[t]
  /\ \A k \in Children : b.task[ParentOf(k)] \in TerminalTask /\ b.task[k] = "absent"
                           => c.task[k] = "absent"
  /\ \A p \in Phases : b.phase[p] \in {"failed", "skipped"} => c.phase[p] \in {"failed", "skipped"}

\* A cause stays one while what has ended stays.
LEMMA CauseKept ==
  ASSUME NEW b, NEW c, KeepsEnds(b, c)
  PROVE  /\ \A t \in AllTasks : Caused(b, t) => Caused(c, t)
         /\ \A p \in Phases : Over(b, p) => Over(c, p)
<1>0. /\ \A p : PhaseTasks(p) \subseteq AllTasks
      /\ \A p \in Phases : PhaseDef[p].depends_on \subseteq Phases
  BY PhaseDefType DEF PhaseTasks, AllTasks, PhaseRecord
<1>1. ASSUME NEW t \in AllTasks, Caused(b, t) PROVE Caused(c, t)
  <2>1. DependsOn(t) \subseteq AllTasks /\ PhaseOf(t) \in Phases
    <3>1. CASE t \in Children
      <4>1. ParentOf(t) \in SpecTasks
        BY <3>1, ForeachType DEF ParentOf
      <4>2. DefOf(t).depends_on = {}
        BY <3>1, <4>1, TaskDefType DEF DefOf, ParentOf, TaskRecord
      <4> QED BY <4>2, PrerequisitesType DEF DependsOn
    <3>2. CASE t \notin Children
      BY <3>2, PrerequisitesType DEF Prerequisites
    <3> QED BY <3>1, <3>2
  <2>2. \A u \in AllTasks : /\ b.task[u] \in PermanentFailure => c.task[u] = b.task[u]
    BY DEF KeepsEnds, TerminalTask
  <2>3. \A q \in Phases : b.phase[q] \in {"failed", "skipped"} => c.phase[q] \in {"failed", "skipped"}
    BY DEF KeepsEnds
  <2>4. PhaseDef[PhaseOf(t)].depends_on \subseteq Phases /\ PhaseTasks(PhaseOf(t)) \subseteq AllTasks
    BY <1>0, <2>1
  <2>5. CASE \E d \in DependsOn(t) : b.task[d] \in PermanentFailure
    BY <2>1, <2>2, <2>5 DEF Caused
  <2>6. CASE \E u \in PhaseTasks(PhaseOf(t)) : b.task[u] \in PermanentFailure \ {"skipped"}
    BY <2>2, <2>4, <2>6 DEF Caused
  <2>7. CASE \E q \in PhaseDef[PhaseOf(t)].depends_on : b.phase[q] \in {"failed", "skipped"}
    BY <2>3, <2>4, <2>7 DEF Caused
  <2> QED BY <1>1, <2>5, <2>6, <2>7 DEF Caused
<1>2. ASSUME NEW p \in Phases, Over(b, p) PROVE Over(c, p)
  <2>1. \A t \in PhaseTasks(p) : c.task[t] \in TerminalTask
    BY <1>0, <1>2 DEF Over, KeepsEnds
  <2>2. ASSUME NEW k \in Children, PhaseOf(k) = p PROVE c.task[k] \in TerminalTask \cup {"absent"}
    <3>1. ParentOf(k) \in PhaseTasks(p) /\ k \in AllTasks
      BY <2>2, ChildFacts, PhaseTasksFacts DEF ParentOf
    <3>2. b.task[ParentOf(k)] \in TerminalTask /\ b.task[k] \in TerminalTask \cup {"absent"}
      BY <1>2, <2>2, <3>1 DEF Over
    <3> QED BY <3>1, <3>2 DEF KeepsEnds
  <2> QED BY <2>1, <2>2 DEF Over
<1> QED BY <1>1, <1>2

\* A step keeps the causes if what it newly skips or ends has one.
LEMMA CausesStep ==
  ASSUME NEW b, NEW c, CausesHold(b), KeepsEnds(b, c),
         \A t \in AllTasks : c.task[t] = "skipped" /\ b.task[t] # "skipped" => Caused(c, t),
         \A p \in Phases : c.phase[p] \in {"failed", "skipped"} /\ c.phase[p] # b.phase[p]
                             => PhaseCaused(c, p),
         \A k \in Children : b.task[ParentOf(k)] \notin TerminalTask => EndsWithParent(c, k),
         \A k \in Children : CreatedAfter(c, k)
  PROVE  CausesHold(c)
<1>1. \A t \in AllTasks : c.task[t] = "skipped" => Caused(c, t)
  BY CauseKept DEF CausesHold
<1>2. ASSUME NEW p \in Phases PROVE PhaseCaused(c, p)
  <2>1. CASE c.phase[p] \in {"failed", "skipped"} /\ c.phase[p] = b.phase[p]
    <3>1. PhaseCaused(b, p)
      BY DEF CausesHold
    <3>2. Over(b, p) => Over(c, p)
      BY CauseKept
    <3>3. \A u \in PhaseTasks(p) : b.task[u] \in PermanentFailure => c.task[u] = b.task[u]
      BY DEF PhaseTasks, AllTasks, KeepsEnds, TerminalTask
    <3>4. PhaseDef[p].depends_on \subseteq Phases
      BY PhaseDefType DEF PhaseRecord
    <3>5. \A q \in PhaseDef[p].depends_on :
            b.phase[q] \in {"failed", "skipped"} => c.phase[q] \in {"failed", "skipped"}
      BY <3>4 DEF KeepsEnds
    <3> QED BY <2>1, <3>1, <3>2, <3>3, <3>5 DEF PhaseCaused
  <2>2. CASE c.phase[p] \notin {"failed", "skipped"}
    BY <2>2 DEF PhaseCaused
  <2> QED BY <2>1, <2>2
<1>3. ASSUME NEW k \in Children PROVE EndsWithParent(c, k)
  <2>1. CASE b.task[ParentOf(k)] \in TerminalTask
    <3>1. /\ ParentOf(k) \in AllTasks /\ k \in AllTasks /\ PhaseOf(k) \in Phases
      BY ChildFacts, PrerequisitesType DEF ParentOf
    <3>2. EndsWithParent(b, k)
      BY DEF CausesHold
    <3> QED BY <2>1, <3>1, <3>2 DEF EndsWithParent, KeepsEnds
  <2> QED BY <2>1
<1> QED BY <1>1, <1>2, <1>3 DEF CausesHold

\* What the folds leave alone
LEMMA ProgressKeepsEnds ==
  ASSUME NEW b \in Boards, NEW c, Progress(b, c)
  PROVE  /\ KeepsEnds(b, c)
         /\ \A k \in Children : CreatedAfter(b, k) => CreatedAfter(c, k)
         /\ \A k \in Children : b.task[k] = "absent" => c.task[k] = "absent"
<1>1. \A t \in AllTasks : b.task[t] # "queued" => c.task[t] = b.task[t]
  BY DEF Progress
<1>2. \A k \in Children : k \in AllTasks /\ DependsOn(ParentOf(k)) \subseteq AllTasks
  <2> SUFFICES ASSUME NEW k \in Children PROVE k \in AllTasks /\ DependsOn(ParentOf(k)) \subseteq AllTasks
    OBVIOUS
  <2>1. ParentOf(k) \in AllTasks /\ ParentOf(k) \notin Children /\ k \in AllTasks
    BY ChildFacts DEF ParentOf
  <2> QED BY <2>1, PrerequisitesType DEF Prerequisites
<1>3. KeepsEnds(b, c)
  BY <1>1, <1>2 DEF KeepsEnds, Progress, TerminalTask, NonFailureTerminal, PermanentFailure, FinalPhase
<1>4. ASSUME NEW k \in Children, CreatedAfter(b, k) PROVE CreatedAfter(c, k)
  <2>1. c.task[k] # "absent" => b.task[k] # "absent"
    BY <1>1, <1>2
  <2>2. \A d \in DependsOn(ParentOf(k)) : b.task[d] \in NonFailureTerminal => c.task[d] = b.task[d]
    BY <1>1, <1>2 DEF NonFailureTerminal
  <2> QED BY <1>4, <2>1, <2>2 DEF CreatedAfter
<1> QED BY <1>1, <1>2, <1>3, <1>4

\* A task is skipped for a cause.
LEMMA SkipTaskCauses ==
  ASSUME NEW b \in Boards, CausesHold(b), NEW t \in AllTasks
  PROVE  CausesHold(SkipTask(b, t))
<1> DEFINE c == SkipTask(b, t)
           blocked == \E d \in DependsOn(t) : b.task[d] \in PermanentFailure
           unreachable == b.phase[PhaseOf(t)] \in {"skipped", "failed"}
<1>1. CASE ~(b.task[t] = "queued" /\ (blocked \/ unreachable))
  BY <1>1 DEF SkipTask
<1>2. CASE b.task[t] = "queued" /\ (blocked \/ unreachable)
  <2>1. /\ c.phase = b.phase /\ c.task[t] = "skipped"
        /\ \A u \in AllTasks : u # t => c.task[u] = b.task[u]
    BY <1>2 DEF SkipTask, Boards
  <2>2. Progress(b, c)
    BY SkipStepsProgress
  <2> HIDE DEF c
  <2>3. /\ KeepsEnds(b, c)
        /\ \A k \in Children : CreatedAfter(c, k)
        /\ \A k \in Children : b.task[k] = "absent" => c.task[k] = "absent"
    BY <2>2, ProgressKeepsEnds DEF CausesHold
  <2>4. PhaseOf(t) \in Phases
    BY PrerequisitesType
  <2>5. ~Over(b, PhaseOf(t))
    <3>1. b.task[t] \notin TerminalTask \cup {"absent"}
      BY <1>2 DEF TerminalTask, NonFailureTerminal, PermanentFailure
    <3>2. t \in Children \/ t \in PhaseTasks(PhaseOf(t))
      BY PhaseTasksFacts DEF AllTasks
    <3> QED BY <3>1, <3>2 DEF Over
  <2>6. Caused(b, t)
    <3>1. CASE blocked
      BY <3>1 DEF Caused
    <3>2. CASE unreachable
      <4>1. PhaseCaused(b, PhaseOf(t))
        BY <2>4 DEF CausesHold
      <4> QED BY <2>5, <3>2, <4>1 DEF PhaseCaused, Caused
    <3> QED BY <1>2, <3>1, <3>2
  <2>7. Caused(c, t)
    BY <2>3, <2>6, CauseKept
  <2>8. \A u \in AllTasks : c.task[u] = "skipped" /\ b.task[u] # "skipped" => Caused(c, u)
    BY <2>1, <2>7
  <2>9. ASSUME NEW k \in Children, b.task[ParentOf(k)] \notin TerminalTask PROVE EndsWithParent(c, k)
    <3>0. /\ ParentOf(k) \in AllTasks /\ ParentOf(k) \notin Children
          /\ PhaseOf(k) = PhaseOf(ParentOf(k)) /\ k \in AllTasks
      BY ChildFacts DEF ParentOf
    <3>1. CASE ParentOf(k) # t
      BY <2>1, <2>9, <3>0, <3>1 DEF EndsWithParent
    <3>2. CASE ParentOf(k) = t /\ unreachable
      BY <2>1, <3>0, <3>2 DEF EndsWithParent
    <3>3. CASE ParentOf(k) = t /\ blocked
      <4>1. CreatedAfter(b, k)
        BY DEF CausesHold
      <4>2. b.task[k] = "absent"
        BY <3>3, <4>1 DEF CreatedAfter, NonFailureTerminal, PermanentFailure
      <4> QED BY <2>3, <4>2 DEF EndsWithParent
    <3> QED BY <1>2, <3>1, <3>2, <3>3
  <2> QED BY <2>1, <2>3, <2>8, <2>9, CausesStep DEF c
<1> QED BY <1>1, <1>2

\* A phase ends badly for a cause.
LEMMA SkipPhaseCauses ==
  ASSUME NEW b \in Boards, CausesHold(b), NEW p \in Phases
  PROVE  CausesHold(SkipPhase(b, p))
<1> DEFINE c == SkipPhase(b, p)
           statuses == {b.task[t] : t \in PhaseTasks(p)}
           dead == \E q \in PhaseDef[p].depends_on : b.phase[q] \in {"failed", "skipped"}
           done == statuses # {} /\ statuses \subseteq TerminalTask
<1>1. CASE b.phase[p] \in FinalPhase
  BY <1>1 DEF SkipPhase
<1>2. CASE b.phase[p] \notin FinalPhase
  <2>1. /\ c.task = b.task /\ c.phase[p] = PhaseVerdict(b, p)
        /\ \A q \in Phases : q # p => c.phase[q] = b.phase[q]
    BY <1>2 DEF SkipPhase, Boards
  <2>2. Progress(b, c)
    BY SkipStepsProgress
  <2>3. /\ dead => PhaseVerdict(b, p) = "skipped"
        /\ ~dead /\ ~done => PhaseVerdict(b, p) = b.phase[p]
    BY DEF PhaseVerdict
  <2> HIDE DEF c
  <2>4. KeepsEnds(b, c) /\ \A k \in Children : CreatedAfter(c, k)
    BY <2>2, ProgressKeepsEnds DEF CausesHold
  <2>5. ASSUME c.phase[p] \in {"failed", "skipped"} PROVE PhaseCaused(c, p)
    <3>1. CASE dead
      <4>1. PhaseDef[p].depends_on \subseteq Phases
        BY PhaseDefType DEF PhaseRecord
      <4>2. \E q \in PhaseDef[p].depends_on : c.phase[q] \in {"failed", "skipped"}
        BY <2>4, <3>1, <4>1 DEF KeepsEnds
      <4> QED BY <2>1, <2>3, <3>1, <4>2 DEF PhaseCaused
    <3>2. CASE ~dead
      <4>1. \A t \in PhaseTasks(p) : b.task[t] \in TerminalTask
        <5>1. done
          BY <1>2, <2>1, <2>3, <2>5, <3>2 DEF FinalPhase
        <5> QED BY <5>1
      <4>2. ASSUME NEW k \in Children, PhaseOf(k) = p PROVE b.task[k] \in TerminalTask \cup {"absent"}
        <5>1. ParentOf(k) \in PhaseTasks(p)
          BY <4>2, ChildFacts, PhaseTasksFacts DEF ParentOf
        <5>2. EndsWithParent(b, k)
          BY DEF CausesHold
        <5> QED BY <1>2, <4>1, <4>2, <5>1, <5>2 DEF EndsWithParent, FinalPhase
      <4>3. Over(b, p)
        BY <4>1, <4>2 DEF Over
      <4>4. Over(c, p)
        BY <2>4, <4>3, CauseKept
      <4> QED BY <4>4 DEF PhaseCaused
    <3> QED BY <3>1, <3>2
  <2>6. \A q \in Phases : c.phase[q] \in {"failed", "skipped"} /\ c.phase[q] # b.phase[q]
                             => PhaseCaused(c, q)
    BY <2>1, <2>5
  <2>7. \A k \in Children : b.task[ParentOf(k)] \notin TerminalTask => EndsWithParent(c, k)
    BY <2>1 DEF EndsWithParent
  <2> QED BY <2>1, <2>4, <2>6, <2>7, CausesStep DEF c
<1> QED BY <1>1, <1>2

\* Propagating skips keeps the causes.
LEMMA PropagateSkipsCauses ==
  ASSUME NEW b \in Boards, CausesHold(b)
  PROVE  CausesHold(PropagateSkips(b))
<1> DEFINE X == {c \in Boards : CausesHold(c)}
<1>1. SkipClosed(X)
  <2>1. ASSUME NEW c \in Boards, CausesHold(c), NEW t \in AllTasks PROVE SkipTask(c, t) \in X
    BY <2>1, SkipStepsProgress, SkipTaskCauses DEF Progress
  <2>2. ASSUME NEW c \in Boards, CausesHold(c), NEW p \in Phases PROVE SkipPhase(c, p) \in X
    BY <2>2, SkipStepsProgress, SkipPhaseCauses DEF Progress
  <2> QED BY <2>1, <2>2 DEF SkipClosed
<1>2. b \in X
  OBVIOUS
<1> HIDE DEF X
<1>3. PropagateSkips(b) \in X
  BY <1>1, <1>2, PropagateSkipsStays
<1> QED BY <1>3 DEF X

\* What a fold must see to besides
LEMMA AdvancesKeepsCauses ==
  ASSUME NEW b \in Boards, NEW c, NEW R, Advances(b, c, R), CausesHold(b),
         \A t \in AllTasks : c.task[t] = "skipped" => b.task[t] = "skipped",
         \A p \in Phases : c.phase[p] \in {"failed", "skipped"} /\ c.phase[p] # b.phase[p]
                             => PhaseCaused(c, p),
         \A k \in Children : b.task[ParentOf(k)] \notin TerminalTask => EndsWithParent(c, k)
  PROVE  CausesHold(c)
<1>1. \A t \in AllTasks : b.task[t] \in TerminalTask \cup {"absent"} => c.task[t] = b.task[t]
  BY DEF Advances, TerminalTask, NonFailureTerminal, PermanentFailure
<1>2. \A k \in Children : k \in AllTasks /\ DependsOn(ParentOf(k)) \subseteq AllTasks
  <2> SUFFICES ASSUME NEW k \in Children PROVE k \in AllTasks /\ DependsOn(ParentOf(k)) \subseteq AllTasks
    OBVIOUS
  <2>1. ParentOf(k) \in AllTasks /\ ParentOf(k) \notin Children /\ k \in AllTasks
    BY ChildFacts DEF ParentOf
  <2> QED BY <2>1, PrerequisitesType DEF Prerequisites
<1>3. KeepsEnds(b, c)
  BY <1>1, <1>2 DEF KeepsEnds, Advances
<1>4. ASSUME NEW k \in Children PROVE CreatedAfter(c, k)
  <2>1. CreatedAfter(b, k)
    BY DEF CausesHold
  <2>2. c.task[k] # "absent" => b.task[k] # "absent"
    BY <1>1, <1>2
  <2>3. \A d \in DependsOn(ParentOf(k)) : b.task[d] \in NonFailureTerminal => c.task[d] = b.task[d]
    BY <1>1, <1>2 DEF TerminalTask
  <2> QED BY <2>1, <2>2, <2>3 DEF CreatedAfter
<1> QED BY <1>3, <1>4, CausesStep

\* Resolving a route sends no parent away that has children.
LEMMA RouteAwayCauses ==
  ASSUME NEW b \in Boards, PhasesAgree(b), CausesHold(b), NEW R, \A t \in Deselected(R) : ~Tried(t),
         \A k \in Children : ParentOf(k) \in Deselected(R) => b.task[k] = "absent"
  PROVE  CausesHold(RouteAway(b, R))
<1> DEFINE c == RouteAway(b, R)
<1>1. c.phase = b.phase
  BY DEF RouteAway
<1>2. \A t \in AllTasks :
        c.task[t] = IF t \in Deselected(R) /\ b.task[t] = "queued" THEN "skipped_by_route" ELSE b.task[t]
  BY DEF RouteAway, Boards
<1>3. Advances(b, c, R)
  BY RouteAwayAdvances
<1> HIDE DEF c
<1>4. ASSUME NEW k \in Children, b.task[ParentOf(k)] \notin TerminalTask PROVE EndsWithParent(c, k)
  <2>1. ParentOf(k) \in AllTasks /\ k \in AllTasks
    BY ChildFacts DEF ParentOf
  <2>2. CASE ParentOf(k) \in Deselected(R)
    <3>1. b.task[k] = "absent"
      BY <2>2
    <3>2. c.task[k] = "absent"
      BY <1>2, <2>1, <3>1
    <3> QED BY <3>2 DEF EndsWithParent
  <2>3. CASE ParentOf(k) \notin Deselected(R)
    BY <1>2, <1>4, <2>1, <2>3 DEF EndsWithParent
  <2> QED BY <2>2, <2>3
<1>5. \A t \in AllTasks : c.task[t] = "skipped" => b.task[t] = "skipped"
  BY <1>2
<1> QED BY <1>1, <1>3, <1>4, <1>5, AdvancesKeepsCauses DEF c

\* A task with no retry left that ended by itself is a cause.
LEMMA FoldFailureCauses ==
  ASSUME NEW b \in Boards, PhasesAgree(b), CausesHold(b), NEW t \in SpecTasks,
         b.task[t] \in PermanentFailure \ {"skipped"}
  PROVE  CausesHold(FoldFailure(b, t))
<1> DEFINE p == PhaseOf(t)
           c == [b EXCEPT !.phase[p] = "failed"]
<1>0. p \in Phases /\ t \in PhaseTasks(p)
  BY PhaseTasksFacts
<1>1. CASE PhaseDef[p].on_failure = "fail"
  <2>1. c.task = b.task /\ c.phase[p] = "failed" /\ \A q \in Phases : q # p => c.phase[q] = b.phase[q]
    BY <1>0 DEF Boards
  <2>2. FoldFailure(b, t) = c
    BY <1>1 DEF FoldFailure
  <2>3. Advances(b, c, {})
    BY <2>2, FoldFailureAdvances
  <2> HIDE DEF c, p
  <2>4. PhaseCaused(c, p)
    BY <1>0, <2>1 DEF PhaseCaused
  <2>5. \A k \in Children : b.task[ParentOf(k)] \notin TerminalTask => EndsWithParent(c, k)
    BY <2>1 DEF EndsWithParent
  <2> QED BY <2>1, <2>2, <2>3, <2>4, <2>5, AdvancesKeepsCauses
<1>2. CASE PhaseDef[p].on_failure # "fail"
  BY <1>2, PropagateSkipsCauses DEF FoldFailure
<1> QED BY <1>1, <1>2

\* A parent folds after its children.
LEMMA FoldParentCauses ==
  ASSUME NEW b \in Boards, PhasesAgree(b), CausesHold(b), NEW p \in ForeachParents
  PROVE  CausesHold(FoldParent(b, p))
<1>0. p \in SpecTasks /\ p \in AllTasks /\ p \notin Children
  BY ForeachType DEF AllTasks
<1>1. ASSUME NEW status \in {"succeeded", "failed"}, ParentFoldable(b, p)
      PROVE  LET c == [b EXCEPT !.task[p] = status]
             IN  c \in Boards /\ CausesHold(c) /\ c.task[p] = status
  <2> DEFINE c == [b EXCEPT !.task[p] = status]
  <2>1. /\ c.phase = b.phase /\ c.task[p] = status /\ c \in Boards
        /\ \A u \in AllTasks : u # p => c.task[u] = b.task[u]
    BY <1>0 DEF Boards, TaskStatus, TerminalTask, NonFailureTerminal, PermanentFailure
  <2>2. b.task[p] = "expanded"
        /\ \A k \in ChildrenOf(p) : b.task[k] \in TerminalTask \cup {"absent"}
    BY <1>1 DEF ParentFoldable, ExpandedChildren
  <2> HIDE DEF c
  <2>3. \A t \in AllTasks : b.task[t] \in TerminalTask \cup {"absent"} => c.task[t] = b.task[t]
    BY <2>1, <2>2 DEF TerminalTask, NonFailureTerminal, PermanentFailure
  <2>4. \A k \in Children : /\ k \in AllTasks /\ DependsOn(ParentOf(k)) \subseteq AllTasks
                           /\ ParentOf(k) \in AllTasks
    <3> SUFFICES ASSUME NEW k \in Children
                 PROVE  k \in AllTasks /\ DependsOn(ParentOf(k)) \subseteq AllTasks /\ ParentOf(k) \in AllTasks
      OBVIOUS
    <3>1. ParentOf(k) \in AllTasks /\ ParentOf(k) \notin Children /\ k \in AllTasks
      BY ChildFacts DEF ParentOf
    <3> QED BY <3>1, PrerequisitesType DEF Prerequisites
  <2>5. KeepsEnds(b, c)
    BY <2>1, <2>3, <2>4 DEF KeepsEnds
  <2>6. ASSUME NEW k \in Children PROVE CreatedAfter(c, k)
    <3>1. CreatedAfter(b, k)
      BY DEF CausesHold
    <3>2. c.task[k] # "absent" => b.task[k] # "absent"
      BY <2>3, <2>4
    <3>3. \A d \in DependsOn(ParentOf(k)) : b.task[d] \in NonFailureTerminal => c.task[d] = b.task[d]
      BY <2>3, <2>4 DEF TerminalTask
    <3> QED BY <3>1, <3>2, <3>3 DEF CreatedAfter
  <2>7. ASSUME NEW k \in Children, b.task[ParentOf(k)] \notin TerminalTask PROVE EndsWithParent(c, k)
    <3>1. CASE ParentOf(k) = p
      <4>1. k \in ChildrenOf(p)
        BY <3>1 DEF ChildrenOf, ParentOf
      <4>2. c.task[k] \in TerminalTask \cup {"absent"}
        BY <2>2, <2>3, <2>4, <4>1
      <4> QED BY <4>2 DEF EndsWithParent
    <3>2. CASE ParentOf(k) # p
      BY <2>1, <2>4, <2>7, <3>2 DEF EndsWithParent
    <3> QED BY <3>1, <3>2
  <2>8. \A t \in AllTasks : c.task[t] = "skipped" /\ b.task[t] # "skipped" => Caused(c, t)
    BY <2>1
  <2>9. CausesHold(c)
    BY <2>1, <2>5, <2>6, <2>7, <2>8, CausesStep
  <2> QED BY <2>1, <2>9 DEF c
<1>2. ASSUME NEW status \in {"succeeded", "failed"}, ParentFoldable(b, p)
      PROVE  PhasesAgree([b EXCEPT !.task[p] = status])
  <2> DEFINE c == [b EXCEPT !.task[p] = status]
  <2>1. c.phase = b.phase /\ \A u \in AllTasks : u # p => c.task[u] = b.task[u]
    BY DEF Boards
  <2>2. c.task[p] = status /\ b.task[p] = "expanded"
    BY <1>0, <1>2 DEF Boards, ParentFoldable
  <2>3. \A q \in Phases : PhaseTasks(q) \subseteq AllTasks
    BY DEF PhaseTasks, AllTasks
  <2> HIDE DEF c
  <2>4. PhasesAgree(c)
    BY <2>1, <2>2, <2>3 DEF PhasesAgree, NonFailureTerminal, PermanentFailure
  <2> QED BY <2>4 DEF c
<1>3. CASE ~ParentFoldable(b, p)
  BY <1>3 DEF FoldParent
<1>4. CASE ParentFoldable(b, p) /\ ParentFails(b, p)
  <2> DEFINE c == [b EXCEPT !.task[p] = "failed"]
  <2>1. c \in Boards /\ CausesHold(c) /\ PhasesAgree(c) /\ c.task[p] = "failed"
    BY <1>1, <1>2, <1>4
  <2>2. FoldParent(b, p) = FoldFailure(c, p)
    BY <1>4 DEF FoldParent
  <2> HIDE DEF c
  <2>3. c.task[p] \in PermanentFailure \ {"skipped"}
    BY <2>1 DEF PermanentFailure
  <2> QED BY <1>0, <2>1, <2>2, <2>3, FoldFailureCauses
<1>5. CASE ParentFoldable(b, p) /\ ~ParentFails(b, p)
  <2> DEFINE c == [b EXCEPT !.task[p] = "succeeded"]
  <2>1. c \in Boards /\ CausesHold(c)
    BY <1>1, <1>5
  <2>2. FoldParent(b, p) = PropagateSkips(c)
    BY <1>5 DEF FoldParent
  <2> HIDE DEF c
  <2> QED BY <2>1, <2>2, PropagateSkipsCauses
<1> QED BY <1>3, <1>4, <1>5

\* No child exists of a parent whose route is not resolved.
LEMMA UnexpandedDeselected ==
  ASSUME TypeOK, ChildrenCreated, NEW R, \A r \in R : Unresolved(r)
  PROVE  \A k \in Children : ParentOf(k) \in Deselected(R) => Board.task[k] = "absent"
<1> SUFFICES ASSUME NEW k \in Children, NEW r \in R, ParentOf(k) \in CaseTasks(r)
             PROVE  task[k] = "absent"
  BY DEF Deselected, Board
<1>1. r \in Routers /\ ~routeResolved[r]
  BY DEF Unresolved
<1>2. ParentOf(k) \in ForeachParents
  BY ForeachType DEF ParentOf
<1>3. r \in RoutesListing(ParentOf(k))
  BY <1>1 DEF RoutesListing
<1>4. itemCount[ParentOf(k)] = 0
  BY <1>1, <1>2, <1>3 DEF ChildrenCreated
<1>5. ~Logged(k)
  BY <1>4, ForeachType DEF Logged, ParentOf
<1> QED BY <1>5 DEF ChildrenCreated

\* The fold of a task, with the fold of its parent when it is a child
LEMMA FoldUpCauses ==
  ASSUME TypeOK, NEW b \in Boards, PhasesAgree(b), CausesHold(b), NEW t \in AllTasks, FoldUp(t, b)
  PROVE  CausesHold(Board')
<1>1. CASE t \in Children
  <2> DEFINE p == ChildDef[t].parent_task_id
  <2>1. p \in ForeachParents
    BY <1>1, ForeachType
  <2>2. FoldParent(b, p) \in Boards
    BY <2>1, FoldParentAdvances DEF Advances
  <2>3. Install(FoldParent(b, p))
    BY <1>1 DEF FoldUp, FoldTo
  <2> HIDE DEF p
  <2>4. Board' = FoldParent(b, p)
    BY <2>2, <2>3, InstallBoard
  <2> QED BY <2>1, <2>4, FoldParentCauses
<1>2. CASE t \notin Children
  <2>1. Board' = b
    BY <1>2, InstallBoard DEF FoldUp, FoldTo
  <2> QED BY <2>1
<1> QED BY <1>1, <1>2

\* Every fold keeps the causes.
LEMMA FoldStepCauses ==
  ASSUME TypeOK, VerdictInvariant, ChildrenCreated, CausesHold(Board), FoldStep
  PROVE  CausesHold(Board')
<1> USE DEF VerdictInvariant
<1> Board \in Boards
  BY BoardType
<1>0. ASSUME NEW R, \A r \in R : Unresolved(r)
      PROVE  LET b == PropagateSkips(RouteAway(Board, R))
             IN  b \in Boards /\ PhasesAgree(b) /\ CausesHold(b)
  <2> DEFINE c == RouteAway(Board, R)
  <2>1. \A t \in Deselected(R) : ~Tried(t)
    BY <1>0, UntriedDeselected
  <2>2. \A k \in Children : ParentOf(k) \in Deselected(R) => Board.task[k] = "absent"
    BY <1>0, UnexpandedDeselected
  <2>3. c \in Boards /\ PhasesAgree(c)
    BY <2>1, RouteAwayAdvances DEF Advances
  <2>4. CausesHold(c)
    BY <2>1, <2>2, RouteAwayCauses
  <2> HIDE DEF c
  <2>5. PropagateSkips(c) \in Boards /\ PhasesAgree(PropagateSkips(c))
    BY <2>3, PropagateSkipsAdvances DEF Advances
  <2>6. CausesHold(PropagateSkips(c))
    BY <2>3, <2>4, PropagateSkipsCauses
  <2> QED BY <2>5, <2>6 DEF c
<1>1. CASE ReapplyRoutes
  <2> DEFINE R == {r \in Routers : Unresolved(r)}
             b == PropagateSkips(RouteAway(Board, R))
  <2>1. UNCHANGED board \/ Install(b)
    BY <1>1 DEF ReapplyRoutes
  <2>2. b \in Boards /\ CausesHold(b)
    BY <1>0
  <2> HIDE DEF b
  <2>3. CASE UNCHANGED board
    <3>1. Board' = Board
      BY <2>3 DEF board, Board
    <3> QED BY <3>1
  <2>4. CASE Install(b)
    <3>1. Board' = b
      BY <2>2, <2>4, InstallBoard
    <3> QED BY <2>2, <3>1
  <2> QED BY <2>1, <2>3, <2>4
<1>2. ASSUME NEW p \in ForeachParents, RefoldParent(p) PROVE CausesHold(Board')
  <2>1. FoldParent(Board, p) \in Boards
    BY FoldParentAdvances DEF Advances
  <2>2. Board' = FoldParent(Board, p)
    BY <1>2, <2>1, InstallBoard DEF RefoldParent
  <2> QED BY <2>2, FoldParentCauses
<1>3. ASSUME NEW t \in AllTasks, FoldSucceeded(t) PROVE CausesHold(Board')
  <2> DEFINE R == IF Unresolved(t) THEN {t} ELSE {}
             b == PropagateSkips(RouteAway(Board, R))
  <2>1. FoldUp(t, b)
    BY <1>3 DEF FoldSucceeded
  <2>2. \A r \in R : Unresolved(r)
    OBVIOUS
  <2> HIDE DEF R
  <2>3. b \in Boards /\ PhasesAgree(b) /\ CausesHold(b)
    BY <1>0, <2>2
  <2> HIDE DEF b
  <2> QED BY <2>1, <2>3, FoldUpCauses
<1>4. ASSUME NEW t \in AllTasks, FoldFailed(t) PROVE CausesHold(Board')
  <2>1. CASE t \in Children
    <3>1. FoldUp(t, PropagateSkips(Board))
      BY <1>4, <2>1 DEF FoldFailed
    <3>2. PropagateSkips(Board) \in Boards /\ PhasesAgree(PropagateSkips(Board))
      BY PropagateSkipsAdvances DEF Advances
    <3>3. CausesHold(PropagateSkips(Board))
      BY PropagateSkipsCauses
    <3> QED BY <3>1, <3>2, <3>3, FoldUpCauses
  <2>2. CASE t \notin Children
    <3>1. pc = "drain" /\ t \in ToSet(settledQueue) /\ task[t] # "succeeded"
      BY <1>4, HeadInQueue DEF FoldFailed, Draining, TypeOK
    <3>2. task[t] \in PermanentFailure \ {"skipped"}
      BY <3>1 DEF QueueAgrees, Settled, Retryable, PermanentFailure
    <3>3. t \in SpecTasks /\ Board.task[t] \in PermanentFailure \ {"skipped"}
      BY <2>2, <3>2 DEF AllTasks, Board
    <3>4. FoldFailure(Board, t) \in Boards
      BY <3>3, FoldFailureAdvances DEF Advances
    <3>5. Install(FoldFailure(Board, t))
      BY <1>4, <2>2 DEF FoldFailed, FoldTo
    <3>6. Board' = FoldFailure(Board, t)
      BY <3>4, <3>5, InstallBoard
    <3> QED BY <3>3, <3>6, FoldFailureCauses
  <2> QED BY <2>1, <2>2
<1>5. CASE FinishRun
  <2>1. PropagateSkips(Board) \in Boards
    BY PropagateSkipsAdvances DEF Advances
  <2>2. Board' = PropagateSkips(Board)
    BY <1>5, <2>1, InstallBoard DEF FinishRun
  <2> QED BY <2>2, PropagateSkipsCauses
<1> QED BY <1>1, <1>2, <1>3, <1>4, <1>5 DEF FoldStep

\* Only a fold skips a task; what else ends a parent creates no child.
LEMMA OtherStepsEnd ==
  ASSUME Inductive, VerdictInvariant, ChildrenCreated, [Next]_vars, ~FoldStep,
         NEW t \in AllTasks, task'[t] \in TerminalTask, task'[t] # task[t]
  PROVE  /\ task'[t] # "skipped"
         /\ t \in ForeachParents => task'[t] \in {"succeeded", "failed"}
<1> USE DEF VerdictInvariant
<1> TypeOK /\ LoopInvariant
  BY DEF Inductive
<1>a. task'[t] \notin {"queued", "absent", "running", "expanded"}
  BY DEF TerminalTask, NonFailureTerminal, PermanentFailure
<1>b. t \in ForeachParents => task[t] # "running" /\ t \notin inFlight
  BY DEF ChildrenCreated, QueueAgrees
<1>1. CASE QuietStep \/ ForgetStep
  BY <1>1 DEF QuietStep, ForgetStep, board
<1>2. ASSUME NEW resumeFailed, ResumeRun(resumeFailed) PROVE FALSE
  BY <1>2, <1>a DEF ResumeRun
<1>3. ASSUME NEW u \in AllTasks, NEW instant, ScheduleRetry(u, instant) PROVE FALSE
  <2>1. task' = [task EXCEPT ![u] = "queued"]
    BY <1>3 DEF ScheduleRetry, FoldTo, Install, Board
  <2> QED BY <1>a, <2>1 DEF TypeOK
<1>4. ASSUME NEW u \in AllTasks, ExpandStep(u) \/ FailTemplate(u) \/ TryStep(u)
      PROVE  /\ task'[t] # "skipped"
             /\ t \in ForeachParents => task'[t] \in {"succeeded", "failed"}
  <2>1. u = t
    BY <1>4, <1>a, LaunchTouches
  <2>2. CASE FailTemplate(u)
    BY <2>1, <2>2 DEF FailTemplate, TypeOK
  <2>3. CASE TryStep(u)
    BY <2>1, <2>3 DEF TryStep, LaunchWorker, LaunchLocal, Launch, TypeOK
  <2>4. CASE ExpandStep(u)
    <3>1. ~Reexpand(u)
      BY <1>a, <2>1 DEF Reexpand, TypeOK
    <3>2. \A n : ~LogExpansion(u, n)
      BY DEF LogExpansion
    <3>3. ~SaveExpansion(u)
      BY <1>a, <2>1 DEF SaveExpansion
    <3>4. PICK status \in {"failed", "succeeded"} : ExpandNothing(u, status)
      BY <2>4, <3>1, <3>2, <3>3 DEF ExpandStep
    <3> QED BY <2>1, <3>4 DEF ExpandNothing, TypeOK
  <2> QED BY <1>4, <2>2, <2>3, <2>4
<1>5. CASE FlushResolved
  BY <1>5, <1>b DEF FlushResolved
<1>6. CASE SealRun
  BY <1>6, <1>b DEF SealRun, TypeOK
<1>7. ASSUME NEW u \in AllTasks, Settle(u)
      PROVE  /\ task'[t] # "skipped"
             /\ t \in ForeachParents => task'[t] \in {"succeeded", "failed"}
  <2>1. PICK status, value : WorkerSettles(u, status, value)
    BY <1>7 DEF Settle
  <2>2. u \in inFlight /\ task' = [task EXCEPT ![u] = status]
        /\ (status \in WorkerOutcomes \/ status \in {"cancelled", "running"})
    BY <2>1 DEF WorkerSettles
  <2>3. status # "skipped"
    BY <2>2, OutcomesType DEF Retryable
  <2> QED BY <1>b, <2>2, <2>3 DEF TypeOK
<1>8. ForeachParents \subseteq AllTasks
  BY ForeachType DEF AllTasks
<1> QED BY <1>1, <1>2, <1>3, <1>4, <1>5, <1>6, <1>7, <1>8, StepKinds

\* Where no resume reopens it, a phase is decided by folds and stays so.
LEMMA OtherStepsDecideNothing ==
  ASSUME ~MayResumeFailed, Inductive, VerdictInvariant, [Next]_vars, ~FoldStep, NEW p \in Phases,
         phase'[p] \in FinalPhase \/ phase[p] \in FinalPhase
  PROVE  phase'[p] = phase[p]
<1> TypeOK
  BY DEF Inductive
<1>1. CASE QuietStep \/ ForgetStep \/ FlushResolved \/ SealRun
  BY <1>1 DEF QuietStep, ForgetStep, FlushResolved, SealRun, board
<1>2. CASE ResumeRun(FALSE)
  BY <1>2 DEF ResumeRun, FinalPhase
<1>3. ASSUME NEW t, NEW instant, ScheduleRetry(t, instant) PROVE phase'[p] = phase[p]
  BY <1>3 DEF ScheduleRetry, FoldTo, Install, Board
<1>4. ASSUME NEW t \in AllTasks, ExpandStep(t) \/ FailTemplate(t) \/ TryStep(t)
      PROVE  phase'[p] = phase[p]
  <2>1. PhaseOf(t) \in Phases
    BY PrerequisitesType
  <2> QED BY <1>4, <2>1, LaunchPhases, UnderwayFacts
<1>5. ASSUME NEW t, Settle(t) PROVE phase'[p] = phase[p]
  BY <1>5 DEF Settle, WorkerSettles
<1>6. ForeachParents \subseteq AllTasks
  BY ForeachType DEF AllTasks
<1> QED BY <1>1, <1>2, <1>3, <1>4, <1>5, <1>6, StepKinds, BoundsType

\* Every step keeps the causes.
LEMMA CausesNext ==
  ASSUME ~MayResumeFailed, \A t \in AllTasks : Tries(t) = 1,
         Inductive, VerdictInvariant, VerdictInvariant', ChildrenCreated, CausesHold(Board), [Next]_vars
  PROVE  CausesHold(Board')
<1> TypeOK
  BY DEF Inductive
<1>0. Board.task = task /\ Board'.task = task' /\ Board.phase = phase /\ Board'.phase = phase'
  BY DEF Board
<1>1. CASE FoldStep
  BY <1>1, FoldStepCauses
<1>2. CASE ~FoldStep
  <2>1. \A t \in AllTasks : task[t] \in TerminalTask => task'[t] = task[t]
    BY EndedStays DEF SingleTry
  <2>2. \A p \in Phases : phase'[p] \in FinalPhase \/ phase[p] \in FinalPhase => phase'[p] = phase[p]
    BY <1>2, OtherStepsDecideNothing
  <2>3. ASSUME NEW k \in Children, task[ParentOf(k)] \in TerminalTask, task[k] = "absent"
        PROVE  task'[k] = "absent"
    <3>1. task[ParentOf(k)] # "queued"
      BY <2>3 DEF TerminalTask, NonFailureTerminal, PermanentFailure
    <3>2. ~Logged(k)
      BY <2>3, <3>1 DEF ChildrenCreated
    <3> QED BY <2>3, <3>2, AbsentStays
  <2>4. KeepsEnds(Board, Board')
    BY <1>0, <2>1, <2>2, <2>3 DEF KeepsEnds, FinalPhase
  <2>5. \A t \in AllTasks : task'[t] = "skipped" => task[t] = "skipped"
    BY <1>2, OtherStepsEnd DEF TerminalTask, PermanentFailure
  <2>6. ASSUME NEW k \in Children, task[ParentOf(k)] \notin TerminalTask
        PROVE  EndsWithParent(Board', k)
    <3>1. ParentOf(k) \in ForeachParents /\ ParentOf(k) \in AllTasks /\ k \in ChildrenOf(ParentOf(k))
      BY ChildFacts DEF ParentOf, ChildrenOf
    <3>2. CASE task'[ParentOf(k)] \in TerminalTask
      <4>1. task'[ParentOf(k)] \in {"succeeded", "failed"}
        BY <1>2, <2>6, <3>1, <3>2, OtherStepsEnd
      <4>2. task[ParentOf(k)] \notin {"succeeded", "failed"}
        BY <2>6 DEF TerminalTask, NonFailureTerminal, PermanentFailure
      <4>3. FoldedRight(Board', ParentOf(k)) \/ ExpandedChildren(Board', ParentOf(k)) = {}
        BY <3>1, <4>1, <4>2, ParentEnds
      <4>4. task'[k] \in TerminalTask \cup {"absent"}
        BY <1>0, <3>1, <4>3 DEF FoldedRight, ExpandedChildren
      <4> QED BY <1>0, <4>4 DEF EndsWithParent
    <3>3. CASE task'[ParentOf(k)] \notin TerminalTask
      BY <1>0, <3>3 DEF EndsWithParent
    <3> QED BY <3>2, <3>3
  <2>7. ASSUME NEW k \in Children PROVE CreatedAfter(Board', k)
    <3>1. k \in AllTasks /\ DependsOn(ParentOf(k)) = Prerequisites(k)
      BY ChildFacts DEF Prerequisites, ParentOf
    <3>2. task'[k] # "absent" => Started(k)'
      BY DEF Started
    <3>3. task'[k] # "absent" => Entered(k)'
      BY <3>1, <3>2 DEF VerdictInvariant, EnteredOnce
    <3> QED BY <1>0, <3>1, <3>3 DEF CreatedAfter, Entered
  <2>8. \A p \in Phases : Board'.phase[p] \in {"failed", "skipped"} /\ Board'.phase[p] # Board.phase[p]
                             => PhaseCaused(Board', p)
    BY <1>0, <2>2 DEF FinalPhase
  <2> QED BY <1>0, <2>4, <2>5, <2>6, <2>7, <2>8, CausesStep
<1> QED BY <1>1, <1>2

\* Where every task has a single try and no resume is given --resume-failed, a
\* skip is always derived from a failed blocker (constants.js): a dependency,
\* a task of its phase, or a phase its phase depends on.
THEOREM SchedulerSkipsHaveCause ==
  ASSUME ~MayResumeFailed, \A t \in AllTasks : Tries(t) = 1
  PROVE  Spec => []SkipsHaveCause
<1>1. Init => CausesHold(Board)
  <2> SUFFICES ASSUME Init PROVE CausesHold(Board)
    OBVIOUS
  <2>1. /\ \A t \in AllTasks : task[t] \in {"absent", "queued"}
        /\ \A k \in Children : task[k] = "absent"
        /\ \A p \in Phases : phase[p] \in {"ready", "waiting"}
    BY DEF Init, AllTasks
  <2>2. \A k \in Children : ParentOf(k) \in AllTasks
    BY ChildFacts DEF ParentOf
  <2> QED BY <2>1, <2>2 DEF CausesHold, PhaseCaused, EndsWithParent, CreatedAfter, Board,
             TerminalTask, NonFailureTerminal, PermanentFailure
<1>2. /\ Inductive /\ VerdictInvariant /\ VerdictInvariant' /\ ChildrenCreated
      /\ CausesHold(Board) /\ [Next]_vars
      => CausesHold(Board)'
  <2>1. CausesHold(Board)' <=> CausesHold(Board')
    BY DEF CausesHold, Caused, PhaseCaused, Over, EndsWithParent, CreatedAfter
  <2> QED BY <2>1, CausesNext
<1>3. CausesHold(Board) => SkipsHaveCause
  BY DEF CausesHold, Caused, SkipsHaveCause, Board
<1> QED BY <1>1, <1>2, <1>3, InductiveHolds, VerdictHolds, ChildrenCreatedHolds, PTL DEF Spec

-----------------------------------------------------------------------------
(* Nobody is stranded.                                                     *)

\* The workflows it holds for: phases that do not wait for each other, and no
\* task beside a foreach parent in a phase whose failure is fatal.
Untangled ==
  /\ \A p \in Phases : PhaseDef[p].depends_on = {}
  /\ \A p \in ForeachParents : FailsRun(p) => PhaseTasks(PhaseOf(p)) = {p}

Shut(b, p) == b.phase[p] \in {"failed", "skipped"}

\* The phase of an expanded parent is open.
OpenPhases(b) ==
  \A p \in ForeachParents : b.task[p] = "expanded" => ~Shut(b, PhaseOf(p))

\* What a fold does to children: it skips only those whose phase is shut.
Spares(b, c) ==
  /\ c \in Boards
  /\ \A p \in Phases : Shut(b, p) => Shut(c, p)
  /\ \A k \in Children : c.task[k] = b.task[k] \/ Shut(c, PhaseOf(k))

\* Two folds in a row spare what each spares.
LEMMA SparesTwice ==
  ASSUME NEW b, NEW c, NEW d, Spares(b, c), Spares(c, d)
  PROVE  Spares(b, d)
<1>1. \A k \in Children : PhaseOf(k) \in Phases
  BY PrerequisitesType DEF AllTasks
<1> QED BY <1>1 DEF Spares

\* Skipping a task spares the children of open phases.
LEMMA SkipTaskSpares ==
  ASSUME NEW b \in Boards, OpenPhases(b), NEW t \in AllTasks
  PROVE  Spares(b, SkipTask(b, t)) /\ OpenPhases(SkipTask(b, t))
<1> DEFINE c == SkipTask(b, t)
<1>1. c \in Boards
  BY SkipStepsProgress DEF Progress
<1>2. CASE c = b
  BY <1>1, <1>2 DEF Spares
<1>3. CASE c # b
  <2>1. b.task[t] = "queued" /\ c = [b EXCEPT !.task[t] = "skipped"]
    BY <1>3 DEF SkipTask
  <2>2. c.phase = b.phase /\ c.task[t] = "skipped" /\ \A u \in AllTasks : u # t => c.task[u] = b.task[u]
    BY <2>1 DEF Boards
  <2>3. t \in Children => Shut(b, PhaseOf(t))
    <3>1. t \in Children => DependsOn(t) = {}
      BY ForeachType, TaskDefType DEF DependsOn, DefOf, TaskRecord
    <3> QED BY <1>3, <3>1 DEF SkipTask, Shut
  <2>4. Children \subseteq AllTasks /\ ForeachParents \subseteq AllTasks
    BY ForeachType DEF AllTasks
  <2> HIDE DEF c
  <2>5. Spares(b, c)
    BY <1>1, <2>2, <2>3, <2>4 DEF Spares, Shut
  <2>6. OpenPhases(c)
    BY <2>2, <2>4 DEF OpenPhases, Shut
  <2> QED BY <2>5, <2>6 DEF c
<1> QED BY <1>2, <1>3

\* The verdict on a phase waits for its expanded parents.
LEMMA SkipPhaseSpares ==
  ASSUME Untangled, NEW b \in Boards, OpenPhases(b), NEW p \in Phases
  PROVE  Spares(b, SkipPhase(b, p)) /\ OpenPhases(SkipPhase(b, p))
<1> DEFINE c == SkipPhase(b, p)
<1>1. c \in Boards
  BY SkipStepsProgress DEF Progress
<1>2. CASE b.phase[p] \in FinalPhase
  BY <1>1, <1>2 DEF SkipPhase, Spares
<1>3. CASE b.phase[p] \notin FinalPhase
  <2>1. c.task = b.task /\ c.phase[p] = PhaseVerdict(b, p)
        /\ \A q \in Phases : q # p => c.phase[q] = b.phase[q]
    BY <1>3 DEF SkipPhase, Boards
  <2>2. Spares(b, c)
    BY <1>1, <1>3, <2>1 DEF Spares, Shut, FinalPhase
  <2>3. ASSUME NEW r \in ForeachParents, b.task[r] = "expanded", PhaseOf(r) = p
        PROVE  c.phase[p] = b.phase[p]
    <3>1. r \in PhaseTasks(p)
      BY <2>3, ForeachType, PhaseTasksFacts
    <3>2. b.task[r] \notin TerminalTask
      BY <2>3 DEF TerminalTask, NonFailureTerminal, PermanentFailure
    <3>3. ~({b.task[t] : t \in PhaseTasks(p)} \subseteq TerminalTask)
      BY <3>1, <3>2
    <3>4. ~\E q \in PhaseDef[p].depends_on : b.phase[q] \in {"failed", "skipped"}
      BY DEF Untangled
    <3>5. PhaseVerdict(b, p) = b.phase[p]
      BY <3>3, <3>4 DEF PhaseVerdict
    <3> QED BY <2>1, <3>5
  <2>4. OpenPhases(c)
    <3> SUFFICES ASSUME NEW r \in ForeachParents, b.task[r] = "expanded"
                 PROVE  ~Shut(c, PhaseOf(r))
      BY <2>1 DEF OpenPhases
    <3>1. PhaseOf(r) \in Phases
      BY ForeachType, PhaseTasksFacts
    <3>2. c.phase[PhaseOf(r)] = b.phase[PhaseOf(r)]
      BY <2>1, <2>3, <3>1
    <3> QED BY <3>2 DEF OpenPhases, Shut
  <2> QED BY <2>2, <2>4
<1> QED BY <1>2, <1>3

\* So does the whole of propagateSkips.
LEMMA PropagateSkipsSpares ==
  ASSUME Untangled, NEW b \in Boards, OpenPhases(b)
  PROVE  Spares(b, PropagateSkips(b)) /\ OpenPhases(PropagateSkips(b))
<1> DEFINE X == {c \in Boards : Spares(b, c) /\ OpenPhases(c)}
<1>1. SkipClosed(X)
  <2>1. ASSUME NEW c \in X, NEW t \in AllTasks PROVE SkipTask(c, t) \in X
    <3>1. Spares(c, SkipTask(c, t)) /\ OpenPhases(SkipTask(c, t))
      BY SkipTaskSpares
    <3>2. Spares(b, SkipTask(c, t))
      BY <3>1, SparesTwice
    <3> QED BY <3>1, <3>2 DEF Spares
  <2>2. ASSUME NEW c \in X, NEW p \in Phases PROVE SkipPhase(c, p) \in X
    <3>1. Spares(c, SkipPhase(c, p)) /\ OpenPhases(SkipPhase(c, p))
      BY SkipPhaseSpares
    <3>2. Spares(b, SkipPhase(c, p))
      BY <3>1, SparesTwice
    <3> QED BY <3>1, <3>2 DEF Spares
  <2> QED BY <2>1, <2>2 DEF SkipClosed
<1>2. b \in X
  BY DEF Spares
<1> HIDE DEF X
<1>3. PropagateSkips(b) \in X
  BY <1>1, <1>2, PropagateSkipsStays
<1> QED BY <1>3 DEF X

\* Routes send no child away.
LEMMA RouteAwaySpares ==
  ASSUME NEW b \in Boards, OpenPhases(b), NEW R \in SUBSET Routers
  PROVE  Spares(b, RouteAway(b, R)) /\ OpenPhases(RouteAway(b, R))
<1> DEFINE c == RouteAway(b, R)
<1>1. c \in Boards /\ c.phase = b.phase
  BY DEF RouteAway, Boards, TaskStatus, TerminalTask, NonFailureTerminal
<1>2. \A t \in AllTasks :
        c.task[t] = IF t \in Deselected(R) /\ b.task[t] = "queued" THEN "skipped_by_route" ELSE b.task[t]
  BY DEF RouteAway, Boards
<1>3. \A k \in Children : k \notin Deselected(R)
  BY RouteType, ForeachType DEF Deselected
<1>4. Children \subseteq AllTasks /\ ForeachParents \subseteq AllTasks
  BY ForeachType DEF AllTasks
<1> HIDE DEF c
<1>5. Spares(b, c)
  BY <1>1, <1>2, <1>3, <1>4 DEF Spares, Shut
<1>6. OpenPhases(c)
  BY <1>1, <1>2, <1>4 DEF OpenPhases, Shut
<1> QED BY <1>5, <1>6 DEF c

\* A fatal failure shuts the phase of no expanded parent.
LEMMA FoldFailureSpares ==
  ASSUME Untangled, NEW b \in Boards, OpenPhases(b), NEW t \in SpecTasks, b.task[t] # "expanded"
  PROVE  Spares(b, FoldFailure(b, t)) /\ OpenPhases(FoldFailure(b, t))
<1> DEFINE p == PhaseOf(t)
<1>1. p \in Phases /\ t \in PhaseTasks(p)
  BY PhaseTasksFacts
<1>2. CASE PhaseDef[p].on_failure = "fail"
  <2> DEFINE c == [b EXCEPT !.phase[p] = "failed"]
  <2>1. c \in Boards /\ c.task = b.task /\ c.phase[p] = "failed"
        /\ \A q \in Phases : q # p => c.phase[q] = b.phase[q]
    BY <1>1 DEF Boards, PhaseStatus, FinalPhase
  <2>2. FoldFailure(b, t) = c
    BY <1>2 DEF FoldFailure
  <2> HIDE DEF c
  <2>3. Spares(b, c)
    BY <2>1 DEF Spares, Shut
  <2>4. ASSUME NEW r \in ForeachParents, b.task[r] = "expanded" PROVE ~Shut(c, PhaseOf(r))
    <3>1. PhaseOf(r) \in Phases
      BY ForeachType, PhaseTasksFacts
    <3>2. PhaseOf(r) # p
      <4> SUFFICES ASSUME PhaseOf(r) = p PROVE FALSE
        OBVIOUS
      <4>1. PhaseTasks(p) = {r}
        BY <1>2 DEF Untangled, FailsRun
      <4> QED BY <1>1, <2>4, <4>1
    <3> QED BY <2>1, <2>4, <3>1, <3>2 DEF OpenPhases, Shut
  <2> QED BY <2>1, <2>2, <2>3, <2>4 DEF OpenPhases
<1>3. CASE PhaseDef[p].on_failure # "fail"
  BY <1>3, PropagateSkipsSpares DEF FoldFailure
<1> QED BY <1>2, <1>3

\* A parent whose children are not done is left as it is; the fold of another
\* spares the children of open phases.
LEMMA FoldParentSpares ==
  ASSUME Untangled, NEW b \in Boards, OpenPhases(b), NEW p \in ForeachParents
  PROVE  /\ Spares(b, FoldParent(b, p)) /\ OpenPhases(FoldParent(b, p))
         /\ FoldParent(b, p).task[p] = "expanded" => FoldParent(b, p) = b /\ ~ParentFoldable(b, p)
<1>0. p \in SpecTasks /\ p \in AllTasks /\ p \notin Children
  BY ForeachType DEF AllTasks
<1>1. CASE ~ParentFoldable(b, p)
  BY <1>1 DEF Spares, FoldParent
<1>2. CASE ParentFoldable(b, p)
  <2>1. ASSUME NEW status \in {"succeeded", "failed"}
        PROVE  LET c == [b EXCEPT !.task[p] = status]
               IN  /\ c \in Boards /\ c.task[p] = status
                   /\ Spares(b, c) /\ OpenPhases(c)
    <3> DEFINE c == [b EXCEPT !.task[p] = status]
    <3>1. c \in Boards /\ c.phase = b.phase /\ c.task[p] = status
          /\ \A t \in AllTasks : t # p => c.task[t] = b.task[t]
      BY <1>0 DEF Boards, TaskStatus, TerminalTask, NonFailureTerminal, PermanentFailure
    <3> HIDE DEF c
    <3>2. Children \subseteq AllTasks /\ ForeachParents \subseteq AllTasks
      BY ForeachType DEF AllTasks
    <3>3. Spares(b, c)
      BY <1>0, <3>1, <3>2 DEF Spares, Shut
    <3>4. OpenPhases(c)
      BY <3>1, <3>2 DEF OpenPhases, Shut
    <3> QED BY <3>1, <3>3, <3>4 DEF c
  <2>2. CASE ParentFails(b, p)
    <3> DEFINE c == [b EXCEPT !.task[p] = "failed"]
    <3>1. c \in Boards /\ c.task[p] = "failed" /\ Spares(b, c) /\ OpenPhases(c)
      BY <2>1
    <3>2. FoldParent(b, p) = FoldFailure(c, p)
      BY <1>2, <2>2 DEF FoldParent
    <3> HIDE DEF c
    <3>3. Spares(c, FoldFailure(c, p)) /\ OpenPhases(FoldFailure(c, p))
      BY <1>0, <3>1, FoldFailureSpares
    <3>4. Settles(c, FoldFailure(c, p))
      BY <3>1, FoldFailureSettles
    <3>5. FoldFailure(c, p).task[p] = "failed"
      BY <1>0, <3>1, <3>4 DEF Settles
    <3> QED BY <3>1, <3>2, <3>3, <3>5, SparesTwice
  <2>3. CASE ~ParentFails(b, p)
    <3> DEFINE c == [b EXCEPT !.task[p] = "succeeded"]
    <3>1. c \in Boards /\ c.task[p] = "succeeded" /\ Spares(b, c) /\ OpenPhases(c)
      BY <2>1
    <3>2. FoldParent(b, p) = PropagateSkips(c)
      BY <1>2, <2>3 DEF FoldParent
    <3> HIDE DEF c
    <3>3. Spares(c, PropagateSkips(c)) /\ OpenPhases(PropagateSkips(c))
      BY <3>1, PropagateSkipsSpares
    <3>4. Settles(c, PropagateSkips(c))
      BY <3>1, PropagateSkipsSettles
    <3>5. PropagateSkips(c).task[p] = "succeeded"
      BY <1>0, <3>1, <3>4 DEF Settles
    <3> QED BY <3>1, <3>2, <3>3, <3>5, SparesTwice
  <2> QED BY <2>2, <2>3
<1> QED BY <1>1, <1>2

\* Whether a parent could be folded: what its fold left behind
LEMMA FoldUpSpares ==
  ASSUME Untangled, TypeOK, NEW b, Spares(Board, b), OpenPhases(b), NEW t \in AllTasks, FoldUp(t, b)
  PROVE  /\ Spares(Board, Board') /\ OpenPhases(Board')
         /\ t \in Children /\ task'[ParentOf(t)] = "expanded" => ~ParentFoldable(Board', ParentOf(t))
<1> b \in Boards
  BY DEF Spares
<1>1. CASE t \in Children
  <2> DEFINE p == ParentOf(t)
  <2>1. p \in ForeachParents
    BY <1>1, ChildFacts DEF ParentOf
  <2>2. /\ Spares(b, FoldParent(b, p)) /\ OpenPhases(FoldParent(b, p))
        /\ FoldParent(b, p).task[p] = "expanded" => FoldParent(b, p) = b /\ ~ParentFoldable(b, p)
    BY <2>1, FoldParentSpares
  <2>3. Install(FoldParent(b, p))
    BY <1>1 DEF FoldUp, FoldTo, ParentOf
  <2>4. Board' = FoldParent(b, p)
    BY <2>2, <2>3, InstallBoard DEF Spares
  <2>5. Board'.task = task'
    BY DEF Board
  <2> HIDE DEF p
  <2>6. Spares(Board, FoldParent(b, p))
    BY <2>2, SparesTwice
  <2> QED BY <2>2, <2>4, <2>5, <2>6 DEF p
<1>2. CASE t \notin Children
  <2>1. Board' = b
    BY <1>2, InstallBoard DEF FoldUp, FoldTo
  <2> QED BY <1>2, <2>1
<1> QED BY <1>1, <1>2

\* The board behind the routes of R
LEMMA RoutedSpares ==
  ASSUME Untangled, TypeOK, OpenPhases(Board), NEW R \in SUBSET Routers
  PROVE  LET b == PropagateSkips(RouteAway(Board, R)) IN Spares(Board, b) /\ OpenPhases(b)
<1> Board \in Boards
  BY BoardType
<1> DEFINE c == RouteAway(Board, R)
<1>1. Spares(Board, c) /\ OpenPhases(c)
  BY RouteAwaySpares
<1> HIDE DEF c
<1>2. Spares(c, PropagateSkips(c)) /\ OpenPhases(PropagateSkips(c))
  BY <1>1, PropagateSkipsSpares DEF Spares
<1> QED BY <1>1, <1>2, SparesTwice DEF c

\* The fold of a task leaves its parent alone only if it cannot be folded.
LEMMA TaskFoldSpares ==
  ASSUME Untangled, TypeOK, VerdictInvariant, OpenPhases(Board), NEW t \in AllTasks,
         FoldSucceeded(t) \/ FoldFailed(t)
  PROVE  /\ Spares(Board, Board') /\ OpenPhases(Board')
         /\ t \in Children /\ task'[ParentOf(t)] = "expanded" => ~ParentFoldable(Board', ParentOf(t))
<1> Board \in Boards
  BY BoardType
<1>1. CASE FoldSucceeded(t)
  <2> DEFINE R == IF Unresolved(t) THEN {t} ELSE {}
             b == PropagateSkips(RouteAway(Board, R))
  <2>1. FoldUp(t, b)
    BY <1>1 DEF FoldSucceeded
  <2>2. R \in SUBSET Routers
    BY DEF Unresolved
  <2> HIDE DEF R
  <2>3. Spares(Board, b) /\ OpenPhases(b)
    BY <2>2, RoutedSpares
  <2> HIDE DEF b
  <2> QED BY <2>1, <2>3, FoldUpSpares
<1>2. CASE FoldFailed(t) /\ t \in Children
  <2>1. FoldUp(t, PropagateSkips(Board))
    BY <1>2 DEF FoldFailed
  <2>2. Spares(Board, PropagateSkips(Board)) /\ OpenPhases(PropagateSkips(Board))
    BY PropagateSkipsSpares
  <2> QED BY <2>1, <2>2, FoldUpSpares
<1>3. CASE FoldFailed(t) /\ t \notin Children
  <2>1. pc = "drain" /\ t \in ToSet(settledQueue)
    BY <1>3, HeadInQueue DEF FoldFailed, Draining, TypeOK
  <2>2. Board.task[t] # "expanded"
    BY <2>1 DEF VerdictInvariant, QueueAgrees, Settled, Retryable, Board
  <2>3. t \in SpecTasks
    BY <1>3 DEF AllTasks
  <2>4. Spares(Board, FoldFailure(Board, t)) /\ OpenPhases(FoldFailure(Board, t))
    BY <2>2, <2>3, FoldFailureSpares
  <2>5. Install(FoldFailure(Board, t))
    BY <1>3 DEF FoldFailed, FoldTo
  <2>6. Board' = FoldFailure(Board, t)
    BY <2>4, <2>5, InstallBoard DEF Spares
  <2> QED BY <1>3, <2>4, <2>6
<1> QED BY <1>1, <1>2, <1>3

\* At startup, likewise.
LEMMA RefoldSpares ==
  ASSUME Untangled, TypeOK, OpenPhases(Board), NEW p \in ForeachParents, RefoldParent(p)
  PROVE  /\ Spares(Board, Board') /\ OpenPhases(Board')
         /\ task'[p] = "expanded" => ~ParentFoldable(Board', p)
<1> Board \in Boards
  BY BoardType
<1>1. /\ Spares(Board, FoldParent(Board, p)) /\ OpenPhases(FoldParent(Board, p))
      /\ FoldParent(Board, p).task[p] = "expanded" =>
           FoldParent(Board, p) = Board /\ ~ParentFoldable(Board, p)
  BY FoldParentSpares
<1>2. Install(FoldParent(Board, p))
  BY DEF RefoldParent
<1>3. Board' = FoldParent(Board, p)
  BY <1>1, <1>2, InstallBoard DEF Spares
<1>4. Board'.task = task'
  BY DEF Board
<1> QED BY <1>1, <1>3, <1>4

\* No fold shuts the phase of an expanded parent or skips the children of one.
LEMMA FoldStepSpares ==
  ASSUME Untangled, TypeOK, VerdictInvariant, OpenPhases(Board), FoldStep
  PROVE  Spares(Board, Board') /\ OpenPhases(Board')
<1> Board \in Boards
  BY BoardType
<1>1. CASE ReapplyRoutes
  <2> DEFINE R == {r \in Routers : Unresolved(r)}
             b == PropagateSkips(RouteAway(Board, R))
  <2>1. UNCHANGED board \/ Install(b)
    BY <1>1 DEF ReapplyRoutes
  <2>2. Spares(Board, b) /\ OpenPhases(b)
    BY RoutedSpares
  <2> HIDE DEF b
  <2>3. CASE UNCHANGED board
    <3>1. Board' = Board
      BY <2>3 DEF board, Board
    <3> QED BY <3>1 DEF Spares
  <2>4. CASE Install(b)
    <3>1. Board' = b
      BY <2>2, <2>4, InstallBoard DEF Spares
    <3> QED BY <2>2, <3>1
  <2> QED BY <2>1, <2>3, <2>4
<1>2. ASSUME NEW p \in ForeachParents, RefoldParent(p)
      PROVE  Spares(Board, Board') /\ OpenPhases(Board')
  BY <1>2, RefoldSpares
<1>3. ASSUME NEW t \in AllTasks, FoldSucceeded(t) \/ FoldFailed(t)
      PROVE  Spares(Board, Board') /\ OpenPhases(Board')
  BY <1>3, TaskFoldSpares
<1>4. CASE FinishRun
  <2>1. Spares(Board, PropagateSkips(Board)) /\ OpenPhases(PropagateSkips(Board))
    BY PropagateSkipsSpares
  <2>2. Board' = PropagateSkips(Board)
    BY <1>4, <2>1, InstallBoard DEF FinishRun, Spares
  <2> QED BY <2>1, <2>2
<1> QED BY <1>1, <1>2, <1>3, <1>4 DEF FoldStep

\* While it launches, the loop expands, launches or fails a task, or whatever
\* happens changes nothing it looks at.
LEMMA LaunchingStep ==
  ASSUME [Next]_vars, pc' \in {"launch", "expanding"}, ~BeginLaunch
  PROVE  /\ pc \in {"launch", "expanding"} /\ cooling' = cooling
         /\ \/ \E t \in ForeachParents : ExpandStep(t)
            \/ \E t \in AllTasks : FailTemplate(t) \/ TryStep(t)
            \/ UNCHANGED <<task, phase, inFlight, settledQueue, ready, expandedThisPass, itemCount, pc>>
<1> USE DEF board, retryVars, passVars, flightVars
<1>1. CASE Commands
  BY <1>1 DEF Commands, StartRun, ResumeRun, RequestCancel, CancelIdleRun
<1>2. CASE Startup
  BY <1>2 DEF Startup, ReapplyRoutes, RefoldParent, EnterLoop, BeginAbort
<1>3. CASE Top
  BY <1>3 DEF Top, NoticeCancel, ExceedBudget, BeginDrain, BeginAbort
<1>4. CASE Drain
  <2>1. ASSUME NEW t, FoldSucceeded(t) \/ FoldFailed(t) PROVE FALSE
    BY <2>1 DEF FoldSucceeded, FoldFailed, Draining, FoldUp, FoldTo, BeginAbort, abortVars
  <2>2. ASSUME NEW t, NEW instant, ScheduleRetry(t, instant) PROVE FALSE
    BY <2>2 DEF ScheduleRetry, Draining, FoldTo, BeginAbort, abortVars
  <2>3. ~DrainForPause /\ ~PauseRun
    BY DEF DrainForPause, PauseRun
  <2> QED BY <1>4, <2>1, <2>2, <2>3 DEF Drain
<1>5. ASSUME NEW t \in ForeachParents, ExpandStep(t)
      PROVE  pc \in {"launch", "expanding"} /\ cooling' = cooling
  BY <1>5 DEF ExpandStep, Reexpand, ExpandNothing, LogExpansion, SaveExpansion, Offered, MayLaunch
<1>6. ASSUME NEW t \in AllTasks, FailTemplate(t) \/ TryStep(t)
      PROVE  pc \in {"launch", "expanding"} /\ cooling' = cooling
  BY <1>6 DEF FailTemplate, TryStep, LaunchWorker, LaunchLocal, Launch, Offered, MayLaunch
<1>7. CASE Expand
  BY <1>5, <1>7 DEF Expand, ExpandStep
<1>8. CASE LaunchNext
  <2>1. ASSUME NEW t, ExhaustAgents(t) PROVE FALSE
    BY <2>1 DEF ExhaustAgents, BeginAbort
  <2> QED BY <1>6, <1>8, <2>1 DEF LaunchNext, TryStep
<1>9. CASE AfterLaunch
  BY <1>9 DEF AfterLaunch, NextPass, AwaitRetry, AwaitWorkers, EndPass, FinishRun
<1>10. CASE FlushResolved \/ Wake \/ Abort
  BY <1>10 DEF FlushResolved, Wake, Abort, SealRun, CloseRun
<1>11. ASSUME NEW t \in AllTasks, Settle(t) \/ BackoffElapses(t) PROVE FALSE
  BY <1>11 DEF Settle, WorkerSettles, BackoffElapses
<1>12. ASSUME NEW t, NEW status, ZombieSettles(t, status)
       PROVE  /\ cooling' = cooling
              /\ UNCHANGED <<task, phase, inFlight, settledQueue, ready, expandedThisPass, itemCount, pc>>
  BY <1>12 DEF ZombieSettles, StatusesAfterZombie
<1>13. ~Crash
  BY DEF Crash
<1>14. CASE UNCHANGED vars
  BY <1>14 DEF vars
<1> QED BY <1>1, <1>2, <1>3, <1>4, <1>7, <1>8, <1>9, <1>10, <1>11, <1>12, <1>13, <1>14
        DEF Next, Loop

\* How retries come and go
LEMMA RetriesStep ==
  ASSUME [Next]_vars
  PROVE  \/ retryAt' = retryAt /\ cooling' \subseteq cooling
         \/ retryAt' = {} /\ cooling' = {}
         \/ \E t \in AllTasks, instant \in BOOLEAN : ScheduleRetry(t, instant)
         \/ \E t \in AllTasks : /\ FailTemplate(t) \/ TryStep(t)
                                /\ retryAt' = retryAt \ {t} /\ cooling' = cooling
<1> USE DEF retryVars, ForgetMemory
<1>1. CASE Commands
  BY <1>1 DEF Commands, StartRun, ResumeRun, RequestCancel, CancelIdleRun
<1>2. CASE Startup
  BY <1>2 DEF Startup, ReapplyRoutes, RefoldParent, EnterLoop
<1>3. CASE Top
  BY <1>3 DEF Top, NoticeCancel, ExceedBudget, BeginDrain
<1>4. CASE Drain
  BY <1>4 DEF Drain, FoldSucceeded, FoldFailed, BeginLaunch, DrainForPause, PauseRun
<1>5. CASE Expand
  BY <1>5 DEF Expand, Reexpand, ExpandNothing, LogExpansion, SaveExpansion
<1>6. CASE LaunchNext
  BY <1>6 DEF LaunchNext, ExhaustAgents, FailTemplate, TryStep, LaunchWorker, LaunchLocal, Launch
<1>7. CASE AfterLaunch
  BY <1>7 DEF AfterLaunch, NextPass, AwaitRetry, AwaitWorkers, EndPass, FinishRun
<1>8. CASE FlushResolved \/ Wake \/ Abort
  BY <1>8 DEF FlushResolved, Wake, Abort, SealRun, CloseRun
<1>9. ASSUME NEW t \in AllTasks, Settle(t) \/ BackoffElapses(t)
      PROVE  retryAt' = retryAt /\ cooling' \subseteq cooling
  BY <1>9 DEF Settle, WorkerSettles, BackoffElapses
<1>10. ASSUME NEW t, NEW status, ZombieSettles(t, status) PROVE UNCHANGED <<retryAt, cooling>>
  BY <1>10 DEF ZombieSettles
<1>11. CASE Crash
  BY <1>11 DEF Crash
<1>12. CASE UNCHANGED vars
  BY <1>12 DEF vars
<1> QED BY <1>1, <1>2, <1>3, <1>4, <1>5, <1>6, <1>7, <1>8, <1>9, <1>10, <1>11, <1>12
        DEF Next, Loop

\* Outside the folds, a task changes in one of these ways.
LEMMA StatusStep ==
  ASSUME ~MayResumeFailed, Inductive, [Next]_vars, ~FoldStep, NEW t \in AllTasks, task'[t] # task[t]
  PROVE  \/ task'[t] = "queued" /\ (t \in ForeachParents => task[t] = "running")
         \/ t \in ForeachParents /\ task'[t] = "expanded" /\ (Reexpand(t) \/ SaveExpansion(t))
         \/ t \in ForeachParents /\ task'[t] \in {"failed", "succeeded"}
         \/ (FailTemplate(t) \/ TryStep(t)) /\ task'[t] \notin {"queued", "expanded", "absent"}
         \/ /\ task[t] = "running" \/ t \in inFlight
            /\ task'[t] \notin {"queued", "expanded", "absent"}
<1> TypeOK
  BY DEF Inductive
<1>0. Children \cap ForeachParents = {} /\ ForeachParents \subseteq AllTasks
  BY ForeachType DEF AllTasks
<1>1. CASE QuietStep \/ ForgetStep
  BY <1>1 DEF QuietStep, ForgetStep, board
<1>2. CASE ResumeRun(FALSE)
  BY <1>0, <1>2 DEF ResumeRun
<1>3. ASSUME NEW u \in AllTasks, NEW instant, ScheduleRetry(u, instant)
      PROVE  task'[t] = "queued" /\ t \notin ForeachParents
  <2>1. task' = [task EXCEPT ![u] = "queued"] /\ u \notin ForeachParents
    BY <1>3 DEF ScheduleRetry, FoldTo, Install, Board, RetryAllowed
  <2> QED BY <2>1 DEF TypeOK
<1>4. ASSUME NEW u \in ForeachParents, ExpandStep(u)
      PROVE  \/ task'[t] = "queued" /\ t \notin ForeachParents
             \/ t \in ForeachParents /\ task'[t] = "expanded" /\ (Reexpand(t) \/ SaveExpansion(t))
             \/ t \in ForeachParents /\ task'[t] \in {"failed", "succeeded"}
  <2>1. CASE t # u
    <3>1. t \in Children /\ task'[t] = "queued"
      BY <1>0, <1>4, <2>1, LaunchTouches DEF ChildrenOf
    <3> QED BY <1>0, <3>1
  <2>2. CASE t = u
    <3>1. CASE Reexpand(u)
      BY <2>2, <3>1 DEF Reexpand, TypeOK
    <3>2. ASSUME NEW status \in {"failed", "succeeded"}, ExpandNothing(u, status)
          PROVE  task'[t] \in {"failed", "succeeded"}
      BY <2>2, <3>2 DEF ExpandNothing, TypeOK
    <3>3. ASSUME NEW n, LogExpansion(u, n) PROVE FALSE
      BY <3>3 DEF LogExpansion
    <3>4. CASE SaveExpansion(u)
      <4>1. t \notin ChildrenOf(u)
        BY <1>0, <2>2 DEF ChildrenOf
      <4> QED BY <2>2, <3>4, <4>1 DEF SaveExpansion
    <3> QED BY <1>4, <2>2, <3>1, <3>2, <3>3, <3>4 DEF ExpandStep
  <2> QED BY <2>1, <2>2
<1>5. ASSUME NEW u \in AllTasks, FailTemplate(u) \/ TryStep(u)
      PROVE  (FailTemplate(t) \/ TryStep(t)) /\ task'[t] \notin {"queued", "expanded", "absent"}
  <2>1. PICK status \in {"running", "succeeded", "failed", "schema_violation"} :
          task' = [task EXCEPT ![u] = status]
    BY <1>5 DEF FailTemplate, TryStep, LaunchWorker, LaunchLocal, Launch
  <2> QED BY <1>5, <2>1 DEF TypeOK
<1>6. CASE FlushResolved
  BY <1>6 DEF FlushResolved
<1>7. CASE SealRun
  BY <1>7 DEF SealRun, Inductive, LoopInvariant, AbortsWhatRuns, TypeOK
<1>8. ASSUME NEW u \in AllTasks, Settle(u)
      PROVE  t \in inFlight /\ task'[t] \notin {"queued", "expanded", "absent"}
  <2> PICK status \in WorkerOutcomes \cup {"cancelled", "running"} :
        \E value \in RouteValuesAfter(u, status) : WorkerSettles(u, status, value)
    BY <1>8 DEF Settle
  <2>1. task' = [task EXCEPT ![u] = status] /\ u \in inFlight
    BY DEF WorkerSettles
  <2>2. status \notin {"queued", "expanded", "absent"}
    BY OutcomesType DEF Retryable
  <2> QED BY <2>1, <2>2 DEF TypeOK
<1> QED BY <1>1, <1>2, <1>3, <1>4, <1>5, <1>6, <1>7, <1>8, StepKinds, BoundsType

\* A backoff belongs to a retry, and never to a foreach parent; while the loop
\* launches, everything that is ready is in its list, and nothing that cools.
RetriesKnown ==
  /\ cooling \subseteq retryAt /\ cooling \cap ForeachParents = {}
  /\ pc \in {"launch", "expanding"} => ready \cap cooling = {}
  /\ pc = "launch" /\ inFlight = {} /\ settledQueue = <<>> /\ ~expandedThisPass =>
       ReadyTasks \subseteq ready

\* An expansion creates a child at least, and only parents are expanded.
Expansions ==
  /\ \A t \in AllTasks : task[t] = "expanded" => t \in ForeachParents
  /\ \A p \in ForeachParents : task[p] = "expanded" => ExpandedChildren(Board, p) # {}
  /\ pc = "expanding" => \A p \in ForeachParents : IsFirst(p, Launchable) => itemCount[p] # 0

\* As long as a parent waits, so do the children an earlier life created.
ParentsFirst ==
  /\ pc \in {"launch", "expanding"} =>
       \A c \in ready \cap Children : task[ParentOf(c)] = "queued" => ParentOf(c) \in ready
  /\ \A c \in Children : task[ParentOf(c)] = "queued" =>
       task[c] \in {"absent", "queued"} \/ Shut(Board, PhaseOf(c))

\* Something will fold an expanded parent: a child that has not ended, or whose
\* end is in the queue, or the startup.
Unfolded(p) ==
  \E c \in ChildrenOf(p) :
    task[c] # "absent" /\ (task[c] \notin TerminalTask \/ c \in ToSet(settledQueue))

FoldsPending ==
  pc \notin {"off", "routes", "aborting", "sealed"} =>
    \A p \in ForeachParents :
      task[p] = "expanded" => Unfolded(p) \/ (pc = "parents" /\ p \in ready)

\* What a launch or an expansion leaves in the ready list and in the queue
LEMMA LaunchLeaves ==
  ASSUME TypeOK, NEW t \in AllTasks, ExpandStep(t) \/ FailTemplate(t) \/ TryStep(t)
  PROVE  /\ ready' = ready \/ ready' = ready \ {t}
         /\ ToSet(settledQueue) \subseteq ToSet(settledQueue')
         /\ FailTemplate(t) => t \in ToSet(settledQueue') /\ settledQueue' # <<>>
         /\ TryStep(t) => t \in inFlight'
         /\ ExpandStep(t) => expandedThisPass' = TRUE \/ (pc' = "expanding" /\ task' = task /\ ready' = ready)
<1> USE DEF flightVars, passVars
<1>1. ToSet(Append(settledQueue, t)) = ToSet(settledQueue) \cup {t}
  BY ToSetAppend DEF TypeOK
<1>2. Append(settledQueue, t) # <<>>
  BY <1>1, EmptyQueue
<1>3. FailTemplate(t) => ready' = ready \ {t} /\ settledQueue' = Append(settledQueue, t)
  BY DEF FailTemplate
<1>4. TryStep(t) => ready' = ready \ {t} /\ settledQueue' = settledQueue /\ t \in inFlight'
  BY DEF TryStep, LaunchWorker, LaunchLocal, Launch
<1>5. Reexpand(t) => ready' = ready \ {t} /\ settledQueue' = settledQueue /\ expandedThisPass' = TRUE
  BY DEF Reexpand
<1>6. ASSUME NEW status, ExpandNothing(t, status)
      PROVE  /\ ready' = ready \ {t} /\ expandedThisPass' = TRUE
             /\ settledQueue' = Append(settledQueue, t)
  BY <1>6 DEF ExpandNothing
<1>7. ASSUME NEW n, LogExpansion(t, n)
      PROVE  ready' = ready /\ task' = task /\ pc' = "expanding" /\ settledQueue' = settledQueue
  BY <1>7 DEF LogExpansion
<1>8. SaveExpansion(t) => ready' = ready \ {t} /\ settledQueue' = settledQueue /\ expandedThisPass' = TRUE
  BY DEF SaveExpansion
<1>9. ExpandStep(t) =>
        /\ ready' = ready \/ ready' = ready \ {t}
        /\ settledQueue' \in {settledQueue, Append(settledQueue, t)}
        /\ expandedThisPass' = TRUE \/ (pc' = "expanding" /\ task' = task /\ ready' = ready)
  BY <1>5, <1>6, <1>7, <1>8 DEF ExpandStep
<1> QED BY <1>1, <1>2, <1>3, <1>4, <1>9

\* Every step keeps the first part.
LEMMA RetriesKnownStep ==
  ASSUME Inductive, RetriesKnown, [Next]_vars
  PROVE  RetriesKnown'
<1> TypeOK
  BY DEF Inductive
<1>0. ForeachParents \subseteq AllTasks
  BY ForeachType DEF AllTasks
<1>1. cooling' \subseteq retryAt' /\ cooling' \cap ForeachParents = {}
  <2>1. ASSUME NEW t \in AllTasks, NEW instant \in BOOLEAN, ScheduleRetry(t, instant)
        PROVE  cooling' \subseteq retryAt' /\ cooling' \cap ForeachParents = {}
    BY <2>1 DEF ScheduleRetry, RetryAllowed, RetriesKnown
  <2>2. ASSUME NEW t \in AllTasks, FailTemplate(t) \/ TryStep(t), retryAt' = retryAt \ {t}, cooling' = cooling
        PROVE  cooling' \subseteq retryAt' /\ cooling' \cap ForeachParents = {}
    <3>1. t \in ready /\ pc \in {"launch", "expanding"}
      BY <2>2, LaunchesReady
    <3> QED BY <2>2, <3>1 DEF RetriesKnown
  <2> QED BY <2>1, <2>2, RetriesStep DEF RetriesKnown
<1>2. ASSUME pc' \in {"launch", "expanding"} PROVE ready' \cap cooling' = {}
  <2>1. CASE BeginLaunch
    BY <2>1 DEF BeginLaunch, ReadyTasks, TaskIsReady, retryVars
  <2>2. CASE ~BeginLaunch
    <3>1. ready' \subseteq ready
      BY <1>0, <1>2, <2>2, LaunchingStep, LaunchesReady
    <3> QED BY <1>2, <2>2, <3>1, LaunchingStep DEF RetriesKnown
  <2> QED BY <2>1, <2>2
<1>3. ASSUME pc' = "launch", inFlight' = {}, settledQueue' = <<>>, ~expandedThisPass'
      PROVE  ReadyTasks' \subseteq ready'
  <2>1. CASE BeginLaunch
    BY <2>1 DEF BeginLaunch, ReadyTasks, TaskIsReady, PhaseEntered, board, flightVars, retryVars
  <2>2. CASE ~BeginLaunch
    <3>1. ASSUME NEW t \in AllTasks, ExpandStep(t) \/ FailTemplate(t) \/ TryStep(t) PROVE FALSE
      BY <1>3, <3>1, LaunchLeaves
    <3>2. UNCHANGED <<task, phase, inFlight, settledQueue, ready, expandedThisPass, itemCount, pc>>
          /\ cooling' = cooling
      BY <1>0, <1>3, <2>2, <3>1, LaunchingStep
    <3>3. ReadyTasks' = ReadyTasks
      BY <3>2 DEF ReadyTasks, TaskIsReady, PhaseEntered
    <3> QED BY <1>3, <3>2, <3>3 DEF RetriesKnown
  <2> QED BY <2>1, <2>2
<1> QED BY <1>1, <1>2, <1>3 DEF RetriesKnown

\* A phase once shut stays so.
LEMMA ShutKept ==
  ASSUME ~MayResumeFailed, Untangled, Inductive, VerdictInvariant, OpenPhases(Board), [Next]_vars,
         NEW p \in Phases, Shut(Board, p)
  PROVE  Shut(Board', p)
<1>1. CASE FoldStep
  BY <1>1, FoldStepSpares DEF Spares, Inductive
<1>2. CASE ~FoldStep
  BY <1>2, OtherStepsDecideNothing DEF Shut, Board, FinalPhase
<1> QED BY <1>1, <1>2

\* Whoever is expanded was already, or is first in an open phase.
LEMMA NewlyExpanded ==
  ASSUME ~MayResumeFailed, Inductive, VerdictInvariant, [Next]_vars, NEW t \in AllTasks,
         task'[t] = "expanded", task[t] # "expanded"
  PROVE  /\ t \in ForeachParents /\ (Reexpand(t) \/ SaveExpansion(t)) /\ ~FoldStep
         /\ task[t] = "queued" /\ ~Shut(Board, PhaseOf(t))
<1> TypeOK
  BY DEF Inductive
<1>1. ~FoldStep
  BY FoldStepAdvances, FoldKeeps
<1>2. t \in ForeachParents /\ (Reexpand(t) \/ SaveExpansion(t))
  BY <1>1, StatusStep
<1>3. t \in ready /\ task[t] = "queued" /\ pc \in {"launch", "expanding"}
  BY <1>2, LaunchesReady DEF ExpandStep
<1>4. phase[PhaseOf(t)] \notin {"failed", "skipped"}
  BY <1>3 DEF VerdictInvariant, EnteredOnce
<1> QED BY <1>1, <1>2, <1>3, <1>4 DEF Shut, Board

\* Every step keeps the phases of expanded parents open.
LEMMA OpenPhasesStep ==
  ASSUME ~MayResumeFailed, Untangled, Inductive, VerdictInvariant, OpenPhases(Board), [Next]_vars
  PROVE  OpenPhases(Board')
<1>1. CASE FoldStep
  BY <1>1, FoldStepSpares DEF Inductive
<1>2. CASE ~FoldStep
  <2> SUFFICES ASSUME NEW p \in ForeachParents, task'[p] = "expanded"
               PROVE  ~Shut(Board', PhaseOf(p))
    BY DEF OpenPhases, Board
  <2>1. p \in AllTasks /\ PhaseOf(p) \in Phases
    BY ForeachType, PrerequisitesType DEF AllTasks
  <2>2. ~Shut(Board, PhaseOf(p))
    BY <2>1, NewlyExpanded DEF OpenPhases, Board
  <2> QED BY <1>2, <2>1, <2>2, OtherStepsDecideNothing DEF Shut, Board, FinalPhase
<1> QED BY <1>1, <1>2

\* Every step keeps what is known of expansions.
LEMMA ExpansionsStep ==
  ASSUME ~MayResumeFailed, Inductive, VerdictInvariant, Expansions, [Next]_vars
  PROVE  Expansions'
<1> TypeOK
  BY DEF Inductive
<1>0. ForeachParents \subseteq AllTasks /\ Children \subseteq AllTasks
  BY ForeachType DEF AllTasks
<1>1. ASSUME NEW t \in AllTasks, task'[t] = "expanded" PROVE t \in ForeachParents
  BY <1>1, NewlyExpanded DEF Expansions
<1>2. ASSUME NEW p \in ForeachParents, task'[p] = "expanded"
      PROVE  ExpandedChildren(Board, p)' # {}
  <2> SUFFICES \E c \in ChildrenOf(p) : task'[c] # "absent"
    BY DEF ExpandedChildren, Board
  <2>1. ASSUME ExpandedChildren(Board, p) # {} PROVE \E c \in ChildrenOf(p) : task'[c] # "absent"
    <3>1. PICK c \in ChildrenOf(p) : task[c] # "absent"
      BY <2>1 DEF ExpandedChildren, Board
    <3> QED BY <1>0, <3>1, CreatedKept DEF ChildrenOf
  <2>2. ASSUME SaveExpansion(p) PROVE \E c \in ChildrenOf(p) : task'[c] # "absent"
    <3>1. pc = "expanding" /\ IsFirst(p, Launchable)
      BY <2>2 DEF SaveExpansion
    <3>2. itemCount[p] \in Nat /\ itemCount[p] # 0
      BY <3>1 DEF Expansions, TypeOK
    <3>3. Foreach[p].max_items \in Nat \ {0}
      BY ForeachType
    <3>4. 0 \in 0 .. Foreach[p].max_items - 1
      BY <3>3
    <3>5. \E c \in ChildrenOf(p) : ChildDef[c].item_index = 0
      BY <3>4, GraphRules DEF ForeachBudget
    <3>6. PICK c \in ChildrenOf(p) : ChildDef[c].item_index < itemCount[p]
      BY <3>2, <3>5
    <3>7. task'[c] = "queued"
      BY <1>0, <2>2, <3>6 DEF SaveExpansion, ChildrenOf
    <3> QED BY <3>7
  <2>3. CASE task[p] = "expanded"
    BY <2>1, <2>3 DEF Expansions
  <2>4. CASE task[p] # "expanded"
    <3>1. Reexpand(p) \/ SaveExpansion(p)
      BY <1>0, <1>2, <2>4, NewlyExpanded
    <3> QED BY <2>1, <2>2, <3>1 DEF Reexpand
  <2> QED BY <2>3, <2>4
<1>3. ASSUME pc' = "expanding", NEW p \in ForeachParents, IsFirst(p, Launchable)'
      PROVE  itemCount'[p] # 0
  <2>1. ~BeginLaunch
    BY <1>3 DEF BeginLaunch
  <2>2. ASSUME NEW t \in ForeachParents, ExpandStep(t) PROVE itemCount'[p] # 0
    <3>1. PICK n \in 1 .. Foreach[t].max_items : LogExpansion(t, n)
      BY <1>3, <2>2 DEF ExpandStep, Reexpand, ExpandNothing, SaveExpansion, Offered, MayLaunch
    <3>2. /\ IsFirst(t, Launchable) /\ itemCount' = [itemCount EXCEPT ![t] = n]
          /\ ready' = ready /\ inFlight' = inFlight
      BY <3>1 DEF LogExpansion, Offered, passVars, flightVars
    <3>3. Launchable' = Launchable
      BY <3>2 DEF Launchable, ForeachChildBlocked
    <3>4. IsFirst(p, Launchable)
      BY <1>3, <3>3 DEF IsFirst
    <3>5. Launchable \subseteq AllTasks
      BY DEF Launchable, TypeOK
    <3>6. p = t
      BY <3>2, <3>4, <3>5, FirstIsUnique
    <3>7. itemCount'[p] = n
      BY <3>2, <3>6 DEF TypeOK
    <3>8. Foreach[t].max_items \in Nat
      BY ForeachType
    <3> QED BY <3>7, <3>8
  <2>3. ASSUME NEW t \in AllTasks, FailTemplate(t) \/ TryStep(t) PROVE FALSE
    BY <1>3, <2>3 DEF FailTemplate, TryStep, LaunchWorker, LaunchLocal, Launch, Offered, MayLaunch
  <2>4. CASE UNCHANGED <<task, phase, inFlight, settledQueue, ready, expandedThisPass, itemCount, pc>>
    <3>1. Launchable' = Launchable
      BY <2>4 DEF Launchable, ForeachChildBlocked
    <3>2. IsFirst(p, Launchable)
      BY <1>3, <3>1 DEF IsFirst
    <3> QED BY <1>3, <2>4, <3>2 DEF Expansions
  <2> QED BY <1>3, <2>1, <2>2, <2>3, <2>4, LaunchingStep
<1> QED BY <1>1, <1>2, <1>3 DEF Expansions

\* A parent that waits has waited since the last step.
LEMMA ParentWaited ==
  ASSUME ~MayResumeFailed, Inductive, VerdictInvariant, ChildrenCreated, [Next]_vars,
         NEW p \in ForeachParents, task'[p] = "queued"
  PROVE  task[p] = "queued"
<1> TypeOK
  BY DEF Inductive
<1>0. p \in AllTasks
  BY ForeachType DEF AllTasks
<1>1. CASE FoldStep
  BY <1>0, <1>1, FoldStepAdvances, FoldKeeps
<1>2. CASE ~FoldStep
  <2>1. task[p] # "running"
    BY <1>0 DEF ChildrenCreated, VerdictInvariant, QueueAgrees
  <2> QED BY <1>0, <1>2, <2>1, StatusStep
<1> QED BY <1>1, <1>2

\* A child that is ready has a parent that is ready, if it waits at all.
LEMMA ReadyParents ==
  ASSUME Inductive, VerdictInvariant, ChildrenCreated, RetriesKnown,
         NEW c \in Children, TaskIsReady(c), task[ParentOf(c)] = "queued"
  PROVE  TaskIsReady(ParentOf(c))
<1> DEFINE p == ParentOf(c)
<1>1. p \in ForeachParents /\ p \in AllTasks /\ p \notin Children /\ PhaseOf(c) = PhaseOf(p)
      /\ Prerequisites(c) = Prerequisites(p) /\ c \in AllTasks
  BY ChildFacts DEF ParentOf
<1>2. p \notin inFlight
  BY <1>1 DEF ChildrenCreated, VerdictInvariant, QueueAgrees
<1>3. p \notin cooling
  BY <1>1 DEF RetriesKnown
<1>4. Started(c)
  BY DEF Started, TaskIsReady
<1>5. \A d \in Prerequisites(p) : task[d] \in NonFailureTerminal
  BY <1>1, <1>4 DEF VerdictInvariant, EnteredOnce, Entered
<1>6. Prerequisites(p) = DependsOn(p)
  BY <1>1 DEF Prerequisites
<1> QED BY <1>1, <1>2, <1>3, <1>5, <1>6 DEF TaskIsReady

\* Parents are launched before the children that wait with them.
LEMMA ParentsFirstStep ==
  ASSUME ~MayResumeFailed, Untangled, Inductive, VerdictInvariant, ChildrenCreated,
         OpenPhases(Board), RetriesKnown, ParentsFirst, [Next]_vars
  PROVE  ParentsFirst'
<1> TypeOK
  BY DEF Inductive
<1>0. \A c \in Children : /\ ParentOf(c) \in ForeachParents /\ ParentOf(c) \in SpecTasks
                          /\ ParentOf(c) \in AllTasks /\ ParentOf(c) \notin Children
                          /\ c \in AllTasks /\ PhaseOf(c) \in Phases
  BY ChildFacts, PrerequisitesType DEF ParentOf
<1>1. ASSUME pc' \in {"launch", "expanding"}, NEW c \in ready' \cap Children,
             task'[ParentOf(c)] = "queued"
      PROVE  ParentOf(c) \in ready'
  <2>1. task[ParentOf(c)] = "queued"
    BY <1>0, <1>1, ParentWaited
  <2>2. CASE BeginLaunch
    <3>1. ready' = ReadyTasks
      BY <2>2 DEF BeginLaunch
    <3>2. TaskIsReady(c)
      BY <1>1, <3>1 DEF ReadyTasks
    <3>3. TaskIsReady(ParentOf(c))
      BY <2>1, <3>2, ReadyParents
    <3> QED BY <1>0, <3>1, <3>3 DEF ReadyTasks
  <2>3. CASE ~BeginLaunch
    <3>1. ASSUME NEW t \in AllTasks, ExpandStep(t) \/ FailTemplate(t) \/ TryStep(t)
          PROVE  ParentOf(c) \in ready'
      <4>1. ready' = ready \/ ready' = ready \ {t}
        BY <3>1, LaunchLeaves
      <4>2. ParentOf(c) \in ready
        BY <1>1, <2>1, <2>3, <4>1, LaunchingStep DEF ParentsFirst
      <4>3. ParentOf(c) # t \/ ready' = ready
        <5> SUFFICES ASSUME ParentOf(c) = t, ready' # ready PROVE FALSE
          OBVIOUS
        <5>1. t \in ForeachParents /\ task'[t] = "queued" /\ t \notin Children
          BY <1>0, <1>1
        <5>2. ~FailTemplate(t) /\ ~TryStep(t)
          BY <5>1 DEF FailTemplate, TryStep, LaunchWorker, LaunchLocal, Launch
        <5>3. ~Reexpand(t) /\ (\A status \in {"failed", "succeeded"} : ~ExpandNothing(t, status))
          BY <5>1 DEF Reexpand, ExpandNothing, TypeOK
        <5>4. \A n : ~LogExpansion(t, n)
          BY DEF LogExpansion, passVars
        <5>5. ~SaveExpansion(t)
          <6>1. t \notin ChildrenOf(t)
            BY <5>1 DEF ChildrenOf
          <6> QED BY <5>1, <6>1 DEF SaveExpansion
        <5> QED BY <3>1, <5>2, <5>3, <5>4, <5>5 DEF ExpandStep
      <4> QED BY <4>1, <4>2, <4>3
    <3>2. CASE UNCHANGED <<task, phase, inFlight, settledQueue, ready, expandedThisPass, itemCount, pc>>
      BY <1>1, <2>1, <3>2 DEF ParentsFirst
    <3>3. ForeachParents \subseteq AllTasks
      BY ForeachType DEF AllTasks
    <3> QED BY <1>1, <2>3, <3>1, <3>2, <3>3, LaunchingStep
  <2> QED BY <2>2, <2>3
<1>2. ASSUME NEW c \in Children, task'[ParentOf(c)] = "queued"
      PROVE  task'[c] \in {"absent", "queued"} \/ Shut(Board', PhaseOf(c))
  <2>1. task[ParentOf(c)] = "queued"
    BY <1>0, <1>2, ParentWaited
  <2>2. CASE Shut(Board, PhaseOf(c))
    BY <1>0, <2>2, ShutKept
  <2>3. CASE task[c] \in {"absent", "queued"} /\ FoldStep
    BY <2>3, FoldStepSpares DEF Spares, Board
  <2>4. CASE task[c] \in {"absent", "queued"} /\ ~FoldStep
    <3> SUFFICES ASSUME task'[c] \notin {"absent", "queued"} PROVE FALSE
      OBVIOUS
    <3>1. c \notin ForeachParents
      BY ForeachType
    <3>2. c \notin inFlight
      <4>1. c \in ToSet(unflushed) => task[c] \in Settled \cup {"running"}
        BY DEF VerdictInvariant, QueueAgrees
      <4> QED BY <2>4, <4>1 DEF Inductive, LoopInvariant, AwaitsWhatRuns, Settled, Retryable
    <3>3. FailTemplate(c) \/ TryStep(c)
      BY <1>0, <2>4, <3>1, <3>2, StatusStep
    <3>4. Offered(c) /\ c \in ready /\ pc = "launch"
      BY <3>3, OfferedFacts DEF FailTemplate, TryStep, LaunchWorker, LaunchLocal, Launch
    <3>5. ParentOf(c) \in ready
      BY <2>1, <3>4 DEF ParentsFirst
    <3>6. ParentOf(c) \in Launchable
      BY <1>0, <3>5 DEF Launchable, ForeachChildBlocked
    <3>7. Rank(c) <= Rank(ParentOf(c))
      BY <3>4, <3>6 DEF Offered, IsFirst
    <3>8. Rank(ParentOf(c)) < Rank(c)
      BY <1>0, OrderRules
    <3>9. Rank(c) \in Nat /\ Rank(ParentOf(c)) \in Nat
      BY <1>0, RankType
    <3> QED BY <3>7, <3>8, <3>9
  <2> QED BY <2>1, <2>2, <2>3, <2>4 DEF ParentsFirst
<1>3. \A p \in Phases : Shut(Board', p) <=> Shut(Board, p)'
  BY DEF Shut
<1> QED BY <1>0, <1>1, <1>2, <1>3 DEF ParentsFirst

\* A parent that could not be folded has a child that has not ended.
LEMMA StillUnfolded ==
  ASSUME Expansions', NEW p \in ForeachParents, task'[p] = "expanded", ~ParentFoldable(Board', p)
  PROVE  Unfolded(p)'
<1>1. Board'.task = task'
  BY DEF Board
<1>2. ExpandedChildren(Board, p)' = ExpandedChildren(Board', p)
  BY DEF ExpandedChildren
<1>3. ExpandedChildren(Board', p) # {}
  BY <1>2 DEF Expansions
<1>4. PICK c \in ExpandedChildren(Board', p) : task'[c] \notin TerminalTask
  BY <1>1, <1>3 DEF ParentFoldable
<1>5. c \in ChildrenOf(p) /\ task'[c] # "absent"
  BY <1>1 DEF ExpandedChildren
<1> QED BY <1>4, <1>5 DEF Unfolded

\* The loop is entered when every parent has been looked at.
LEMMA LeavesParents ==
  ASSUME [Next]_vars, pc = "parents", pc' \notin {"parents", "off", "aborting"}
  PROVE  ready = {}
<1>1. ~Commands
  BY DEF Commands, StartRun, ResumeRun, RequestCancel, CancelIdleRun
<1>2. ~ReapplyRoutes /\ \A p : ~RefoldParent(p)
  BY DEF ReapplyRoutes, RefoldParent, BeginAbort, abortVars
<1>3. ~Top
  BY DEF Top, NoticeCancel, ExceedBudget, BeginDrain
<1>4. ~Drain
  BY DEF Drain, FoldSucceeded, FoldFailed, ScheduleRetry, Draining, BeginLaunch, DrainForPause, PauseRun
<1>5. ~Expand
  BY DEF Expand, Reexpand, ExpandNothing, LogExpansion, SaveExpansion, Offered, MayLaunch
<1>6. ~LaunchNext
  BY DEF LaunchNext, ExhaustAgents, FailTemplate, LaunchWorker, LaunchLocal, Launch, Offered, MayLaunch
<1>7. ~AfterLaunch
  BY DEF AfterLaunch, NextPass, AwaitRetry, AwaitWorkers, EndPass, FinishRun, OutOfWork
<1>8. ~FlushResolved /\ ~Wake /\ ~Abort
  BY DEF FlushResolved, Wake, Abort, SealRun, CloseRun
<1>9. ASSUME NEW t PROVE ~Settle(t) /\ ~BackoffElapses(t)
  BY DEF Settle, WorkerSettles, BackoffElapses
<1>10. ASSUME NEW t, NEW status PROVE ~ZombieSettles(t, status)
  BY DEF ZombieSettles
<1>11. ~Crash /\ ~UNCHANGED vars
  BY DEF Crash, vars
<1>12. EnterLoop
  BY <1>1, <1>2, <1>3, <1>4, <1>5, <1>6, <1>7, <1>8, <1>9, <1>10, <1>11 DEF Next, Loop, Startup
<1> QED BY <1>12 DEF EnterLoop

\* Folds: a parent that stays expanded keeps what will fold it.
LEMMA FoldsPendingInFold ==
  ASSUME Untangled, Inductive, VerdictInvariant, OpenPhases(Board), Expansions', FoldsPending,
         [Next]_vars, FoldStep, pc' \notin {"off", "routes", "aborting", "sealed"},
         NEW p \in ForeachParents, task'[p] = "expanded"
  PROVE  Unfolded(p)' \/ (pc' = "parents" /\ p \in ready')
<1> TypeOK
  BY DEF Inductive
<1>0. p \in AllTasks /\ ChildrenOf(p) \subseteq AllTasks /\ \A c \in ChildrenOf(p) : PhaseOf(c) = PhaseOf(p)
  BY ForeachType, ChildFacts DEF AllTasks, ChildrenOf
<1>1. task[p] = "expanded"
  BY <1>0, FoldStepAdvances, FoldKeeps
<1>2. ASSUME NEW c \in ChildrenOf(p) PROVE task'[c] = task[c]
  <2>1. Spares(Board, Board') /\ OpenPhases(Board')
    BY FoldStepSpares
  <2>2. ~Shut(Board', PhaseOf(p))
    BY <2>1 DEF OpenPhases, Board
  <2>3. c \in Children /\ PhaseOf(c) = PhaseOf(p)
    BY <1>0 DEF ChildrenOf
  <2> QED BY <2>1, <2>2, <2>3 DEF Spares, Board
<1>3. CASE ReapplyRoutes
  BY <1>3 DEF ReapplyRoutes
<1>4. ASSUME NEW q \in ForeachParents, RefoldParent(q)
      PROVE  Unfolded(p)' \/ (pc' = "parents" /\ p \in ready')
  <2>1. pc = "parents" /\ settledQueue' = settledQueue
    BY <1>4 DEF RefoldParent, flightVars
  <2>2. pc' = "parents" /\ ready' = ready \ {q}
    BY <1>4, <2>1 DEF RefoldParent, BeginAbort
  <2>3. CASE p = q
    BY <1>4, <2>3, RefoldSpares, StillUnfolded
  <2>4. CASE p # q
    <3>1. Unfolded(p) \/ p \in ready
      BY <1>1, <2>1 DEF FoldsPending
    <3>2. Unfolded(p) => Unfolded(p)'
      BY <1>2, <2>1 DEF Unfolded
    <3> QED BY <2>2, <2>4, <3>1, <3>2
  <2> QED BY <2>3, <2>4
<1>5. ASSUME NEW t \in AllTasks, FoldSucceeded(t) \/ FoldFailed(t) PROVE Unfolded(p)'
  <2>1. pc = "drain" /\ settledQueue # <<>> /\ t = Head(settledQueue)
    BY <1>5 DEF FoldSucceeded, FoldFailed, Draining
  <2>2. settledQueue' = Tail(settledQueue)
    BY <1>5 DEF FoldSucceeded, FoldFailed, FoldUp, FoldTo
  <2>3. PICK c \in ChildrenOf(p) : task[c] # "absent" /\ (task[c] \notin TerminalTask \/ c \in ToSet(settledQueue))
    BY <1>1, <2>1 DEF FoldsPending, Unfolded
  <2>4. CASE c = t
    <3>1. t \in Children /\ ParentOf(t) = p
      BY <2>4 DEF ChildrenOf, ParentOf
    <3>2. ~ParentFoldable(Board', p)
      BY <1>5, <3>1, TaskFoldSpares
    <3> QED BY <3>2, StillUnfolded
  <2>5. CASE c # t
    <3>1. ToSet(Tail(settledQueue)) = ToSet(settledQueue) \ {t}
      BY <2>1, InjectiveTail DEF VerdictInvariant, QueueAgrees, TypeOK
    <3>2. task'[c] # "absent" /\ (task'[c] \notin TerminalTask \/ c \in ToSet(settledQueue'))
      BY <1>2, <2>2, <2>3, <2>5, <3>1
    <3> QED BY <3>2 DEF Unfolded
  <2> QED BY <2>4, <2>5
<1>6. ~FinishRun
  BY DEF FinishRun
<1> QED BY <1>3, <1>4, <1>5, <1>6 DEF FoldStep

\* The other steps, likewise
LEMMA FoldsPendingElsewhere ==
  ASSUME ~MayResumeFailed, Inductive, VerdictInvariant, Expansions', ParentsFirst, FoldsPending,
         [Next]_vars, ~FoldStep, pc' \notin {"off", "routes", "aborting", "sealed"},
         NEW p \in ForeachParents, task'[p] = "expanded"
  PROVE  Unfolded(p)' \/ (pc' = "parents" /\ p \in ready')
<1> TypeOK
  BY DEF Inductive
<1>0. /\ p \in AllTasks /\ ForeachParents \subseteq AllTasks
      /\ \A c \in ChildrenOf(p) : c \in AllTasks /\ c \in Children /\ c \notin ForeachParents /\ ParentOf(c) = p
                                  /\ PhaseOf(c) = PhaseOf(p)
  BY ForeachType, ChildFacts DEF AllTasks, ChildrenOf, ParentOf
\* Enough: a witness that keeps its status, or waits, or is in the queue
<1>w. ASSUME NEW c \in ChildrenOf(p), task'[c] # "absent",
             task'[c] \notin TerminalTask \/ c \in ToSet(settledQueue')
      PROVE  Unfolded(p)'
  BY <1>w DEF Unfolded
<1>q. "queued" \notin TerminalTask /\ "running" \notin TerminalTask
  BY DEF TerminalTask, NonFailureTerminal, PermanentFailure
<1>1. CASE QuietStep
  <2>1. task' = task /\ settledQueue' = settledQueue
    BY <1>1 DEF QuietStep, board, flightVars
  <2>2. pc \notin {"off", "routes", "aborting", "sealed"}
    BY <1>1 DEF QuietStep, BeginLaunch
  <2>3. Unfolded(p) \/ (pc = "parents" /\ p \in ready)
    BY <2>1, <2>2 DEF FoldsPending
  <2>4. Unfolded(p) => Unfolded(p)'
    BY <2>1 DEF Unfolded
  <2>5. CASE pc = "parents" /\ p \in ready
    <3>1. pc' = "parents"
      BY <2>5, LeavesParents
    <3>2. ready' = ready
      BY <1>1, <2>5, <3>1 DEF QuietStep, BeginLaunch
    <3> QED BY <2>5, <3>1, <3>2
  <2> QED BY <2>3, <2>4, <2>5
<1>2. ~ForgetStep /\ \A resumeFailed : ~ResumeRun(resumeFailed)
  BY DEF ForgetStep, ResumeRun
<1>3. ASSUME NEW t \in AllTasks, NEW instant, ScheduleRetry(t, instant) PROVE Unfolded(p)'
  <2>1. /\ pc = "drain" /\ settledQueue # <<>> /\ t = Head(settledQueue)
        /\ settledQueue' = Tail(settledQueue) /\ task' = [task EXCEPT ![t] = "queued"]
    BY <1>3 DEF ScheduleRetry, Draining, FoldTo, Install, Board
  <2>2. task[p] = "expanded"
    BY <1>0, <2>1 DEF TypeOK
  <2>3. PICK c \in ChildrenOf(p) : task[c] # "absent" /\ (task[c] \notin TerminalTask \/ c \in ToSet(settledQueue))
    BY <2>1, <2>2 DEF FoldsPending, Unfolded
  <2>4. CASE c = t
    <3>1. task'[c] = "queued"
      BY <1>0, <2>1, <2>4 DEF TypeOK
    <3> QED BY <1>q, <1>w, <3>1
  <2>5. CASE c # t
    <3>1. ToSet(Tail(settledQueue)) = ToSet(settledQueue) \ {t}
      BY <2>1, InjectiveTail DEF VerdictInvariant, QueueAgrees, TypeOK
    <3>2. task'[c] = task[c]
      BY <1>0, <2>1, <2>5 DEF TypeOK
    <3> QED BY <1>w, <2>1, <2>3, <2>5, <3>1, <3>2
  <2> QED BY <2>4, <2>5
<1>4. ASSUME NEW u \in AllTasks, ExpandStep(u) \/ FailTemplate(u) \/ TryStep(u) PROVE Unfolded(p)'
  <2>0. /\ u \in ready /\ task[u] = "queued" /\ pc \in {"launch", "expanding"}
        /\ ToSet(settledQueue) \subseteq ToSet(settledQueue')
    BY <1>4, LaunchesReady, LaunchLeaves
  <2>1. CASE p = u
    <3>1. ~Shut(Board, PhaseOf(p))
      BY <1>0, <2>0, <2>1, NewlyExpanded
    <3>2. PICK c \in ExpandedChildren(Board, p)' : TRUE
      BY DEF Expansions
    <3>3. c \in ChildrenOf(p) /\ task'[c] # "absent"
      BY <3>2 DEF ExpandedChildren, Board
    <3>4. task[c] \in {"absent", "queued"}
      BY <1>0, <2>0, <2>1, <3>1, <3>3 DEF ParentsFirst
    <3>5. c # u
      BY <1>0, <2>1, <3>3
    <3>6. task'[c] = task[c] \/ task'[c] = "queued"
      BY <1>0, <1>4, <3>3, <3>5, LaunchTouches
    <3> QED BY <1>q, <1>w, <3>3, <3>4, <3>6
  <2>2. CASE p # u
    <3>1. task[p] = "expanded"
      BY <1>0, <1>4, <2>2, LaunchTouches
    <3>2. PICK c \in ChildrenOf(p) : task[c] # "absent" /\ (task[c] \notin TerminalTask \/ c \in ToSet(settledQueue))
      BY <2>0, <3>1 DEF FoldsPending, Unfolded
    <3>3. CASE c # u
      <4>1. task'[c] = task[c] \/ task'[c] = "queued"
        BY <1>0, <1>4, <3>3, LaunchTouches
      <4> QED BY <1>q, <1>w, <2>0, <3>2, <4>1
    <3>4. CASE c = u
      <4>1. CASE FailTemplate(u)
        <5>1. task' = [task EXCEPT ![u] = "failed"]
          BY <4>1 DEF FailTemplate
        <5>2. task'[u] = "failed" /\ u \in ToSet(settledQueue')
          BY <4>1, <5>1, LaunchLeaves DEF TypeOK
        <5> QED BY <1>w, <3>4, <5>2
      <4>2. CASE TryStep(u)
        <5>1. ~IsLocal(u)
          <6>1. ~IsLocal(p)
            BY ForeachType
          <6>2. p \in SpecTasks /\ p \notin Children
            BY ForeachType
          <6>3. DefOf(u) = [TaskDef[p] EXCEPT !.depends_on = {}] /\ DefOf(p) = TaskDef[p]
            BY <1>0, <3>4, <6>2 DEF DefOf, ParentOf
          <6> QED BY <6>1, <6>2, <6>3, TaskDefType DEF IsLocal, TaskRecord
        <5>2. task' = [task EXCEPT ![u] = "running"]
          BY <4>2, <5>1 DEF TryStep, LaunchWorker, LaunchLocal, Launch
        <5>3. task'[u] = "running"
          BY <5>2 DEF TypeOK
        <5> QED BY <1>q, <1>w, <3>4, <5>3
      <4>3. CASE ExpandStep(u)
        <5>1. task'[u] = task[u] \/ task'[u] = "queued" \/ u \in ForeachParents
          <6>1. CASE task'[u] = task[u]
            BY <6>1
          <6>2. CASE task'[u] # task[u]
            <7>1. ~FailTemplate(u) /\ ~TryStep(u) /\ ~(task[u] = "running") /\ u \notin inFlight
              <8>1. u \notin inFlight
                BY <2>0 DEF Inductive, LoopInvariant, LaunchesWhatWaits
              <8>2. ~FailTemplate(u) /\ ~TryStep(u)
                BY <4>3 DEF ExpandStep, FailTemplate, TryStep, LaunchWorker, LaunchLocal, Launch,
                   Reexpand, ExpandNothing, LogExpansion, SaveExpansion, Offered, MayLaunch
              <8> QED BY <2>0, <8>1, <8>2
            <7> QED BY <6>2, <7>1, StatusStep
          <6> QED BY <6>1, <6>2
        <5>2. task'[u] = "queued"
          BY <1>0, <2>0, <3>4, <5>1
        <5> QED BY <1>q, <1>w, <3>4, <5>2
      <4> QED BY <1>4, <4>1, <4>2, <4>3
    <3> QED BY <3>3, <3>4
  <2> QED BY <2>1, <2>2
<1>5. ASSUME NEW u \in AllTasks, Settle(u) PROVE Unfolded(p)'
  <2> PICK status \in WorkerOutcomes \cup {"cancelled", "running"} :
        \E value \in RouteValuesAfter(u, status) : WorkerSettles(u, status, value)
    BY <1>5 DEF Settle
  <2>1. /\ task' = [task EXCEPT ![u] = status] /\ pc \in {"wait", "aborting"}
        /\ settledQueue' = Append(settledQueue, u) /\ pc' = (IF pc = "wait" THEN "top" ELSE pc)
    BY DEF WorkerSettles
  <2>2. status \notin {"expanded", "absent"}
    BY OutcomesType DEF Retryable
  <2>3. task[p] = "expanded"
    BY <1>0, <2>1, <2>2 DEF TypeOK
  <2>4. PICK c \in ChildrenOf(p) : task[c] # "absent" /\ (task[c] \notin TerminalTask \/ c \in ToSet(settledQueue))
    BY <2>1, <2>3 DEF FoldsPending, Unfolded
  <2>5. ToSet(settledQueue') = ToSet(settledQueue) \cup {u}
    BY <2>1, ToSetAppend DEF TypeOK
  <2>6. task'[c] = IF c = u THEN status ELSE task[c]
    BY <1>0, <2>1 DEF TypeOK
  <2> QED BY <1>w, <2>2, <2>4, <2>5, <2>6
<1>6. CASE FlushResolved
  <2>1. /\ pc \in {"wait", "aborting"} /\ pc' = (IF pc = "wait" THEN "top" ELSE pc)
        /\ settledQueue' = settledQueue \o unflushed
        /\ \A t \in AllTasks : task'[t] = IF t \in ToSet(unflushed) /\ task[t] = "running" THEN "failed" ELSE task[t]
    BY <1>6 DEF FlushResolved
  <2>2. task[p] = "expanded"
    BY <1>0, <2>1
  <2>3. PICK c \in ChildrenOf(p) : task[c] # "absent" /\ (task[c] \notin TerminalTask \/ c \in ToSet(settledQueue))
    BY <2>1, <2>2 DEF FoldsPending, Unfolded
  <2>4. ToSet(settledQueue') = ToSet(settledQueue) \cup ToSet(unflushed)
    <3>1. pc \notin {"aborting", "sealed"}
      BY <2>1
    <3>2. IsInjective(settledQueue) /\ IsInjective(unflushed) /\ ToSet(settledQueue) \cap ToSet(unflushed) = {}
      BY <3>1 DEF VerdictInvariant, QueueAgrees
    <3> QED BY <2>1, <3>2, InjectiveConcat DEF TypeOK
  <2>5. task'[c] = task[c] \/ (task'[c] = "failed" /\ c \in ToSet(unflushed))
    BY <1>0, <2>1
  <2> QED BY <1>w, <2>3, <2>4, <2>5
<1>7. ~SealRun
  BY DEF SealRun
<1> QED BY <1>0, <1>1, <1>2, <1>3, <1>4, <1>5, <1>6, <1>7, StepKinds

\* Every step keeps something pending that will fold each expanded parent.
LEMMA FoldsPendingStep ==
  ASSUME ~MayResumeFailed, Untangled, Inductive, VerdictInvariant, OpenPhases(Board), Expansions',
         ParentsFirst, FoldsPending, [Next]_vars
  PROVE  FoldsPending'
<1> SUFFICES ASSUME pc' \notin {"off", "routes", "aborting", "sealed"}, NEW p \in ForeachParents,
                    task'[p] = "expanded"
             PROVE  Unfolded(p)' \/ (pc' = "parents" /\ p \in ready')
  BY DEF FoldsPending
<1>1. CASE FoldStep
  BY <1>1, FoldsPendingInFold
<1>2. CASE ~FoldStep
  BY <1>2, FoldsPendingElsewhere
<1> QED BY <1>1, <1>2

\* The invariant behind it
StrandInvariant ==
  OpenPhases(Board) /\ RetriesKnown /\ Expansions /\ ParentsFirst /\ FoldsPending

\* A fresh run has expanded nothing and waits for nothing.
LEMMA StrandInit == Init => StrandInvariant
<1> SUFFICES ASSUME Init PROVE StrandInvariant
  OBVIOUS
<1>1. \A t \in AllTasks : task[t] \in {"absent", "queued"}
  BY DEF Init
<1>2. ForeachParents \subseteq AllTasks /\ Children \subseteq AllTasks
  BY ForeachType DEF AllTasks
<1>3. OpenPhases(Board) /\ Expansions /\ FoldsPending
  BY <1>1, <1>2 DEF Init, OpenPhases, Board, Expansions, FoldsPending
<1>4. RetriesKnown /\ ParentsFirst
  BY <1>1, <1>2 DEF Init, RetriesKnown, ParentsFirst
<1> QED BY <1>3, <1>4 DEF StrandInvariant

\* Every step keeps it.
LEMMA StrandStep ==
  ASSUME ~MayResumeFailed, Untangled, Inductive, VerdictInvariant, ChildrenCreated,
         StrandInvariant, [Next]_vars
  PROVE  StrandInvariant'
<1>1. OpenPhases(Board) /\ RetriesKnown /\ Expansions /\ ParentsFirst /\ FoldsPending
  BY DEF StrandInvariant
<1>2. OpenPhases(Board')
  BY <1>1, OpenPhasesStep
<1>3. OpenPhases(Board)'
  BY <1>2 DEF OpenPhases, Shut
<1>4. Expansions'
  BY <1>1, ExpansionsStep
<1>5. RetriesKnown' /\ ParentsFirst'
  BY <1>1, RetriesKnownStep, ParentsFirstStep
<1>6. FoldsPending'
  BY <1>1, <1>4, FoldsPendingStep
<1> QED BY <1>3, <1>4, <1>5, <1>6 DEF StrandInvariant

\* When the run is out of work, a task that still waits lacks a dependency.
LEMMA OutOfWorkWaits ==
  ASSUME Untangled, Inductive, VerdictInvariant, StrandInvariant, OutOfWork,
         NEW t \in AllTasks, task[t] = "queued", ~Shut(Board, PhaseOf(t)),
         \A d \in DependsOn(t) : task[d] \in NonFailureTerminal
  PROVE  FALSE
<1>1. /\ pc = "launch" /\ inFlight = {} /\ settledQueue = <<>> /\ ~expandedThisPass
      /\ ready = {} /\ ~RetryPending
  BY DEF OutOfWork
<1>2. t \notin cooling
  BY <1>1 DEF RetryPending, StrandInvariant, RetriesKnown
<1>3. PhaseEntered(PhaseOf(t))
  BY PrerequisitesType DEF PhaseEntered, Untangled
<1>4. TaskIsReady(t)
  BY <1>1, <1>2, <1>3 DEF TaskIsReady, Shut, Board
<1> QED BY <1>1, <1>4 DEF StrandInvariant, RetriesKnown, ReadyTasks

\* Nor is a task running or a parent still expanded.
LEMMA OutOfWorkEnds ==
  ASSUME Untangled, Inductive, VerdictInvariant, StrandInvariant, OutOfWork, NEW t \in AllTasks
  PROVE  task[t] \notin {"running", "expanded"}
<1>1. pc = "launch" /\ inFlight = {} /\ settledQueue = <<>>
  BY DEF OutOfWork
<1>2. ASSUME NEW u \in AllTasks PROVE task[u] # "running"
  BY <1>1 DEF Inductive, LoopInvariant, AwaitsWhatRuns
<1>3. ASSUME task[t] = "expanded" PROVE FALSE
  <2>1. t \in ForeachParents
    BY <1>3 DEF StrandInvariant, Expansions
  <2>2. Unfolded(t)
    BY <1>1, <1>3, <2>1 DEF StrandInvariant, FoldsPending
  <2>3. PICK c \in ChildrenOf(t) : task[c] # "absent" /\ task[c] \notin TerminalTask
    BY <1>1, <2>2, EmptyQueue DEF Unfolded
  <2>4. c \in Children /\ c \in AllTasks /\ c \notin ForeachParents /\ PhaseOf(c) = PhaseOf(t)
    BY <2>3, ChildFacts, ForeachType DEF ChildrenOf
  <2>5. task[c] # "running" /\ task[c] # "expanded"
    BY <1>2, <2>4 DEF StrandInvariant, Expansions
  <2>6. task[c] = "queued"
    BY <2>3, <2>4, <2>5 DEF Inductive, TypeOK, TaskStatus
  <2>7. ~Shut(Board, PhaseOf(c))
    BY <1>3, <2>1, <2>4 DEF StrandInvariant, OpenPhases, Board
  <2>8. DependsOn(c) = {}
    BY <2>4, ForeachType, TaskDefType DEF DependsOn, DefOf, TaskRecord
  <2> QED BY <2>4, <2>6, <2>7, <2>8, OutOfWorkWaits
<1> QED BY <1>2, <1>3

\* So a run out of work has nothing left that could be live.
LEMMA StrandedNobody ==
  ASSUME Untangled, Inductive, VerdictInvariant, StrandInvariant
  PROVE  NothingStranded
<1> SUFFICES ASSUME OutOfWork
             PROVE  \A t \in AllTasks : PropagateSkips(Board).task[t] \notin {"queued", "running", "expanded"}
  BY DEF NothingStranded
<1> DEFINE b == PropagateSkips(Board)
<1>1. Progress(Board, b) /\ SkipsSettled(b)
  BY BoardType, PropagateSkipsEnds DEF Inductive
<1> HIDE DEF b
<1>2. \A t \in AllTasks : b.task[t] = task[t] \/ (task[t] = "queued" /\ b.task[t] = "skipped")
  BY <1>1 DEF Progress, Board
<1>3. \A p \in Phases : Shut(Board, p) => Shut(b, p)
  BY <1>1 DEF Progress, Shut, FinalPhase
<1>4. \A t \in AllTasks : b.task[t] \notin {"running", "expanded"}
  BY <1>2, OutOfWorkEnds
\* A task that waits depends on one that waits.
<1>5. ASSUME NEW t \in AllTasks, b.task[t] = "queued"
      PROVE  \E d \in DependsOn(t) : d \in SpecTasks /\ b.task[d] = "queued"
  <2>1. task[t] = "queued"
    BY <1>2, <1>5
  <2>2. SkipTask(b, t) = b /\ b \in Boards
    BY <1>1 DEF SkipsSettled, Progress
  <2>3. SkipTask(b, t).task[t] = "queued"
    BY <1>5, <2>2
  <2>4. /\ ~\E d \in DependsOn(t) : b.task[d] \in PermanentFailure
        /\ b.phase[PhaseOf(t)] \notin {"skipped", "failed"}
    BY <1>5, <2>2, <2>3 DEF SkipTask, Boards
  <2>5. ~Shut(Board, PhaseOf(t))
    BY <1>3, <2>4, PrerequisitesType DEF Shut
  <2>6. PICK d \in DependsOn(t) : task[d] \notin NonFailureTerminal
    BY <2>1, <2>5, OutOfWorkWaits
  <2>7. d \in SpecTasks /\ d \in AllTasks /\ d \notin Children
    <3>1. t \notin Children
      BY <2>6, ForeachType, TaskDefType DEF DependsOn, DefOf, TaskRecord
    <3>2. DependsOn(t) \subseteq SpecTasks
      BY <3>1, TaskDefType DEF DependsOn, DefOf, TaskRecord, AllTasks
    <3> QED BY <2>6, <3>2, ForeachType DEF AllTasks
  <2>8. task[d] # "absent"
    BY <2>7 DEF VerdictInvariant, QueueAgrees
  <2>9. b.task[d] = "queued"
    BY <1>2, <1>4, <2>2, <2>4, <2>6, <2>7, <2>8
       DEF Boards, TaskStatus, TerminalTask, PermanentFailure
  <2> QED BY <2>6, <2>7, <2>9
<1> DEFINE deps == [t \in SpecTasks |-> TaskDef[t].depends_on]
           S == {t \in SpecTasks : b.task[t] = "queued"}
<1>6. S = {}
  <2>1. IsFiniteSet(DOMAIN deps) /\ S \in SUBSET (DOMAIN deps)
    BY TasksFinite, FS_Subset DEF AllTasks
  <2>2. \A t \in DOMAIN deps : t \notin Upstream(deps)[t]
    BY GraphRules DEF DependencyClosure
  <2>3. ASSUME NEW t \in S PROVE \E d \in S : d \in deps[t]
    <3>1. t \in AllTasks /\ t \notin Children
      BY ForeachType DEF AllTasks
    <3>2. DependsOn(t) = TaskDef[t].depends_on
      BY <3>1 DEF DependsOn, DefOf
    <3> QED BY <1>5, <3>1, <3>2
  <2> HIDE DEF deps, S
  <2> QED BY <2>1, <2>2, <2>3, DescentEnds
<1>7. \A t \in AllTasks : b.task[t] # "queued"
  BY <1>5, <1>6
<1> QED BY <1>4, <1>7 DEF b

\* The scheduler never runs out of work while a task waits, runs or is expanded
\* (scheduler.js, the end of the loop), through retries, crashes and resumes,
\* where failed runs are not resumed and the phases do not wait for each other.
THEOREM SchedulerStrandsNobody ==
  ASSUME ~MayResumeFailed, Untangled
  PROVE  Spec => []NothingStranded
<1>1. Init => StrandInvariant
  BY StrandInit
<1>2. Inductive /\ VerdictInvariant /\ ChildrenCreated /\ StrandInvariant /\ [Next]_vars => StrandInvariant'
  BY StrandStep
<1>3. Inductive /\ VerdictInvariant /\ StrandInvariant => NothingStranded
  BY StrandedNobody
<1> QED BY <1>1, <1>2, <1>3, InductiveHolds, VerdictHolds, ChildrenCreatedHolds, PTL DEF Spec

-----------------------------------------------------------------------------
(* The life of the run                                                     *)

\* A process comes to the run by a start only.
LEMMA ProcessStarts ==
  ASSUME [Next]_vars, pc = "off", pc' # "off"
  PROVE  \E limit : StartRun(limit)
<1>1. ~Loop /\ ~Crash
  BY DEF Crash, Loop, Startup, ReapplyRoutes, RefoldParent, EnterLoop, Top, NoticeCancel,
     ExceedBudget, BeginDrain, Drain, FoldSucceeded, ScheduleRetry, FoldFailed, Draining,
     BeginLaunch, DrainForPause, PauseRun, Expand, Reexpand, ExpandNothing, LogExpansion,
     SaveExpansion, LaunchNext, ExhaustAgents, FailTemplate, LaunchWorker, LaunchLocal, Launch,
     Offered, MayLaunch, AfterLaunch, NextPass, AwaitRetry, AwaitWorkers, EndPass,
     FinishRun, OutOfWork, FlushResolved, Wake, Abort, SealRun, CloseRun
<1>2. \A t : ~Settle(t) /\ ~BackoffElapses(t)
  BY DEF Settle, WorkerSettles, BackoffElapses
<1>3. ~CancelIdleRun /\ ~RequestCancel /\ \A resumeFailed : ~ResumeRun(resumeFailed)
  BY DEF CancelIdleRun, RequestCancel, ResumeRun
<1>4. \A t, status : ~ZombieSettles(t, status)
  BY DEF ZombieSettles
<1> QED BY <1>1, <1>2, <1>3, <1>4 DEF Next, Commands, vars

\* Every step is a step of RunLifecycle or leaves the status and the process
\* as they are.
LEMMA LifeStep ==
  ASSUME Inductive, [Next]_vars
  PROVE  [Lifecycle!Next]_<<Life, pc # "off">>
<1> USE DEF runVars, Lifecycle!Over, TerminalRun
<1> TypeOK /\ LoopInvariant
  BY DEF Inductive
<1>1. pc # "off" => runStatus = "running"
  BY DEF LoopInvariant, RunningIsUnfinished
<1>2. ASSUME NEW limit, StartRun(limit) PROVE Lifecycle!Begin
  BY <1>2 DEF StartRun, Life, Lifecycle!Begin
<1>3. ASSUME NEW resumeFailed, ResumeRun(resumeFailed)
      PROVE  Lifecycle!Recover \/ Lifecycle!ResumeFailed \/ UNCHANGED <<Life, pc # "off">>
  BY <1>3 DEF ResumeRun, Life, Lifecycle!Recover, Lifecycle!ResumeFailed, TypeOK
<1>4. ASSUME CancelIdleRun PROVE Lifecycle!Cancel
  <2>1. /\ pc = "off" /\ pc' = "off" /\ runStatus \notin {"completed", "cancelled"}
        /\ runStatus' = "cancelled" /\ outcome' = "cancelled"
    BY <1>4 DEF CancelIdleRun
  <2>2. Life \notin {"completed", "partial", "cancelled"}
    BY <2>1 DEF Life, TypeOK
  <2> QED BY <2>1, <2>2 DEF Life, Lifecycle!Cancel
<1>5. CASE PauseRun \/ CloseRun \/ FinishRun
  <2>1. runStatus = "running" /\ pc # "off" /\ pc' = "off"
    BY <1>1, <1>5 DEF PauseRun, CloseRun, FinishRun, OutOfWork
  <2>2. runStatus' \in {"paused", "failed", "cancelled", "completed"}
    BY <1>5 DEF PauseRun, CloseRun, FinishRun, TypeOK, LoopInvariant, AbortsWhatRuns
  <2>3. Lifecycle!End
    BY <2>1, <2>2 DEF Life, Lifecycle!End
  <2> QED BY <2>3 DEF Lifecycle!Next
<1>6. CASE UNCHANGED runVars
  <2>1. Life' = Life
    BY <1>6 DEF Life
  <2>2. CASE pc = "off" /\ pc' # "off"
    <3>1. \E limit : StartRun(limit)
      BY <2>2, ProcessStarts
    <3> QED BY <3>1, <1>2 DEF Lifecycle!Next
  <2>3. CASE pc # "off" /\ pc' = "off"
    BY <2>1, <2>3 DEF Lifecycle!Leave, Lifecycle!Next
  <2> QED BY <2>1, <2>2, <2>3
<1> QED BY <1>2, <1>3, <1>4, <1>5, <1>6, RunVarsKept DEF Lifecycle!Next

\* The scheduler implements the life of a run as RunLifecycle intends it: as
\* long as one orchestrator and one command at a time are at work, starts,
\* crashes, resumes and cancels take none of its late steps.
THEOREM SchedulerFollowsLifecycle == Spec => FollowsLifecycle
<1>1. Inductive /\ [Next]_vars => [Lifecycle!Next]_<<Life, pc # "off">>
  BY LifeStep
<1> QED BY <1>1, InductiveHolds, PTL DEF Spec, FollowsLifecycle
=============================================================================
