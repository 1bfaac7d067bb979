-------------------------- MODULE PlannedRunProofs --------------------------
(***************************************************************************)
(* What validateWorkflowSpec guarantees the run, for every set of tasks    *)
(* and phases, every draft and every number of edits.                      *)
(***************************************************************************)
EXTENDS PlannedRun, FiniteSetTheorems, WellFoundedInduction, TLAPS

-----------------------------------------------------------------------------
(* Loops and recursion                                                     *)

\* Induction over the naturals, stated of a set
LEMMA NaturalInduction ==
  ASSUME NEW Y, 0 \in Y, \A n \in Nat : n \in Y => n + 1 \in Y
  PROVE  Nat \subseteq Y
<1> DEFINE R == {ss \in Nat \X Nat : ss[1] < ss[2]}
           T == Nat \ Y
<1>1. IsWellFoundedOn(R, Nat)
  BY NatLessThanWellFounded DEF OpToRel
<1> SUFFICES ASSUME T # {} PROVE FALSE
  OBVIOUS
<1>2. T \subseteq Nat /\ T # {}
  OBVIOUS
<1> HIDE DEF R, T
<1>3. PICK x \in T : \A y \in T : ~ (<<y, x>> \in R)
  BY <1>1, <1>2, WFMin
<1>4. x \in Nat /\ x \notin Y /\ x # 0
  BY <1>3 DEF T
<1>5. x - 1 \in Nat /\ x - 1 \notin Y
  BY <1>4
<1>6. x - 1 \in T /\ <<x - 1, x>> \in R
  BY <1>4, <1>5 DEF T, R
<1> QED BY <1>3, <1>6

\* Every non-empty set of naturals has a least element.
LEMMA LeastNatural ==
  ASSUME NEW T \in SUBSET Nat, T # {}
  PROVE  \E n \in T : \A m \in T : n <= m
<1> DEFINE R == {ss \in Nat \X Nat : ss[1] < ss[2]}
<1>1. IsWellFoundedOn(R, Nat)
  BY NatLessThanWellFounded DEF OpToRel
<1> HIDE DEF R
<1>2. PICK x \in T : \A y \in T : ~ (<<y, x>> \in R)
  BY <1>1, WFMin
<1>3. ASSUME NEW y \in T PROVE x <= y
  <2>1. ~ (<<y, x>> \in R) /\ x \in Nat /\ y \in Nat
    BY <1>2
  <2>2. ~ (y < x)
    BY <2>1 DEF R
  <2> QED BY <2>1, <2>2
<1> QED BY <1>3

\* The passes of a loop over a list, one after the other
LEMMA SweepTable ==
  ASSUME NEW f, NEW start, NEW E, NEW list \in Seq(E)
  PROVE  \E after : /\ Sweep(f, start, list) = after[Len(list)] /\ after[0] = start
                    /\ \A k \in 1 .. Len(list) : after[k] = f[list[k]][after[k - 1]]
<1> DEFINE Passes(n, g) ==
             [k \in 0 .. n |-> IF k = 0 THEN start ELSE f[list[k]][g[k - 1]]]
           Y == {n \in Nat : n <= Len(list) => \E g : g = Passes(n, g)}
           After == CHOOSE g : g = Passes(Len(list), g)
<1>1. 0 \in Y
  <2> DEFINE g == [k \in 0 .. 0 |-> start]
  <2>1. g = Passes(0, g)
    OBVIOUS
  <2> QED BY <2>1
<1>2. ASSUME NEW n \in Nat, n \in Y PROVE n + 1 \in Y
  <2> HIDE DEF Passes
  <2> SUFFICES ASSUME n + 1 <= Len(list) PROVE \E g : g = Passes(n + 1, g)
    OBVIOUS
  <2> USE DEF Passes
  <2>1. PICK g : g = Passes(n, g)
    BY <1>2
  <2> DEFINE h == [k \in 0 .. n + 1 |-> IF k <= n THEN g[k] ELSE f[list[n + 1]][g[n]]]
  <2>2. \A k \in 0 .. n : g[k] = Passes(n, g)[k]
    BY <2>1
  <2>3. \A k \in 0 .. n + 1 : h[k] = Passes(n + 1, h)[k]
    BY <2>2
  <2>4. h = Passes(n + 1, h)
    BY <2>3
  <2> HIDE DEF h, Passes
  <2> QED BY <2>4
<1>3. Nat \subseteq Y
  <2> HIDE DEF Y
  <2> QED BY <1>1, <1>2, NaturalInduction
<1>4. Len(list) \in Nat
  OBVIOUS
<1>5. After = Passes(Len(list), After)
  <2>1. \E g : g = Passes(Len(list), g)
    <3> HIDE DEF Passes
    <3> QED BY <1>3, <1>4
  <2> HIDE DEF Passes
  <2> QED BY <2>1
<1>6. Sweep(f, start, list) = After[Len(list)]
  BY DEF Sweep
<1>7. After[0] = start /\ \A k \in 1 .. Len(list) : After[k] = f[list[k]][After[k - 1]]
  <2> HIDE DEF After
  <2>1. \A k \in 0 .. Len(list) : After[k] = IF k = 0 THEN start ELSE f[list[k]][After[k - 1]]
    BY <1>4, <1>5
  <2> QED BY <1>4, <2>1
<1> QED BY <1>6, <1>7

\* What every pass keeps holds at the end: I pairs the passes made with what
\* they may have come to.
LEMMA SweepKeeps ==
  ASSUME NEW f, NEW start, NEW E, NEW list \in Seq(E), NEW I, <<0, start>> \in I,
         \A k \in 1 .. Len(list) : \A x : <<k - 1, x>> \in I => <<k, f[list[k]][x]>> \in I
  PROVE  <<Len(list), Sweep(f, start, list)>> \in I
<1>1. PICK after : /\ Sweep(f, start, list) = after[Len(list)] /\ after[0] = start
                   /\ \A k \in 1 .. Len(list) : after[k] = f[list[k]][after[k - 1]]
  BY SweepTable
<1> DEFINE Y == {n \in Nat : n <= Len(list) => <<n, after[n]>> \in I}
<1>2. 0 \in Y
  BY <1>1
<1>3. ASSUME NEW n \in Nat, n \in Y PROVE n + 1 \in Y
  <2> SUFFICES ASSUME n + 1 <= Len(list) PROVE <<n + 1, after[n + 1]>> \in I
    OBVIOUS
  <2>1. n + 1 \in 1 .. Len(list) /\ (n + 1) - 1 = n /\ <<n, after[n]>> \in I
    BY <1>3
  <2>2. after[n + 1] = f[list[n + 1]][after[n]]
    BY <1>1, <2>1
  <2> QED BY <2>1, <2>2
<1>4. Nat \subseteq Y
  <2> HIDE DEF Y
  <2> QED BY <1>2, <1>3, NaturalInduction
<1>5. Len(list) \in Nat
  OBVIOUS
<1> QED BY <1>1, <1>4, <1>5

\* The calls of visit, by their depth
LEMMA VisitsTable ==
  ASSUME NEW list, NEW nodes, IsFiniteSet(nodes), NEW dep
  PROVE  /\ \A v \in nodes : \A walk \in Walks(nodes) : Visits(list, nodes, dep)[0][v][walk] = walk
         /\ \A n \in 1 .. Cardinality(nodes) :
              Visits(list, nodes, dep)[n] =
                Call(list, nodes, dep, Visits(list, nodes, dep)[n - 1])
<1> DEFINE base == [v \in nodes |-> [walk \in Walks(nodes) |-> walk]]
           Depths(n, g) ==
             [k \in 0 .. n |-> IF k = 0 THEN base ELSE Call(list, nodes, dep, g[k - 1])]
           Y == {n \in Nat : \E g : g = Depths(n, g)}
           V == CHOOSE g : g = Depths(Cardinality(nodes), g)
<1>1. Visits(list, nodes, dep) = V
  BY DEF Visits
<1>2. Cardinality(nodes) \in Nat
  BY FS_CardinalityType
<1> HIDE DEF base
<1>3. 0 \in Y
  <2> DEFINE g == [k \in 0 .. 0 |-> base]
  <2>1. g = Depths(0, g)
    OBVIOUS
  <2> QED BY <2>1
<1>4. ASSUME NEW n \in Nat, n \in Y PROVE n + 1 \in Y
  <2>1. PICK g : g = Depths(n, g)
    BY <1>4
  <2> DEFINE h == [k \in 0 .. n + 1 |->
                     IF k <= n THEN g[k] ELSE Call(list, nodes, dep, g[n])]
  <2>2. \A k \in 0 .. n : g[k] = Depths(n, g)[k]
    BY <2>1
  <2>3. \A k \in 0 .. n + 1 : h[k] = Depths(n + 1, h)[k]
    BY <2>2
  <2>4. h = Depths(n + 1, h)
    BY <2>3
  <2>5. \E g1 : g1 = Depths(n + 1, g1)
    BY <2>4
  <2> HIDE DEF Depths
  <2> QED BY <2>5
<1>5. Nat \subseteq Y
  <2> HIDE DEF Y
  <2> QED BY <1>3, <1>4, NaturalInduction
<1>6. V = Depths(Cardinality(nodes), V)
  BY <1>2, <1>5
<1>7. V[0] = base /\ \A n \in 1 .. Cardinality(nodes) : V[n] = Call(list, nodes, dep, V[n - 1])
  <2> HIDE DEF V
  <2>1. \A k \in 0 .. Cardinality(nodes) :
          V[k] = IF k = 0 THEN base ELSE Call(list, nodes, dep, V[k - 1])
    BY <1>2, <1>6
  <2> QED BY <1>2, <2>1
<1> HIDE DEF V
<1> QED BY <1>1, <1>7 DEF base

\* The calls of dependencyClosure, by their depth
LEMMA ClosuresTable ==
  ASSUME NEW w
  PROVE  /\ \A t \in TaskIds : \A memo \in Memos : Closures(w)[0][t][memo] = memo
         /\ \A n \in 1 .. Cardinality(TaskIds) :
              Closures(w)[n] = CloseOne(w, Closures(w)[n - 1])
<1> DEFINE base == [t \in TaskIds |-> [memo \in Memos |-> memo]]
           Depths(n, g) == [k \in 0 .. n |-> IF k = 0 THEN base ELSE CloseOne(w, g[k - 1])]
           Y == {n \in Nat : \E g : g = Depths(n, g)}
           V == CHOOSE g : g = Depths(Cardinality(TaskIds), g)
<1>1. Closures(w) = V
  BY DEF Closures
<1>2. Cardinality(TaskIds) \in Nat
  BY FS_CardinalityType, IdsAreFinite
<1> HIDE DEF base
<1>3. 0 \in Y
  <2> DEFINE g == [k \in 0 .. 0 |-> base]
  <2>1. g = Depths(0, g)
    OBVIOUS
  <2> QED BY <2>1
<1>4. ASSUME NEW n \in Nat, n \in Y PROVE n + 1 \in Y
  <2>1. PICK g : g = Depths(n, g)
    BY <1>4
  <2> DEFINE h == [k \in 0 .. n + 1 |-> IF k <= n THEN g[k] ELSE CloseOne(w, g[n])]
  <2>2. \A k \in 0 .. n : g[k] = Depths(n, g)[k]
    BY <2>1
  <2>3. \A k \in 0 .. n + 1 : h[k] = Depths(n + 1, h)[k]
    BY <2>2
  <2>4. h = Depths(n + 1, h)
    BY <2>3
  <2>5. \E g1 : g1 = Depths(n + 1, g1)
    BY <2>4
  <2> HIDE DEF Depths
  <2> QED BY <2>5
<1>5. Nat \subseteq Y
  <2> HIDE DEF Y
  <2> QED BY <1>3, <1>4, NaturalInduction
<1>6. V = Depths(Cardinality(TaskIds), V)
  BY <1>2, <1>5
<1>7. V[0] = base /\ \A n \in 1 .. Cardinality(TaskIds) : V[n] = CloseOne(w, V[n - 1])
  <2> HIDE DEF V
  <2>1. \A k \in 0 .. Cardinality(TaskIds) :
          V[k] = IF k = 0 THEN base ELSE CloseOne(w, V[k - 1])
    BY <1>2, <1>6
  <2> QED BY <1>2, <2>1
<1> HIDE DEF V
<1> QED BY <1>1, <1>7 DEF base

\* What a node reaches: its edges, and the edges of what it reaches
LEMMA ReachIsClosed ==
  ASSUME NEW N, NEW dep \in [N -> SUBSET N], NEW t \in N
  PROVE  /\ dep[t] \subseteq Reach(N, dep, t) /\ Reach(N, dep, t) \subseteq N
         /\ \A u \in Reach(N, dep, t) : dep[u] \subseteq Reach(N, dep, t)
<1>1. dep[t] \subseteq Reach(N, dep, t) /\ Reach(N, dep, t) \subseteq N
  BY DEF Reach
<1>2. ASSUME NEW u \in Reach(N, dep, t), NEW d \in dep[u], NEW S \in SUBSET N,
             dep[t] \subseteq S, \A x \in S : dep[x] \subseteq S
      PROVE  d \in S
  BY <1>2 DEF Reach
<1>3. \A u \in Reach(N, dep, t) : dep[u] \subseteq N
  BY <1>1
<1> QED BY <1>1, <1>2, <1>3 DEF Reach

\* A set that holds the dependencies of t and is closed holds what t reaches.
LEMMA ReachIsLeast ==
  ASSUME NEW N, NEW dep, NEW t, NEW S \in SUBSET N,
         dep[t] \subseteq S, \A u \in S : dep[u] \subseteq S
  PROVE  Reach(N, dep, t) \subseteq S
  BY DEF Reach

-----------------------------------------------------------------------------
(* The depth-first search                                                  *)

\* The edges between the nodes of the search
Within(nodes, dep) == [v \in nodes |-> dep[v] \cap nodes]

Cyclic(nodes, edges) == \E v \in nodes : v \in Reach(nodes, edges, v)

Painted(walk, color) == {v \in DOMAIN walk.color : walk.color[v] = color}

\* The black nodes lead to black nodes only, and none of them is on a cycle.
Settled(nodes, edges, walk) ==
  \A b \in Painted(walk, "black") :
    edges[b] \subseteq Painted(walk, "black") /\ b \notin Reach(nodes, edges, b)

\* When v is visited it is white, no cycle has been found, and every node of
\* the path leads to it.
MayVisit(nodes, edges, walk, v) ==
  /\ walk \in Walks(nodes) /\ ~walk.cycle /\ v \in Painted(walk, "white")
  /\ Settled(nodes, edges, walk)
  /\ \A g \in Painted(walk, "gray") : v \in Reach(nodes, edges, g)

\* After the visit v is black and the path what it was, or there is a cycle.
Visited(nodes, edges, walk, v, next) ==
  /\ next \in Walks(nodes)
  /\ next.cycle => Cyclic(nodes, edges)
  /\ ~next.cycle =>
       /\ Painted(next, "gray") = Painted(walk, "gray")
       /\ Painted(walk, "black") \cup {v} \subseteq Painted(next, "black")
       /\ Settled(nodes, edges, next)

\* A function that does what visit should, while so few nodes are white
VisitsWell(nodes, edges, n, visit) ==
  \A v \in nodes : \A walk \in Walks(nodes) :
    /\ walk.cycle => visit[v][walk] = walk
    /\ MayVisit(nodes, edges, walk, v) /\ Cardinality(Painted(walk, "white")) <= n =>
         Visited(nodes, edges, walk, v, visit[v][walk])

\* The loop of a call through the first k of the list
FrameHolds(list, nodes, edges, walk, v, k, frame) ==
  /\ frame.walk.cycle => Cyclic(nodes, edges)
  /\ frame.returned => frame.walk.cycle
  /\ ~frame.walk.cycle =>
       /\ Painted(frame.walk, "gray") = Painted(walk, "gray") \cup {v}
       /\ Painted(walk, "black") \subseteq Painted(frame.walk, "black")
       /\ Settled(nodes, edges, frame.walk)
       /\ \A j \in 1 .. k : list[j] \in edges[v] => list[j] \in Painted(frame.walk, "black")

\* One pass of the loop
LEMMA FollowKeeps ==
  ASSUME NEW list, NEW nodes, IsFiniteSet(nodes), NEW dep, NEW visit, NEW n \in Nat,
         VisitsWell(nodes, Within(nodes, dep), n, visit),
         NEW walk, NEW v \in nodes, MayVisit(nodes, Within(nodes, dep), walk, v),
         Cardinality(Painted(walk, "white")) <= n + 1,
         NEW k \in Nat, NEW frame \in Frames(nodes),
         FrameHolds(list, nodes, Within(nodes, dep), walk, v, k, frame),
         list[k + 1] \in ToSet(list)
  PROVE  LET next == Follow(list, nodes, dep[v], visit)[list[k + 1]][frame]
         IN  /\ next \in Frames(nodes)
             /\ FrameHolds(list, nodes, Within(nodes, dep), walk, v, k + 1, next)
<1> DEFINE E == Within(nodes, dep)
           d == list[k + 1]
           next == Follow(list, nodes, dep[v], visit)[d][frame]
<1>1. E \in [nodes -> SUBSET nodes] /\ E[v] = dep[v] \cap nodes
  BY DEF Within
<1>2. next = IF frame.returned \/ d \notin E[v] THEN frame
             ELSE IF OnPath(frame.walk, d)
               THEN [walk |-> [frame.walk EXCEPT !.cycle = TRUE], returned |-> TRUE]
             ELSE IF frame.walk.color[d] = "white" THEN [frame EXCEPT !.walk = visit[d][frame.walk]]
             ELSE frame
  BY <1>1 DEF Follow
<1>3. /\ frame.walk \in Walks(nodes) /\ frame.returned \in BOOLEAN
      /\ frame = [walk |-> frame.walk, returned |-> frame.returned]
  BY DEF Frames
<1>4. DOMAIN frame.walk.color = nodes /\ DOMAIN walk.color = nodes
  BY <1>3 DEF Walks, MayVisit
<1>5. \A j \in 1 .. k + 1 : j \in 1 .. k \/ j = k + 1
  OBVIOUS
<1> HIDE DEF E, next
<1>6. FrameHolds(list, nodes, E, walk, v, k, frame) /\ MayVisit(nodes, E, walk, v)
      /\ VisitsWell(nodes, E, n, visit)
  BY DEF E
<1>7. CASE frame.returned \/ d \notin E[v]
  <2>1. next = frame
    BY <1>2, <1>7
  <2> HIDE DEF d
  <2>2. ~frame.walk.cycle => \A j \in 1 .. k + 1 : list[j] \in E[v] => list[j] \in Painted(frame.walk, "black")
    BY <1>5, <1>6, <1>7 DEF FrameHolds, d
  <2>3. FrameHolds(list, nodes, E, walk, v, k + 1, frame)
    BY <1>6, <2>2 DEF FrameHolds
  <2> QED BY <2>1, <2>3 DEF E, next, d
<1>8. CASE ~frame.returned /\ d \in E[v] /\ OnPath(frame.walk, d)
  <2>1. next = [walk |-> [frame.walk EXCEPT !.cycle = TRUE], returned |-> TRUE]
    BY <1>2, <1>8
  <2>2. next \in Frames(nodes) /\ next.walk.cycle = TRUE
    BY <1>3, <2>1 DEF Frames, Walks
  <2>3. Cyclic(nodes, E)
    <3>1. CASE frame.walk.cycle
      BY <1>6, <3>1 DEF FrameHolds
    <3>2. CASE ~frame.walk.cycle
      <4>1. d \in Painted(walk, "gray") \cup {v} /\ d \in nodes
        BY <1>1, <1>4, <1>6, <1>8, <3>2 DEF FrameHolds, Painted, OnPath
      <4>2. d # v => v \in Reach(nodes, E, d)
        BY <1>6, <4>1 DEF MayVisit
      <4>3. d \in Reach(nodes, E, d)
        BY <1>1, <1>8, <4>1, <4>2, ReachIsClosed
      <4> QED BY <4>1, <4>3 DEF Cyclic
    <3> QED BY <3>1, <3>2
  <2>4. FrameHolds(list, nodes, E, walk, v, k + 1, next)
    BY <2>2, <2>3 DEF FrameHolds
  <2> QED BY <2>2, <2>4 DEF E, next, d
<1>9. CASE ~frame.returned /\ d \in E[v] /\ ~OnPath(frame.walk, d) /\ frame.walk.color[d] = "white"
  <2> DEFINE after == visit[d][frame.walk]
  <2>1. next = [walk |-> after, returned |-> frame.returned]
    BY <1>2, <1>3, <1>9
  <2>2. d \in nodes
    BY <1>1, <1>9
  <2>3. CASE frame.walk.cycle
    <3>1. after = frame.walk
      BY <1>3, <1>6, <2>2, <2>3 DEF VisitsWell
    <3>2. next = frame
      BY <1>3, <2>1, <3>1
    <3>3. FrameHolds(list, nodes, E, walk, v, k + 1, frame)
      BY <1>6, <2>3 DEF FrameHolds
    <3> QED BY <3>2, <3>3 DEF E, next, d
  <2>4. CASE ~frame.walk.cycle
    <3>1. /\ Painted(frame.walk, "gray") = Painted(walk, "gray") \cup {v}
          /\ Painted(walk, "black") \subseteq Painted(frame.walk, "black")
          /\ Settled(nodes, E, frame.walk)
      BY <1>6, <2>4 DEF FrameHolds
    <3>2. MayVisit(nodes, E, frame.walk, d)
      <4>1. ASSUME NEW g \in Painted(frame.walk, "gray") PROVE d \in Reach(nodes, E, g)
        <5>1. g \in nodes /\ (g # v => v \in Reach(nodes, E, g))
          BY <1>4, <1>6, <3>1 DEF Painted, MayVisit
        <5> QED BY <1>1, <1>9, <5>1, ReachIsClosed
      <4>2. d \in Painted(frame.walk, "white")
        BY <1>4, <1>9, <2>2 DEF Painted
      <4> QED BY <1>3, <2>4, <3>1, <4>1, <4>2 DEF MayVisit
    <3>3. Cardinality(Painted(frame.walk, "white")) <= n
      <4> DEFINE W == Painted(walk, "white")
      <4>1. Painted(frame.walk, "white") \subseteq W \ {v} /\ v \in W /\ W \subseteq nodes
        <5>1. ASSUME NEW u \in nodes, frame.walk.color[u] = "white"
              PROVE  walk.color[u] = "white" /\ u # v
          <6>1. u \notin Painted(frame.walk, "gray") /\ u \notin Painted(frame.walk, "black")
            BY <5>1 DEF Painted
          <6>2. u \notin Painted(walk, "gray") /\ u \notin Painted(walk, "black") /\ u # v
            BY <3>1, <6>1
          <6>3. walk.color[u] \in {"white", "gray", "black"}
            BY <1>6 DEF MayVisit, Walks
          <6> QED BY <1>4, <6>2, <6>3 DEF Painted
        <5>2. v \in W
          BY <1>6 DEF MayVisit
        <5> QED BY <1>4, <5>1, <5>2 DEF Painted
      <4>2. IsFiniteSet(W) /\ Cardinality(W) \in Nat
        <5> HIDE DEF W
        <5> QED BY <4>1, FS_Subset, FS_CardinalityType
      <4>3. IsFiniteSet(W \ {v}) /\ Cardinality(W \ {v}) = Cardinality(W) - 1
        <5> HIDE DEF W
        <5> QED BY <4>1, <4>2, FS_RemoveElement
      <4>4. Cardinality(Painted(frame.walk, "white")) <= Cardinality(W \ {v})
        <5> HIDE DEF W
        <5> QED BY <4>1, <4>3, FS_Subset
      <4>5. Cardinality(Painted(frame.walk, "white")) \in Nat
        <5> HIDE DEF W
        <5> QED BY <4>1, <4>3, FS_Subset, FS_CardinalityType
      <4> QED BY <4>2, <4>3, <4>4, <4>5
    <3>4. Visited(nodes, E, frame.walk, d, after)
      BY <1>3, <1>6, <2>2, <3>2, <3>3 DEF VisitsWell
    <3> HIDE DEF after
    <3>5. next \in Frames(nodes) /\ next.walk = after /\ next.returned = FALSE
      BY <1>3, <1>9, <2>1, <3>4 DEF Frames, Visited
    <3>6. FrameHolds(list, nodes, E, walk, v, k + 1, next)
      <4>1. after.cycle => Cyclic(nodes, E)
        BY <3>4 DEF Visited
      <4>2. ~after.cycle =>
              /\ Painted(after, "gray") = Painted(walk, "gray") \cup {v}
              /\ Painted(frame.walk, "black") \cup {d} \subseteq Painted(after, "black")
              /\ Settled(nodes, E, after)
        BY <3>1, <3>4 DEF Visited
      <4>3. ASSUME ~after.cycle, NEW j \in 1 .. k + 1, list[j] \in E[v]
            PROVE  list[j] \in Painted(after, "black")
        BY <1>5, <1>6, <2>4, <4>2, <4>3 DEF FrameHolds
      <4> QED BY <1>9, <3>1, <3>5, <4>1, <4>2, <4>3 DEF FrameHolds
    <3> QED BY <3>5, <3>6 DEF E, next, d
  <2> QED BY <2>3, <2>4
<1>10. CASE ~frame.returned /\ d \in E[v] /\ ~OnPath(frame.walk, d) /\ frame.walk.color[d] # "white"
  <2>1. next = frame
    BY <1>2, <1>10
  <2>2. d \in nodes /\ frame.walk.color[d] \in {"white", "gray", "black"}
    BY <1>1, <1>3, <1>10 DEF Walks
  <2>3. d \in Painted(frame.walk, "black")
    BY <1>4, <1>10, <2>2 DEF Painted, OnPath
  <2>4. ~frame.walk.cycle => \A j \in 1 .. k + 1 : list[j] \in E[v] => list[j] \in Painted(frame.walk, "black")
    BY <1>5, <1>6, <2>3 DEF FrameHolds
  <2>5. FrameHolds(list, nodes, E, walk, v, k + 1, frame)
    BY <1>6, <2>4 DEF FrameHolds
  <2> QED BY <2>1, <2>5 DEF E, next, d
<1> QED BY <1>7, <1>8, <1>9, <1>10

\* One call of visit, when the calls it makes are right
LEMMA CallVisits ==
  ASSUME NEW X, NEW list \in Seq(X), NEW nodes, IsFiniteSet(nodes), nodes \subseteq ToSet(list),
         NEW dep, NEW visit, NEW n \in Nat, VisitsWell(nodes, Within(nodes, dep), n, visit)
  PROVE  VisitsWell(nodes, Within(nodes, dep), n + 1, Call(list, nodes, dep, visit))
<1> DEFINE E == Within(nodes, dep)
<1> SUFFICES ASSUME NEW v \in nodes, NEW walk \in Walks(nodes)
             PROVE  LET next == Call(list, nodes, dep, visit)[v][walk]
                    IN  /\ walk.cycle => next = walk
                        /\ MayVisit(nodes, E, walk, v)
                           /\ Cardinality(Painted(walk, "white")) <= n + 1 =>
                             Visited(nodes, E, walk, v, next)
  BY DEF VisitsWell
<1> DEFINE f == Follow(list, nodes, dep[v], visit)
           entered == [walk |-> [walk EXCEPT !.color[v] = "gray"], returned |-> FALSE]
           last == Sweep(f, entered, list)
           next == Call(list, nodes, dep, visit)[v][walk]
<1>1. next = IF walk.cycle THEN walk
             ELSE IF last.returned THEN last.walk
             ELSE [last.walk EXCEPT !.color[v] = "black"]
  BY DEF Call
<1> HIDE DEF next
<1>2. walk.cycle => next = walk
  BY <1>1
<1>3. ASSUME MayVisit(nodes, E, walk, v), Cardinality(Painted(walk, "white")) <= n + 1
      PROVE  Visited(nodes, E, walk, v, next)
  <2> DEFINE I == {p \in (0 .. Len(list)) \X Frames(nodes) :
                     FrameHolds(list, nodes, E, walk, v, p[1], p[2])}
  <2>1. E \in [nodes -> SUBSET nodes] /\ E[v] = dep[v] \cap nodes
    BY DEF Within
  <2>2. /\ DOMAIN walk.color = nodes /\ walk.color \in [nodes -> {"white", "gray", "black"}]
        /\ walk.cycle = FALSE /\ walk.color[v] = "white" /\ Settled(nodes, E, walk)
        /\ walk = [color |-> walk.color, cycle |-> walk.cycle]
    BY <1>3 DEF MayVisit, Painted, Walks
  <2> HIDE DEF E
  <2>3. <<0, entered>> \in I
    <3>1. entered \in Frames(nodes) /\ entered.walk.cycle = FALSE /\ entered.returned = FALSE
      BY <2>2 DEF Frames, Walks
    <3>2. /\ entered.walk.color \in [nodes -> {"white", "gray", "black"}]
          /\ entered.walk.color[v] = "gray"
          /\ \A u \in nodes \ {v} : entered.walk.color[u] = walk.color[u]
      BY <2>2
    <3> HIDE DEF entered
    <3>3. /\ Painted(entered.walk, "gray") = Painted(walk, "gray") \cup {v}
          /\ Painted(entered.walk, "black") = Painted(walk, "black")
      BY <2>2, <3>2 DEF Painted
    <3>4. Settled(nodes, E, entered.walk)
      BY <2>2, <3>3 DEF Settled
    <3>5. FrameHolds(list, nodes, E, walk, v, 0, entered)
      BY <3>1, <3>3, <3>4 DEF FrameHolds
    <3>6. 0 \in 0 .. Len(list)
      OBVIOUS
    <3> QED BY <3>1, <3>5, <3>6
  <2>4. ASSUME NEW k \in 1 .. Len(list), NEW x, <<k - 1, x>> \in I
        PROVE  <<k, f[list[k]][x]>> \in I
    <3>1. /\ k - 1 \in Nat /\ (k - 1) + 1 = k /\ k \in 0 .. Len(list) /\ list[k] \in ToSet(list)
          /\ x \in Frames(nodes) /\ FrameHolds(list, nodes, E, walk, v, k - 1, x)
      BY <2>4 DEF ToSet
    <3> DEFINE j == k - 1
    <3>2. j \in Nat /\ list[j + 1] = list[k] /\ list[j + 1] \in ToSet(list)
          /\ FrameHolds(list, nodes, E, walk, v, j, x) /\ j + 1 = k
      BY <3>1
    <3> HIDE DEF j
    <3>3. /\ f[list[j + 1]][x] \in Frames(nodes)
          /\ FrameHolds(list, nodes, E, walk, v, j + 1, f[list[j + 1]][x])
      BY <1>3, <3>1, <3>2, FollowKeeps DEF E
    <3> HIDE DEF f
    <3> QED BY <3>1, <3>2, <3>3
  <2>5. <<Len(list), last>> \in I
    <3> HIDE DEF I, f, entered
    <3> QED BY <2>3, <2>4, SweepKeeps
  <2>6. last \in Frames(nodes) /\ FrameHolds(list, nodes, E, walk, v, Len(list), last)
    BY <2>5
  <2> HIDE DEF last
  <2>7. CASE last.returned
    <3>1. next = last.walk
      BY <1>1, <2>2, <2>7
    <3> QED BY <2>6, <2>7, <3>1 DEF FrameHolds, Visited, Frames
  <2>8. CASE ~last.returned
    <3>1. next = [last.walk EXCEPT !.color[v] = "black"] /\ last.walk \in Walks(nodes)
      BY <1>1, <2>2, <2>6, <2>8 DEF Frames
    <3>2. /\ next \in Walks(nodes) /\ next.cycle = last.walk.cycle /\ DOMAIN next.color = nodes
          /\ DOMAIN last.walk.color = nodes /\ next.color[v] = "black"
          /\ \A u \in nodes \ {v} : next.color[u] = last.walk.color[u]
      BY <3>1 DEF Walks
    <3>3. CASE last.walk.cycle
      BY <2>6, <3>2, <3>3 DEF FrameHolds, Visited
    <3>4. CASE ~last.walk.cycle
      <4> DEFINE B == Painted(last.walk, "black")
      <4>1. /\ Painted(last.walk, "gray") = Painted(walk, "gray") \cup {v}
            /\ Painted(walk, "black") \subseteq B
            /\ Settled(nodes, E, last.walk)
            /\ \A j \in 1 .. Len(list) : list[j] \in E[v] => list[j] \in B
        BY <2>6, <3>4 DEF FrameHolds
      <4>2. v \notin B /\ v \notin Painted(walk, "gray") /\ B \subseteq nodes
        <5>1. v \in Painted(last.walk, "gray")
          BY <4>1
        <5> QED BY <2>2, <3>2, <5>1 DEF Painted
      <4>3. /\ Painted(next, "gray") = Painted(last.walk, "gray") \ {v}
            /\ Painted(next, "black") = B \cup {v}
        BY <3>2 DEF Painted
      <4>4. E[v] \subseteq B
        <5> SUFFICES ASSUME NEW d \in E[v] PROVE d \in B
          OBVIOUS
        <5>1. PICK j \in 1 .. Len(list) : list[j] = d
          BY <2>1 DEF ToSet
        <5> QED BY <4>1, <5>1
      <4>5. v \notin Reach(nodes, E, v)
        <5>1. \A b \in B : E[b] \subseteq B
          BY <4>1 DEF Settled
        <5> HIDE DEF B
        <5>2. Reach(nodes, E, v) \subseteq B
          BY <4>2, <4>4, <5>1, ReachIsLeast
        <5> QED BY <4>2, <5>2
      <4>6. Settled(nodes, E, next)
        BY <4>1, <4>3, <4>4, <4>5 DEF Settled
      <4>7. /\ Painted(next, "gray") = Painted(walk, "gray")
            /\ Painted(walk, "black") \cup {v} \subseteq Painted(next, "black")
        BY <4>1, <4>2, <4>3
      <4> QED BY <3>2, <3>4, <4>6, <4>7 DEF Visited
    <3> QED BY <3>3, <3>4
  <2> QED BY <2>7, <2>8
<1> QED BY <1>2, <1>3 DEF next

\* visit does what it should at every depth.
LEMMA VisitsAreRight ==
  ASSUME NEW X, NEW list \in Seq(X), NEW nodes, IsFiniteSet(nodes), nodes \subseteq ToSet(list),
         NEW dep
  PROVE  VisitsWell(nodes, Within(nodes, dep), Cardinality(nodes),
                    Visits(list, nodes, dep)[Cardinality(nodes)])
<1> DEFINE E == Within(nodes, dep)
           V == Visits(list, nodes, dep)
           Y == {n \in Nat : n <= Cardinality(nodes) => VisitsWell(nodes, E, n, V[n])}
<1>1. Cardinality(nodes) \in Nat
  BY FS_CardinalityType
<1>2. /\ \A v \in nodes : \A walk \in Walks(nodes) : V[0][v][walk] = walk
      /\ \A n \in 1 .. Cardinality(nodes) : V[n] = Call(list, nodes, dep, V[n - 1])
  BY VisitsTable
<1> HIDE DEF V
<1>3. 0 \in Y
  <2>1. VisitsWell(nodes, E, 0, V[0])
    <3> SUFFICES ASSUME NEW v \in nodes, NEW walk \in Walks(nodes)
                 PROVE  /\ V[0][v][walk] = walk
                        /\ MayVisit(nodes, E, walk, v) =>
                             ~ Cardinality(Painted(walk, "white")) <= 0
      BY DEF VisitsWell
    <3>1. V[0][v][walk] = walk
      BY <1>2
    <3>2. ASSUME MayVisit(nodes, E, walk, v) PROVE ~ Cardinality(Painted(walk, "white")) <= 0
      <4> DEFINE W == Painted(walk, "white")
      <4>1. v \in W /\ W \subseteq nodes
        BY <3>2 DEF MayVisit, Painted, Walks
      <4> HIDE DEF W
      <4>2. IsFiniteSet(W) /\ Cardinality(W) \in Nat
        BY <4>1, FS_Subset, FS_CardinalityType
      <4>3. Cardinality(W) # 0
        BY <4>1, <4>2, FS_EmptySet
      <4>4. ~ Cardinality(W) <= 0
        BY <4>2, <4>3
      <4> QED BY <4>4 DEF W
    <3> QED BY <3>1, <3>2
  <2> QED BY <2>1
<1>4. ASSUME NEW n \in Nat, n \in Y PROVE n + 1 \in Y
  <2> SUFFICES ASSUME n + 1 <= Cardinality(nodes) PROVE VisitsWell(nodes, E, n + 1, V[n + 1])
    OBVIOUS
  <2>1. n + 1 \in 1 .. Cardinality(nodes) /\ (n + 1) - 1 = n /\ n <= Cardinality(nodes)
    BY <1>1
  <2>2. V[n + 1] = Call(list, nodes, dep, V[n]) /\ VisitsWell(nodes, E, n, V[n])
    BY <1>2, <1>4, <2>1
  <2> QED BY <2>2, CallVisits
<1>5. Nat \subseteq Y
  <2> HIDE DEF Y
  <2> QED BY <1>3, <1>4, NaturalInduction
<1> QED BY <1>1, <1>5 DEF V

\* A search of the whole graph finds a cycle exactly when there is one.
THEOREM DetectCycleIsRight ==
  ASSUME NEW X, NEW list \in Seq(X), NEW nodes, IsFiniteSet(nodes), nodes \subseteq ToSet(list),
         NEW dep
  PROVE  DetectCycle(list, nodes, dep) <=> Cyclic(nodes, Within(nodes, dep))
<1> DEFINE E == Within(nodes, dep)
           visit == Visits(list, nodes, dep)[Cardinality(nodes)]
           root == [v \in ToSet(list) |-> [walk \in Walks(nodes) |->
                      IF v \in nodes /\ walk.color[v] = "white" THEN visit[v][walk] ELSE walk]]
           start == [color |-> [n \in nodes |-> "white"], cycle |-> FALSE]
           Holds(k, walk) ==
             /\ walk.cycle => Cyclic(nodes, E)
             /\ ~walk.cycle =>
                  /\ Painted(walk, "gray") = {} /\ Settled(nodes, E, walk)
                  /\ \A j \in 1 .. k : list[j] \in nodes => list[j] \in Painted(walk, "black")
           I == {p \in (0 .. Len(list)) \X Walks(nodes) : Holds(p[1], p[2])}
           last == Sweep(root, start, list)
<1>1. DetectCycle(list, nodes, dep) = last.cycle
  BY DEF DetectCycle
<1>2. VisitsWell(nodes, E, Cardinality(nodes), visit)
  BY VisitsAreRight
<1> HIDE DEF visit
<1>3. <<0, start>> \in I
  <2>1. start \in Walks(nodes) /\ start.cycle = FALSE
    BY DEF Walks
  <2>2. Painted(start, "gray") = {} /\ Painted(start, "black") = {}
    BY DEF Painted
  <2> HIDE DEF start, E
  <2>3. Holds(0, start)
    BY <2>1, <2>2 DEF Settled
  <2>4. 0 \in 0 .. Len(list)
    OBVIOUS
  <2> QED BY <2>1, <2>3, <2>4
<1>4. ASSUME NEW k \in 1 .. Len(list), NEW x, <<k - 1, x>> \in I
      PROVE  <<k, root[list[k]][x]>> \in I
  <2> DEFINE v == list[k]
             next == root[v][x]
  <2>1. x \in Walks(nodes) /\ Holds(k - 1, x) /\ v \in ToSet(list) /\ k \in 0 .. Len(list)
    BY <1>4 DEF ToSet
  <2>2. next = IF v \in nodes /\ x.color[v] = "white" THEN visit[v][x] ELSE x
    BY <2>1
  <2>3. DOMAIN x.color = nodes /\ x.color \in [nodes -> {"white", "gray", "black"}] /\ x.cycle \in BOOLEAN
    BY <2>1 DEF Walks
  <2>4. \A j \in 1 .. k : j \in 1 .. k - 1 \/ j = k
    OBVIOUS
  <2> HIDE DEF next, root, E
  <2>5. CASE x.cycle
    <3>1. next = x
      BY <1>2, <2>1, <2>2, <2>5 DEF VisitsWell, E
    <3>2. Holds(k, x)
      BY <2>1, <2>5
    <3> QED BY <2>1, <3>1, <3>2 DEF next
  <2>6. CASE ~x.cycle /\ v \in nodes /\ x.color[v] = "white"
    <3>1. MayVisit(nodes, E, x, v)
      BY <2>1, <2>3, <2>6 DEF MayVisit, Painted
    <3>2. Cardinality(Painted(x, "white")) <= Cardinality(nodes)
      <4>1. Painted(x, "white") \subseteq nodes
        BY <2>3 DEF Painted
      <4> QED BY <4>1, FS_Subset
    <3>3. Visited(nodes, E, x, v, next)
      BY <1>2, <2>1, <2>2, <2>6, <3>1, <3>2 DEF VisitsWell, E
    <3>4. next \in Walks(nodes) /\ (next.cycle => Cyclic(nodes, E))
      BY <3>3 DEF Visited
    <3>5. ~next.cycle =>
            /\ Painted(next, "gray") = {} /\ Settled(nodes, E, next)
            /\ Painted(x, "black") \cup {v} \subseteq Painted(next, "black")
      BY <2>1, <2>6, <3>3 DEF Visited
    <3>6. Holds(k, next)
      <4>1. ASSUME ~next.cycle, NEW j \in 1 .. k, list[j] \in nodes
            PROVE  list[j] \in Painted(next, "black")
        <5>1. CASE j = k
          BY <3>5, <4>1, <5>1
        <5>2. CASE j \in 1 .. k - 1
          BY <2>1, <2>6, <3>5, <4>1, <5>2
        <5> QED BY <2>4, <5>1, <5>2
      <4> QED BY <3>4, <3>5, <4>1
    <3> QED BY <2>1, <3>4, <3>6 DEF next
  <2>7. CASE ~x.cycle /\ ~(v \in nodes /\ x.color[v] = "white")
    <3>1. next = x
      BY <2>2, <2>7
    <3>2. v \in nodes => v \in Painted(x, "black")
      BY <2>1, <2>3, <2>7 DEF Painted
    <3>3. Holds(k, x)
      BY <2>1, <2>4, <2>7, <3>2
    <3> QED BY <2>1, <3>1, <3>3 DEF next
  <2> QED BY <2>5, <2>6, <2>7
<1>5. <<Len(list), last>> \in I
  <2> HIDE DEF I, root, start
  <2> QED BY <1>3, <1>4, SweepKeeps
<1>6. last \in Walks(nodes) /\ Holds(Len(list), last)
  BY <1>5
<1> HIDE DEF last
<1>7. ASSUME ~last.cycle, NEW v \in nodes PROVE v \notin Reach(nodes, E, v)
  <2>1. PICK j \in 1 .. Len(list) : list[j] = v
    BY DEF ToSet
  <2>2. v \in Painted(last, "black")
    BY <1>6, <1>7, <2>1
  <2> QED BY <1>6, <1>7, <2>2 DEF Settled
<1>8. last.cycle \in BOOLEAN
  BY <1>6 DEF Walks
<1> QED BY <1>1, <1>6, <1>7, <1>8 DEF Cyclic

-----------------------------------------------------------------------------
(* The memoized closures                                                   *)

\* A memo has entries for some of the tasks.
LEMMA MemoIs ==
  ASSUME NEW m
  PROVE  m \in Memos <=> DOMAIN m \subseteq TaskIds /\ m \in [DOMAIN m -> SUBSET TaskIds]
BY DEF Memos

\* The entry of t is still to be computed or complete, and so are the entries
\* of the tasks that do not wait for t.
MayClose(w, memo, t) ==
  \A u \in DOMAIN memo : memo[u] = Closure(w, u) \/ t \in Closure(w, u)

\* The old entries are what they were, the new ones are complete, and there is
\* one for t.
Closed(w, memo, t, next) ==
  /\ next \in Memos /\ DOMAIN memo \cup {t} \subseteq DOMAIN next
  /\ \A u \in DOMAIN memo : next[u] = memo[u]
  /\ \A u \in DOMAIN next \ DOMAIN memo : next[u] = Closure(w, u)
  /\ next[t] = Closure(w, t)

\* A function that does what dependencyClosure should, while so few tasks have
\* no entry
ClosesWell(w, n, closure) ==
  \A t \in TaskIds : \A memo \in Memos :
    MayClose(w, memo, t) /\ Cardinality(TaskIds \ DOMAIN memo) <= n =>
      Closed(w, memo, t, closure[t][memo])

\* The dependencies of the tasks, none of which waits for itself
Layered(w) ==
  /\ w.depends_on \in [TaskIds -> SUBSET TaskIds]
  /\ \A t \in TaskIds : t \notin Closure(w, t)

\* The loop over the dependencies of t, through the first k of the list
LoopHolds(w, memo, t, k, m) ==
  /\ DOMAIN memo \cup {t} \subseteq DOMAIN m
  /\ \A u \in DOMAIN memo : m[u] = memo[u]
  /\ \A u \in DOMAIN m \ (DOMAIN memo \cup {t}) : m[u] = Closure(w, u)
  /\ m[t] \subseteq Closure(w, t)
  /\ \A u \in m[t] : w.depends_on[u] \subseteq m[t]
  /\ \A j \in 1 .. k : TaskList[j] \in w.depends_on[t] => TaskList[j] \in m[t]

\* What t depends on, t reaches, and all that reaches it does.
LEMMA ClosureIsClosed ==
  ASSUME NEW w, Layered(w), NEW t \in TaskIds
  PROVE  /\ w.depends_on[t] \subseteq Closure(w, t) /\ Closure(w, t) \subseteq TaskIds
         /\ \A u \in Closure(w, t) : w.depends_on[u] \subseteq Closure(w, t)
         /\ \A u \in Closure(w, t) : Closure(w, u) \subseteq Closure(w, t)
<1>1. /\ w.depends_on[t] \subseteq Closure(w, t) /\ Closure(w, t) \subseteq TaskIds
      /\ \A u \in Closure(w, t) : w.depends_on[u] \subseteq Closure(w, t)
  BY ReachIsClosed DEF Layered, Closure
<1>2. ASSUME NEW u \in Closure(w, t) PROVE Closure(w, u) \subseteq Closure(w, t)
  <2> DEFINE S == Closure(w, t)
  <2>1. S \in SUBSET TaskIds /\ w.depends_on[u] \subseteq S /\ \A x \in S : w.depends_on[x] \subseteq S
    BY <1>1
  <2> HIDE DEF S
  <2>2. Reach(TaskIds, w.depends_on, u) \subseteq S
    BY <2>1, ReachIsLeast
  <2> QED BY <2>2 DEF S, Closure
<1> QED BY <1>1, <1>2

\* One pass of the loop
LEMMA AddKeeps ==
  ASSUME NEW w, Layered(w), NEW closure, NEW n \in Nat, ClosesWell(w, n, closure),
         NEW memo \in Memos, NEW t \in TaskIds, t \notin DOMAIN memo, MayClose(w, memo, t),
         Cardinality(TaskIds \ DOMAIN memo) <= n + 1,
         NEW k \in Nat, NEW m \in Memos, LoopHolds(w, memo, t, k, m),
         TaskList[k + 1] \in ToSet(TaskList)
  PROVE  LET next == AddDependency(w, t, closure)[TaskList[k + 1]][m]
         IN  next \in Memos /\ LoopHolds(w, memo, t, k + 1, next)
<1> DEFINE d == TaskList[k + 1]
           seeded == [m EXCEPT ![t] = @ \cup {d}]
           deeper == closure[d][seeded]
           next == AddDependency(w, t, closure)[d][m]
<1>1. next = IF d \notin w.depends_on[t] \/ d \in m[t] THEN m
             ELSE [deeper EXCEPT ![t] = @ \cup deeper[d]]
  BY DEF AddDependency
<1>2. d \in TaskIds
  BY ListsAreComplete
<1>3. \A j \in 1 .. k + 1 : j \in 1 .. k \/ j = k + 1
  OBVIOUS
<1>4. DOMAIN m \subseteq TaskIds /\ m \in [DOMAIN m -> SUBSET TaskIds] /\ DOMAIN memo \subseteq TaskIds
  BY MemoIs
<1>5. t \in DOMAIN m
  BY DEF LoopHolds
<1> HIDE DEF next, deeper
<1>6. CASE d \notin w.depends_on[t] \/ d \in m[t]
  <2>1. next = m
    BY <1>1, <1>6
  <2>2. LoopHolds(w, memo, t, k + 1, m)
    BY <1>3, <1>6 DEF LoopHolds
  <2> QED BY <2>1, <2>2 DEF next
<1>7. CASE d \in w.depends_on[t] /\ d \notin m[t]
  <2>1. d \in Closure(w, t) /\ Closure(w, t) \subseteq TaskIds
    BY <1>7, ClosureIsClosed
  <2>2. /\ DOMAIN seeded = DOMAIN m /\ seeded[t] = m[t] \cup {d}
        /\ \A u \in DOMAIN m \ {t} : seeded[u] = m[u]
        /\ seeded \in [DOMAIN m -> SUBSET TaskIds]
    BY <1>2, <1>4, <1>5
  <2> HIDE DEF seeded
  <2>3. seeded \in Memos
    BY <1>4, <2>2, MemoIs
  <2>4. MayClose(w, seeded, d)
    <3> SUFFICES ASSUME NEW u \in DOMAIN seeded
                 PROVE  seeded[u] = Closure(w, u) \/ d \in Closure(w, u)
      BY DEF MayClose
    <3>1. CASE u = t
      BY <2>1, <3>1
    <3>2. CASE u # t /\ u \in DOMAIN memo
      <4>1. seeded[u] = memo[u] /\ u \in TaskIds
        BY <1>4, <2>2, <3>2 DEF LoopHolds
      <4>2. t \in Closure(w, u) => d \in Closure(w, u)
        BY <1>7, <4>1, ClosureIsClosed
      <4> QED BY <3>2, <4>1, <4>2 DEF MayClose
    <3>3. CASE u # t /\ u \notin DOMAIN memo
      BY <2>2, <3>3 DEF LoopHolds
    <3> QED BY <3>1, <3>2, <3>3
  <2>5. Cardinality(TaskIds \ DOMAIN seeded) <= n
    <3> DEFINE W == TaskIds \ DOMAIN memo
               Z == TaskIds \ DOMAIN seeded
    <3>1. Z \subseteq W \ {t} /\ t \in W /\ W \subseteq TaskIds
      BY <2>2 DEF LoopHolds
    <3>2. Cardinality(W) <= n + 1
      OBVIOUS
    <3> HIDE DEF W, Z
    <3>3. IsFiniteSet(W) /\ Cardinality(W) \in Nat
      BY <3>1, IdsAreFinite, FS_Subset, FS_CardinalityType
    <3>4. IsFiniteSet(W \ {t}) /\ Cardinality(W \ {t}) = Cardinality(W) - 1
      BY <3>1, <3>3, FS_RemoveElement
    <3>5. Cardinality(Z) <= Cardinality(W \ {t}) /\ IsFiniteSet(Z)
      BY <3>1, <3>4, FS_Subset
    <3>6. Cardinality(Z) \in Nat
      BY <3>5, FS_CardinalityType
    <3>7. Cardinality(Z) <= n
      BY <3>2, <3>3, <3>4, <3>5, <3>6
    <3> QED BY <3>7 DEF Z
  <2>6. Closed(w, seeded, d, deeper)
    BY <1>2, <2>3, <2>4, <2>5 DEF ClosesWell, deeper
  <2>7. /\ deeper \in Memos /\ DOMAIN m \cup {d} \subseteq DOMAIN deeper
        /\ deeper[t] = m[t] \cup {d} /\ deeper[d] = Closure(w, d)
        /\ \A u \in DOMAIN m \ {t} : deeper[u] = m[u]
        /\ \A u \in DOMAIN deeper \ DOMAIN m : deeper[u] = Closure(w, u)
    BY <1>5, <2>2, <2>6 DEF Closed
  <2>8. DOMAIN deeper \subseteq TaskIds /\ deeper \in [DOMAIN deeper -> SUBSET TaskIds]
    BY <2>7, MemoIs
  <2>9. Closure(w, d) \subseteq TaskIds /\ Closure(w, d) \subseteq Closure(w, t)
        /\ w.depends_on[d] \subseteq Closure(w, d)
        /\ \A u \in Closure(w, d) : w.depends_on[u] \subseteq Closure(w, d)
    BY <1>2, <2>1, ClosureIsClosed
  <2>10. next = [deeper EXCEPT ![t] = m[t] \cup {d} \cup Closure(w, d)]
    BY <1>1, <1>7, <2>7
  <2>11. /\ DOMAIN next = DOMAIN deeper /\ next[t] = m[t] \cup {d} \cup Closure(w, d)
         /\ \A u \in DOMAIN deeper \ {t} : next[u] = deeper[u]
         /\ next \in [DOMAIN deeper -> SUBSET TaskIds]
    BY <1>2, <1>4, <1>5, <2>7, <2>8, <2>9, <2>10
  <2>12. next \in Memos
    BY <2>8, <2>11, MemoIs
  <2>13. LoopHolds(w, memo, t, k + 1, next)
    <3>1. DOMAIN memo \cup {t} \subseteq DOMAIN next
      BY <2>7, <2>11 DEF LoopHolds
    <3>2. ASSUME NEW u \in DOMAIN memo PROVE next[u] = memo[u]
      BY <2>7, <2>11, <3>1 DEF LoopHolds
    <3>3. ASSUME NEW u \in DOMAIN next \ (DOMAIN memo \cup {t}) PROVE next[u] = Closure(w, u)
      BY <2>7, <2>11 DEF LoopHolds
    <3>4. next[t] \subseteq Closure(w, t)
      BY <2>1, <2>9, <2>11 DEF LoopHolds
    <3>5. ASSUME NEW u \in next[t] PROVE w.depends_on[u] \subseteq next[t]
      BY <2>9, <2>11 DEF LoopHolds
    <3>6. ASSUME NEW j \in 1 .. k + 1, TaskList[j] \in w.depends_on[t] PROVE TaskList[j] \in next[t]
      BY <1>3, <2>11, <3>6 DEF LoopHolds
    <3> QED BY <3>1, <3>2, <3>3, <3>4, <3>5, <3>6 DEF LoopHolds
  <2> QED BY <2>12, <2>13 DEF next
<1> QED BY <1>6, <1>7

\* One call of dependencyClosure, when the calls it makes are right
LEMMA CloseOneCloses ==
  ASSUME NEW w, Layered(w), NEW closure, NEW n \in Nat, ClosesWell(w, n, closure)
  PROVE  ClosesWell(w, n + 1, CloseOne(w, closure))
<1> SUFFICES ASSUME NEW t \in TaskIds, NEW memo \in Memos, MayClose(w, memo, t),
                    Cardinality(TaskIds \ DOMAIN memo) <= n + 1
             PROVE  Closed(w, memo, t, CloseOne(w, closure)[t][memo])
  BY DEF ClosesWell
<1> DEFINE f == AddDependency(w, t, closure)
           start == [u \in DOMAIN memo \cup {t} |-> IF u = t THEN {} ELSE memo[u]]
           last == Sweep(f, start, TaskList)
           next == CloseOne(w, closure)[t][memo]
           I == {p \in (0 .. Len(TaskList)) \X Memos : LoopHolds(w, memo, t, p[1], p[2])}
<1>1. next = IF t \in DOMAIN memo THEN memo ELSE last
  BY DEF CloseOne
<1>2. DOMAIN memo \subseteq TaskIds /\ memo \in [DOMAIN memo -> SUBSET TaskIds]
  BY MemoIs
<1> HIDE DEF next
<1>3. CASE t \in DOMAIN memo
  BY <1>1, <1>3 DEF MayClose, Layered, Closed, next
<1>4. CASE t \notin DOMAIN memo
  <2>1. <<0, start>> \in I
    <3>1. /\ DOMAIN start = DOMAIN memo \cup {t} /\ start[t] = {}
          /\ \A u \in DOMAIN memo : start[u] = memo[u]
          /\ start \in [DOMAIN memo \cup {t} -> SUBSET TaskIds]
      BY <1>2, <1>4
    <3> HIDE DEF start
    <3>2. start \in Memos
      BY <1>2, <3>1, MemoIs
    <3>3. LoopHolds(w, memo, t, 0, start)
      BY <3>1 DEF LoopHolds
    <3>4. 0 \in 0 .. Len(TaskList)
      BY ListsAreComplete
    <3> QED BY <3>2, <3>3, <3>4
  <2>2. ASSUME NEW k \in 1 .. Len(TaskList), NEW x, <<k - 1, x>> \in I
        PROVE  <<k, f[TaskList[k]][x]>> \in I
    <3> DEFINE j == k - 1
    <3>1. /\ j \in Nat /\ j + 1 = k /\ k \in 0 .. Len(TaskList) /\ TaskList[j + 1] \in ToSet(TaskList)
          /\ x \in Memos /\ LoopHolds(w, memo, t, j, x)
      BY <2>2, ListsAreComplete DEF ToSet
    <3> HIDE DEF j
    <3>2. /\ f[TaskList[j + 1]][x] \in Memos
          /\ LoopHolds(w, memo, t, j + 1, f[TaskList[j + 1]][x])
      BY <1>4, <3>1, AddKeeps
    <3> HIDE DEF f
    <3> QED BY <3>1, <3>2
  <2>3. <<Len(TaskList), last>> \in I
    <3> HIDE DEF I, f, start
    <3> QED BY <2>1, <2>2, SweepKeeps, ListsAreComplete
  <2>4. last \in Memos /\ LoopHolds(w, memo, t, Len(TaskList), last)
    BY <2>3
  <2> HIDE DEF last
  <2>5. last[t] = Closure(w, t)
    <3> DEFINE S == last[t]
    <3>1. w.depends_on[t] \subseteq S
      <4> SUFFICES ASSUME NEW d \in w.depends_on[t] PROVE d \in S
        OBVIOUS
      <4>1. d \in ToSet(TaskList)
        BY ListsAreComplete DEF Layered
      <4>2. PICK j \in 1 .. Len(TaskList) : TaskList[j] = d
        BY <4>1, ListsAreComplete DEF ToSet
      <4> QED BY <2>4, <4>2 DEF LoopHolds
    <3>2. S \subseteq Closure(w, t) /\ \A u \in S : w.depends_on[u] \subseteq S
      BY <2>4 DEF LoopHolds
    <3>3. S \in SUBSET TaskIds
      BY <3>2, ClosureIsClosed
    <3> HIDE DEF S
    <3>4. Reach(TaskIds, w.depends_on, t) \subseteq S
      BY <3>1, <3>2, <3>3, ReachIsLeast
    <3> QED BY <3>2, <3>4 DEF S, Closure
  <2>6. next = last
    BY <1>1, <1>4
  <2>7. Closed(w, memo, t, last)
    BY <2>4, <2>5 DEF LoopHolds, Closed
  <2> QED BY <2>6, <2>7 DEF next
<1> QED BY <1>3, <1>4

\* dependencyClosure does what it should at every depth.
LEMMA ClosuresAreRight ==
  ASSUME NEW w, Layered(w)
  PROVE  ClosesWell(w, Cardinality(TaskIds), Closures(w)[Cardinality(TaskIds)])
<1> DEFINE V == Closures(w)
           Y == {n \in Nat : n <= Cardinality(TaskIds) => ClosesWell(w, n, V[n])}
<1>1. Cardinality(TaskIds) \in Nat
  BY FS_CardinalityType, IdsAreFinite
<1>2. /\ \A t \in TaskIds : \A memo \in Memos : V[0][t][memo] = memo
      /\ \A n \in 1 .. Cardinality(TaskIds) : V[n] = CloseOne(w, V[n - 1])
  BY ClosuresTable
<1> HIDE DEF V
<1>3. 0 \in Y
  <2>1. ClosesWell(w, 0, V[0])
    <3> SUFFICES ASSUME NEW t \in TaskIds, NEW memo \in Memos, MayClose(w, memo, t),
                        Cardinality(TaskIds \ DOMAIN memo) <= 0
                 PROVE  Closed(w, memo, t, V[0][t][memo])
      BY DEF ClosesWell
    <3>1. V[0][t][memo] = memo
      BY <1>2
    <3>2. t \in DOMAIN memo
      <4> DEFINE W == TaskIds \ DOMAIN memo
      <4>1. W \subseteq TaskIds /\ Cardinality(W) <= 0
        OBVIOUS
      <4> HIDE DEF W
      <4>2. IsFiniteSet(W) /\ Cardinality(W) \in Nat
        BY <4>1, IdsAreFinite, FS_Subset, FS_CardinalityType
      <4>3. Cardinality(W) = 0
        BY <4>1, <4>2
      <4>4. W = {}
        BY <4>2, <4>3, FS_EmptySet
      <4> QED BY <4>4 DEF W
    <3> QED BY <3>1, <3>2 DEF MayClose, Layered, Closed
  <2> QED BY <2>1
<1>4. ASSUME NEW n \in Nat, n \in Y PROVE n + 1 \in Y
  <2> SUFFICES ASSUME n + 1 <= Cardinality(TaskIds) PROVE ClosesWell(w, n + 1, V[n + 1])
    OBVIOUS
  <2>1. n + 1 \in 1 .. Cardinality(TaskIds) /\ (n + 1) - 1 = n /\ n <= Cardinality(TaskIds)
    BY <1>1
  <2>2. V[n + 1] = CloseOne(w, V[n]) /\ ClosesWell(w, n, V[n])
    BY <1>2, <1>4, <2>1
  <2> QED BY <2>2, CloseOneCloses
<1>5. Nat \subseteq Y
  <2> HIDE DEF Y
  <2> QED BY <1>3, <1>4, NaturalInduction
<1> QED BY <1>1, <1>5 DEF V

\* On a workflow without cycles the memo ends as the closures of all tasks.
THEOREM MemoIsRight ==
  ASSUME NEW w, Layered(w)
  PROVE  MemoClosures(w) = [t \in TaskIds |-> Closure(w, t)]
<1> DEFINE f == Closures(w)[Cardinality(TaskIds)]
           Holds(k, m) ==
             /\ \A u \in DOMAIN m : m[u] = Closure(w, u)
             /\ \A j \in 1 .. k : TaskList[j] \in DOMAIN m
           I == {p \in (0 .. Len(TaskList)) \X Memos : Holds(p[1], p[2])}
           last == Sweep(f, <<>>, TaskList)
<1>1. MemoClosures(w) = last
  BY DEF MemoClosures
<1>2. ClosesWell(w, Cardinality(TaskIds), f)
  BY ClosuresAreRight
<1> HIDE DEF f
<1>3. <<0, <<>> >> \in I
  <2> DEFINE e == <<>>
  <2>1. DOMAIN e = {} /\ e \in [{} -> SUBSET TaskIds]
    OBVIOUS
  <2> HIDE DEF e
  <2>2. e \in Memos
    BY <2>1, MemoIs
  <2>3. Holds(0, e)
    BY <2>1
  <2>4. 0 \in 0 .. Len(TaskList)
    BY ListsAreComplete
  <2>5. <<0, e>> \in I
    BY <2>2, <2>3, <2>4
  <2> QED BY <2>5 DEF e
<1>4. ASSUME NEW k \in 1 .. Len(TaskList), NEW x, <<k - 1, x>> \in I
      PROVE  <<k, f[TaskList[k]][x]>> \in I
  <2> DEFINE t == TaskList[k]
             next == f[t][x]
  <2>1. x \in Memos /\ Holds(k - 1, x) /\ t \in TaskIds /\ k \in 0 .. Len(TaskList)
    BY <1>4, ListsAreComplete
  <2>2. \A j \in 1 .. k : j \in 1 .. k - 1 \/ j = k
    OBVIOUS
  <2>3. MayClose(w, x, t)
    BY <2>1 DEF MayClose
  <2>4. Cardinality(TaskIds \ DOMAIN x) <= Cardinality(TaskIds)
    <3>1. TaskIds \ DOMAIN x \subseteq TaskIds
      OBVIOUS
    <3> QED BY <3>1, FS_Subset, IdsAreFinite
  <2>5. Closed(w, x, t, next)
    BY <1>2, <2>1, <2>3, <2>4 DEF ClosesWell
  <2> HIDE DEF next
  <2>6. Holds(k, next)
    <3>1. ASSUME NEW u \in DOMAIN next PROVE next[u] = Closure(w, u)
      BY <2>1, <2>5 DEF Closed
    <3>2. ASSUME NEW j \in 1 .. k PROVE TaskList[j] \in DOMAIN next
      BY <2>1, <2>2, <2>5 DEF Closed
    <3> QED BY <3>1, <3>2
  <2>7. next \in Memos
    BY <2>5 DEF Closed
  <2> QED BY <2>1, <2>6, <2>7 DEF next
<1>5. <<Len(TaskList), last>> \in I
  <2> HIDE DEF I
  <2> QED BY <1>3, <1>4, SweepKeeps, ListsAreComplete
<1>6. last \in Memos /\ Holds(Len(TaskList), last)
  BY <1>5
<1> HIDE DEF last
<1>7. DOMAIN last = TaskIds
  <2>1. ASSUME NEW t \in TaskIds PROVE t \in DOMAIN last
    <3>1. PICK j \in 1 .. Len(TaskList) : TaskList[j] = t
      BY ListsAreComplete DEF ToSet
    <3> QED BY <1>6, <3>1
  <2>2. DOMAIN last \subseteq TaskIds
    BY <1>6, MemoIs
  <2> QED BY <2>1, <2>2
<1>8. last = [t \in TaskIds |-> last[t]]
  BY <1>6, <1>7, MemoIs
<1>9. \A t \in TaskIds : last[t] = Closure(w, t)
  BY <1>6, <1>7
<1> QED BY <1>1, <1>8, <1>9

-----------------------------------------------------------------------------
(* Routes                                                                  *)

\* A set of at most one element
LEMMA AtMostOne ==
  ASSUME NEW S, IsFiniteSet(S), Cardinality(S) <= 1, NEW x \in S, NEW y \in S
  PROVE  x = y
<1>1. IsFiniteSet(S \ {x}) /\ Cardinality(S \ {x}) = Cardinality(S) - 1
  BY FS_RemoveElement
<1>2. Cardinality(S \ {x}) \in Nat /\ Cardinality(S) \in Nat
  BY <1>1, FS_CardinalityType
<1>3. Cardinality(S \ {x}) = 0
  BY <1>1, <1>2
<1> QED BY <1>1, <1>3, FS_EmptySet

\* V4, for the tasks a route lists
LEMMA OneRoute ==
  ASSUME IsWorkflow(spec), CasesHaveOneRoute(spec), NEW t \in TaskIds,
         NEW r \in RoutedBy(spec, t)
  PROVE  RoutedBy(spec, t) = {r}
<1>1. RoutedBy(spec, t) \subseteq TaskIds
  BY DEF RoutedBy, Routing, IsWorkflow
<1>2. IsFiniteSet(RoutedBy(spec, t)) /\ Cardinality(RoutedBy(spec, t)) <= 1
  BY <1>1, FS_Subset, IdsAreFinite DEF CasesHaveOneRoute
<1> QED BY <1>2, AtMostOne

\* V3 and V4: a dependency of a task that is listed by r alone, or by no
\* route, is listed by r alone or by no route.
LEMMA RoutesAreClosed ==
  ASSUME IsWorkflow(spec), CasesHaveOneRoute(spec), CasesAreNotLeft(spec),
         NEW r, NEW t \in spec.tasks, RoutedBy(spec, t) \subseteq {r},
         NEW d \in spec.depends_on[t]
  PROVE  RoutedBy(spec, d) \subseteq {r}
<1>1. CASE d = t \/ RoutedBy(spec, d) = {}
  BY <1>1
<1>2. CASE d # t /\ RoutedBy(spec, d) # {}
  <2>1. d \in TaskIds
    BY DEF IsWorkflow
  <2>2. r \in RoutedBy(spec, d)
    BY <1>2 DEF CasesAreNotLeft
  <2> QED BY <2>1, <2>2, OneRoute
<1> QED BY <1>1, <1>2

-----------------------------------------------------------------------------
(* Types *)

\* Every edit of a workflow is a workflow.
LEMMA AuthorKeepsType == ASSUME TypeOK, Author PROVE TypeOK'
<1> USE DEF TypeOK
<1>1. ASSUME NEW t \in spec.tasks, NEW d \in spec.tasks, Depend(t, d) PROVE IsWorkflow(spec')
  BY <1>1 DEF Depend, Edit, IsWorkflow
<1>2. ASSUME NEW t \in spec.tasks, NEW d \in spec.tasks, Refer(t, d) PROVE IsWorkflow(spec')
  BY <1>2 DEF Refer, Edit, IsWorkflow
<1>3. ASSUME NEW t \in spec.tasks, NEW d \in spec.tasks, Expand(t, d) PROVE IsWorkflow(spec')
  <2> DEFINE more == [u \in DOMAIN spec.items \cup {t} |-> IF u = t THEN d ELSE spec.items[u]]
  <2>1. DOMAIN more \subseteq TaskIds /\ more \in [DOMAIN more -> TaskIds]
    BY DEF IsWorkflow
  <2>2. spec' = [spec EXCEPT !.items = more]
    BY <1>3 DEF Expand, Edit
  <2> HIDE DEF more
  <2> QED BY <2>1, <2>2 DEF IsWorkflow
<1>4. ASSUME NEW p \in PhaseIds, NEW q \in PhaseIds, DependPhase(p, q)
      PROVE  IsWorkflow(spec')
  BY <1>4 DEF DependPhase, Edit, IsWorkflow
<1>5. ASSUME NEW r \in Routing(spec), NEW t \in spec.tasks, ListDefault(r, t)
      PROVE  IsWorkflow(spec')
  BY <1>5 DEF ListDefault, Edit, IsWorkflow, IsRoute, Routing
<1>6. ASSUME NEW r \in Routing(spec), NEW t \in spec.tasks,
             NEW v \in DOMAIN spec.route[r].cases, ListCase(r, v, t)
      PROVE  IsWorkflow(spec')
  BY <1>6 DEF ListCase, Edit, IsWorkflow, IsRoute, Routing
<1>7. ASSUME NEW t \in spec.tasks, Delete(t) PROVE IsWorkflow(spec')
  BY <1>7 DEF Delete, Edit, IsWorkflow
<1>8. edits' \in 0 .. MaxEdits /\ UNCHANGED <<stage, status, choice, failedRefs>>
  <2>1. ASSUME NEW w, Edit(w) PROVE edits' \in 0 .. MaxEdits /\ UNCHANGED <<stage, status, choice, failedRefs>>
    BY <2>1, DraftsType DEF Edit
  <2> QED BY <2>1 DEF Author, Depend, Refer, Expand, DependPhase, ListDefault, ListCase, Delete
<1>9. IsWorkflow(spec')
  BY <1>1, <1>2, <1>3, <1>4, <1>5, <1>6, <1>7 DEF Author
<1> QED BY <1>8, <1>9

\* The run's steps keep the types; they leave the workflow alone.
LEMMA TypeStep == ASSUME TypeOK, [Next]_vars PROVE TypeOK'
<1>1. CASE Author BY <1>1, AuthorKeepsType
<1>2. CASE Plan BY <1>2 DEF Plan, TypeOK, Ended
<1>3. ASSUME NEW t \in spec.tasks, Launch(t) PROVE TypeOK'
  BY <1>3 DEF Launch, TypeOK, IsWorkflow, Finished, Done
<1>4. ASSUME NEW t \in spec.tasks, FailTemplate(t) PROVE TypeOK'
  <2>1. Unrendered(t) \subseteq TaskIds
    BY DEF Unrendered, References, TypeOK, IsWorkflow
  <2> QED BY <1>4, <2>1 DEF FailTemplate, TypeOK, IsWorkflow, Finished, Ended
<1>5. ASSUME NEW t \in spec.tasks, Succeed(t) PROVE TypeOK'
  BY <1>5 DEF Succeed, TypeOK, IsWorkflow, Finished, Done
<1>6. ASSUME NEW t \in spec.tasks, Fail(t) PROVE TypeOK'
  BY <1>6 DEF Fail, TypeOK, IsWorkflow, Finished, Ended
<1>7. ASSUME NEW t \in spec.tasks, NEW v, SucceedWith(t, v) PROVE TypeOK'
  <2>1. v \in Values /\ t \in TaskIds
    BY <1>7 DEF SucceedWith, TypeOK, IsWorkflow, IsRoute, Routing
  <2>2. choice' \in [TaskIds -> Values \cup {NoRoute}]
    BY <1>7, <2>1 DEF SucceedWith, TypeOK
  <2>3. status' \in [TaskIds -> {"queued", "running"} \cup Finished]
    BY <1>7 DEF SucceedWith, TypeOK, RouteAway, Finished, Done
  <2> QED BY <1>7, <2>2, <2>3 DEF SucceedWith, TypeOK
<1>8. CASE FinishRun BY <1>8 DEF FinishRun, TypeOK, Ended
<1>9. CASE UNCHANGED vars BY <1>9 DEF vars, TypeOK
<1> QED BY <1>1, <1>2, <1>3, <1>4, <1>5, <1>6, <1>7, <1>8, <1>9 DEF Next

\* Every workflow and run a history of edits and steps leads to is well typed.
THEOREM TypeCorrect == Spec => []TypeOK
<1>1. Init => TypeOK
  BY DraftsType DEF Init, TypeOK, Finished, Ended
<1>2. TypeOK /\ [Next]_vars => TypeOK'
  BY TypeStep
<1> QED BY <1>1, <1>2, PTL DEF Spec

-----------------------------------------------------------------------------
(* The inductive invariant: what the run knows of routes and dependencies *)

Started == {"running", "succeeded", "failed"}

\* Before the run every task is queued and no route has resolved.
NotRunYet ==
  stage \in {"drafting", "refused"} =>
    /\ \A t \in TaskIds : status[t] = "queued" /\ choice[t] = NoRoute
    /\ failedRefs = {}

RunIsAccepted == stage \notin {"drafting", "refused"} => Accepts(spec)

\* A task that started found its dependencies done; no task waits for itself.
StartedAfterDependencies ==
  \A t \in TaskIds : status[t] \in Started =>
    t \in spec.tasks /\ \A d \in spec.depends_on[t] : d # t /\ status[d] \in Done

\* Only a resolved route that leaves a task out skips it.
SkippedByARoute ==
  \A t \in TaskIds : status[t] = "skipped_by_route" =>
    \E r \in RoutedBy(spec, t) :
      choice[r] \in spec.route[r].values /\ t \notin Activated(spec, r, choice[r])

\* A routing task resolves its route as it succeeds.
ResolvedOnSuccess ==
  \A r \in TaskIds :
    /\ choice[r] # NoRoute => status[r] = "succeeded"
    /\ status[r] = "succeeded" /\ r \in Routing(spec) => choice[r] # NoRoute

\* A resolved route skipped what it leaves out.
LeftOutIsSkipped ==
  \A r \in Routing(spec) : choice[r] # NoRoute =>
    \A c \in RouteCaseTasks(spec, r) \ Activated(spec, r, choice[r]) :
      status[c] = "skipped_by_route"

\* The one launch that could not resolve its references
FailedReference ==
  \A e \in failedRefs :
    /\ stage = "failed" /\ e \in TaskIds \X TaskIds
    /\ status[e[1]] = "failed" /\ e[2] \in Closure(spec, e[1])
    /\ CoActivated(spec, e[1], e[2]) /\ status[e[2]] # "succeeded"

RoutesInv ==
  /\ TypeOK /\ NotRunYet /\ RunIsAccepted /\ StartedAfterDependencies
  /\ SkippedByARoute /\ ResolvedOnSuccess /\ LeftOutIsSkipped /\ FailedReference

\* The rules of routes hold for the workflow a run executes.
LEMMA AcceptedRules ==
  ASSUME Accepts(spec)
  PROVE  /\ CasesFollowTheirRoute(spec) /\ CasesAreNotLeft(spec) /\ CasesHaveOneRoute(spec)
         /\ DependenciesExist(spec)
         /\ \A r \in Routing(spec) : RouteIsWellFormed(spec, r)
         /\ \A t \in spec.tasks : \A p \in References(spec, t) : ReferenceIsOrdered(spec, t, p)
  BY DEF Accepts, RouteTopologyHolds

\* V2, V3 and V4 at work: when a task listed by r alone has its dependencies
\* done, what it reaches along tasks r lists or no route lists succeeded, r
\* among them.
LEMMA RouteIsResolved ==
  ASSUME RoutesInv, Accepts(spec), NEW r \in Routing(spec),
         NEW c \in RouteCaseTasks(spec, r),
         \A d \in spec.depends_on[c] : d # c /\ status[d] \in Done
  PROVE  choice[r] # NoRoute
<1> SUFFICES ASSUME choice[r] = NoRoute PROVE FALSE
  OBVIOUS
<1> DEFINE S == {u \in spec.tasks : RoutedBy(spec, u) \subseteq {r} /\ status[u] = "succeeded"}
<1>1. c \in spec.tasks /\ r \in Closure(spec, c) /\ r \in RoutedBy(spec, c)
  BY AcceptedRules DEF CasesFollowTheirRoute, RoutedBy
<1>2. IsWorkflow(spec) /\ spec.tasks \subseteq TaskIds
  BY DEF RoutesInv, TypeOK, IsWorkflow
<1>3. RoutedBy(spec, c) \subseteq {r}
  BY <1>1, <1>2, AcceptedRules, OneRoute
<1>4. ASSUME NEW u \in spec.tasks, RoutedBy(spec, u) \subseteq {r},
             \A d \in spec.depends_on[u] : d # u /\ status[d] \in Done
      PROVE  spec.depends_on[u] \subseteq S
  <2> SUFFICES ASSUME NEW d \in spec.depends_on[u] PROVE d \in S
    OBVIOUS
  <2>1. RoutedBy(spec, d) \subseteq {r}
    BY <1>2, <1>4, AcceptedRules, RoutesAreClosed
  <2>2. d \in spec.tasks /\ d \in TaskIds
    BY <1>2, <1>4, AcceptedRules DEF DependenciesExist
  <2>3. status[d] # "skipped_by_route"
    BY <2>1, <2>2, DraftsType, <1>2 DEF RoutesInv, SkippedByARoute, IsWorkflow, IsRoute, Routing, RoutedBy
  <2> QED BY <1>4, <2>1, <2>2, <2>3 DEF Done
<1>5. spec.depends_on[c] \subseteq S
  BY <1>1, <1>3, <1>4
<1>6. \A u \in S : spec.depends_on[u] \subseteq S
  <2> SUFFICES ASSUME NEW u \in S PROVE spec.depends_on[u] \subseteq S
    OBVIOUS
  <2>1. \A d \in spec.depends_on[u] : d # u /\ status[d] \in Done
    BY <1>2 DEF RoutesInv, StartedAfterDependencies, Started
  <2> QED BY <1>4, <2>1
<1>7. r \in S
  <2>1. S \in SUBSET TaskIds
    BY <1>2
  <2> HIDE DEF S
  <2> QED BY <1>1, <1>5, <1>6, <2>1, ReachIsLeast DEF Closure
<1> QED BY <1>7, <1>2 DEF RoutesInv, ResolvedOnSuccess

-----------------------------------------------------------------------------
(* Every step keeps the invariant *)

\* An edit happens before the run: nothing has started.
LEMMA AuthorKeepsRoutes == ASSUME RoutesInv, Author PROVE RoutesInv'
<1>1. stage = "drafting" /\ UNCHANGED <<stage, status, choice, failedRefs>>
  <2>1. ASSUME NEW w, Edit(w)
        PROVE  stage = "drafting" /\ UNCHANGED <<stage, status, choice, failedRefs>>
    BY <2>1 DEF Edit
  <2> QED BY <2>1 DEF Author, Depend, Refer, Expand, DependPhase, ListDefault, ListCase, Delete
<1>2. TypeOK'
  BY AuthorKeepsType DEF RoutesInv
<1>3. /\ stage' = "drafting" /\ failedRefs' = {}
      /\ \A t \in TaskIds : status'[t] = "queued" /\ choice'[t] = NoRoute
  BY <1>1 DEF RoutesInv, NotRunYet
<1>4. \A r \in Routing(spec') : r \in TaskIds
  BY <1>2 DEF TypeOK, IsWorkflow, Routing
<1>5. NotRunYet' /\ RunIsAccepted' /\ StartedAfterDependencies' /\ SkippedByARoute'
  BY <1>3 DEF NotRunYet, RunIsAccepted, StartedAfterDependencies, SkippedByARoute, Started
<1>6. ResolvedOnSuccess' /\ LeftOutIsSkipped' /\ FailedReference'
  BY <1>3, <1>4 DEF ResolvedOnSuccess, LeftOutIsSkipped, FailedReference
<1> QED BY <1>2, <1>5, <1>6 DEF RoutesInv

\* Planning, and the end of the run, change no status.
LEMMA StageKeepsRoutes ==
  ASSUME RoutesInv, TypeOK', UNCHANGED <<spec, status, choice, failedRefs>>,
         \/ Plan
         \/ FinishRun
         \/ UNCHANGED stage
  PROVE  RoutesInv'
<1>1. NotRunYet' /\ RunIsAccepted'
  BY DEF RoutesInv, NotRunYet, RunIsAccepted, Plan, FinishRun
<1>2. /\ StartedAfterDependencies' /\ SkippedByARoute' /\ ResolvedOnSuccess'
      /\ LeftOutIsSkipped'
  BY DEF RoutesInv, StartedAfterDependencies, SkippedByARoute, ResolvedOnSuccess, LeftOutIsSkipped
<1>3. FailedReference'
  BY DEF RoutesInv, FailedReference, NotRunYet, Plan, FinishRun
<1> QED BY <1>1, <1>2, <1>3 DEF RoutesInv

\* A task of the running workflow changes its own status: it starts from
\* queued once its dependencies are done, or it ends.
Moves(t, s) ==
  /\ stage = "running" /\ t \in spec.tasks
  /\ UNCHANGED <<spec, choice>>
  /\ status' = [status EXCEPT ![t] = s]
  /\ \/ IsReady(t) /\ s \in {"running", "failed"}
     \/ status[t] = "running" /\ s = "failed"
     \/ status[t] = "running" /\ s = "succeeded" /\ t \notin Routing(spec)

\* No task starts before its dependencies, none returns.
LEMMA MoveKeepsRoutes ==
  ASSUME RoutesInv, NEW t, NEW s, Moves(t, s), TypeOK', stage' \in {"running", "failed"},
         FailedReference'
  PROVE  RoutesInv'
<1>1. t \in TaskIds
  BY DEF Moves, RoutesInv, TypeOK, IsWorkflow
<1>2. /\ \A u \in TaskIds \ {t} : status'[u] = status[u]
      /\ status'[t] = s /\ UNCHANGED <<spec, choice>>
  BY <1>1 DEF Moves, RoutesInv, TypeOK
<1>3. /\ s \in {"running", "failed", "succeeded"}
      /\ status[t] \in {"queued", "running"}
  BY DEF Moves, IsReady
<1>4. NotRunYet' /\ RunIsAccepted'
  BY DEF RoutesInv, NotRunYet, RunIsAccepted, Moves
<1>5. StartedAfterDependencies'
  <2>1. \A u \in TaskIds : status[u] \in Done => status'[u] \in Done
    BY <1>2, <1>3 DEF Done
  <2>2. spec.depends_on \in [TaskIds -> SUBSET TaskIds]
    BY DEF RoutesInv, TypeOK, IsWorkflow
  <2>3. \A d \in spec.depends_on[t] : d # t /\ status[d] \in Done
    BY <1>1 DEF Moves, IsReady, Done, RoutesInv, StartedAfterDependencies, Started
  <2>4. t \in spec.tasks
    BY DEF Moves
  <2> QED BY <1>1, <1>2, <2>1, <2>2, <2>3, <2>4 DEF RoutesInv, StartedAfterDependencies
<1>6. SkippedByARoute'
  BY <1>2, <1>3 DEF RoutesInv, SkippedByARoute
<1>7. ResolvedOnSuccess'
  <2>1. choice[t] = NoRoute
    BY <1>1, <1>3 DEF RoutesInv, ResolvedOnSuccess
  <2>2. s = "succeeded" => t \notin Routing(spec)
    BY DEF Moves
  <2> QED BY <1>2, <2>1, <2>2 DEF RoutesInv, ResolvedOnSuccess
<1>8. LeftOutIsSkipped'
  <2>1. \A r \in Routing(spec) : RouteCaseTasks(spec, r) \subseteq TaskIds
    BY DEF RoutesInv, TypeOK, IsWorkflow, IsRoute, Routing, RouteCaseTasks
  <2> QED BY <1>2, <1>3, <2>1 DEF RoutesInv, LeftOutIsSkipped
<1> QED BY <1>4, <1>5, <1>6, <1>7, <1>8 DEF RoutesInv

\* While the run goes on, no reference has failed.
LEMMA NoReferenceFailed ==
  ASSUME RoutesInv, stage = "running"
  PROVE  failedRefs = {}
  BY DEF RoutesInv, FailedReference

\* The case tasks of a route that has not resolved are queued.
LEMMA CasesAreQueued ==
  ASSUME RoutesInv, Accepts(spec), NEW r \in Routing(spec), choice[r] = NoRoute,
         NEW c \in RouteCaseTasks(spec, r)
  PROVE  c \in TaskIds /\ c # r /\ status[c] = "queued"
<1>1. /\ c \in spec.tasks /\ c \in TaskIds /\ r \in RoutedBy(spec, c)
      /\ IsWorkflow(spec) /\ r \in TaskIds
  BY AcceptedRules DEF CasesFollowTheirRoute, RoutesInv, TypeOK, IsWorkflow, Routing, RoutedBy
<1>2. c # r
  BY AcceptedRules DEF RouteIsWellFormed
<1>3. status[c] \notin Started
  BY <1>1, RouteIsResolved DEF RoutesInv, StartedAfterDependencies
<1>4. status[c] # "skipped_by_route"
  <2>1. RoutedBy(spec, c) = {r}
    BY <1>1, AcceptedRules, OneRoute
  <2>2. spec.route[r].values \subseteq Values
    BY <1>1 DEF IsWorkflow, IsRoute, Routing
  <2> QED BY <1>1, <2>1, <2>2, DraftsType DEF RoutesInv, SkippedByARoute
<1>5. status[c] \in {"queued", "running", "succeeded", "skipped_by_route", "failed"}
  BY <1>1 DEF RoutesInv, TypeOK, Finished, Done
<1> QED BY <1>1, <1>2, <1>3, <1>4, <1>5 DEF Started

\* Resolving a route skips what it leaves out, all of it still queued.
LEMMA RouteKeepsRoutes ==
  ASSUME RoutesInv, TypeOK', NEW r \in spec.tasks, NEW v, SucceedWith(r, v)
  PROVE  RoutesInv'
<1>1. /\ r \in TaskIds /\ r \in Routing(spec) /\ v \in spec.route[r].values /\ v # NoRoute
      /\ status[r] = "running" /\ stage = "running" /\ choice[r] = NoRoute
      /\ IsWorkflow(spec) /\ Accepts(spec)
  BY DraftsType DEF SucceedWith, RoutesInv, TypeOK, IsWorkflow, IsRoute, Routing,
     ResolvedOnSuccess, RunIsAccepted
<1> DEFINE Left == RouteCaseTasks(spec, r) \ Activated(spec, r, v)
<1>2. \A c \in RouteCaseTasks(spec, r) : c \in TaskIds /\ c # r /\ status[c] = "queued"
  BY <1>1, CasesAreQueued
<1>3. /\ UNCHANGED <<spec, stage, failedRefs>>
      /\ \A u \in TaskIds : choice'[u] = IF u = r THEN v ELSE choice[u]
      /\ \A u \in TaskIds :
           status'[u] = IF u = r THEN "succeeded"
                        ELSE IF u \in Left THEN "skipped_by_route" ELSE status[u]
  BY <1>1, <1>2 DEF SucceedWith, RouteAway, RoutesInv, TypeOK
<1>4. Left \subseteq RouteCaseTasks(spec, r)
  OBVIOUS
<1> HIDE DEF Left
<1>5. NotRunYet' /\ RunIsAccepted' /\ FailedReference'
  BY <1>1, <1>3, NoReferenceFailed DEF NotRunYet, RunIsAccepted, FailedReference
<1>6. StartedAfterDependencies'
  <2>1. \A u \in TaskIds : status[u] \in Done => status'[u] \in Done
    BY <1>1, <1>3 DEF Done
  <2>2. \A u \in TaskIds : status'[u] \in Started => status[u] \in Started
    BY <1>1, <1>3 DEF Started
  <2>3. spec.depends_on \in [TaskIds -> SUBSET TaskIds]
    BY <1>1 DEF IsWorkflow
  <2> QED BY <1>3, <2>1, <2>2, <2>3 DEF RoutesInv, StartedAfterDependencies
<1>7. SkippedByARoute'
  <2> SUFFICES ASSUME NEW u \in TaskIds, status'[u] = "skipped_by_route"
               PROVE  \E q \in RoutedBy(spec, u) :
                        /\ choice'[q] \in spec.route[q].values
                        /\ u \notin Activated(spec, q, choice'[q])
    BY <1>3 DEF SkippedByARoute
  <2>1. CASE u \in Left
    BY <1>1, <1>3, <2>1 DEF Left, RoutedBy
  <2>2. CASE u \notin Left
    <3>1. status[u] = "skipped_by_route"
      BY <1>3, <2>2
    <3>2. PICK q \in RoutedBy(spec, u) :
            choice[q] \in spec.route[q].values /\ u \notin Activated(spec, q, choice[q])
      BY <3>1 DEF RoutesInv, SkippedByARoute
    <3>3. q \in TaskIds /\ q # r
      BY <1>1, <3>2, DraftsType DEF RoutedBy, Routing, IsWorkflow, IsRoute
    <3> QED BY <1>3, <3>2, <3>3
  <2> QED BY <2>1, <2>2
<1>8. ResolvedOnSuccess'
  BY <1>1, <1>2, <1>3, <1>4 DEF RoutesInv, ResolvedOnSuccess
<1>9. LeftOutIsSkipped'
  <2> SUFFICES ASSUME NEW q \in Routing(spec), choice'[q] # NoRoute,
                      NEW c \in RouteCaseTasks(spec, q) \ Activated(spec, q, choice'[q])
               PROVE  status'[c] = "skipped_by_route"
    BY <1>3 DEF LeftOutIsSkipped
  <2>1. q \in TaskIds /\ c \in TaskIds
    BY <1>1 DEF IsWorkflow, IsRoute, Routing, RouteCaseTasks
  <2>2. CASE q = r
    BY <1>2, <1>3, <2>1, <2>2 DEF Left
  <2>3. CASE q # r
    <3>1. status[c] = "skipped_by_route"
      BY <1>3, <2>1, <2>3 DEF RoutesInv, LeftOutIsSkipped
    <3> QED BY <1>1, <1>3, <2>1, <3>1
  <2> QED BY <2>2, <2>3
<1> QED BY <1>5, <1>6, <1>7, <1>8, <1>9 DEF RoutesInv

\* The launch that fails keeps what its references knew.
LEMMA FailedTemplateKeepsReferences ==
  ASSUME RoutesInv, TypeOK', NEW t \in spec.tasks, FailTemplate(t)
  PROVE  FailedReference'
<1>1. t \in TaskIds /\ IsWorkflow(spec) /\ Accepts(spec)
  BY DEF FailTemplate, RoutesInv, TypeOK, IsWorkflow, RunIsAccepted
<1>2. ASSUME NEW p \in Unrendered(t)
      PROVE  /\ p \in TaskIds /\ p \in Closure(spec, t) /\ CoActivated(spec, t, p)
             /\ status'[p] # "succeeded"
  <2>1. p \in References(spec, t) /\ status[p] # "succeeded"
    BY DEF Unrendered
  <2>2. p \in TaskIds
    BY <1>1, <2>1 DEF References, IsWorkflow
  <2> QED BY <1>1, <2>1, <2>2, AcceptedRules DEF ReferenceIsOrdered, FailTemplate, RoutesInv, TypeOK
<1>3. status'[t] = "failed" /\ stage' = "failed" /\ spec' = spec
      /\ failedRefs' = {<<t, p>> : p \in Unrendered(t)}
  BY <1>1 DEF FailTemplate, RoutesInv, TypeOK
<1>4. \A e \in failedRefs' : \E p \in Unrendered(t) : e[1] = t /\ e[2] = p /\ e \in TaskIds \X TaskIds
  BY <1>1, <1>2, <1>3
<1> QED BY <1>2, <1>3, <1>4 DEF FailedReference

LEMMA RoutesStep == ASSUME RoutesInv, [Next]_vars PROVE RoutesInv'
<1>1. TypeOK'
  BY TypeStep DEF RoutesInv
<1>2. CASE Author BY <1>2, AuthorKeepsRoutes
<1>3. CASE Plan \/ FinishRun \/ UNCHANGED vars
  BY <1>1, <1>3, StageKeepsRoutes DEF Plan, FinishRun, vars
<1>4. ASSUME NEW t \in spec.tasks, Launch(t) PROVE RoutesInv'
  <2>1. Moves(t, "running") /\ stage' = "running" /\ FailedReference'
    BY <1>4, NoReferenceFailed DEF Launch, Moves, FailedReference
  <2> QED BY <1>1, <2>1, MoveKeepsRoutes
<1>5. ASSUME NEW t \in spec.tasks, FailTemplate(t) PROVE RoutesInv'
  <2>1. Moves(t, "failed") /\ stage' = "failed"
    BY <1>5 DEF FailTemplate, Moves
  <2> QED BY <1>1, <1>5, <2>1, FailedTemplateKeepsReferences, MoveKeepsRoutes
<1>6. ASSUME NEW t \in spec.tasks, Succeed(t) PROVE RoutesInv'
  <2>1. Moves(t, "succeeded") /\ stage' = "running" /\ FailedReference'
    BY <1>6, NoReferenceFailed DEF Succeed, Moves, FailedReference
  <2> QED BY <1>1, <2>1, MoveKeepsRoutes
<1>7. ASSUME NEW t \in spec.tasks, Fail(t) PROVE RoutesInv'
  <2>1. Moves(t, "failed") /\ stage' = "failed" /\ FailedReference'
    BY <1>7, NoReferenceFailed DEF Fail, Moves, FailedReference
  <2> QED BY <1>1, <2>1, MoveKeepsRoutes
<1>8. ASSUME NEW t \in spec.tasks, NEW v, SucceedWith(t, v) PROVE RoutesInv'
  BY <1>1, <1>8, RouteKeepsRoutes
<1> QED BY <1>2, <1>3, <1>4, <1>5, <1>6, <1>7, <1>8 DEF Next

LEMMA RoutesAlways == Spec => []RoutesInv
<1>1. Init => RoutesInv
  <2>1. Init => TypeOK
    BY DraftsType DEF Init, TypeOK, Finished, Ended
  <2>2. Init => \A r \in Routing(spec) : r \in TaskIds
    BY <2>1 DEF TypeOK, IsWorkflow, Routing
  <2>3. Init => NotRunYet /\ RunIsAccepted /\ StartedAfterDependencies /\ SkippedByARoute
    BY DEF Init, NotRunYet, RunIsAccepted, StartedAfterDependencies, SkippedByARoute, Started
  <2>4. Init => ResolvedOnSuccess /\ LeftOutIsSkipped /\ FailedReference
    BY <2>2 DEF Init, ResolvedOnSuccess, LeftOutIsSkipped, FailedReference
  <2> QED BY <2>1, <2>3, <2>4 DEF RoutesInv
<1>2. RoutesInv /\ [Next]_vars => RoutesInv'
  BY RoutesStep
<1> QED BY <1>1, <1>2, PTL DEF Spec

-----------------------------------------------------------------------------
(* The theorems *)

\* No case task starts before its route resolves, and none that the
\* resolution leaves out: V2, V3 and V4 together are enough, whatever else
\* the workflow says.
THEOREM CasesWait == Spec => []CaseWaitsForRoute
<1>1. RoutesInv => CaseWaitsForRoute
  <2> SUFFICES ASSUME RoutesInv, NEW r \in Routing(spec), NEW c \in RouteCaseTasks(spec, r),
                      status[c] \in Started
               PROVE  choice[r] # NoRoute /\ c \in Activated(spec, r, choice[r])
    BY DEF CaseWaitsForRoute, Started
  <2>1. c \in TaskIds
    BY DEF RoutesInv, TypeOK, IsWorkflow, IsRoute, Routing, RouteCaseTasks
  <2>2. Accepts(spec)
    BY <2>1 DEF RoutesInv, NotRunYet, RunIsAccepted, Started
  <2>3. choice[r] # NoRoute
    BY <2>1, <2>2, RouteIsResolved DEF RoutesInv, StartedAfterDependencies
  <2> QED BY <2>3 DEF RoutesInv, LeftOutIsSkipped, Started
<1> QED BY <1>1, RoutesAlways, PTL

\* V2, V3 and V4 together rule out a route below a route.
THEOREM NoNestedRoutes == Spec => []RoutesAreFlat
<1>1. RoutesInv => RoutesAreFlat
  <2> SUFFICES ASSUME RoutesInv, stage = "running", NEW r \in Routing(spec),
                      NEW q \in RoutedBy(spec, r), NEW c \in RouteCaseTasks(spec, r)
               PROVE  FALSE
    BY DEF RoutesAreFlat
  <2> DEFINE S == {u \in spec.tasks : RoutedBy(spec, u) \subseteq {r}}
  <2>1. IsWorkflow(spec) /\ Accepts(spec) /\ r \in TaskIds
    BY DEF RoutesInv, TypeOK, RunIsAccepted, IsWorkflow, Routing
  <2>2. c \in spec.tasks /\ c \in TaskIds /\ r \in Closure(spec, c) /\ r \in RoutedBy(spec, c)
    BY <2>1, AcceptedRules DEF CasesFollowTheirRoute, RoutedBy, IsWorkflow
  <2>3. RoutedBy(spec, c) \subseteq {r}
    BY <2>1, <2>2, AcceptedRules, OneRoute
  <2>4. \A u \in S : spec.depends_on[u] \subseteq S
    BY <2>1, AcceptedRules, RoutesAreClosed DEF DependenciesExist
  <2>5. r \in S
    <3>1. c \in S /\ S \in SUBSET TaskIds
      BY <2>1, <2>2, <2>3 DEF IsWorkflow
    <3> HIDE DEF S
    <3> QED BY <2>2, <2>4, <3>1, ReachIsLeast DEF Closure
  <2>6. q = r
    BY <2>5
  <2> QED BY <2>1, <2>6, AcceptedRules DEF RouteIsWellFormed, RoutedBy
<1> QED BY <1>1, RoutesAlways, PTL

\* V7: a launch never fails because a task it refers to was routed away.
THEOREM RoutedAwayNotReferred == Spec => []RoutedAwayIsNotReferred
<1>1. RoutesInv => RoutedAwayIsNotReferred
  <2> SUFFICES ASSUME RoutesInv, NEW e \in failedRefs, status[e[2]] = "skipped_by_route"
               PROVE  FALSE
    BY DEF RoutedAwayIsNotReferred
  <2>1. /\ e[1] \in TaskIds /\ e[2] \in TaskIds /\ status[e[1]] = "failed"
        /\ CoActivated(spec, e[1], e[2])
    BY DEF RoutesInv, FailedReference
  <2>2. PICK r \in RoutedBy(spec, e[2]) :
          choice[r] \in spec.route[r].values /\ e[2] \notin Activated(spec, r, choice[r])
    BY <2>1 DEF RoutesInv, SkippedByARoute
  <2>3. r \in RoutedBy(spec, e[1]) /\ e[1] \notin Activated(spec, r, choice[r])
    BY <2>1, <2>2 DEF CoActivated
  <2>4. r \in Routing(spec) /\ choice[r] # NoRoute
    BY <2>2, DraftsType DEF RoutedBy, Routing, RoutesInv, TypeOK, IsWorkflow, IsRoute
  <2> QED BY <2>1, <2>3, <2>4 DEF RoutesInv, LeftOutIsSkipped, RoutedBy
<1> QED BY <1>1, RoutesAlways, PTL

\* Only a routed-away task between the two hides the producer of a reference
\* that could not be resolved.
THEOREM HiddenByARoute == Spec => []OnlyARouteHidesAProducer
<1>1. RoutesInv /\ RoutedAwayIsNotReferred => OnlyARouteHidesAProducer
  <2> SUFFICES ASSUME RoutesInv, RoutedAwayIsNotReferred, NEW e \in failedRefs
               PROVE  HiddenByASkip(e[1], e[2])
    BY DEF OnlyARouteHidesAProducer
  <2> DEFINE t == e[1]
             Skipped == {u \in Closure(spec, t) : status[u] = "skipped_by_route"}
             S == {x \in Closure(spec, t) : status[x] = "succeeded"}
                  \cup Skipped \cup UNION {Closure(spec, u) : u \in Skipped}
  <2>1. /\ t \in TaskIds /\ e[2] \in Closure(spec, t) /\ status[t] = "failed"
        /\ status[e[2]] # "succeeded" /\ status[e[2]] # "skipped_by_route"
    BY DEF RoutesInv, FailedReference, RoutedAwayIsNotReferred
  <2>2. IsWorkflow(spec) /\ spec.depends_on \in [TaskIds -> SUBSET TaskIds]
    BY DEF RoutesInv, TypeOK, IsWorkflow
  <2>3. \A x : /\ Closure(spec, x) \subseteq TaskIds
               /\ x \in TaskIds => spec.depends_on[x] \subseteq Closure(spec, x)
               /\ \A u \in Closure(spec, x) : spec.depends_on[u] \subseteq Closure(spec, x)
    BY <2>2 DEF Closure, Reach
  <2>4. \A x \in TaskIds : status[x] \in {"failed", "succeeded"} =>
          \A d \in spec.depends_on[x] : status[d] \in Done
    BY DEF RoutesInv, StartedAfterDependencies, Started
  <2>5. S \in SUBSET TaskIds /\ spec.depends_on[t] \subseteq S
    BY <2>1, <2>3, <2>4 DEF Done
  <2>6. \A x \in S : spec.depends_on[x] \subseteq S
    BY <2>3, <2>4 DEF Done
  <2>7. e[2] \in S
    <3> HIDE DEF S
    <3>1. Reach(TaskIds, spec.depends_on, t) \subseteq S
      BY <2>5, <2>6, ReachIsLeast
    <3> QED BY <2>1, <3>1 DEF Closure
  <2> QED BY <2>1, <2>7 DEF HiddenByASkip
<1> QED BY <1>1, RoutesAlways, RoutedAwayNotReferred, PTL
-----------------------------------------------------------------------------
(* A run that is stranded                                                   *)

\* In a non-empty finite set each of whose members has an edge to another
\* member, one of them reaches itself.
LEMMA DescentCloses ==
  ASSUME NEW N, IsFiniteSet(N), NEW dep \in [N -> SUBSET N],
         NEW S \in SUBSET N, S # {}, \A t \in S : \E u \in S : u \in dep[t]
  PROVE  \E t \in S : t \in Reach(N, dep, t)
<1> DEFINE R(t) == Reach(N, dep, t)
           T == {Cardinality(R(t)) : t \in S}
<1> SUFFICES ASSUME \A t \in S : t \notin R(t) PROVE FALSE
  OBVIOUS
<1>1. \A t \in S : IsFiniteSet(R(t)) /\ Cardinality(R(t)) \in Nat
  <2>1. \A t : R(t) \subseteq N
    BY DEF Reach
  <2> HIDE DEF R
  <2> QED BY <2>1, FS_Subset, FS_CardinalityType
<1>2. PICK t \in S : \A u \in S : Cardinality(R(t)) <= Cardinality(R(u))
  <2>1. T \in SUBSET Nat /\ T # {}
    BY <1>1
  <2>2. PICK n \in T : \A m \in T : n <= m
    <3> HIDE DEF T
    <3> QED BY <2>1, LeastNatural
  <2> QED BY <2>2
<1>3. PICK u \in S : u \in dep[t]
  OBVIOUS
<1>4. u \in R(t) /\ R(u) \subseteq R(t) /\ u \notin R(u)
  <2>1. u \in R(t) /\ \A x \in R(t) : dep[x] \subseteq R(t)
    BY <1>3, ReachIsClosed
  <2>2. R(u) \subseteq R(t)
    <3>1. dep[u] \subseteq R(t) /\ R(t) \in SUBSET N
      BY <2>1, ReachIsClosed
    <3> QED BY <2>1, <3>1, ReachIsLeast
  <2> QED BY <2>1, <2>2
<1> HIDE DEF R
<1>5. Cardinality(R(u)) <= Cardinality(R(t)) /\ (Cardinality(R(u)) = Cardinality(R(t)) => R(u) = R(t))
  BY <1>1, <1>4, FS_Subset
<1> QED BY <1>1, <1>2, <1>4, <1>5

\* While the run goes on no task has failed: a failure ends it.
NoneFailed == stage = "running" => \A t \in TaskIds : status[t] # "failed"

LEMMA NoneFailedStep == ASSUME RoutesInv, NoneFailed, [Next]_vars PROVE NoneFailed'
<1>1. CASE Author \/ Plan \/ FinishRun \/ UNCHANGED vars
  <2>1. CASE Author
    <3>1. stage' = "drafting"
      <4>1. ASSUME NEW w, Edit(w) PROVE stage' = "drafting"
        BY <4>1 DEF Edit
      <4> QED
        BY <2>1, <4>1
        DEF Author, Depend, Refer, Expand, DependPhase, ListDefault, ListCase, Delete
    <3> QED BY <3>1 DEF NoneFailed
  <2>2. CASE Plan
    BY <2>2 DEF Plan, RoutesInv, NotRunYet, NoneFailed
  <2>3. CASE FinishRun \/ UNCHANGED vars
    BY <2>3 DEF FinishRun, vars, NoneFailed
  <2> QED BY <1>1, <2>1, <2>2, <2>3
<1>2. ASSUME NEW t \in spec.tasks, Launch(t) \/ Succeed(t) PROVE NoneFailed'
  BY <1>2 DEF Launch, Succeed, NoneFailed, RoutesInv, TypeOK
<1>3. ASSUME NEW t \in spec.tasks, FailTemplate(t) \/ Fail(t) PROVE NoneFailed'
  BY <1>3 DEF FailTemplate, Fail, NoneFailed
<1>4. ASSUME NEW t \in spec.tasks, NEW v, SucceedWith(t, v) PROVE NoneFailed'
  BY <1>4 DEF SucceedWith, NoneFailed, RoutesInv, TypeOK, RouteAway
<1> QED BY <1>1, <1>2, <1>3, <1>4 DEF Next

\* "Unsatisfiable task dependencies" is the fault of phases: when a run of an
\* accepted workflow ends with tasks queued, tasks and phases wait for one
\* another, or for a phase without tasks; no route ever causes it.
THEOREM StrandedOnlyByPhases == Spec => []StrandedByPhases
<1>1. RoutesInv /\ NoneFailed /\ StrandedByPhases /\ [Next]_vars => StrandedByPhases'
  <2> SUFFICES ASSUME RoutesInv, NoneFailed, StrandedByPhases, [Next]_vars
               PROVE  StrandedByPhases'
    OBVIOUS
  <2> DEFINE Empty(q) == PhaseTasksOf(q) = {}
             Left == {t \in spec.tasks : status[t] \notin Done}
  <2>1. CASE FinishRun /\ stage' = "stranded"
    <3> SUFFICES ASSUME \A p, q \in PhaseIds : q \in spec.phase_depends_on[p] => ~Empty(q)
                 PROVE  \E t \in spec.tasks : t \in Reach(TaskIds, Waits, t)
      BY <2>1 DEF FinishRun, StrandedByPhases, Waits, PhaseTasksOf
    <3>1. /\ IsWorkflow(spec) /\ Accepts(spec) /\ Idle
          /\ spec.tasks \subseteq TaskIds /\ Left # {}
      <4>1. stage = "running" /\ Idle /\ Left # {}
        BY <2>1 DEF FinishRun
      <4>2. IsWorkflow(spec) /\ Accepts(spec)
        BY <4>1 DEF RoutesInv, RunIsAccepted, TypeOK
      <4> QED BY <4>1, <4>2 DEF IsWorkflow
    <3>2. Waits \in [TaskIds -> SUBSET TaskIds]
      BY <3>1 DEF Waits, PhaseTasksOf, IsWorkflow
    <3>3. ASSUME NEW t \in Left PROVE \E u \in Left : u \in Waits[t]
      <4>1. /\ t \in TaskIds /\ t \in spec.tasks /\ status[t] = "queued" /\ ~IsReady(t)
            /\ spec.phase_id[t] \in PhaseIds
        <5>1. t \in TaskIds /\ t \in spec.tasks /\ status[t] \notin Done
          BY <3>1
        <5>2. ~IsReady(t) /\ status[t] # "running"
          BY <3>1, <5>1 DEF Idle
        <5>3. status[t] # "failed" /\ status[t] \in {"queued", "running"} \cup Finished
          BY <2>1, <5>1 DEF FinishRun, NoneFailed, RoutesInv, TypeOK
        <5>4. spec.phase_id[t] \in PhaseIds
          BY <3>1, <5>1 DEF IsWorkflow
        <5> QED BY <5>1, <5>2, <5>3, <5>4 DEF Finished
      <4>2. CASE \E d \in spec.depends_on[t] : status[d] \notin Done
        BY <3>1, <4>1, <4>2, AcceptedRules DEF DependenciesExist, Waits
      <4>3. CASE \E q \in spec.phase_depends_on[spec.phase_id[t]] : ~PhaseSucceeded(q)
        <5>1. PICK q \in spec.phase_depends_on[spec.phase_id[t]] : ~PhaseSucceeded(q)
          BY <4>3
        <5>2. q \in PhaseIds
          BY <3>1, <4>1 DEF IsWorkflow
        <5>3. PICK u \in PhaseTasksOf(q) : status[u] \notin Done
          BY <4>1, <5>1, <5>2 DEF PhaseSucceeded
        <5> QED BY <4>1, <5>3 DEF PhaseTasksOf, Waits
      <4> QED BY <4>1, <4>2, <4>3 DEF IsReady
    <3>4. PICK t \in Left : t \in Reach(TaskIds, Waits, t)
      <4>1. Left \in SUBSET TaskIds
        BY <3>1
      <4> HIDE DEF Left
      <4> QED BY <3>1, <3>2, <3>3, <4>1, IdsAreFinite, DescentCloses
    <3> QED BY <3>4
  <2>2. CASE stage' # "stranded"
    BY <2>2 DEF StrandedByPhases
  <2>3. CASE stage' = "stranded" /\ ~FinishRun
    <3>1. UNCHANGED vars
      BY <2>3 DEF Next, Author, Depend, Refer, Expand, DependPhase, ListDefault, ListCase, Delete,
        Edit, Plan, Launch, FailTemplate, Succeed, SucceedWith, Fail
    <3>2. UNCHANGED <<spec, stage>>
      BY <3>1 DEF vars
    <3> QED BY <3>2 DEF StrandedByPhases, Waits, PhaseTasksOf
  <2> QED BY <2>1, <2>2, <2>3
<1>2. Init => NoneFailed /\ StrandedByPhases
  BY DEF Init, NoneFailed, StrandedByPhases
<1> QED BY <1>1, <1>2, NoneFailedStep, RoutesAlways, PTL DEF Spec

-----------------------------------------------------------------------------
(* What the validator finds out                                            *)

\* The search among the declared tasks is a search among all: an id that is
\* not declared leads nowhere.
LEMMA DeclaredCycles ==
  ASSUME IsWorkflow(spec), NEW t \in spec.tasks
  PROVE  t \in Reach(spec.tasks, Within(spec.tasks, spec.depends_on), t) <=> t \in Closure(spec, t)
<1> DEFINE D == spec.depends_on
           E == Within(spec.tasks, D)
           R == Reach(spec.tasks, E, t)
           C == Closure(spec, t)
<1>1. /\ spec.tasks \subseteq TaskIds /\ D \in [TaskIds -> SUBSET TaskIds] /\ t \in TaskIds
      /\ \A u \in TaskIds \ spec.tasks : D[u] = {}
  BY DEF IsWorkflow
<1>2. E \in [spec.tasks -> SUBSET spec.tasks] /\ \A u \in spec.tasks : E[u] = D[u] \cap spec.tasks
  BY DEF Within
<1> HIDE DEF E, D
<1>3. E[t] \subseteq R /\ R \subseteq spec.tasks /\ \A u \in R : E[u] \subseteq R
  BY <1>2, ReachIsClosed
<1>4. D[t] \subseteq C /\ C \subseteq TaskIds /\ \A u \in C : D[u] \subseteq C
  BY <1>1, ReachIsClosed DEF Closure, D
<1> HIDE DEF R, C
<1>5. R \subseteq C
  <2> DEFINE S == C \cap spec.tasks
  <2>1. S \in SUBSET spec.tasks /\ E[t] \subseteq S /\ \A u \in S : E[u] \subseteq S
    BY <1>2, <1>4
  <2> HIDE DEF S
  <2>2. R \subseteq S
    BY <2>1, ReachIsLeast DEF R
  <2> QED BY <2>2 DEF S
<1>6. C \subseteq R \cup (TaskIds \ spec.tasks)
  <2> DEFINE S == R \cup (TaskIds \ spec.tasks)
  <2>1. S \in SUBSET TaskIds /\ D[t] \subseteq S
    BY <1>1, <1>2, <1>3
  <2>2. ASSUME NEW u \in S PROVE D[u] \subseteq S
    <3>1. CASE u \in R
      BY <1>1, <1>2, <1>3, <3>1
    <3>2. CASE u \in TaskIds \ spec.tasks
      BY <1>1, <3>2
    <3> QED BY <3>1, <3>2
  <2> HIDE DEF S
  <2>3. C \subseteq S
    BY <2>1, <2>2, ReachIsLeast DEF C, Closure, D
  <2> QED BY <2>3 DEF S
<1> QED BY <1>5, <1>6 DEF R, C, E, D

\* The search reports a cycle of tasks, or of phases, exactly when there is one.
LEMMA CyclesFound ==
  ASSUME IsWorkflow(spec)
  PROVE  CyclesAreFound
<1>1. DetectCycle(PhaseList, PhaseIds, spec.phase_depends_on) <=>
        \E p \in PhaseIds : p \in Reach(PhaseIds, spec.phase_depends_on, p)
  <2>1. DetectCycle(PhaseList, PhaseIds, spec.phase_depends_on) <=>
          Cyclic(PhaseIds, Within(PhaseIds, spec.phase_depends_on))
    BY DetectCycleIsRight, IdsAreFinite, ListsAreComplete
  <2>2. Within(PhaseIds, spec.phase_depends_on) = spec.phase_depends_on
    BY DEF Within, IsWorkflow
  <2> QED BY <2>1, <2>2 DEF Cyclic
<1>2. DetectCycle(TaskList, spec.tasks, spec.depends_on) <=>
        \E t \in spec.tasks : t \in Closure(spec, t)
  <2>1. spec.tasks \subseteq TaskIds
    BY DEF IsWorkflow
  <2>2. IsFiniteSet(spec.tasks) /\ spec.tasks \subseteq ToSet(TaskList)
    BY <2>1, IdsAreFinite, ListsAreComplete, FS_Subset
  <2>3. DetectCycle(TaskList, spec.tasks, spec.depends_on) <=>
          Cyclic(spec.tasks, Within(spec.tasks, spec.depends_on))
    BY <2>2, DetectCycleIsRight, ListsAreComplete
  <2> QED BY <2>3, DeclaredCycles DEF Cyclic
<1> QED BY <1>1, <1>2 DEF CyclesAreFound

\* detectCycle is right about every graph an author may draw, unwinding frames
\* and undeclared dependencies included, and the memoized closures of every
\* graph without cycles are its closures.
THEOREM GraphsReadRight == Spec => []GraphsAreReadRight
<1>1. TypeOK => GraphsAreReadRight
  <2> SUFFICES ASSUME TypeOK PROVE CyclesAreFound /\ MemoIsTheClosure
    BY DEF GraphsAreReadRight
  <2>1. IsWorkflow(spec) /\ spec.depends_on \in [TaskIds -> SUBSET TaskIds]
    BY DEF TypeOK, IsWorkflow
  <2>2. CyclesAreFound
    BY <2>1, CyclesFound
  <2>3. MemoIsTheClosure
    <3> SUFFICES ASSUME \A t \in TaskIds : t \notin Closure(spec, t)
                 PROVE  MemoClosures(spec) = [t \in TaskIds |-> Closure(spec, t)]
      BY DEF MemoIsTheClosure
    <3>1. Layered(spec)
      BY <2>1 DEF Layered
    <3> QED BY <3>1, MemoIsRight
  <2> QED BY <2>2, <2>3
<1> QED BY <1>1, TypeCorrect, PTL

\* What the scheduler's model calls the closure of a task is what the task
\* reaches among the declared tasks; the same for phases.
LEMMA ScheduledClosures ==
  ASSUME IsWorkflow(spec), DependenciesExist(spec)
  PROVE  /\ \A t \in spec.tasks :
              Scheduled!DependencyClosure[t] =
                Reach(spec.tasks, Within(spec.tasks, spec.depends_on), t)
         /\ \A p \in PhaseIds :
              Scheduled!PhaseClosure[p] = Reach(PhaseIds, spec.phase_depends_on, p)
<1> DEFINE D == [t \in spec.tasks |-> [t1 \in spec.tasks |-> [depends_on |-> spec.depends_on[t1]]][t].depends_on]
           P == [p \in PhaseIds |-> [p1 \in PhaseIds |-> [depends_on |-> spec.phase_depends_on[p1]]][p].depends_on]
<1>1. Scheduled!DependencyClosure = Scheduled!Upstream(D) /\ Scheduled!PhaseClosure = Scheduled!Upstream(P)
  BY DEF Scheduled!DependencyClosure, Scheduled!PhaseClosure
<1>2. D = Within(spec.tasks, spec.depends_on)
  BY DEF Within, DependenciesExist
<1>3. P = spec.phase_depends_on
  BY DEF IsWorkflow
<1> HIDE DEF D, P
<1>4. DOMAIN D = spec.tasks /\ DOMAIN P = PhaseIds
  BY <1>2, <1>3 DEF Within, IsWorkflow
<1>5. \A t \in spec.tasks : Scheduled!Upstream(D)[t] = Reach(spec.tasks, D, t)
  BY <1>4 DEF Scheduled!Upstream, Reach
<1>6. \A p \in PhaseIds : Scheduled!Upstream(P)[p] = Reach(PhaseIds, P, p)
  BY <1>4 DEF Scheduled!Upstream, Reach
<1> QED BY <1>1, <1>2, <1>3, <1>5, <1>6

\* What plan accepts, the scheduler may assume: no task and no phase waits for
\* itself, and the rules V2, V3, V4 and V6 hold as the scheduler states them.
THEOREM PlannedRulesHold == Spec => []SchedulerRulesHold
<1>1. RoutesInv => SchedulerRulesHold
  <2> SUFFICES ASSUME RoutesInv, stage = "running"
               PROVE  /\ \A t \in spec.tasks : t \notin Scheduled!DependencyClosure[t]
                      /\ \A p \in PhaseIds : p \notin Scheduled!PhaseClosure[p]
                      /\ Scheduled!RouteTopology
    BY DEF SchedulerRulesHold
  <2> DEFINE E == Within(spec.tasks, spec.depends_on)
  <2>1. IsWorkflow(spec) /\ Accepts(spec) /\ spec.tasks \subseteq TaskIds
    BY DEF RoutesInv, TypeOK, RunIsAccepted, IsWorkflow
  <2>2. DependenciesExist(spec) /\ NoCycles(spec)
    BY <2>1 DEF Accepts
  <2>3. /\ \A t \in spec.tasks : t \notin Closure(spec, t)
        /\ \A p \in PhaseIds : p \notin Reach(PhaseIds, spec.phase_depends_on, p)
    BY <2>1, <2>2, CyclesFound DEF NoCycles, CyclesAreFound
  <2>4. \A t \in spec.tasks : t \notin Scheduled!DependencyClosure[t]
    BY <2>1, <2>2, <2>3, ScheduledClosures, DeclaredCycles
  <2>5. \A p \in PhaseIds : p \notin Scheduled!PhaseClosure[p]
    BY <2>1, <2>2, <2>3, ScheduledClosures
  <2>6. ASSUME NEW c \in spec.tasks PROVE Closure(spec, c) \subseteq Scheduled!DependencyClosure[c]
    <3> DEFINE S == Reach(spec.tasks, E, c)
    <3>1. E \in [spec.tasks -> SUBSET spec.tasks] /\ \A u \in spec.tasks : E[u] = spec.depends_on[u]
      BY <2>2 DEF Within, DependenciesExist
    <3> HIDE DEF E
    <3>2. S \in SUBSET TaskIds /\ spec.depends_on[c] \subseteq S /\ \A u \in S : spec.depends_on[u] \subseteq S
      BY <2>1, <3>1, ReachIsClosed
    <3> HIDE DEF S
    <3>3. Reach(TaskIds, spec.depends_on, c) \subseteq S
      BY <3>2, ReachIsLeast
    <3> QED BY <2>1, <2>2, <3>3, ScheduledClosures DEF S, E, Closure
  <2>7. Scheduled!RouteTopology
    <3>1. /\ \A r : Scheduled!CaseTasks(r) = RouteCaseTasks(spec, r)
          /\ \A r, v : Scheduled!Selected(r, v) = Activated(spec, r, v)
          /\ Scheduled!Routers = Routing(spec)
          /\ \A t : Scheduled!RoutesListing(t) = RoutedBy(spec, t)
      BY DEF Scheduled!CaseTasks, RouteCaseTasks, Scheduled!Selected, Activated, Scheduled!Routers,
             Routing, Scheduled!RoutesListing, RoutedBy
    <3>2. ASSUME NEW r \in Routing(spec), NEW c \in RouteCaseTasks(spec, r)
          PROVE  /\ c # r /\ r \in Scheduled!DependencyClosure[c]
                 /\ \E v \in spec.route[r].values : c \in Activated(spec, r, v)
      BY <2>1, <2>6, AcceptedRules DEF CasesFollowTheirRoute, RouteIsWellFormed
    <3>3. ASSUME NEW t \in spec.tasks PROVE Cardinality(RoutedBy(spec, t)) <= 1
      BY <2>1, AcceptedRules DEF CasesHaveOneRoute
    <3>4. ASSUME NEW t \in spec.tasks, NEW d \in spec.depends_on[t], RoutedBy(spec, d) # {}
          PROVE  RoutedBy(spec, d) \cap RoutedBy(spec, t) # {}
      <4>1. d # t
        <5>1. t \in TaskIds /\ spec.depends_on \in [TaskIds -> SUBSET TaskIds]
          BY <2>1 DEF IsWorkflow
        <5>2. spec.depends_on[t] \subseteq Closure(spec, t)
          BY <5>1, ReachIsClosed DEF Closure
        <5> QED BY <2>3, <5>2
      <4> QED BY <2>1, <3>4, <4>1, AcceptedRules DEF CasesAreNotLeft
    <3>5. \A t \in spec.tasks :
            [t1 \in spec.tasks |-> [depends_on |-> spec.depends_on[t1]]][t].depends_on = spec.depends_on[t]
      OBVIOUS
    <3>6. \A r \in Scheduled!Routers : \A c \in Scheduled!CaseTasks(r) :
            /\ c # r /\ r \in Scheduled!DependencyClosure[c]
            /\ \E v \in spec.route[r].values : c \in Scheduled!Selected(r, v)
      BY <3>1, <3>2
    <3>7. \A t \in spec.tasks : Scheduled!Cardinality(Scheduled!RoutesListing(t)) <= 1
      <4>1. \A S : Scheduled!Cardinality(S) = Cardinality(S)
        BY DEF Scheduled!Cardinality, Cardinality
      <4> QED BY <3>1, <3>3, <4>1
    <3>8. \A t \in spec.tasks :
            \A d \in [t1 \in spec.tasks |-> [depends_on |-> spec.depends_on[t1]]][t].depends_on :
              Scheduled!RoutesListing(d) # {} =>
                Scheduled!RoutesListing(d) \cap Scheduled!RoutesListing(t) # {}
      BY <3>1, <3>4, <3>5
    <3> QED BY <3>6, <3>7, <3>8 DEF Scheduled!RouteTopology
  <2> QED BY <2>4, <2>5, <2>7
<1> QED BY <1>1, RoutesAlways, PTL
=============================================================================
