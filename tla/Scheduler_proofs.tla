---------------------------- MODULE Scheduler_proofs ---------------------------
(***************************************************************************)
(* Theorems about the scheduler: its types, what MatchBatch hands out (the *)
(* fold over the monitors, taken round by round), and how often a monitor  *)
(* can be checked too early.                                               *)
(***************************************************************************)
EXTENDS Scheduler, Lemmas

-----------------------------------------------------------------------------
(* The rounds of MatchBatch.                                               *)

\* A set of positions without its last one.
ButLast(s) == s \ {Max(s)}

\* The fold over the positions in T, last position first.
Rounds(g, base, monitors, nodes, T) ==
    g = [s \in SUBSET T |->
           IF s = {} THEN base ELSE PickNode(g[ButLast(s)], monitors[Max(s)], nodes)]

\* A non-empty set of positions has a last one.
LEMMA MaxIn ==
    ASSUME NEW n \in Nat, NEW s \in SUBSET (1..n), s # {}
    PROVE  Max(s) \in s /\ \A y \in s : Max(s) >= y
  <1> DEFINE U == {n - x : x \in s}
  <1>0. \A x \in s : x \in Nat /\ n - x \in Nat
    OBVIOUS
  <1>1. U \in SUBSET Nat /\ U # {}
    BY <1>0
  <1>2. PICK u \in U : \A v \in U : u <= v
    <2> HIDE DEF U
    <2> QED
      BY <1>1, LeastNat
  <1>3. PICK x \in s : u = n - x
    BY <1>2
  <1>4. \A y \in s : x >= y
    <2> SUFFICES ASSUME NEW y \in s PROVE x >= y
      OBVIOUS
    <2>1. n - y \in U
      OBVIOUS
    <2>2. n - x <= n - y /\ x \in Nat /\ y \in Nat
      BY <1>0, <1>2, <1>3, <2>1
    <2> QED
      BY <2>2
  <1>5. \E z \in s : \A y \in s : z >= y
    BY <1>4
  <1> QED
    BY <1>5 DEF Max

\* The fold as a function of the set of positions is unique.
LEMMA RoundsUnique ==
    ASSUME NEW n \in Nat, NEW base, NEW monitors, NEW nodes,
           NEW U \in SUBSET (1..n), NEW V \in SUBSET (1..n), NEW g, NEW h,
           Rounds(g, base, monitors, nodes, U), Rounds(h, base, monitors, nodes, V)
    PROVE  \A s \in SUBSET (U \cap V) : g[s] = h[s]
  <1> DEFINE S == 1..n
             Bad == {s \in SUBSET (U \cap V) : g[s] # h[s]}
  <1> SUFFICES ASSUME Bad # {} PROVE FALSE
    OBVIOUS
  <1>0. Bad \in SUBSET (SUBSET S) /\ IsFiniteSet(S)
    <2>1. IsFiniteSet(S)
      BY FS_Interval
    <2> HIDE DEF S
    <2>2. U \in SUBSET S
      BY DEF S
    <2> QED
      BY <2>1, <2>2
  <1>1. PICK s \in Bad : \A t \in Bad : t \subseteq s => t = s
    <2> HIDE DEF Bad, S
    <2> QED
      BY <1>0, LeastSubset
  <1>2. s \in SUBSET U /\ s \in SUBSET V /\ s \in SUBSET S
    BY <1>1
  <1>3. /\ g[s] = IF s = {} THEN base ELSE PickNode(g[ButLast(s)], monitors[Max(s)], nodes)
        /\ h[s] = IF s = {} THEN base ELSE PickNode(h[ButLast(s)], monitors[Max(s)], nodes)
    BY <1>2 DEF Rounds
  <1>4. s # {}
    BY <1>1, <1>3
  <1>5. Max(s) \in s
    BY <1>2, <1>4, MaxIn
  <1>6. ButLast(s) \notin Bad /\ ButLast(s) \in SUBSET (U \cap V)
    BY <1>1, <1>5 DEF ButLast
  <1>7. g[ButLast(s)] = h[ButLast(s)]
    BY <1>6
  <1> QED
    BY <1>1, <1>3, <1>4, <1>7

\* The fold is a function.
LEMMA RoundsExist ==
    ASSUME NEW n \in Nat, NEW base, NEW monitors, NEW nodes
    PROVE  \A T \in SUBSET (1..n) : \E g : Rounds(g, base, monitors, nodes, T)
  <1> DEFINE S == 1..n
             R(g, T) == Rounds(g, base, monitors, nodes, T)
             Bad == {T \in SUBSET S : ~ \E g : R(g, T)}
  <1> SUFFICES ASSUME Bad # {} PROVE FALSE
    OBVIOUS
  <1>0. Bad \in SUBSET (SUBSET S) /\ IsFiniteSet(S)
    BY FS_Interval
  <1>1. PICK T \in Bad : \A U \in Bad : U \subseteq T => U = T
    <2> HIDE DEF Bad, S
    <2> QED
      BY <1>0, LeastSubset
  <1> DEFINE a(U) == CHOOSE g : R(g, U)
             v(s) == IF s = {} THEN base ELSE PickNode(a(ButLast(s))[ButLast(s)], monitors[Max(s)], nodes)
             g == [s \in SUBSET T |-> v(s)]
  <1>2. \A U \in SUBSET T : U # T => R(a(U), U)
    <2> SUFFICES ASSUME NEW U \in SUBSET T, U # T PROVE R(a(U), U)
      OBVIOUS
    <2> HIDE DEF R
    <2>1. \E h : R(h, U)
      BY <1>1
    <2> QED
      BY <2>1
  <1>3. ASSUME NEW s \in SUBSET T, s # {} PROVE a(ButLast(s))[ButLast(s)] = v(ButLast(s))
    <2> DEFINE r == ButLast(s)
    <2>1. Max(s) \in s
      BY <1>3, MaxIn
    <2>2. r \in SUBSET T /\ r # T /\ r \in SUBSET S
      BY <2>1 DEF ButLast
    <2>3. R(a(r), r)
      <3> HIDE DEF R, a, r
      <3> QED
        BY <1>2, <2>2
    <2>4. a(r)[r] = IF r = {} THEN base ELSE PickNode(a(r)[ButLast(r)], monitors[Max(r)], nodes)
      <3>0. Rounds(a(r), base, monitors, nodes, r)
        BY <2>3
      <3> HIDE DEF r, a
      <3>1. r \in SUBSET r
        OBVIOUS
      <3> QED
        BY <3>0, <3>1 DEF Rounds
    <2>5. CASE r = {}
      BY <2>4, <2>5
    <2>6. CASE r # {}
      <3> DEFINE q == ButLast(r)
      <3>1. Max(r) \in r
        BY <2>2, <2>6, MaxIn
      <3>2. q \in SUBSET T /\ q # T /\ q \in SUBSET (r \cap q) /\ q \in SUBSET S
        BY <2>2, <3>1 DEF ButLast
      <3>3. R(a(q), q)
        <4> HIDE DEF R, a, q
        <4> QED
          BY <1>2, <3>2
      <3>4. a(r)[q] = a(q)[q]
        <4>1. Rounds(a(r), base, monitors, nodes, r) /\ Rounds(a(q), base, monitors, nodes, q)
          BY <2>3, <3>3
        <4>2. r \in SUBSET (1..n) /\ q \in SUBSET (1..n)
          BY <2>2, <3>2
        <4> HIDE DEF r, q, a, R
        <4>3. \A t \in SUBSET (r \cap q) : a(r)[t] = a(q)[t]
          BY <4>1, <4>2, RoundsUnique
        <4> QED
          BY <3>2, <4>3
      <3>5. v(r) = PickNode(a(q)[q], monitors[Max(r)], nodes)
        <4> HIDE DEF r, a
        <4> QED
          BY <2>6
      <3>6. a(r)[r] = PickNode(a(r)[q], monitors[Max(r)], nodes)
        <4> HIDE DEF r, a
        <4> QED
          BY <2>4, <2>6
      <3>7. a(r)[r] = v(r)
        <4> HIDE DEF r, a, v, q
        <4> QED
          BY <3>4, <3>5, <3>6
      <3> QED
        BY <3>7
    <2> QED
      BY <2>5, <2>6
  <1>4. R(g, T)
    <2>1. \A s \in SUBSET T : s # {} => ButLast(s) \in SUBSET T
      BY DEF ButLast
    <2>2. ASSUME NEW s \in SUBSET T
          PROVE  v(s) = IF s = {} THEN base ELSE PickNode(g[ButLast(s)], monitors[Max(s)], nodes)
      <3>1. CASE s = {}
        BY <3>1
      <3>2. CASE s # {}
        <4> DEFINE r == ButLast(s)
        <4>1. a(r)[r] = v(r)
          BY <1>3, <3>2
        <4>2. g[r] = v(r)
          <5> HIDE DEF v
          <5> QED
            BY <2>1, <3>2
        <4>3. v(s) = PickNode(a(r)[r], monitors[Max(s)], nodes)
          <5> HIDE DEF a
          <5> QED
            BY <3>2
        <4> HIDE DEF v, a, g
        <4> QED
          BY <3>2, <4>1, <4>2, <4>3
      <3> HIDE DEF v, g
      <3> QED
        BY <3>1, <3>2
    <2> HIDE DEF v
    <2> QED
      BY <2>2 DEF Rounds
  <1> HIDE DEF g, R
  <1> QED
    BY <1>1, <1>4

\* What a tick starts from.
NoMatch(cur) == [assigned |-> NoAssignment, cursor |-> cur, count |-> [d \in Domains |-> 0]]

\* MatchBatch is the value of that function at the set of all positions.
LEMMA FoldIsRounds ==
    ASSUME NEW monitors, NEW nodes, NEW cur, nodes # <<>>
    PROVE  MatchBatch(monitors, nodes, cur) =
             (CHOOSE g : Rounds(g, NoMatch(cur), monitors, nodes, DOMAIN monitors))[DOMAIN monitors]
  BY Zenon DEF MatchBatch, FoldLeft, MapThenFoldSet, Rounds, ButLast, NoMatch

\* What h has after each of the n rounds.
RoundByRound(h, n, monitors, nodes, cur) ==
    /\ h[0] = NoMatch(cur) /\ h[n] = MatchBatch(monitors, nodes, cur)
    /\ \A k \in 1..n : h[k] = PickNode(h[k - 1], monitors[k], nodes)

\* So its rounds can be taken one after the other.
LEMMA MatchRounds ==
    ASSUME NEW n \in Nat, NEW monitors, DOMAIN monitors = 1..n, NEW nodes, nodes # <<>>, NEW cur
    PROVE  \E h : RoundByRound(h, n, monitors, nodes, cur)
  <1> DEFINE T == 1..n
             g == CHOOSE g : Rounds(g, NoMatch(cur), monitors, nodes, T)
             h == [k \in 0..n |-> g[1..k]]
  <1>1. MatchBatch(monitors, nodes, cur) = g[T]
    BY FoldIsRounds
  <1>2. Rounds(g, NoMatch(cur), monitors, nodes, T)
    <2>1. \E f : Rounds(f, NoMatch(cur), monitors, nodes, T)
      BY RoundsExist
    <2> QED
      BY <2>1
  <1> HIDE DEF g
  <1>3. \A s \in SUBSET T : g[s] = IF s = {} THEN NoMatch(cur)
                                   ELSE PickNode(g[ButLast(s)], monitors[Max(s)], nodes)
    BY <1>2 DEF Rounds
  <1>4. ASSUME NEW k \in 1..n PROVE h[k] = PickNode(h[k - 1], monitors[k], nodes)
    <2> DEFINE s == 1..k
    <2>1. s \in SUBSET T /\ s # {} /\ k \in s /\ \A y \in s : k >= y
      OBVIOUS
    <2>2. Max(s) = k
      <3>1. Max(s) \in s /\ \A y \in s : Max(s) >= y
        <4> HIDE DEF s
        <4> QED
          BY <2>1, MaxIn
      <3> QED
        BY <2>1, <3>1
    <2>3. ButLast(s) = 1..(k - 1)
      BY <2>2 DEF ButLast
    <2>4. g[s] = PickNode(g[1..(k - 1)], monitors[k], nodes)
      <3> HIDE DEF s
      <3> QED
        BY <1>3, <2>1, <2>2, <2>3
    <2>5. h[k] = g[s] /\ h[k - 1] = g[1..(k - 1)]
      OBVIOUS
    <2> HIDE DEF s, h
    <2> QED
      BY <2>4, <2>5
  <1>5. h[0] = NoMatch(cur)
    <2>1. 1..0 = {} /\ {} \in SUBSET T
      OBVIOUS
    <2>2. g[{}] = NoMatch(cur)
      BY <1>3, <2>1
    <2> QED
      BY <2>1, <2>2
  <1>6. h[n] = g[T]
    OBVIOUS
  <1> HIDE DEF h
  <1>7. RoundByRound(h, n, monitors, nodes, cur)
    BY <1>1, <1>4, <1>5, <1>6 DEF RoundByRound
  <1> QED
    BY <1>7

\* What the accumulator is after k rounds: online nodes only, none of the
\* monitors but the first k, no monitor on two nodes.
AccOK(acc, monitors, nodes, k) ==
    /\ acc.assigned \in [Runners -> Monitors \cup {None}]
    /\ acc.cursor \in [Domains -> 0..Cardinality(Runners)]
    /\ acc.count \in [Domains -> Nat]
    /\ \A r \in Runners : acc.assigned[r] # None =>
         r \in ToSet(nodes) /\ \E i \in 1..k : acc.assigned[r] = monitors[i]
    /\ \A q, r \in Runners : acc.assigned[q] = acc.assigned[r] /\ acc.assigned[q] # None => q = r

\* A remainder.
LEMMA ModRange ==
    ASSUME NEW x \in Nat, NEW c \in Nat \ {0}
    PROVE  x % c \in 0..(c - 1)
  OBVIOUS

\* One round keeps that.
LEMMA PickKeeps ==
    ASSUME NEW n \in Nat, NEW k \in 1..n, NEW monitors \in [1..n -> Monitors],
           \A i, j \in 1..n : i # j => monitors[i] # monitors[j],
           NEW nodes \in Seq(Runners), Len(nodes) \in 1..Cardinality(Runners),
           Cardinality(Runners) \in Nat,
           NEW acc, AccOK(acc, monitors, nodes, k - 1)
    PROVE  AccOK(PickNode(acc, monitors[k], nodes), monitors, nodes, k)
  <1> DEFINE m == monitors[k]
             d == Domain[m]
             c == Len(nodes)
             idx == acc.cursor[d] % c
             r == nodes[idx + 1]
             C == Cardinality(Runners)
             new == [assigned |-> [acc.assigned EXCEPT ![r] = m],
                     cursor |-> [acc.cursor EXCEPT ![d] = (idx + 1) % c],
                     count |-> [acc.count EXCEPT ![d] = @ + 1]]
  <1>1. m \in Monitors /\ d \in Domains
    BY DEF Domains
  <1>2. CASE CapReached(acc.count[d])
    <2>1. PickNode(acc, m, nodes) = acc
      BY <1>2 DEF PickNode
    <2>2. 1..(k - 1) \subseteq 1..k
      OBVIOUS
    <2> QED
      BY <2>1, <2>2 DEF AccOK
  <1>3. CASE ~CapReached(acc.count[d])
    <2>1. PickNode(acc, m, nodes) = new
      BY <1>3 DEF PickNode
    <2>2. c \in Nat \ {0} /\ c <= C /\ C \in Nat
      OBVIOUS
    <2>3. acc.cursor[d] \in Nat
      BY <1>1, <2>2 DEF AccOK
    <2>4. idx \in 0..(c - 1)
      <3> HIDE DEF c, d
      <3> QED
        BY <2>2, <2>3, ModRange
    <2>5. r \in Runners /\ r \in ToSet(nodes)
      <3> HIDE DEF idx
      <3>1. idx + 1 \in 1..Len(nodes) /\ DOMAIN nodes = 1..Len(nodes)
        BY <2>2, <2>4
      <3> QED
        BY <3>1 DEF ToSet
    <2>6. (idx + 1) % c \in 0..C
      <3> HIDE DEF idx, c, C
      <3> DEFINE y == idx + 1
      <3>0. y \in Nat
        BY <2>2, <2>4
      <3> HIDE DEF y
      <3>2. y % c \in 0..(c - 1)
        BY <2>2, <3>0, ModRange
      <3>1. (idx + 1) % c \in 0..(c - 1)
        BY <3>2 DEF y
      <3> QED
        BY <2>2, <3>1
    <2> DEFINE p == (idx + 1) % c
    <2>7. new.assigned = [acc.assigned EXCEPT ![r] = m] /\ new.cursor = [acc.cursor EXCEPT ![d] = p]
          /\ new.count = [acc.count EXCEPT ![d] = @ + 1]
      OBVIOUS
    <2>8. m # None
      BY <1>1, SchedulerConstants
    <2>9. \A q \in Runners : acc.assigned[q] # m
      <3> SUFFICES ASSUME NEW q \in Runners, acc.assigned[q] = m PROVE FALSE
        OBVIOUS
      <3>1. PICK i \in 1..(k - 1) : m = monitors[i]
        BY <2>8 DEF AccOK
      <3>2. i \in 1..n /\ i # k
        OBVIOUS
      <3> QED
        BY <3>1, <3>2
    <2>10. \A q \in Runners : acc.assigned[q] # None =>
             q \in ToSet(nodes) /\ \E i \in 1..k : acc.assigned[q] = monitors[i]
      <3>1. 1..(k - 1) \subseteq 1..k
        OBVIOUS
      <3> QED
        BY <3>1 DEF AccOK
    <2>11. k \in 1..k
      OBVIOUS
    <2>12. /\ acc.assigned \in [Runners -> Monitors \cup {None}]
           /\ acc.cursor \in [Domains -> 0..C] /\ acc.count \in [Domains -> Nat]
           /\ \A q, s \in Runners : acc.assigned[q] = acc.assigned[s] /\ acc.assigned[q] # None => q = s
      BY DEF AccOK
    <2> HIDE DEF new, r, p, d, C
    <2>13. /\ new.assigned \in [Runners -> Monitors \cup {None}]
           /\ new.cursor \in [Domains -> 0..C] /\ new.count \in [Domains -> Nat]
      <3> HIDE DEF m
      <3>1. p \in 0..C
        BY <2>6 DEF p
      <3>2. new.assigned \in [Runners -> Monitors \cup {None}]
        BY <1>1, <2>5, <2>7, <2>12
      <3>3. new.cursor \in [Domains -> 0..C]
        BY <1>1, <2>7, <2>12, <3>1
      <3>4. new.count \in [Domains -> Nat]
        BY <1>1, <2>7, <2>12
      <3> QED
        BY <3>2, <3>3, <3>4
    <2>14. new.assigned[r] = m /\ \A q \in Runners \ {r} : new.assigned[q] = acc.assigned[q]
      BY <2>5, <2>7, <2>12
    <2>15. \A q \in Runners : new.assigned[q] # None =>
             q \in ToSet(nodes) /\ \E i \in 1..k : new.assigned[q] = monitors[i]
      BY <2>5, <2>10, <2>11, <2>14
    <2>16. \A q, s \in Runners : new.assigned[q] = new.assigned[s] /\ new.assigned[q] # None => q = s
      BY <2>9, <2>12, <2>14
    <2> HIDE DEF m
    <2>17. AccOK(new, monitors, nodes, k)
      BY <2>13, <2>15, <2>16 DEF AccOK, C
    <2> QED
      BY <2>1, <2>17 DEF m
  <1> QED
    BY <1>2, <1>3

\* SetToSeqs: each element once.
LEMMA AnyOrder ==
    ASSUME NEW S, IsFiniteSet(S), NEW f \in SetToSeqs(S)
    PROVE  /\ Cardinality(S) \in Nat /\ f \in [1..Cardinality(S) -> S]
           /\ f \in Seq(S) /\ Len(f) = Cardinality(S) /\ ToSet(f) \subseteq S
           /\ \A i, j \in 1..Cardinality(S) : i # j => f[i] # f[j]
  <1>1. Cardinality(S) \in Nat
    BY FS_CardinalityType
  <1>2. f \in [1..Cardinality(S) -> S] /\ \A i, j \in 1..Cardinality(S) : i # j => f[i] # f[j]
    BY DEF SetToSeqs
  <1> DEFINE n == Cardinality(S)
  <1> HIDE DEF n
  <1>3. n \in Nat /\ f \in [1..n -> S]
    BY <1>1, <1>2 DEF n
  <1>4. f \in Seq(S)
    BY <1>3, SeqDef
  <1>5. Len(f) = n /\ ToSet(f) \subseteq S
    BY <1>3, <1>4 DEF ToSet
  <1> QED
    BY <1>1, <1>2, <1>4, <1>5 DEF n

\* What the whole of MatchBatch gives.
LEMMA MatchResult ==
    ASSUME NEW F \in SUBSET Monitors, NEW O \in SUBSET Runners,
           NEW monitors \in SetToSeqs(F), NEW nodes \in SetToSeqs(O),
           NEW cur \in [Domains -> 0..Cardinality(Runners)]
    PROVE  LET b == MatchBatch(monitors, nodes, cur) IN
           /\ b.assigned \in [Runners -> F \cup {None}]
           /\ b.cursor \in [Domains -> 0..Cardinality(Runners)]
           /\ \A r \in Runners : b.assigned[r] # None => r \in O
           /\ \A q, r \in Runners : b.assigned[q] = b.assigned[r] /\ b.assigned[q] # None => q = r
  <1> DEFINE n == Cardinality(F)
             b == MatchBatch(monitors, nodes, cur)
             C == Cardinality(Runners)
  <1>1. IsFiniteSet(F) /\ IsFiniteSet(O) /\ IsFiniteSet(Runners)
    BY SchedulerConstants, FS_Subset
  <1>2. /\ n \in Nat /\ monitors \in [1..n -> F] /\ \A i, j \in 1..n : i # j => monitors[i] # monitors[j]
    BY <1>1, AnyOrder
  <1>3. nodes \in Seq(O) /\ Len(nodes) = Cardinality(O) /\ ToSet(nodes) \subseteq O
    BY <1>1, AnyOrder
  <1>4. Cardinality(O) <= C /\ C \in Nat /\ Cardinality(O) \in Nat
    BY <1>1, FS_Subset, FS_CardinalityType
  <1>5. nodes \in Seq(Runners) /\ monitors \in [1..n -> Monitors] /\ DOMAIN monitors = 1..n
    BY <1>2, <1>3, SeqMonotonic
  <1>6. NoMatch(cur).assigned = NoAssignment /\ NoMatch(cur).cursor = cur
        /\ NoMatch(cur).count = [d \in Domains |-> 0]
    BY DEF NoMatch
  <1>7. CASE nodes = <<>>
    <2>1. b = NoMatch(cur)
      BY <1>7 DEF MatchBatch, NoMatch
    <2> HIDE DEF b
    <2> QED
      BY <1>6, <2>1 DEF b, NoAssignment
  <1>8. CASE nodes # <<>>
    <2> HIDE DEF n, b, C
    <2>1. PICK h : /\ h[0] = NoMatch(cur) /\ h[n] = b
                   /\ \A k \in 1..n : h[k] = PickNode(h[k - 1], monitors[k], nodes)
      <3>1. n \in Nat /\ DOMAIN monitors = 1..n
        BY <1>2, <1>5
      <3>2. \E h : RoundByRound(h, n, monitors, nodes, cur)
        BY <1>8, <3>1, MatchRounds
      <3> QED
        BY <3>2 DEF b, RoundByRound
    <2>2. Len(nodes) \in 1..C
      BY <1>3, <1>4, <1>8, EmptySeq
    <2> DEFINE Bad == {k \in 0..n : ~AccOK(h[k], monitors, nodes, k)}
    <2>3. Bad = {}
      <3> SUFFICES ASSUME Bad # {} PROVE FALSE
        OBVIOUS
      <3>1. Bad \in SUBSET Nat
        OBVIOUS
      <3>2. PICK k \in Bad : \A j \in Bad : k <= j
        <4> HIDE DEF Bad
        <4> QED
          BY <3>1, LeastNat
      <3>3. k \in 0..n /\ ~AccOK(h[k], monitors, nodes, k)
        BY <3>2
      <3>4. AccOK(NoMatch(cur), monitors, nodes, 0)
        BY <1>6 DEF AccOK, NoAssignment
      <3>5. k # 0
        BY <2>1, <3>3, <3>4
      <3>6. k \in 1..n /\ k - 1 \in 0..n /\ ~(k <= k - 1)
        BY <1>2, <3>3, <3>5
      <3>7. AccOK(h[k - 1], monitors, nodes, k - 1)
        BY <3>2, <3>6
      <3>8. AccOK(PickNode(h[k - 1], monitors[k], nodes), monitors, nodes, k)
        <4> HIDE DEF Bad
        <4> QED
          BY <1>2, <1>4, <1>5, <2>2, <3>6, <3>7, PickKeeps DEF C
      <3> QED
        BY <2>1, <3>3, <3>6, <3>8
    <2>4. AccOK(b, monitors, nodes, n)
      <3>1. n \in 0..n
        BY <1>2
      <3> QED
        BY <2>1, <2>3, <3>1
    <2>5. \A r \in Runners : b.assigned[r] \in F \cup {None}
      BY <1>2, <2>4 DEF AccOK
    <2> QED
      BY <1>3, <2>4, <2>5 DEF AccOK, b
  <1> QED
    BY <1>7, <1>8

-----------------------------------------------------------------------------
(* Types.                                                                  *)

Waits == 0..Interval \cup {Absent}

\* The numbers among the constants.
LEMMA SchedNumbers ==
    /\ Interval \in Nat /\ MaxLag \in Nat /\ Backoff \in Nat /\ Backoff <= Interval
    /\ OnlineFor \in Nat /\ MaxFaults \in Nat /\ Long \in Nat /\ Long = Interval + MaxLag
    /\ Cardinality(Runners) \in Nat /\ Interval > 0 /\ MaxLag < Interval
    /\ Absent \notin Nat /\ None \notin Monitors
  <1>1. IsFiniteSet(Runners)
    BY SchedulerConstants
  <1>2. Cardinality(Runners) \in Nat
    BY <1>1, FS_CardinalityType
  <1> QED
    BY <1>2, SchedulerConstants DEF Long

\* A score that is moved towards now.
LEMMA MinusRange ==
    ASSUME NEW a \in Nat, NEW b \in Nat
    PROVE  Minus(a, b) \in 0..a /\ (a >= b => Minus(a, b) + b = a) /\ Minus(a, b) + b >= a
  BY DEF Minus

\* A write of scores, lost or not.
LEMMA ScoresStay ==
    ASSUME SchedTypeOK, NEW scores, StoreScores(scores), scores \in [Monitors -> Waits]
    PROVE  wait' \in [Monitors -> Waits] /\ faults' \in 0..MaxFaults
  BY SchedNumbers DEF SchedTypeOK, StoreScores, Fault, Waits

\* The faults stay within their bound.
LEMMA FaultStays ==
    ASSUME SchedTypeOK, Fault
    PROVE  faults' \in 0..MaxFaults
  BY SchedNumbers DEF SchedTypeOK, Fault

\* The scores the scheduler writes.
LEMMA NewScores ==
    ASSUME SchedTypeOK, NEW s \in Instances
    PROVE  /\ \A m \in Monitors : [wait EXCEPT ![m] = 0] \in [Monitors -> Waits]
           /\ \A m \in Monitors : [wait EXCEPT ![m] = NextDue(s)] \in [Monitors -> Waits]
           /\ NextDue(s) \in 0..Interval
           /\ [m \in Monitors |-> IF Pruned(s, m) THEN Absent ELSE wait[m]] \in [Monitors -> Waits]
           /\ [m \in Monitors |-> IF m \in found[s] \ processed[s] THEN Minus(Backoff, lag[s])
                                  ELSE wait[m]] \in [Monitors -> Waits]
  <1>1. wait \in [Monitors -> Waits] /\ lag[s] \in Nat
    BY DEF SchedTypeOK, Waits
  <1>2. NextDue(s) \in 0..Interval
    BY <1>1, MinusRange, SchedNumbers DEF NextDue
  <1>3. Minus(Backoff, lag[s]) \in 0..Interval
    <2>1. Minus(Backoff, lag[s]) \in 0..Backoff
      BY <1>1, MinusRange, SchedNumbers
    <2> QED
      BY <2>1, SchedNumbers
  <1>4. 0 \in Waits /\ Absent \in Waits /\ 0..Interval \subseteq Waits
    BY SchedNumbers DEF Waits
  <1> QED
    BY <1>1, <1>2, <1>3, <1>4

\* The end of a tick.
LEMMA EndTypes ==
    ASSUME SchedTypeOK, NEW s \in Instances, EndTick(s)
    PROVE  /\ pc' \in [Instances -> {"waiting", "ticked", "fetched", "pruning", "matching", "dispatching"}]
           /\ lag' \in [Instances -> 0..MaxLag]
           /\ due' \in [Instances -> SUBSET Monitors] /\ found' \in [Instances -> SUBSET Monitors]
           /\ processed' \in [Instances -> SUBSET Monitors]
  BY SchedNumbers DEF SchedTypeOK, EndTick, AfterTick

\* The types over a second.
LEMMA SecondTypes == ASSUME SchedTypeOK, Second PROVE SchedTypeOK'
  <1>1. wait' \in [Monitors -> 0..Interval \cup {Absent}]
    <2>1. ASSUME NEW m \in Monitors
          PROVE  (IF wait[m] = Absent THEN Absent ELSE Minus(wait[m], 1)) \in 0..Interval \cup {Absent}
      BY SchedNumbers DEF SchedTypeOK, Minus
    <2> QED
      BY <2>1 DEF Second
  <1>2. age' \in [Instances -> [Runners -> 0..(OnlineFor + 1)]]
    BY SchedNumbers DEF SchedTypeOK, Second
  <1>3. since' \in [Monitors -> 0..Long]
    <2>1. ASSUME NEW m \in Monitors
          PROVE  (IF since[m] = Long THEN Long ELSE since[m] + 1) \in 0..Long
      <3>1. since[m] \in 0..Long /\ Long \in Nat
        BY SchedNumbers DEF SchedTypeOK
      <3> QED
        BY <3>1
    <2> QED
      BY <2>1 DEF Second
  <1>4. lag' \in [Instances -> 0..MaxLag]
    BY SchedNumbers DEF SchedTypeOK, Second
  <1>5. pc' \in [Instances -> {"waiting", "ticked", "fetched", "pruning", "matching", "dispatching"}]
    BY DEF SchedTypeOK, Second
  <1> QED
    BY <1>1, <1>2, <1>3, <1>4, <1>5 DEF SchedTypeOK, Second, rows

\* Over the operations on the rows.
LEMMA RowTypes ==
    ASSUME SchedTypeOK, NEW m \in Monitors,
           CreateRow(m) \/ ArmNew(m) \/ Pause(m) \/ Resume(m) \/ Delete(m) \/ RunOut(m)
    PROVE  SchedTypeOK'
  <1>1. wait' \in [Monitors -> Waits] /\ faults' \in 0..MaxFaults
    <2>1. CASE ArmNew(m)
      <3>1. [wait EXCEPT ![m] = 0] \in [Monitors -> Waits]
        BY SchedNumbers DEF SchedTypeOK, Waits
      <3> QED
        BY <2>1, <3>1, ScoresStay DEF ArmNew
    <2>2. CASE ~ArmNew(m)
      BY <2>2 DEF CreateRow, Pause, Resume, Delete, RunOut, SetRow, SchedTypeOK, Waits
    <2> QED
      BY <2>1, <2>2
  <1>2. /\ row' \in [Monitors -> {"none", "active", "paused", "deleted"}]
        /\ funded' \in [Monitors -> BOOLEAN] /\ arming' \subseteq Monitors
    BY DEF CreateRow, ArmNew, Pause, Resume, Delete, RunOut, SetRow, SchedTypeOK
  <1>3. UNCHANGED <<cronSaw, age, cursor, tick, since, early>>
    BY DEF CreateRow, ArmNew, Pause, Resume, Delete, RunOut, SetRow
  <1> QED
    BY <1>1, <1>2, <1>3 DEF SchedTypeOK, tick, Waits

\* Over the two halves of a sync.
LEMMA SyncTypes ==
    ASSUME SchedTypeOK, NEW s \in Instances, FindActive(s) \/ AddMissing(s)
    PROVE  SchedTypeOK'
  <1>1. wait' \in [Monitors -> Waits]
    BY SchedNumbers DEF FindActive, AddMissing, Resynced, SchedTypeOK, Waits
  <1>2. cronSaw' \in [Instances -> SUBSET Monitors]
    <2> DEFINE A == {m \in Monitors : Runnable(m)}
    <2>1. cronSaw' \in {[cronSaw EXCEPT ![s] = A], [cronSaw EXCEPT ![s] = {}]}
      BY DEF FindActive, AddMissing
    <2>2. A \in SUBSET Monitors
      OBVIOUS
    <2> HIDE DEF A
    <2> QED
      BY <2>1, <2>2 DEF SchedTypeOK
  <1>3. UNCHANGED <<row, funded, arming, age, cursor, tick, since, early, faults>>
    BY DEF FindActive, AddMissing
  <1> QED
    BY <1>1, <1>2, <1>3 DEF SchedTypeOK, tick, Waits

\* Over a heartbeat.
LEMMA BeatTypes ==
    ASSUME SchedTypeOK, NEW s \in Instances, NEW r \in Runners, Heartbeat(s, r)
    PROVE  SchedTypeOK'
  <1>1. age' \in [Instances -> [Runners -> 0..(OnlineFor + 1)]]
    BY SchedNumbers DEF Heartbeat, SchedTypeOK
  <1> QED
    BY <1>1 DEF Heartbeat, SchedTypeOK, rows, tick

\* Over the two reads of a tick.
LEMMA ReadTypes ==
    ASSUME SchedTypeOK, NEW s \in Instances, FetchDue(s) \/ FindMany(s)
    PROVE  SchedTypeOK'
  <1>1. /\ due' \in [Instances -> SUBSET Monitors] /\ found' \in [Instances -> SUBSET Monitors]
        /\ lag' \in [Instances -> 0..MaxLag]
    <2>1. 0 \in 0..MaxLag
      BY SchedNumbers
    <2>2. CASE FetchDue(s)
      <3>1. DueNow \in SUBSET Monitors
        BY DEF DueNow
      <3> QED
        BY <2>1, <2>2, <3>1 DEF FetchDue, SchedTypeOK
    <2>3. CASE FindMany(s)
      <3> DEFINE F == {m \in due[s] : Runnable(m)}
      <3>1. F \in SUBSET Monitors
        BY DEF SchedTypeOK
      <3>2. found' = [found EXCEPT ![s] = F] /\ UNCHANGED <<due, lag>>
        BY <2>3 DEF FindMany
      <3> HIDE DEF F
      <3> QED
        BY <3>1, <3>2 DEF SchedTypeOK
    <2> QED
      BY <2>2, <2>3
  <1>2. pc' \in [Instances -> {"waiting", "ticked", "fetched", "pruning", "matching", "dispatching"}]
    BY DEF FetchDue, FindMany, SchedTypeOK
  <1> QED
    BY <1>1, <1>2 DEF FetchDue, FindMany, SchedTypeOK, rows

\* Over the removal of what is not to run.
LEMMA PruneTypes == ASSUME SchedTypeOK, NEW s \in Instances, Prune(s) PROVE SchedTypeOK'
  <1>1. wait' \in [Monitors -> Waits] /\ faults' \in 0..MaxFaults
    BY NewScores, ScoresStay DEF Prune
  <1>2. /\ pc' \in [Instances -> {"waiting", "ticked", "fetched", "pruning", "matching", "dispatching"}]
        /\ lag' \in [Instances -> 0..MaxLag]
        /\ due' \in [Instances -> SUBSET Monitors] /\ found' \in [Instances -> SUBSET Monitors]
        /\ processed' \in [Instances -> SUBSET Monitors]
    <2>1. CASE EndTick(s)
      BY <2>1, EndTypes
    <2>2. CASE pc' = [pc EXCEPT ![s] = "matching"] /\ UNCHANGED <<lag, due, found, processed>>
      BY <2>2 DEF SchedTypeOK
    <2> QED
      BY <2>1, <2>2 DEF Prune
  <1> QED
    BY <1>1, <1>2 DEF SchedTypeOK, Prune, rows, Waits

\* Over MatchBatch: the cursor stays an index.
LEMMA MatchTypes == ASSUME SchedTypeOK, NEW s \in Instances, Match(s) PROVE SchedTypeOK'
  <1>1. PICK monitors \in SetToSeqs(found[s]), nodes \in SetToSeqs(Online(s)) :
          /\ assigned' = [assigned EXCEPT ![s] = MatchBatch(monitors, nodes, cursor[s]).assigned]
          /\ cursor' = [cursor EXCEPT ![s] = MatchBatch(monitors, nodes, cursor[s]).cursor]
    BY DEF Match
  <1> DEFINE b == MatchBatch(monitors, nodes, cursor[s])
  <1>2. /\ found[s] \in SUBSET Monitors /\ Online(s) \in SUBSET Runners
        /\ cursor[s] \in [Domains -> 0..Cardinality(Runners)]
    BY DEF SchedTypeOK, Online
  <1>3. /\ b.assigned \in [Runners -> found[s] \cup {None}]
        /\ b.cursor \in [Domains -> 0..Cardinality(Runners)]
    BY <1>2, MatchResult
  <1>4. b.assigned \in [Runners -> Monitors \cup {None}]
    BY <1>2, <1>3
  <1>5. assigned' = [assigned EXCEPT ![s] = b.assigned] /\ cursor' = [cursor EXCEPT ![s] = b.cursor]
    BY <1>1
  <1> HIDE DEF b
  <1>6. /\ assigned' \in [Instances -> [Runners -> Monitors \cup {None}]]
        /\ cursor' \in [Instances -> [Domains -> 0..Cardinality(Runners)]]
    BY <1>3, <1>4, <1>5 DEF SchedTypeOK
  <1>7. pc' \in [Instances -> {"waiting", "ticked", "fetched", "pruning", "matching", "dispatching"}]
    BY DEF Match, SchedTypeOK
  <1> QED
    BY <1>6, <1>7 DEF SchedTypeOK, Match, rows

\* Over a dispatch: no score is further away than an interval.
LEMMA DispatchTypes ==
    ASSUME SchedTypeOK, NEW s \in Instances, NEW r \in Runners, Dispatch(s, r) \/ PublishFails(s, r)
    PROVE  SchedTypeOK'
  <1> DEFINE m == assigned[s][r]
  <1>1. m \in Monitors /\ lag[s] \in 0..MaxLag
    BY DEF SchedTypeOK, Dispatch, PublishFails
  <1>2. wait' \in [Monitors -> Waits] /\ faults' \in 0..MaxFaults
    <2>1. [wait EXCEPT ![m] = NextDue(s)] \in [Monitors -> Waits]
      BY <1>1, NewScores
    <2>2. CASE Dispatch(s, r)
      BY <2>1, <2>2, ScoresStay DEF Dispatch
    <2>3. CASE PublishFails(s, r)
      BY <2>1, <2>3, FaultStays DEF PublishFails
    <2> QED
      BY <2>2, <2>3
  <1>3. /\ assigned' \in [Instances -> [Runners -> Monitors \cup {None}]]
        /\ processed' \in [Instances -> SUBSET Monitors]
    <2>1. /\ assigned' = [assigned EXCEPT ![s][r] = None]
          /\ processed' = [processed EXCEPT ![s] = @ \cup {m}]
      BY DEF Dispatch, PublishFails
    <2> HIDE DEF m
    <2>2. assigned' \in [Instances -> [Runners -> Monitors \cup {None}]]
      BY <2>1 DEF SchedTypeOK
    <2>3. processed' \in [Instances -> SUBSET Monitors]
      BY <1>1, <2>1 DEF SchedTypeOK
    <2> QED
      BY <2>2, <2>3
  <1>4. since' \in [Monitors -> 0..Long] /\ early' \in [Monitors -> Nat]
    <2>1. lag[s] \in 0..Long
      BY <1>1, SchedNumbers
    <2>2. since' \in {since, [since EXCEPT ![m] = lag[s]]} /\ early' \in {early, [early EXCEPT ![m] = @ + 1]}
      BY DEF Dispatch, PublishFails
    <2> HIDE DEF m
    <2>3. early \in [Monitors -> Nat] /\ since \in [Monitors -> 0..Long]
      BY DEF SchedTypeOK
    <2> QED
      BY <1>1, <2>1, <2>2, <2>3
  <1> QED
    BY <1>2, <1>3, <1>4 DEF SchedTypeOK, Dispatch, PublishFails, rows, Waits

\* Over the ends of a tick.
LEMMA EndsTypes ==
    ASSUME SchedTypeOK, NEW s \in Instances, BackOff(s) \/ QueryFails(s) \/ Crash(s)
    PROVE  SchedTypeOK'
  <1>1. wait' \in [Monitors -> Waits] /\ faults' \in 0..MaxFaults
    <2>1. CASE BackOff(s)
      BY <2>1, NewScores, ScoresStay DEF BackOff
    <2>2. CASE QueryFails(s) \/ Crash(s)
      <3>1. Fault /\ UNCHANGED wait
        BY <2>2 DEF QueryFails, Crash
      <3> QED
        BY <3>1, FaultStays DEF SchedTypeOK, Waits
    <2> QED
      BY <2>1, <2>2
  <1>2. EndTick(s) /\ UNCHANGED <<row, funded, arming, since, early>>
    BY DEF BackOff, QueryFails, Crash, rows
  <1>3. /\ cronSaw' \in [Instances -> SUBSET Monitors]
        /\ age' \in [Instances -> [Runners -> 0..(OnlineFor + 1)]]
        /\ cursor' \in [Instances -> [Domains -> 0..Cardinality(Runners)]]
        /\ assigned' \in [Instances -> [Runners -> Monitors \cup {None}]]
    <2>1. CASE BackOff(s) \/ QueryFails(s)
      BY <2>1 DEF BackOff, QueryFails, rows, SchedTypeOK
    <2>2. CASE Crash(s)
      <3>1. /\ NoPings \in [Runners -> 0..(OnlineFor + 1)]
            /\ NoAssignment \in [Runners -> Monitors \cup {None}]
            /\ [d \in Domains |-> 0] \in [Domains -> 0..Cardinality(Runners)]
        BY SchedNumbers DEF NoPings, NoAssignment
      <3> QED
        BY <2>2, <3>1 DEF Crash, SchedTypeOK
    <2> QED
      BY <2>1, <2>2
  <1> QED
    BY <1>1, <1>2, <1>3, EndTypes DEF SchedTypeOK, Waits

\* Over any step.
LEMMA SchedTypeStep == SchedTypeOK /\ [SchedNext]_schedVars => SchedTypeOK'
  <1> SUFFICES ASSUME SchedTypeOK, [SchedNext]_schedVars PROVE SchedTypeOK'
    OBVIOUS
  <1>1. CASE Second
    BY <1>1, SecondTypes
  <1>2. ASSUME NEW m \in Monitors, CreateRow(m) \/ ArmNew(m) \/ Pause(m) \/ Resume(m)
                                     \/ Delete(m) \/ RunOut(m)
        PROVE  SchedTypeOK'
    BY <1>2, RowTypes
  <1>3. ASSUME NEW s \in Instances,
               FindActive(s) \/ AddMissing(s) \/ Tick(s) \/ QueryFails(s) \/ Crash(s)
        PROVE  SchedTypeOK'
    BY <1>3, SyncTypes, ReadTypes, PruneTypes, MatchTypes, DispatchTypes, EndsTypes DEF Tick
  <1>4. ASSUME NEW s \in Instances, NEW r \in Runners, Heartbeat(s, r) \/ PublishFails(s, r)
        PROVE  SchedTypeOK'
    BY <1>4, BeatTypes, DispatchTypes
  <1>5. CASE UNCHANGED schedVars
    BY <1>5 DEF SchedTypeOK, schedVars, rows, tick
  <1> QED
    BY <1>1, <1>2, <1>3, <1>4, <1>5 DEF SchedNext

\* At the start.
LEMMA SchedTypeStart == SchedInit => SchedTypeOK
  <1> SUFFICES ASSUME SchedInit PROVE SchedTypeOK
    OBVIOUS
  <1>1. /\ NoPings \in [Runners -> 0..(OnlineFor + 1)]
        /\ NoAssignment \in [Runners -> Monitors \cup {None}]
        /\ [d \in Domains |-> 0] \in [Domains -> 0..Cardinality(Runners)]
    BY SchedNumbers DEF NoPings, NoAssignment
  <1>2. wait \in [Monitors -> 0..Interval \cup {Absent}]
    BY SchedNumbers DEF SchedInit
  <1>3. since \in [Monitors -> 0..Long] /\ early \in [Monitors -> Nat] /\ faults \in 0..MaxFaults
        /\ lag \in [Instances -> 0..MaxLag]
    BY SchedNumbers DEF SchedInit
  <1> QED
    BY <1>1, <1>2, <1>3 DEF SchedInit, SchedTypeOK

(* Whatever is lost, and with any number of instances: a monitor is never  *)
(* due later than an interval from now, the round-robin cursors are        *)
(* indices of some list of nodes, and ticks assign monitors to nodes only. *)
THEOREM SchedulerTypes == SchedSpec => []SchedTypeOK
  BY SchedTypeStart, SchedTypeStep, PTL DEF SchedSpec

-----------------------------------------------------------------------------
(* What a tick holds.                                                      *)

(* found is what the query has left of due; an assignment is of a monitor  *)
(* found and not yet dispatched, one node per monitor.                     *)
TickInv(s) ==
    /\ pc[s] \in {"waiting", "ticked"} => due[s] = {}
    /\ pc[s] \in {"waiting", "ticked", "fetched"} => found[s] = {}
    /\ pc[s] # "dispatching" => processed[s] = {} /\ assigned[s] = NoAssignment
    /\ found[s] \subseteq due[s]
    /\ \A r \in Runners : assigned[s][r] # None => assigned[s][r] \in found[s] \ processed[s]
    /\ \A q, r \in Runners : assigned[s][q] = assigned[s][r] /\ assigned[s][q] # None => q = r

TickInvs == \A s \in Instances : TickInv(s)

\* A step of something else.
LEMMA TickQuiet ==
    ASSUME NEW s \in Instances, TickInv(s), pc'[s] = pc[s], due'[s] = due[s], found'[s] = found[s],
           processed'[s] = processed[s], assigned'[s] = assigned[s]
    PROVE  TickInv(s)'
  BY DEF TickInv

\* Nothing is left when a tick ends.
LEMMA TickEnds ==
    ASSUME SchedTypeOK, NEW s \in Instances, EndTick(s), assigned'[s] = NoAssignment
    PROVE  TickInv(s)'
  <1>1. due'[s] = {} /\ found'[s] = {} /\ processed'[s] = {}
    BY DEF SchedTypeOK, EndTick
  <1>2. \A r \in Runners : assigned'[s][r] = None
    BY DEF NoAssignment
  <1> QED
    BY <1>1, <1>2 DEF TickInv

\* The steps of one instance leave the others alone.
LEMMA OthersQuiet ==
    ASSUME SchedTypeOK, NEW t \in Instances, NEW s \in Instances \ {t},
           Tick(t) \/ QueryFails(t) \/ Crash(t) \/ (\E r \in Runners : PublishFails(t, r))
    PROVE  /\ pc'[s] = pc[s] /\ due'[s] = due[s] /\ found'[s] = found[s]
           /\ processed'[s] = processed[s] /\ assigned'[s] = assigned[s]
  <1>1. CASE EndTick(t) /\ (UNCHANGED assigned \/ assigned' = [assigned EXCEPT ![t] = NoAssignment])
    BY <1>1 DEF EndTick, SchedTypeOK
  <1>2. CASE FetchDue(t) \/ FindMany(t) \/ Match(t)
    BY <1>2 DEF FetchDue, FindMany, Match, SchedTypeOK
  <1>3. CASE Prune(t) /\ ~EndTick(t)
    BY <1>3 DEF Prune, SchedTypeOK
  <1>4. ASSUME NEW r \in Runners, Dispatch(t, r) \/ PublishFails(t, r)
        PROVE  /\ pc'[s] = pc[s] /\ due'[s] = due[s] /\ found'[s] = found[s]
               /\ processed'[s] = processed[s] /\ assigned'[s] = assigned[s]
    BY <1>4 DEF Dispatch, PublishFails, SchedTypeOK
  <1>5. CASE QueryFails(t) \/ BackOff(t) \/ Crash(t) \/ Prune(t)
    BY <1>1, <1>3, <1>5 DEF QueryFails, BackOff, Crash, Prune
  <1> QED
    BY <1>2, <1>4, <1>5 DEF Tick

\* What MatchBatch gives is of this kind.
LEMMA MatchTick ==
    ASSUME SchedTypeOK, NEW s \in Instances, TickInv(s), Match(s)
    PROVE  TickInv(s)'
  <1>1. PICK monitors \in SetToSeqs(found[s]), nodes \in SetToSeqs(Online(s)) :
          assigned' = [assigned EXCEPT ![s] = MatchBatch(monitors, nodes, cursor[s]).assigned]
    BY DEF Match
  <1> DEFINE a == MatchBatch(monitors, nodes, cursor[s]).assigned
  <1>2. /\ found[s] \in SUBSET Monitors /\ Online(s) \in SUBSET Runners
        /\ cursor[s] \in [Domains -> 0..Cardinality(Runners)]
    BY DEF SchedTypeOK, Online
  <1>3. /\ a \in [Runners -> found[s] \cup {None}]
        /\ \A q, r \in Runners : a[q] = a[r] /\ a[q] # None => q = r
    BY <1>2, MatchResult
  <1>4. assigned'[s] = a
    BY <1>1 DEF SchedTypeOK
  <1>5. pc[s] = "matching" /\ pc'[s] = "dispatching" /\ UNCHANGED <<due, found, processed>>
    BY DEF Match, SchedTypeOK
  <1>6. processed[s] = {} /\ found[s] \subseteq due[s]
    BY <1>5 DEF TickInv
  <1> HIDE DEF a
  <1> QED
    BY <1>3, <1>4, <1>5, <1>6 DEF TickInv

\* What is dispatched is processed, and on no other node.
LEMMA DispatchTick ==
    ASSUME SchedTypeOK, NEW s \in Instances, TickInv(s), NEW r \in Runners,
           Dispatch(s, r) \/ PublishFails(s, r)
    PROVE  TickInv(s)'
  <1> DEFINE m == assigned[s][r]
  <1>1. /\ pc[s] = "dispatching" /\ m # None /\ UNCHANGED <<pc, due, found>>
        /\ assigned' = [assigned EXCEPT ![s][r] = None]
        /\ processed' = [processed EXCEPT ![s] = @ \cup {m}]
    BY DEF Dispatch, PublishFails
  <1>2. /\ assigned'[s][r] = None /\ processed'[s] = processed[s] \cup {m}
        /\ \A q \in Runners \ {r} : assigned'[s][q] = assigned[s][q]
    BY <1>1 DEF SchedTypeOK
  <1>3. \A q \in Runners \ {r} : assigned[s][q] # m
    BY <1>1 DEF TickInv
  <1> HIDE DEF m
  <1> QED
    BY <1>1, <1>2, <1>3 DEF TickInv

\* Any step keeps what the ticks hold.
LEMMA TickStep == SchedTypeOK /\ TickInvs /\ [SchedNext]_schedVars => TickInvs'
  <1> SUFFICES ASSUME SchedTypeOK, TickInvs, [SchedNext]_schedVars, NEW s \in Instances
               PROVE  TickInv(s)'
    BY DEF TickInvs
  <1>0. TickInv(s)
    BY DEF TickInvs
  <1>1. CASE Second
    <2>1. UNCHANGED <<due, found, assigned, processed>> /\ pc[s] # "ticked"
          /\ pc'[s] = IF pc[s] = "waiting" THEN "ticked" ELSE pc[s]
      BY <1>1 DEF Second
    <2> QED
      BY <1>0, <2>1 DEF TickInv
  <1>2. CASE UNCHANGED tick
    BY <1>0, <1>2, TickQuiet DEF tick
  <1>3. ASSUME NEW m \in Monitors, CreateRow(m) \/ ArmNew(m) \/ Pause(m) \/ Resume(m)
                                     \/ Delete(m) \/ RunOut(m)
        PROVE  UNCHANGED tick
    BY <1>3 DEF CreateRow, ArmNew, Pause, Resume, Delete, RunOut, SetRow
  <1>4. ASSUME NEW t \in Instances, FindActive(t) \/ AddMissing(t) \/ \E r \in Runners : Heartbeat(t, r)
        PROVE  UNCHANGED tick
    BY <1>4 DEF FindActive, AddMissing, Heartbeat
  <1>5. ASSUME NEW t \in Instances,
               Tick(t) \/ QueryFails(t) \/ Crash(t) \/ (\E r \in Runners : PublishFails(t, r))
        PROVE  TickInv(s)'
    <2>1. CASE t # s
      BY <1>0, <1>5, <2>1, OthersQuiet, TickQuiet
    <2>2. CASE t = s
      <3>1. CASE FetchDue(s)
        <4>1. /\ UNCHANGED <<found, assigned, processed>> /\ due'[s] = DueNow
              /\ pc'[s] = (IF DueNow = {} THEN "waiting" ELSE "fetched") /\ pc[s] = "ticked"
          BY <3>1 DEF FetchDue, SchedTypeOK
        <4> QED
          BY <1>0, <4>1 DEF TickInv
      <3>2. CASE FindMany(s)
        <4> DEFINE F == {m \in due[s] : Runnable(m)}
        <4>1. /\ UNCHANGED <<due, assigned, processed>> /\ found'[s] = F
              /\ pc'[s] = "pruning" /\ pc[s] = "fetched"
          BY <3>2 DEF FindMany, SchedTypeOK
        <4>2. F \subseteq due[s]
          OBVIOUS
        <4>3. \A r \in Runners : assigned[s][r] = None
          BY <1>0, <4>1 DEF TickInv, NoAssignment
        <4> HIDE DEF F
        <4> QED
          BY <1>0, <4>1, <4>2, <4>3 DEF TickInv
      <3>3. CASE Prune(s)
        <4>1. UNCHANGED assigned /\ pc[s] = "pruning"
          BY <3>3 DEF Prune
        <4>2. CASE EndTick(s)
          <5>1. assigned'[s] = NoAssignment
            BY <1>0, <4>1 DEF TickInv
          <5> QED
            BY <4>2, <5>1, TickEnds
        <4>3. CASE pc' = [pc EXCEPT ![s] = "matching"] /\ UNCHANGED <<lag, due, found, processed>>
          <5>1. pc'[s] = "matching"
            BY <4>3 DEF SchedTypeOK
          <5> QED
            BY <1>0, <4>1, <4>3, <5>1 DEF TickInv
        <4> QED
          BY <3>3, <4>2, <4>3 DEF Prune
      <3>4. CASE QueryFails(s) \/ BackOff(s) \/ Crash(s)
        <4>1. EndTick(s)
          BY <3>4 DEF QueryFails, BackOff, Crash
        <4>2. assigned'[s] = NoAssignment
          BY <1>0, <3>4 DEF QueryFails, BackOff, Crash, TickInv, SchedTypeOK
        <4> QED
          BY <4>1, <4>2, TickEnds
      <3> QED
        BY <1>0, <1>5, <2>2, <3>1, <3>2, <3>3, <3>4, MatchTick, DispatchTick DEF Tick
    <2> QED
      BY <2>1, <2>2
  <1>6. CASE UNCHANGED schedVars
    BY <1>2, <1>6 DEF schedVars, tick
  <1> QED
    BY <1>1, <1>2, <1>3, <1>4, <1>5, <1>6 DEF SchedNext

-----------------------------------------------------------------------------
(* No monitor is checked before its time without a lost write.             *)

(* Only a monitor created while the system runs can lack its row, or wait  *)
(* for the ZADD of Create, and not both.                                   *)
RowInv ==
    /\ arming \subseteq NewMonitors
    /\ \A m \in Monitors : row[m] = "none" => m \in NewMonitors \ arming

\* The score of m does not let it be fetched before its interval is over.
ScoreOK(m) ==
    IF wait[m] = Absent THEN since[m] >= Interval ELSE since[m] + wait[m] >= Interval

\* Neither does what the tick of s has fetched and not dispatched.
FetchOK(s, m) == m \in due[s] \ processed[s] => since[m] >= Interval + lag[s]

Normal(m) == ScoreOK(m) /\ \A s \in Instances : FetchOK(s, m)

\* An early dispatch that is on its way.
Off(m) == IF Normal(m) THEN 0 ELSE 1

\* The ZADD of Create is still to come.
Owed(m) == IF m \in arming \/ row[m] = "none" THEN 1 ELSE 0

Extra(m) == IF m \in NewMonitors THEN 1 ELSE 0

(* The dispatches that came early, the one on its way and the one that the *)
(* ZADD of Create may still bring are covered by the lost writes.          *)
Slack(m) == (early[m] + Off(m)) + Owed(m) <= faults + Extra(m)

\* The variables of one monitor and one instance are numbers.
LEMMA SchedKinds ==
    ASSUME SchedTypeOK, NEW m \in Monitors
    PROVE  /\ since[m] \in Nat /\ since[m] <= Interval + MaxLag /\ early[m] \in Nat
           /\ wait[m] # Absent => wait[m] \in Nat
           /\ \A s \in Instances : lag[s] \in Nat /\ lag[s] <= MaxLag
           /\ faults \in Nat
  <1>1. Interval \in Nat /\ MaxLag \in Nat /\ MaxFaults \in Nat
    BY SchedulerConstants
  <1>2. since[m] \in 0..Long /\ wait[m] \in 0..Interval \cup {Absent} /\ early[m] \in Nat
        /\ faults \in 0..MaxFaults /\ \A s \in Instances : lag[s] \in 0..MaxLag
    BY DEF SchedTypeOK
  <1> QED
    BY <1>1, <1>2 DEF Long

\* What is not touched stays in order, and so does what a tick lets go of.
LEMMA NormalStays ==
    ASSUME NEW m \in Monitors, Normal(m), wait'[m] = wait[m], since'[m] = since[m],
           \A s \in Instances : \/ due'[s] = {}
                                \/ due'[s] = due[s] /\ lag'[s] = lag[s] /\ processed[s] \subseteq processed'[s]
    PROVE  Normal(m)'
  <1>1. ScoreOK(m)'
    BY DEF Normal, ScoreOK
  <1>2. ASSUME NEW s \in Instances PROVE FetchOK(s, m)'
    BY DEF Normal, FetchOK
  <1> QED
    BY <1>1, <1>2 DEF Normal

\* A second moves the score, the last dispatch and the lag together.
LEMMA SecondNormal ==
    ASSUME SchedTypeOK, TickInvs, NEW m \in Monitors, Normal(m), Second
    PROVE  Normal(m)'
  <1>0. Interval \in Nat /\ MaxLag \in Nat
    BY SchedulerConstants
  <1>1. /\ since[m] \in Nat /\ since[m] <= Interval + MaxLag
        /\ wait[m] # Absent => wait[m] \in Nat
        /\ \A s \in Instances : lag[s] \in Nat
    BY SchedKinds
  <1>2. since'[m] = IF since[m] = Interval + MaxLag THEN Interval + MaxLag ELSE since[m] + 1
    BY DEF Second, Long
  <1>3. ScoreOK(m)'
    <2>1. CASE wait[m] = Absent
      <3>1. wait'[m] = Absent /\ since[m] >= Interval
        BY <2>1 DEF Second, Normal, ScoreOK
      <3> QED
        BY <1>0, <1>1, <1>2, <3>1 DEF ScoreOK
    <2>2. CASE wait[m] # Absent
      <3>1. wait'[m] = (IF wait[m] > 1 THEN wait[m] - 1 ELSE 0) /\ since[m] + wait[m] >= Interval
        BY <2>2 DEF Second, Normal, ScoreOK, Minus
      <3>2. wait'[m] \in Nat /\ since'[m] + wait'[m] >= Interval
        BY <1>0, <1>1, <1>2, <2>2, <3>1
      <3>3. Absent \notin Nat
        BY SchedulerConstants
      <3> QED
        BY <3>2, <3>3 DEF ScoreOK
    <2> QED
      BY <2>1, <2>2
  <1>4. ASSUME NEW s \in Instances PROVE FetchOK(s, m)'
    <2>1. UNCHANGED <<due, processed>>
      BY DEF Second
    <2>2. CASE pc[s] = "waiting"
      BY <2>1, <2>2 DEF TickInvs, TickInv, FetchOK
    <2>3. CASE pc[s] # "waiting"
      <3>1. lag'[s] = lag[s] + 1 /\ lag[s] < MaxLag
        BY <2>3 DEF Second
      <3>2. m \in due[s] \ processed[s] => since[m] >= Interval + lag[s]
        BY DEF Normal, FetchOK
      <3> QED
        BY <1>0, <1>1, <1>2, <2>1, <3>1, <3>2 DEF FetchOK
    <2> QED
      BY <2>2, <2>3
  <1> QED
    BY <1>3, <1>4 DEF Normal

\* The sync arms what is not armed, and leaves the other scores alone.
LEMMA SyncNormal ==
    ASSUME SchedTypeOK, NEW m \in Monitors, Normal(m), NEW s \in Instances, AddMissing(s)
    PROVE  Normal(m)'
  <1>1. UNCHANGED <<tick, since>>
    BY DEF AddMissing
  <1>2. wait'[m] = wait[m] \/ (wait[m] = Absent /\ wait'[m] = 0)
    BY DEF AddMissing, Resynced
  <1>3. CASE wait'[m] = wait[m]
    BY <1>1, <1>3, NormalStays DEF tick
  <1>4. CASE wait[m] = Absent /\ wait'[m] = 0
    <2>1. since[m] >= Interval
      BY <1>4 DEF Normal, ScoreOK
    <2>2. ScoreOK(m)'
      BY <1>1, <1>4, <2>1, SchedKinds, SchedulerConstants DEF ScoreOK
    <2>3. \A t \in Instances : FetchOK(t, m)'
      BY <1>1 DEF Normal, FetchOK, tick
    <2> QED
      BY <2>2, <2>3 DEF Normal
  <1> QED
    BY <1>2, <1>3, <1>4

\* What a step of the tick of t does to the others, and to what it holds.
LEMMA FetchNormal ==
    ASSUME SchedTypeOK, TickInvs, NEW m \in Monitors, Normal(m), NEW t \in Instances, FetchDue(t)
    PROVE  Normal(m)'
  <1>1. UNCHANGED <<wait, since, processed>>
    BY DEF FetchDue
  <1>2. ScoreOK(m)'
    BY <1>1 DEF Normal, ScoreOK
  <1>3. ASSUME NEW s \in Instances PROVE FetchOK(s, m)'
    <2>1. CASE s # t
      <3>1. due'[s] = due[s] /\ lag'[s] = lag[s]
        BY <2>1 DEF FetchDue, SchedTypeOK
      <3> QED
        BY <1>1, <3>1 DEF Normal, FetchOK
    <2>2. CASE s = t
      <3>1. due'[s] = DueNow /\ lag'[s] = 0
        BY <2>2 DEF FetchDue, SchedTypeOK
      <3>2. ASSUME m \in DueNow PROVE since[m] >= Interval + 0
        <4>1. wait[m] = 0 /\ wait[m] # Absent
          BY <3>2, SchedNumbers DEF DueNow
        <4>2. since[m] + 0 >= Interval
          BY <4>1 DEF Normal, ScoreOK
        <4> QED
          BY <4>2, SchedKinds, SchedNumbers
      <3> QED
        BY <1>1, <3>1, <3>2 DEF FetchOK
    <2> QED
      BY <2>1, <2>2
  <1> QED
    BY <1>2, <1>3 DEF Normal

\* The end of a tick, in the words of NormalStays.
LEMMA EndLetsGo ==
    ASSUME SchedTypeOK, NEW t \in Instances, EndTick(t), NEW s \in Instances
    PROVE  \/ due'[s] = {}
           \/ due'[s] = due[s] /\ lag'[s] = lag[s] /\ processed[s] \subseteq processed'[s]
  BY DEF EndTick, SchedTypeOK

\* Scores are removed, or moved by the back-off, once the interval is over.
LEMMA ScoreMoves ==
    ASSUME SchedTypeOK, TickInvs, NEW m \in Monitors, Normal(m), NEW t \in Instances,
           Prune(t) \/ BackOff(t), faults' = faults
    PROVE  ScoreOK(m)'
  <1>1. UNCHANGED since
    BY DEF Prune, BackOff
  <1>2. since[m] \in Nat /\ lag[t] \in Nat /\ faults \in Nat /\ Interval \in Nat /\ Backoff \in Nat
    BY SchedKinds, SchedNumbers
  <1>3. ~Fault
    BY <1>2 DEF Fault
  <1>4. CASE wait'[m] = wait[m]
    BY <1>1, <1>4 DEF Normal, ScoreOK
  <1>5. CASE m \in due[t] \ processed[t] /\ (wait'[m] = Absent \/ wait'[m] \in Nat)
    <2>1. since[m] >= Interval + lag[t]
      BY <1>5 DEF Normal, FetchOK
    <2> QED
      BY <1>1, <1>2, <1>5, <2>1, SchedNumbers DEF ScoreOK
  <1>6. CASE Prune(t)
    <2>1. wait' = [k \in Monitors |-> IF Pruned(t, k) THEN Absent ELSE wait[k]]
      BY <1>3, <1>6 DEF Prune, StoreScores
    <2>2. pc[t] = "pruning"
      BY <1>6 DEF Prune
    <2>3. processed[t] = {}
      BY <2>2 DEF TickInvs, TickInv
    <2> QED
      BY <1>4, <1>5, <2>1, <2>3 DEF Pruned
  <1>7. CASE BackOff(t)
    <2>1. wait' = [k \in Monitors |->
             IF k \in found[t] \ processed[t] THEN Minus(Backoff, lag[t]) ELSE wait[k]]
      BY <1>3, <1>7 DEF BackOff, StoreScores
    <2>2. found[t] \subseteq due[t]
      BY DEF TickInvs, TickInv
    <2>3. Minus(Backoff, lag[t]) \in Nat
      BY <1>2, MinusRange
    <2> QED
      BY <1>4, <1>5, <2>1, <2>2, <2>3
  <1> QED
    BY <1>6, <1>7

\* The same with what the tick holds.
LEMMA MoveNormal ==
    ASSUME SchedTypeOK, TickInvs, NEW m \in Monitors, Normal(m), NEW t \in Instances,
           Prune(t) \/ BackOff(t), faults' = faults
    PROVE  Normal(m)'
  <1>1. ScoreOK(m)'
    BY ScoreMoves
  <1>2. UNCHANGED since
    BY DEF Prune, BackOff
  <1>3. ASSUME NEW s \in Instances PROVE FetchOK(s, m)'
    <2>1. \/ due'[s] = {}
          \/ due'[s] = due[s] /\ lag'[s] = lag[s] /\ processed[s] \subseteq processed'[s]
      BY EndLetsGo DEF Prune, BackOff
    <2>2. FetchOK(s, m)
      BY DEF Normal
    <2> QED
      BY <1>2, <2>1, <2>2 DEF FetchOK
  <1> QED
    BY <1>1, <1>3 DEF Normal

(* A step without a fault that is no dispatch and no ZADD of Create keeps  *)
(* a monitor in order.                                                     *)
LEMMA QuietNormal ==
    ASSUME SchedTypeOK, TickInvs, NEW m \in Monitors, Normal(m), faults' = faults,
           NEW t \in Instances, FindActive(t) \/ AddMissing(t) \/ FetchDue(t) \/ FindMany(t)
             \/ Prune(t) \/ Match(t) \/ BackOff(t) \/ \E r \in Runners : Heartbeat(t, r)
    PROVE  Normal(m)'
  <1>1. CASE FindActive(t) \/ FindMany(t) \/ Match(t) \/ \E r \in Runners : Heartbeat(t, r)
    <2>1. UNCHANGED <<wait, since, due, lag, processed>>
      BY <1>1 DEF FindActive, FindMany, Match, Heartbeat, tick
    <2> QED
      BY <2>1, NormalStays
  <1> QED
    BY <1>1, SyncNormal, FetchNormal, MoveNormal

\* The terms of Slack are numbers.
LEMMA SlackKinds ==
    ASSUME NEW m \in Monitors
    PROVE  Off(m) \in 0..1 /\ Owed(m) \in 0..1 /\ Extra(m) \in 0..1
           /\ Off(m)' \in 0..1 /\ Owed(m)' \in 0..1
  BY DEF Off, Owed, Extra

\* The ZADD of Create is owed no longer than before when the rows are as before.
LEMMA OwedStays ==
    ASSUME NEW m \in Monitors, row'[m] = row[m], m \in arming' => m \in arming
    PROVE  Owed(m)' <= Owed(m)
  BY DEF Owed

\* A step without a fault: nothing new is on its way.
LEMMA SlackQuiet ==
    ASSUME SchedTypeOK, NEW m \in Monitors, Slack(m), early'[m] = early[m], faults' = faults,
           Owed(m)' <= Owed(m), Normal(m) => Normal(m)'
    PROVE  Slack(m)'
  <1>1. Off(m)' <= Off(m)
    BY DEF Off
  <1> QED
    BY <1>1, SlackKinds, SchedKinds DEF Slack, Extra

\* A lost write brings at most one.
LEMMA SlackFault ==
    ASSUME SchedTypeOK, NEW m \in Monitors, Slack(m), early'[m] = early[m], faults' = faults + 1,
           Owed(m)' <= Owed(m)
    PROVE  Slack(m)'
  BY SlackKinds, SchedKinds DEF Slack, Extra

\* The two outcomes of a write.
LEMMA WriteOutcome ==
    ASSUME NEW scores, StoreScores(scores)
    PROVE  faults' = faults \/ faults' = faults + 1
  BY DEF StoreScores, Fault

\* Any step keeps it.
LEMMA RowsStep == SchedTypeOK /\ RowInv /\ [SchedNext]_schedVars => RowInv'
  <1> SUFFICES ASSUME SchedTypeOK, RowInv, [SchedNext]_schedVars
               PROVE  RowInv'
    OBVIOUS
  <1>1. CASE UNCHANGED <<row, arming>>
    BY <1>1 DEF RowInv
  <1>2. ASSUME NEW m \in Monitors, CreateRow(m)
        PROVE  RowInv'
    <2>1. m \in NewMonitors /\ arming' = arming \cup {m} /\ row' = [row EXCEPT ![m] = "active"]
      BY <1>2 DEF CreateRow, RowInv
    <2>2. \A k \in Monitors : row'[k] = "none" => k # m /\ row[k] = "none"
      BY <2>1 DEF SchedTypeOK
    <2> QED
      BY <2>1, <2>2 DEF RowInv
  <1>3. ASSUME NEW m \in Monitors, ArmNew(m)
        PROVE  RowInv'
    BY <1>3 DEF ArmNew, RowInv
  <1>4. ASSUME NEW m \in Monitors, Pause(m) \/ Resume(m) \/ Delete(m)
        PROVE  RowInv'
    <2>1. PICK v \in {"active", "paused", "deleted"} : row' = [row EXCEPT ![m] = v] /\ arming' = arming
      BY <1>4 DEF Pause, Resume, Delete, SetRow
    <2>2. \A k \in Monitors : row'[k] = "none" => row[k] = "none"
      BY <2>1 DEF SchedTypeOK
    <2> QED
      BY <2>1, <2>2 DEF RowInv
  <1>5. ASSUME NEW m \in Monitors, RunOut(m)
        PROVE  UNCHANGED <<row, arming>>
    BY <1>5 DEF RunOut
  <1>6. CASE Second \/ UNCHANGED schedVars
    BY <1>1, <1>6 DEF Second, schedVars, rows
  <1>7. ASSUME NEW s \in Instances, FindActive(s) \/ AddMissing(s) \/ QueryFails(s) \/ Crash(s)
        PROVE  UNCHANGED <<row, arming>>
    BY <1>7 DEF FindActive, AddMissing, QueryFails, Crash, rows
  <1>8. ASSUME NEW s \in Instances, Tick(s)
        PROVE  UNCHANGED <<row, arming>>
    BY <1>8 DEF Tick, FetchDue, FindMany, Prune, Match, Dispatch, BackOff, rows
  <1>9. ASSUME NEW s \in Instances, NEW r \in Runners, Heartbeat(s, r) \/ PublishFails(s, r)
        PROVE  UNCHANGED <<row, arming>>
    BY <1>9 DEF Heartbeat, PublishFails, rows
  <1> QED
    BY <1>1, <1>2, <1>3, <1>4, <1>5, <1>6, <1>7, <1>8, <1>9 DEF SchedNext

\* The operations on the rows.
LEMMA RowSlack ==
    ASSUME SchedTypeOK, RowInv, NEW k \in Monitors, Slack(k), NEW m \in Monitors,
           CreateRow(m) \/ ArmNew(m) \/ Pause(m) \/ Resume(m) \/ Delete(m) \/ RunOut(m)
    PROVE  Slack(k)'
  <1>1. UNCHANGED <<tick, since, early>>
    BY DEF CreateRow, ArmNew, Pause, Resume, Delete, RunOut, SetRow
  <1>2. wait'[k] = wait[k] /\ Normal(k) => Normal(k)'
    BY <1>1, NormalStays DEF tick
  <1>3. CASE ~ArmNew(m)
    <2>1. UNCHANGED <<wait, faults>>
      BY <1>3 DEF CreateRow, Pause, Resume, Delete, RunOut, SetRow
    <2>2. Owed(k)' <= Owed(k)
      <3>1. CASE CreateRow(m)
        <4>1. arming' = arming \cup {m} /\ row[m] = "none" /\ row' = [row EXCEPT ![m] = "active"]
          BY <3>1 DEF CreateRow
        <4> QED
          BY <4>1 DEF Owed, SchedTypeOK
      <3>2. CASE ~CreateRow(m)
        <4>1. arming' = arming /\ (row' = row \/ \E v \in {"active", "paused", "deleted"} : row' = [row EXCEPT ![m] = v])
          BY <1>3, <3>2 DEF Pause, Resume, Delete, RunOut, SetRow
        <4>2. row'[k] = "none" => row[k] = "none"
          BY <4>1 DEF SchedTypeOK
        <4> QED
          BY <4>1, <4>2 DEF Owed
      <3> QED
        BY <3>1, <3>2
    <2> QED
      BY <1>1, <1>2, <2>1, <2>2, SlackQuiet
  <1>4. CASE ArmNew(m)
    <2>1. m \in arming /\ arming' = arming \ {m} /\ UNCHANGED row /\ StoreScores([wait EXCEPT ![m] = 0])
      BY <1>4 DEF ArmNew
    <2>2. Owed(k)' <= Owed(k)
      BY <2>1, OwedStays
    <2>3. CASE faults' = faults + 1
      BY <1>1, <2>2, <2>3, SlackFault
    <2>4. CASE faults' = faults /\ k = m
      <3>1. Owed(k) = 1 /\ Owed(k)' = 0
        BY <2>1, <2>4 DEF Owed, RowInv
      <3> QED
        BY <1>1, <2>4, <3>1, SlackKinds, SchedKinds DEF Slack, Extra
    <2>5. CASE faults' = faults /\ k # m
      <3>1. wait'[k] = wait[k]
        BY <2>1, <2>5 DEF StoreScores, SchedTypeOK
      <3> QED
        BY <1>1, <1>2, <2>2, <2>5, <3>1, SlackQuiet
    <2> QED
      BY <2>1, <2>3, <2>4, <2>5, WriteOutcome
  <1> QED
    BY <1>3, <1>4

(* With one instance, a dispatch is early only if something was on its     *)
(* way; what it writes, when the write is not lost, is in order.           *)
LEMMA DispatchSlack ==
    ASSUME SchedTypeOK, TickInvs, NEW k \in Monitors, Slack(k), NEW s \in Instances,
           Instances = {s}, NEW r \in Runners, Dispatch(s, r)
    PROVE  Slack(k)'
  <1> DEFINE m == assigned[s][r]
  <1>1. /\ m # None /\ processed' = [processed EXCEPT ![s] = @ \cup {m}]
        /\ since' = [since EXCEPT ![m] = lag[s]]
        /\ early' = IF since[m] < Interval + lag[s] THEN [early EXCEPT ![m] = @ + 1] ELSE early
        /\ StoreScores([wait EXCEPT ![m] = NextDue(s)])
        /\ UNCHANGED <<row, arming, lag, due>>
    BY DEF Dispatch, rows
  <1>2. m \in found[s] \ processed[s] /\ found[s] \subseteq due[s]
    BY <1>1 DEF TickInvs, TickInv
  <1>3. m \in Monitors /\ m \in due[s] \ processed[s]
    BY <1>2 DEF SchedTypeOK
  <1>4. processed'[s] = processed[s] \cup {m}
    BY <1>1 DEF SchedTypeOK
  <1>5. faults' = faults \/ faults' = faults + 1
    BY <1>1, WriteOutcome
  <1>6. Owed(k)' <= Owed(k)
    BY <1>1, OwedStays
  <1>7. faults \in Nat /\ early[k] \in Nat /\ since[k] \in Nat /\ lag[s] \in Nat /\ lag[s] <= MaxLag
    BY SchedKinds
  <1> HIDE DEF m
  <1>8. CASE k # m
    <2>1. since'[k] = since[k] /\ early'[k] = early[k] /\ wait'[k] = wait[k]
      BY <1>1, <1>8 DEF StoreScores, SchedTypeOK
    <2>2. Normal(k) => Normal(k)'
      BY <1>1, <1>4, <2>1, NormalStays
    <2> QED
      BY <1>5, <1>6, <2>1, <2>2, SlackQuiet, SlackFault
  <1>9. CASE k = m
    <2>1. since'[k] = lag[s] /\ (early'[k] = early[k] \/ early'[k] = early[k] + 1)
      BY <1>1, <1>3, <1>9 DEF SchedTypeOK
    <2>2. Normal(k) => early'[k] = early[k]
      <3>1. ASSUME Normal(k) PROVE since[k] >= Interval + lag[s]
        BY <1>3, <1>9, <3>1 DEF Normal, FetchOK
      <3> QED
        BY <1>1, <1>7, <1>9, <3>1, SchedNumbers
    <2>3. faults' = faults => Normal(k)'
      <3>1. SUFFICES ASSUME faults' = faults PROVE Normal(k)'
        OBVIOUS
      <3>2. wait'[k] = NextDue(s)
        BY <1>1, <1>3, <1>7, <1>9, <3>1 DEF StoreScores, Fault, SchedTypeOK
      <3>3. NextDue(s) \in Nat /\ NextDue(s) + lag[s] = Interval
        BY <1>7, SchedNumbers DEF NextDue, Minus
      <3>4. ScoreOK(k)'
        BY <1>7, <2>1, <3>2, <3>3, SchedNumbers DEF ScoreOK
      <3>5. \A t \in Instances : FetchOK(t, k)'
        BY <1>1, <1>4, <1>9 DEF FetchOK
      <3> QED
        BY <3>4, <3>5 DEF Normal
    <2>4. early'[k] <= early[k] + Off(k)
      BY <1>7, <2>1, <2>2 DEF Off
    <2>5. faults' = faults => Off(k)' = 0
      BY <2>3 DEF Off
    <2>6. early'[k] \in Nat
      BY <1>7, <2>1
    <2> QED
      BY <1>5, <1>6, <1>7, <2>4, <2>5, <2>6, SlackKinds DEF Slack, Extra
  <1> QED
    BY <1>8, <1>9

\* The steps of the only instance.
LEMMA InstanceSlack ==
    ASSUME SchedTypeOK, TickInvs, NEW k \in Monitors, Slack(k), NEW s \in Instances,
           Instances = {s},
           \/ FindActive(s) \/ AddMissing(s) \/ Tick(s) \/ QueryFails(s) \/ Crash(s)
           \/ \E r \in Runners : Heartbeat(s, r) \/ PublishFails(s, r)
    PROVE  Slack(k)'
  <1>1. CASE QueryFails(s) \/ Crash(s) \/ \E r \in Runners : PublishFails(s, r)
    <2>1. faults' = faults + 1 /\ UNCHANGED <<row, arming, early>>
      BY <1>1 DEF QueryFails, Crash, PublishFails, Fault, rows
    <2> QED
      BY <2>1, OwedStays, SlackFault
  <1>2. CASE FindActive(s) \/ AddMissing(s) \/ FetchDue(s) \/ FindMany(s)
             \/ Prune(s) \/ Match(s) \/ BackOff(s) \/ \E r \in Runners : Heartbeat(s, r)
    <2>1. UNCHANGED <<row, arming, early>>
      BY <1>2 DEF FindActive, AddMissing, FetchDue, FindMany, Prune, Match, BackOff, Heartbeat, rows
    <2>2. Owed(k)' <= Owed(k)
      BY <2>1, OwedStays
    <2>3. faults' = faults \/ faults' = faults + 1
      <3>1. CASE Prune(s) \/ BackOff(s)
        BY <3>1, WriteOutcome DEF Prune, BackOff
      <3> QED
        BY <1>2, <3>1 DEF FindActive, AddMissing, FetchDue, FindMany, Match, Heartbeat
    <2>4. CASE faults' = faults
      BY <1>2, <2>1, <2>2, <2>4, QuietNormal, SlackQuiet
    <2>5. CASE faults' = faults + 1
      BY <2>1, <2>2, <2>5, SlackFault
    <2> QED
      BY <2>3, <2>4, <2>5
  <1> QED
    BY <1>1, <1>2, DispatchSlack DEF Tick

\* Any step, with one instance, keeps the balance.
LEMMA SlackStep ==
    ASSUME SchedTypeOK, TickInvs, RowInv, [SchedNext]_schedVars, NEW k \in Monitors, Slack(k),
           Cardinality(Instances) = 1
    PROVE  Slack(k)'
  <1>1. PICK s : Instances = {s}
    <2>1. IsFiniteSet(Instances)
      BY SchedulerConstants
    <2> QED
      BY <2>1, FS_Singleton
  <1>2. CASE Second
    <2>1. UNCHANGED <<row, arming, early, faults>>
      BY <1>2 DEF Second, rows
    <2> QED
      BY <1>2, <2>1, OwedStays, SecondNormal, SlackQuiet
  <1>3. CASE UNCHANGED schedVars
    <2>1. UNCHANGED <<row, arming, early, faults, wait, since, due, lag, processed>>
      BY <1>3 DEF schedVars, rows, tick
    <2> QED
      BY <2>1, OwedStays, NormalStays, SlackQuiet
  <1> QED
    BY <1>1, <1>2, <1>3, RowSlack, InstanceSlack DEF SchedNext

SlackInv == Cardinality(Instances) = 1 => \A m \in Monitors : Slack(m)

EarlyInv == SchedTypeOK /\ TickInvs /\ RowInv /\ SlackInv

\* At the start nothing is on its way.
LEMMA EarlyStart == SchedInit => EarlyInv
  <1> SUFFICES ASSUME SchedInit PROVE EarlyInv
    OBVIOUS
  <1>1. SchedTypeOK
    BY SchedTypeStart
  <1>2. TickInvs
    BY DEF SchedInit, TickInvs, TickInv, NoAssignment
  <1>3. RowInv
    BY DEF SchedInit, RowInv
  <1>4. ASSUME NEW m \in Monitors PROVE Slack(m)
    <2>1. since[m] = Interval + MaxLag /\ early[m] = 0 /\ faults = 0
          /\ wait[m] = IF m \in NewMonitors THEN Absent ELSE 0
      BY DEF SchedInit, Long
    <2>2. ScoreOK(m)
      BY <2>1, SchedNumbers DEF ScoreOK
    <2>3. Normal(m)
      BY <2>2 DEF SchedInit, Normal, FetchOK
    <2>4. Owed(m) <= Extra(m)
      BY <1>3 DEF Owed, Extra, RowInv
    <2> QED
      BY <2>1, <2>3, <2>4, SlackKinds DEF Slack, Off
  <1> QED
    BY <1>1, <1>2, <1>3, <1>4 DEF EarlyInv, SlackInv

\* Any step keeps all of it.
LEMMA EarlyStep == EarlyInv /\ [SchedNext]_schedVars => EarlyInv'
  <1> SUFFICES ASSUME EarlyInv, [SchedNext]_schedVars PROVE EarlyInv'
    OBVIOUS
  <1>1. SchedTypeOK /\ TickInvs /\ RowInv
    BY DEF EarlyInv
  <1>2. SlackInv'
    BY <1>1, SlackStep DEF SlackInv, EarlyInv
  <1> QED
    BY <1>1, <1>2, SchedTypeStep, TickStep, RowsStep DEF EarlyInv

(* With one backend a monitor is dispatched before its interval is over at *)
(* most once per lost Redis write, and once more if it was created while   *)
(* the system ran: for every number of monitors and nodes, every interval, *)
(* back-off and delay of a tick (scheduleTick, SyncSchedulerState, Create).*)
THEOREM EarlyIsBounded == SchedSpec => []EarlyBounded
  <1>1. EarlyInv => EarlyBounded
    <2> SUFFICES ASSUME EarlyInv, Cardinality(Instances) = 1, NEW m \in Monitors
                 PROVE  early[m] <= faults + (IF m \in NewMonitors THEN 1 ELSE 0)
      BY DEF EarlyBounded
    <2>1. Slack(m) /\ SchedTypeOK
      BY DEF EarlyInv, SlackInv
    <2> QED
      BY <2>1, SchedKinds, SlackKinds DEF Slack, Extra
  <1> QED
    BY <1>1, EarlyStart, EarlyStep, PTL DEF SchedSpec

-----------------------------------------------------------------------------
(* How MatchBatch spreads the jobs of one domain over the nodes.           *)

\* The monitors among the first k, and those that have a node.
Seen(monitors, k) == {monitors[i] : i \in 1..k}

Given(acc) == {acc.assigned[r] : r \in {q \in Runners : acc.assigned[q] # None}}

\* The node i places after start in a ring of c nodes.
Turn(start, i, c) == IF start + i < c THEN start + i ELSE (start + i) - c

(* After k rounds, for the domain d: the cap holds, no round of d passed a *)
(* node by unless the cap was reached, and the nodes picked for d are the  *)
(* ones that follow start, with the cursor after the last of them.         *)
RingOK(acc, monitors, nodes, start, d, k) ==
    /\ acc.count[d] <= DomainCap
    /\ Cardinality(Of(d, Given(acc))) <= acc.count[d]
    /\ acc.count[d] >= DomainCap \/ acc.count[d] >= Cardinality(Of(d, Seen(monitors, k)))
    /\ \A i \in Nat : i < Len(nodes) /\ i < acc.count[d] =>
         acc.assigned[nodes[Turn(start, i, Len(nodes)) + 1]] # None
    /\ acc.count[d] < Len(nodes) =>
         acc.cursor[d] % Len(nodes) = Turn(start, acc.count[d], Len(nodes))

\* A remainder of a smaller number, and of the modulus itself.
LEMMA ModSmall ==
    ASSUME NEW c \in Nat \ {0}
    PROVE  (\A a \in 0..(c - 1) : a % c = a) /\ c % c = 0
  OBVIOUS

\* One place further in the ring.
LEMMA TurnOne ==
    ASSUME NEW c \in Nat \ {0}, NEW start \in 0..(c - 1), NEW i \in Nat, i + 1 < c
    PROVE  /\ Turn(start, i, c) \in 0..(c - 1)
           /\ ((Turn(start, i, c) + 1) % c) % c = Turn(start, i + 1, c)
  <1>1. Turn(start, i, c) \in 0..(c - 1)
    BY DEF Turn
  <1>2. Turn(start, i + 1, c) \in 0..(c - 1)
    BY DEF Turn
  <1> DEFINE t == Turn(start, i, c)
             u == Turn(start, i + 1, c)
  <1>3. t + 1 = u \/ (t + 1 = c /\ u = 0)
    BY DEF Turn
  <1>4. t \in 0..(c - 1) /\ u \in 0..(c - 1)
    BY <1>1, <1>2
  <1> HIDE DEF t, u
  <1>5. u % c = u /\ c % c = 0 /\ (u = 0 => 0 % c = 0)
    BY <1>4, ModSmall
  <1>6. ((t + 1) % c) % c = u
    <2>1. CASE t + 1 = u
      BY <1>5, <2>1
    <2>2. CASE t + 1 = c /\ u = 0
      BY <1>5, <2>2
    <2> QED
      BY <1>3, <2>1, <2>2
  <1> QED
    BY <1>1, <1>6 DEF t, u

\* The places of a ring are different.
LEMMA TurnInjective ==
    ASSUME NEW c \in Nat \ {0}, NEW start \in 0..(c - 1), NEW i \in 0..(c - 1), NEW j \in 0..(c - 1),
           Turn(start, i, c) = Turn(start, j, c)
    PROVE  i = j
  BY DEF Turn

\* One more monitor in a set counts for its domain only.
LEMMA OneMoreSeen ==
    ASSUME NEW S \in SUBSET Monitors, NEW m \in Monitors, NEW d
    PROVE  /\ IsFiniteSet(Of(d, S)) /\ Cardinality(Of(d, S)) \in Nat
           /\ Cardinality(Of(d, S \cup {m})) \in Nat
           /\ Domain[m] # d => Of(d, S \cup {m}) = Of(d, S)
           /\ Cardinality(Of(d, S \cup {m})) <= Cardinality(Of(d, S)) + 1
  <1>1. IsFiniteSet(Monitors)
    BY SchedulerConstants
  <1>2. IsFiniteSet(Of(d, S))
    BY <1>1, FS_Subset DEF Of
  <1>3. Domain[m] # d => Of(d, S \cup {m}) = Of(d, S)
    BY DEF Of
  <1>4. Domain[m] = d => Of(d, S \cup {m}) = Of(d, S) \cup {m}
    BY DEF Of
  <1>5. Cardinality(Of(d, S)) \in Nat
    BY <1>2, FS_CardinalityType
  <1>6. Cardinality(Of(d, S) \cup {m}) \in Nat /\ Cardinality(Of(d, S) \cup {m}) <= Cardinality(Of(d, S)) + 1
    <2> DEFINE U == Of(d, S)
    <2>1. IsFiniteSet(U) /\ Cardinality(U) \in Nat
      BY <1>2, <1>5
    <2> HIDE DEF U
    <2>2. Cardinality(U \cup {m}) = IF m \in U THEN Cardinality(U) ELSE Cardinality(U) + 1
      BY <2>1, FS_AddElement
    <2>3. Cardinality(U \cup {m}) \in Nat /\ Cardinality(U \cup {m}) <= Cardinality(U) + 1
      BY <2>1, <2>2
    <2> QED
      BY <2>3 DEF U
  <1> QED
    BY <1>2, <1>3, <1>4, <1>5, <1>6

\* A subset has no more of a domain.
LEMMA FewerOf ==
    ASSUME NEW S \in SUBSET Monitors, NEW T \in SUBSET S, NEW d
    PROVE  Cardinality(Of(d, T)) <= Cardinality(Of(d, S))
  <1>1. IsFiniteSet(Monitors)
    BY SchedulerConstants
  <1>2. IsFiniteSet(Of(d, S)) /\ Of(d, T) \in SUBSET Of(d, S)
    BY <1>1, FS_Subset DEF Of
  <1> QED
    BY <1>2, FS_Subset

\* The two outcomes of a round.
Passed(acc, new, m) == new = acc /\ acc.count[Domain[m]] >= DomainCap

Picked(acc, new, m, c, r) ==
    LET e == Domain[m] IN
    /\ acc.count[e] < DomainCap
    /\ new.assigned[r] = m /\ \A q \in Runners \ {r} : new.assigned[q] = acc.assigned[q]
    /\ new.count[e] = acc.count[e] + 1 /\ new.cursor[e] = ((acc.cursor[e] % c) + 1) % c
    /\ \A d \in Domains \ {e} : new.count[d] = acc.count[d] /\ new.cursor[d] = acc.cursor[d]

\* There is no third one.
LEMMA PickOutcome ==
    ASSUME NEW m \in Monitors, NEW nodes \in Seq(Runners), Len(nodes) \in Nat \ {0},
           Cardinality(Runners) \in Nat, NEW acc, NEW monitors, NEW k, AccOK(acc, monitors, nodes, k)
    PROVE  LET r == nodes[(acc.cursor[Domain[m]] % Len(nodes)) + 1]
               new == PickNode(acc, m, nodes)
           IN  Passed(acc, new, m) \/ (r \in Runners /\ Picked(acc, new, m, Len(nodes), r))
  <1> DEFINE e == Domain[m]
             c == Len(nodes)
             idx == acc.cursor[e] % c
             r == nodes[idx + 1]
             new == PickNode(acc, m, nodes)
  <1>0. e \in Domains
    BY DEF Domains
  <1>1. /\ acc.assigned \in [Runners -> Monitors \cup {None}]
        /\ acc.cursor \in [Domains -> 0..Cardinality(Runners)] /\ acc.count \in [Domains -> Nat]
    BY DEF AccOK
  <1>2. acc.cursor[e] \in Nat /\ acc.count[e] \in Nat /\ DomainCap \in Nat
    <2>1. DomainCap \in Nat
      BY SchedulerConstants
    <2> HIDE DEF e
    <2> QED
      BY <1>0, <1>1, <2>1
  <1>3. idx \in 0..(c - 1)
    <2> HIDE DEF c, e
    <2>1. c \in Nat \ {0}
      BY DEF c
    <2> QED
      BY <1>2, <2>1, ModRange
  <1>4. r \in Runners
    <2> HIDE DEF idx
    <2> QED
      BY <1>3
  <1>5. CASE CapReached(acc.count[e])
    BY <1>5 DEF PickNode, Passed, CapReached
  <1>6. CASE ~CapReached(acc.count[e])
    <2> DEFINE p == (idx + 1) % c
    <2>1. new = [assigned |-> [acc.assigned EXCEPT ![r] = m],
                 cursor |-> [acc.cursor EXCEPT ![e] = p],
                 count |-> [acc.count EXCEPT ![e] = @ + 1]]
      BY <1>6 DEF PickNode
    <2>2. acc.count[e] < DomainCap
      <3> HIDE DEF e
      <3> QED
        BY <1>2, <1>6 DEF CapReached
    <2> HIDE DEF new, r, p, e
    <2>3. new.assigned = [acc.assigned EXCEPT ![r] = m] /\ new.cursor = [acc.cursor EXCEPT ![e] = p]
          /\ new.count = [acc.count EXCEPT ![e] = @ + 1]
      BY <2>1
    <2>4. new.assigned[r] = m /\ \A q \in Runners \ {r} : new.assigned[q] = acc.assigned[q]
      BY <1>1, <1>4, <2>3
    <2>5. new.cursor[e] = p /\ new.count[e] = acc.count[e] + 1
      BY <1>0, <1>1, <2>3
    <2>6. \A d \in Domains \ {e} : new.count[d] = acc.count[d] /\ new.cursor[d] = acc.cursor[d]
      BY <1>1, <2>3
    <2>7. Picked(acc, new, m, c, r)
      BY <2>2, <2>4, <2>5, <2>6 DEF Picked, e, p
    <2> QED
      BY <1>4, <2>7 DEF r, new, e
  <1> QED
    BY <1>5, <1>6

\* A round in which nothing is picked, or nothing of the domain.
LEMMA GivenGrows ==
    ASSUME NEW acc, NEW new, NEW m \in Monitors, NEW c, NEW r \in Runners,
           acc.assigned \in [Runners -> Monitors \cup {None}], Picked(acc, new, m, c, r)
    PROVE  /\ Given(acc) \in SUBSET Monitors /\ Given(new) \subseteq Given(acc) \cup {m}
           /\ \A q \in Runners : acc.assigned[q] # None => new.assigned[q] # None
  <1>1. m # None
    BY SchedulerConstants
  <1>2. new.assigned[r] = m /\ \A q \in Runners \ {r} : new.assigned[q] = acc.assigned[q]
    BY DEF Picked
  <1> QED
    BY <1>1, <1>2 DEF Given

(* The round of a monitor keeps RingOK, for its own domain and for every   *)
(* other one.                                                              *)
LEMMA PickSpreads ==
    ASSUME NEW n \in Nat, NEW k \in 1..n, NEW monitors \in [1..n -> Monitors],
           NEW nodes \in Seq(Runners), Len(nodes) \in Nat \ {0}, Cardinality(Runners) \in Nat,
           NEW acc, AccOK(acc, monitors, nodes, k - 1),
           NEW d \in Domains, NEW start \in 0..(Len(nodes) - 1),
           RingOK(acc, monitors, nodes, start, d, k - 1)
    PROVE  RingOK(PickNode(acc, monitors[k], nodes), monitors, nodes, start, d, k)
  <1> DEFINE m == monitors[k]
             e == Domain[m]
             c == Len(nodes)
             r == nodes[(acc.cursor[e] % c) + 1]
             new == PickNode(acc, m, nodes)
             S == Seen(monitors, k - 1)
             N == Cardinality(Of(d, S))
             M == Cardinality(Of(d, S \cup {m}))
             G == Cardinality(Of(d, Given(acc)))
             H == Cardinality(Of(d, Given(new)))
  <1>0. m \in Monitors /\ S \in SUBSET Monitors /\ Seen(monitors, k) = S \cup {m}
    <2>1. 1..k = (1..(k - 1)) \cup {k} /\ 1..k \subseteq 1..n
      OBVIOUS
    <2> QED
      BY <2>1 DEF Seen
  <1>1. /\ acc.assigned \in [Runners -> Monitors \cup {None}] /\ acc.count \in [Domains -> Nat]
    BY DEF AccOK
  <1>2. acc.count[d] \in Nat /\ DomainCap \in Nat \ {0} /\ c \in Nat \ {0}
    BY <1>1, SchedulerConstants
  <1>3. N \in Nat /\ M \in Nat /\ (e # d => M = N) /\ M <= N + 1
    BY <1>0, OneMoreSeen
  <1>4. /\ acc.count[d] <= DomainCap /\ G <= acc.count[d]
        /\ acc.count[d] >= DomainCap \/ acc.count[d] >= N
        /\ \A i \in Nat : i < c /\ i < acc.count[d] => acc.assigned[nodes[Turn(start, i, c) + 1]] # None
        /\ acc.count[d] < c => acc.cursor[d] % c = Turn(start, acc.count[d], c)
    BY DEF RingOK
  <1>5. Passed(acc, new, m) \/ (r \in Runners /\ Picked(acc, new, m, c, r))
    BY <1>0, PickOutcome
  <1>6. CASE Passed(acc, new, m)
    <2>1. new = acc /\ acc.count[e] >= DomainCap
      BY <1>6 DEF Passed
    <2>2. acc.count[d] >= DomainCap \/ acc.count[d] >= M
      <3> HIDE DEF M, N, m, e
      <3> QED
        BY <1>3, <1>4, <2>1
    <2> HIDE DEF new, m
    <2>3. RingOK(new, monitors, nodes, start, d, k)
      BY <1>0, <1>4, <2>1, <2>2 DEF RingOK
    <2> QED
      BY <2>3 DEF new, m
  <1>7. CASE r \in Runners /\ Picked(acc, new, m, c, r)
    <2> HIDE DEF new, r, m, c, e
    <2>0. /\ Given(acc) \in SUBSET Monitors /\ Given(new) \subseteq Given(acc) \cup {m}
          /\ \A q \in Runners : acc.assigned[q] # None => new.assigned[q] # None
      BY <1>0, <1>1, <1>7, GivenGrows
    <2>1. /\ new.assigned[r] = m
          /\ acc.count[e] < DomainCap /\ new.count[e] = acc.count[e] + 1
          /\ new.cursor[e] = ((acc.cursor[e] % c) + 1) % c
          /\ d # e => new.count[d] = acc.count[d] /\ new.cursor[d] = acc.cursor[d]
      BY <1>7 DEF Picked, e
    <2>2. G \in Nat /\ H \in Nat /\ H <= G + 1 /\ (d # e => H <= G)
      <3> DEFINE U == Given(acc)
                 V == Given(new)
      <3>1. U \in SUBSET Monitors /\ V \in SUBSET (U \cup {m}) /\ U \cup {m} \in SUBSET Monitors
        BY <1>0, <2>0
      <3> HIDE DEF U, V
      <3>2. Cardinality(Of(d, V)) <= Cardinality(Of(d, U \cup {m}))
        BY <3>1, FewerOf
      <3>3. /\ Cardinality(Of(d, U)) \in Nat /\ Cardinality(Of(d, U \cup {m})) \in Nat
            /\ Domain[m] # d => Of(d, U \cup {m}) = Of(d, U)
            /\ Cardinality(Of(d, U \cup {m})) <= Cardinality(Of(d, U)) + 1
        BY <1>0, <3>1, OneMoreSeen
      <3>4. Cardinality(Of(d, V)) \in Nat
        BY <1>0, <3>1, OneMoreSeen
      <3> DEFINE a == Cardinality(Of(d, U))
                 b == Cardinality(Of(d, V))
                 f == Cardinality(Of(d, U \cup {m}))
      <3>5. a \in Nat /\ b \in Nat /\ f \in Nat /\ b <= f /\ f <= a + 1 /\ (d # e => f = a)
        BY <3>2, <3>3, <3>4 DEF e
      <3> HIDE DEF a, b, f
      <3>6. b <= a + 1 /\ (d # e => b <= a)
        BY <3>5
      <3> QED
        BY <3>5, <3>6 DEF a, b, U, V
    <2> HIDE DEF N, M, G, H
    <2>3. \A i \in Nat : i < c => nodes[Turn(start, i, c) + 1] \in Runners
      <3> SUFFICES ASSUME NEW i \in Nat, i < c PROVE nodes[Turn(start, i, c) + 1] \in Runners
        OBVIOUS
      <3>1. Turn(start, i, c) + 1 \in 1..Len(nodes)
        BY <1>2 DEF Turn, c
      <3> QED
        BY <3>1
    <2>4. CASE d # e
      <3>1. new.count[d] = acc.count[d] /\ new.cursor[d] = acc.cursor[d]
        BY <2>1, <2>4
      <3>2. H <= new.count[d]
        BY <1>2, <1>4, <2>2, <2>4, <3>1
      <3>3. new.count[d] >= DomainCap \/ new.count[d] >= M
        BY <1>3, <1>4, <2>4, <3>1
      <3>4. \A i \in Nat : i < c /\ i < new.count[d] => new.assigned[nodes[Turn(start, i, c) + 1]] # None
        BY <1>4, <2>0, <2>3, <3>1
      <3>5. RingOK(new, monitors, nodes, start, d, k)
        BY <1>0, <1>4, <3>1, <3>2, <3>3, <3>4 DEF RingOK, c, H, M
      <3> QED
        BY <3>5 DEF new, m
    <2>5. CASE d = e
      <3>1. new.count[d] = acc.count[d] + 1 /\ new.cursor[d] = ((acc.cursor[d] % c) + 1) % c
            /\ acc.count[d] < DomainCap
        BY <2>1, <2>5
      <3> DEFINE x == acc.count[d]
      <3>2. x \in Nat /\ new.count[d] = x + 1
        BY <1>2, <3>1
      <3>3. new.count[d] <= DomainCap /\ H <= new.count[d] /\ new.count[d] >= M
        BY <1>2, <1>3, <1>4, <2>2, <3>1
      <3>4. ASSUME x < c PROVE new.assigned[nodes[Turn(start, x, c) + 1]] # None
        <4>1. acc.cursor[d] % c = Turn(start, x, c)
          BY <1>4, <3>4
        <4>2. r = nodes[Turn(start, x, c) + 1]
          BY <2>5, <4>1 DEF r
        <4>3. m # None
          BY <1>0, SchedulerConstants
        <4> QED
          BY <2>1, <4>2, <4>3
      <3>5. ASSUME NEW i \in Nat, i < c, i < new.count[d]
            PROVE  new.assigned[nodes[Turn(start, i, c) + 1]] # None
        <4>1. CASE i = x
          BY <3>4, <3>5, <4>1
        <4>2. CASE i # x
          <5>1. i < acc.count[d]
            BY <3>2, <3>5, <4>2
          <5> QED
            BY <1>4, <2>0, <2>3, <3>5, <5>1
        <4> QED
          BY <4>1, <4>2
      <3>6. new.count[d] < c => new.cursor[d] % c = Turn(start, new.count[d], c)
        <4> SUFFICES ASSUME new.count[d] < c PROVE new.cursor[d] % c = Turn(start, new.count[d], c)
          OBVIOUS
        <4>1. x + 1 < c /\ x < c
          BY <1>2, <3>2
        <4>2. acc.cursor[d] % c = Turn(start, x, c)
          BY <1>4, <4>1
        <4>3. start \in 0..(c - 1)
          BY DEF c
        <4> HIDE DEF x
        <4>4. ((Turn(start, x, c) + 1) % c) % c = Turn(start, x + 1, c)
          BY <1>2, <3>2, <4>1, <4>3, TurnOne
        <4> QED
          BY <3>1, <3>2, <4>2, <4>4
      <3>7. RingOK(new, monitors, nodes, start, d, k)
        BY <1>0, <3>3, <3>5, <3>6 DEF RingOK, c, H, M
      <3> QED
        BY <3>7 DEF new, m
    <2> QED
      BY <2>4, <2>5
  <1> QED
    BY <1>5, <1>6, <1>7

\* The least of three numbers.
LEMMA LeastOfThree ==
    ASSUME NEW a \in Nat, NEW b \in Nat, NEW c \in Nat
    PROVE  Least({a, b, c}) \in Nat
           /\ Least({a, b, c}) <= a /\ Least({a, b, c}) <= b /\ Least({a, b, c}) <= c
  <1>1. \E x \in {a, b, c} : \A y \in {a, b, c} : x <= y
    <2>1. {a, b, c} \in SUBSET Nat /\ {a, b, c} # {}
      OBVIOUS
    <2> QED
      BY <2>1, LeastNat
  <1>2. Least({a, b, c}) \in {a, b, c} /\ \A y \in {a, b, c} : Least({a, b, c}) <= y
    BY <1>1 DEF Least
  <1> QED
    BY <1>2

\* The nodes with a job.
Taken(acc) == {r \in Runners : acc.assigned[r] # None}

\* Any order of a set has all of it.
LEMMA OrderHasAll ==
    ASSUME NEW S, IsFiniteSet(S), NEW f \in SetToSeqs(S)
    PROVE  Seen(f, Cardinality(S)) = S
  <1> DEFINE n == Cardinality(S)
             I == Seen(f, n)
  <1>1. n \in Nat /\ f \in [1..n -> S] /\ \A i, j \in 1..n : i # j => f[i] # f[j]
    BY AnyOrder
  <1>2. I \in SUBSET S
    BY <1>1 DEF Seen
  <1>3. IsFiniteSet(I)
    BY <1>2, FS_Subset
  <1> HIDE DEF n
  <1>4. f \in Bijection(1..n, I)
    BY <1>1 DEF Bijection, Injection, Surjection, IsInjective, Seen
  <1>5. IsFiniteSet(1..n) /\ Cardinality(1..n) = n
    <2>1. IsFiniteSet(1..n) /\ Cardinality(1..n) = IF 1 > n THEN 0 ELSE (n - 1) + 1
      BY <1>1, FS_Interval
    <2> QED
      BY <1>1, <2>1
  <1>6. Cardinality(I) = n
    <2> HIDE DEF I
    <2>1. ExistsBijection(1..n, I)
      BY <1>4 DEF ExistsBijection
    <2> QED
      BY <1>5, <2>1, FS_Bijection
  <1>7. I = S
    <2> HIDE DEF I
    <2> QED
      BY <1>2, <1>6, FS_Subset DEF n
  <1> QED
    BY <1>7 DEF n

\* RingOK before the first round.
LEMMA RingStart ==
    ASSUME NEW monitors, NEW nodes \in Seq(Runners), Len(nodes) \in Nat \ {0},
           NEW cur \in [Domains -> 0..Cardinality(Runners)], Cardinality(Runners) \in Nat,
           NEW d \in Domains
    PROVE  /\ cur[d] % Len(nodes) \in 0..(Len(nodes) - 1)
           /\ RingOK(NoMatch(cur), monitors, nodes, cur[d] % Len(nodes), d, 0)
  <1> DEFINE c == Len(nodes)
             acc == NoMatch(cur)
             start == cur[d] % c
  <1>1. c \in Nat \ {0} /\ cur[d] \in Nat /\ DomainCap \in Nat \ {0}
    BY SchedulerConstants
  <1>2. start \in 0..(c - 1)
    <2> HIDE DEF c
    <2> QED
      BY <1>1, ModRange
  <1>3. acc.assigned = NoAssignment /\ acc.cursor = cur /\ acc.count[d] = 0
    BY DEF NoMatch
  <1>4. Given(acc) = {}
    BY <1>3 DEF Given, NoAssignment
  <1>5. Cardinality(Of(d, Given(acc))) = 0
    BY <1>4, FS_EmptySet DEF Of
  <1>6. Cardinality(Of(d, Seen(monitors, 0))) = 0
    <2>1. 1..0 = {}
      OBVIOUS
    <2>2. Of(d, Seen(monitors, 0)) = {}
      BY <2>1 DEF Of, Seen
    <2> QED
      BY <2>2, FS_EmptySet
  <1>7. acc.cursor[d] % c = Turn(start, 0, c)
    <2>1. acc.cursor[d] % c = start
      BY <1>3
    <2> HIDE DEF start, c
    <2> QED
      BY <1>1, <1>2, <2>1 DEF Turn
  <1> HIDE DEF acc, start
  <1>8. RingOK(acc, monitors, nodes, start, d, 0)
    BY <1>1, <1>3, <1>5, <1>6, <1>7 DEF RingOK
  <1> QED
    BY <1>2, <1>8 DEF acc, start

\* The places before the count of d are as many nodes with a job.
LEMMA RingIsWide ==
    ASSUME NEW acc, NEW monitors, NEW nodes \in Seq(Runners), NEW c \in Nat \ {0}, c = Len(nodes),
           \A i, j \in 1..c : i # j => nodes[i] # nodes[j],
           NEW start \in 0..(c - 1), NEW d, NEW k, RingOK(acc, monitors, nodes, start, d, k),
           NEW x \in Nat, x <= c, x <= acc.count[d], acc.count[d] \in Nat
    PROVE  Cardinality(Taken(acc)) \in Nat /\ x <= Cardinality(Taken(acc))
  <1> DEFINE T == Taken(acc)
             X == 1..x
             f == [i \in X |-> nodes[Turn(start, i - 1, c) + 1]]
  <1>0. IsFiniteSet(Runners)
    BY SchedulerConstants
  <1>1. IsFiniteSet(T) /\ Cardinality(T) \in Nat
    <2>1. T \in SUBSET Runners
      BY DEF Taken
    <2>2. IsFiniteSet(T)
      BY <1>0, <2>1, FS_Subset
    <2> QED
      BY <2>2, FS_CardinalityType
  <1>2. ASSUME NEW i \in X
        PROVE  Turn(start, i - 1, c) + 1 \in 1..c /\ i - 1 \in 0..(c - 1) /\ i - 1 < acc.count[d]
    BY DEF Turn
  <1>3. ASSUME NEW i \in X PROVE nodes[Turn(start, i - 1, c) + 1] \in T
    <2> DEFINE j == i - 1
               t == Turn(start, j, c)
    <2>1. j \in Nat /\ j < c /\ j < acc.count[d] /\ t + 1 \in 1..c
      <3>1. j \in 0..(c - 1) /\ j < acc.count[d] /\ t + 1 \in 1..c
        BY <1>2
      <3> HIDE DEF j, t
      <3> QED
        BY <3>1
    <2> HIDE DEF j, t
    <2>2. acc.assigned[nodes[t + 1]] # None
      BY <2>1 DEF RingOK, t
    <2>3. nodes[t + 1] \in Runners
      BY <2>1
    <2> QED
      BY <2>2, <2>3 DEF Taken, t, j
  <1>4. ASSUME NEW i \in X, NEW j \in X, f[i] = f[j] PROVE i = j
    <2>1. nodes[Turn(start, i - 1, c) + 1] = nodes[Turn(start, j - 1, c) + 1]
      BY <1>4
    <2>2. Turn(start, i - 1, c) + 1 = Turn(start, j - 1, c) + 1
      BY <1>2, <2>1
    <2>3. Turn(start, i - 1, c) = Turn(start, j - 1, c)
      BY <1>2, <2>2 DEF Turn
    <2>4. i - 1 = j - 1
      <3> DEFINE p == i - 1
                 q == j - 1
      <3>1. p \in 0..(c - 1) /\ q \in 0..(c - 1) /\ Turn(start, p, c) = Turn(start, q, c)
        BY <1>2, <2>3
      <3> HIDE DEF p, q
      <3>2. p = q
        BY <3>1, TurnInjective
      <3> QED
        BY <3>2 DEF p, q
    <2> QED
      BY <2>4
  <1>5. f \in [X -> T]
    BY <1>3
  <1> HIDE DEF f, T, X
  <1>6. f \in Injection(X, T)
    BY <1>4, <1>5 DEF Injection, IsInjective
  <1>7. Cardinality(X) <= Cardinality(T)
    BY <1>1, <1>6, FS_Injection
  <1>8. Cardinality(X) = x
    <2>1. 1 \in Int /\ x \in Int
      OBVIOUS
    <2>2. Cardinality(1..x) = IF 1 > x THEN 0 ELSE x - 1 + 1
      BY <2>1, FS_Interval
    <2> QED
      BY <2>2 DEF X
  <1> QED
    BY <1>1, <1>7, <1>8 DEF T

(* What the whole of MatchBatch gives a domain: never more monitors than   *)
(* the cap, and jobs on as many nodes as the least of the cap, the nodes   *)
(* and the monitors of the domain.                                         *)
LEMMA BatchSpreads ==
    ASSUME NEW F \in SUBSET Monitors, NEW O \in SUBSET Runners,
           NEW monitors \in SetToSeqs(F), NEW nodes \in SetToSeqs(O),
           NEW cur \in [Domains -> 0..Cardinality(Runners)], NEW d \in Domains
    PROVE  LET b == MatchBatch(monitors, nodes, cur) IN
           /\ Cardinality(Of(d, Given(b))) <= DomainCap
           /\ Cardinality(Taken(b)) >= Least({DomainCap, Cardinality(O), Cardinality(Of(d, F))})
  <1> DEFINE n == Cardinality(F)
             b == MatchBatch(monitors, nodes, cur)
             c == Len(nodes)
             w == Cardinality(Of(d, F))
             least == Least({DomainCap, c, w})
  <1>1. IsFiniteSet(F) /\ IsFiniteSet(O) /\ IsFiniteSet(Runners)
    BY SchedulerConstants, FS_Subset
  <1>2. /\ n \in Nat /\ monitors \in [1..n -> F] /\ \A i, j \in 1..n : i # j => monitors[i] # monitors[j]
    BY <1>1, AnyOrder
  <1>3. /\ nodes \in Seq(O) /\ c = Cardinality(O)
        /\ \A i, j \in 1..c : i # j => nodes[i] # nodes[j]
    BY <1>1, AnyOrder
  <1>4. c <= Cardinality(Runners) /\ Cardinality(Runners) \in Nat /\ c \in Nat
    BY <1>1, <1>3, FS_Subset, FS_CardinalityType
  <1>5. nodes \in Seq(Runners) /\ monitors \in [1..n -> Monitors] /\ DOMAIN monitors = 1..n
    BY <1>2, <1>3, SeqMonotonic
  <1>6. w \in Nat /\ DomainCap \in Nat
    <2>1. IsFiniteSet(Monitors) /\ DomainCap \in Nat
      BY SchedulerConstants
    <2>2. Of(d, F) \in SUBSET Monitors
      BY DEF Of
    <2>3. IsFiniteSet(Of(d, F))
      BY <2>1, <2>2, FS_Subset
    <2> QED
      BY <2>1, <2>3, FS_CardinalityType
  <1>7. least \in Nat /\ least <= DomainCap /\ least <= c /\ least <= w
    <2> HIDE DEF c, w
    <2> QED
      BY <1>4, <1>6, LeastOfThree
  <1>8. CASE nodes = <<>>
    <2>1. b = NoMatch(cur) /\ c = 0
      BY <1>8 DEF MatchBatch, NoMatch
    <2>2. b.assigned = NoAssignment
      BY <2>1 DEF NoMatch
    <2> HIDE DEF b, least, c
    <2>3. Given(b) = {} /\ Taken(b) = {}
      BY <2>2 DEF Given, Taken, NoAssignment
    <2>4. Cardinality(Of(d, Given(b))) = 0 /\ Cardinality(Taken(b)) = 0
      BY <2>3, FS_EmptySet DEF Of
    <2>5. 0 >= least /\ 0 <= DomainCap
      BY <1>6, <1>7, <2>1
    <2> QED
      BY <1>3, <2>4, <2>5 DEF b, least, c
  <1>9. CASE nodes # <<>>
    <2> DEFINE start == cur[d] % c
    <2>0. c \in Nat \ {0} /\ c \in 1..Cardinality(Runners)
      BY <1>4, <1>5, <1>9, EmptySeq
    <2>1. start \in 0..(c - 1) /\ RingOK(NoMatch(cur), monitors, nodes, start, d, 0)
      BY <1>4, <1>5, <2>0, RingStart
    <2>2. AccOK(NoMatch(cur), monitors, nodes, 0)
      BY DEF AccOK, NoMatch, NoAssignment
    <2> HIDE DEF n, b, start
    <2>3. PICK h : /\ h[0] = NoMatch(cur) /\ h[n] = b
                   /\ \A k \in 1..n : h[k] = PickNode(h[k - 1], monitors[k], nodes)
      <3>1. n \in Nat /\ DOMAIN monitors = 1..n
        BY <1>2, <1>5
      <3>2. \E h : RoundByRound(h, n, monitors, nodes, cur)
        BY <1>9, <3>1, MatchRounds
      <3> QED
        BY <3>2 DEF b, RoundByRound
    <2> DEFINE Good(k) == AccOK(h[k], monitors, nodes, k) /\ RingOK(h[k], monitors, nodes, start, d, k)
               Bad == {k \in 0..n : ~Good(k)}
    <2>4. Bad = {}
      <3> SUFFICES ASSUME Bad # {} PROVE FALSE
        OBVIOUS
      <3>1. Bad \in SUBSET Nat
        OBVIOUS
      <3>2. PICK k \in Bad : \A j \in Bad : k <= j
        <4> HIDE DEF Bad
        <4> QED
          BY <3>1, LeastNat
      <3>3. k \in 0..n /\ ~Good(k)
        BY <3>2
      <3>5. k # 0
        BY <2>1, <2>2, <2>3, <3>3
      <3>6. k \in 1..n /\ k - 1 \in 0..n /\ ~(k <= k - 1)
        BY <1>2, <3>3, <3>5
      <3>7. AccOK(h[k - 1], monitors, nodes, k - 1) /\ RingOK(h[k - 1], monitors, nodes, start, d, k - 1)
        BY <3>2, <3>6
      <3> HIDE DEF Bad
      <3>8. AccOK(PickNode(h[k - 1], monitors[k], nodes), monitors, nodes, k)
        BY <1>2, <1>4, <1>5, <2>0, <3>6, <3>7, PickKeeps
      <3>9. RingOK(PickNode(h[k - 1], monitors[k], nodes), monitors, nodes, start, d, k)
        BY <1>2, <1>4, <1>5, <2>0, <2>1, <3>6, <3>7, PickSpreads
      <3> QED
        BY <2>3, <3>3, <3>6, <3>8, <3>9
    <2>5. AccOK(b, monitors, nodes, n) /\ RingOK(b, monitors, nodes, start, d, n)
      <3>1. n \in 0..n
        BY <1>2
      <3> QED
        BY <2>3, <2>4, <3>1
    <2>6. Seen(monitors, n) = F
      BY <1>1, OrderHasAll DEF n
    <2> DEFINE x == b.count[d]
               g == Cardinality(Of(d, Given(b)))
    <2>7. x \in Nat
      BY <2>5 DEF AccOK
    <2>8. x <= DomainCap /\ g <= x /\ (x >= DomainCap \/ x >= w)
      BY <2>5, <2>6 DEF RingOK
    <2>9. g \in Nat
      <3>1. Given(b) \in SUBSET Monitors
        BY <2>5 DEF AccOK, Given
      <3>2. IsFiniteSet(Monitors)
        BY SchedulerConstants
      <3>3. IsFiniteSet(Of(d, Given(b)))
        BY <3>1, <3>2, FS_Subset DEF Of
      <3> QED
        BY <3>3, FS_CardinalityType
    <2> HIDE DEF w, least, g
    <2>10. g <= DomainCap /\ least <= x
      BY <1>6, <1>7, <2>7, <2>8, <2>9
    <2>11. least <= Cardinality(Taken(b)) /\ Cardinality(Taken(b)) \in Nat
      BY <1>3, <1>5, <1>7, <2>0, <2>1, <2>5, <2>7, <2>10, RingIsWide
    <2>12. Cardinality(Taken(b)) >= least
      BY <1>7, <2>11
    <2> QED
      BY <1>3, <2>10, <2>12 DEF g, b, least, w
  <1> QED
    BY <1>8, <1>9

\* Only Match takes a tick from matching to dispatching.
LEMMA OnlyMatch ==
    ASSUME SchedTypeOK, SchedNext, NEW s \in Instances, pc[s] = "matching", pc'[s] = "dispatching"
    PROVE  Match(s)
  <1>1. ~Second
    BY DEF Second
  <1>2. ASSUME NEW m \in Monitors, CreateRow(m) \/ ArmNew(m) \/ Pause(m) \/ Resume(m)
                                     \/ Delete(m) \/ RunOut(m)
        PROVE  FALSE
    BY <1>2 DEF CreateRow, ArmNew, Pause, Resume, Delete, RunOut, SetRow, tick
  <1>3. ASSUME NEW t \in Instances, FindActive(t) \/ AddMissing(t) \/ \E r \in Runners : Heartbeat(t, r)
        PROVE  FALSE
    BY <1>3 DEF FindActive, AddMissing, Heartbeat, tick
  <1>4. ASSUME NEW t \in Instances,
               Tick(t) \/ QueryFails(t) \/ Crash(t) \/ (\E r \in Runners : PublishFails(t, r))
        PROVE  Match(s)
    <2>1. t = s
      BY <1>4, OthersQuiet
    <2>2. ~EndTick(s)
      BY DEF EndTick, AfterTick, SchedTypeOK
    <2>3. ~(FetchDue(s) \/ FindMany(s) \/ Prune(s) \/ BackOff(s) \/ QueryFails(s) \/ Crash(s))
      BY <2>2 DEF FetchDue, FindMany, Prune, BackOff, QueryFails, Crash
    <2>4. ASSUME NEW r \in Runners PROVE ~Dispatch(s, r) /\ ~PublishFails(s, r)
      BY DEF Dispatch, PublishFails
    <2> QED
      BY <1>4, <2>1, <2>3, <2>4 DEF Tick
  <1> QED
    BY <1>1, <1>2, <1>3, <1>4 DEF SchedNext

\* A function that is one to one where it is not None has as many values.
LEMMA AsManyValues ==
    ASSUME NEW a \in [Runners -> Monitors \cup {None}],
           \A q, r \in Runners : a[q] = a[r] /\ a[q] # None => q = r
    PROVE  LET B == {r \in Runners : a[r] # None} IN Cardinality(B) = Cardinality({a[r] : r \in B})
  <1> DEFINE B == {r \in Runners : a[r] # None}
             V == {a[r] : r \in B}
             f == [r \in B |-> a[r]]
  <1>1. IsFiniteSet(Runners)
    BY SchedulerConstants
  <1>2. IsFiniteSet(B)
    BY <1>1, FS_Subset
  <1>3. f \in [B -> V] /\ \A q, r \in B : f[q] = f[r] => q = r
    OBVIOUS
  <1>4. \A v \in V : \E r \in B : f[r] = v
    OBVIOUS
  <1> HIDE DEF B, V, f
  <1>5. f \in Bijection(B, V)
    BY <1>3, <1>4 DEF Bijection, Injection, Surjection, IsInjective
  <1>6. Cardinality(V) = Cardinality(B)
    BY <1>2, <1>5, FS_Bijection DEF ExistsBijection
  <1> QED
    BY <1>6 DEF B, V

\* What MatchSpreads asks of the step that matches.
LEMMA MatchStep ==
    ASSUME SchedTypeOK, NEW s \in Instances, Match(s)
    PROVE  /\ Busy(s)' \subseteq Online(s)
           /\ Cardinality(Busy(s)') = Cardinality(Matched(s)')
           /\ \A d \in Domains :
                /\ Cardinality(Of(d, Matched(s)')) <= DomainCap
                /\ Cardinality(Busy(s)') >=
                     Least({DomainCap, Cardinality(Online(s)), Cardinality(Of(d, found[s]))})
  <1>1. PICK monitors \in SetToSeqs(found[s]), nodes \in SetToSeqs(Online(s)) :
          assigned' = [assigned EXCEPT ![s] = MatchBatch(monitors, nodes, cursor[s]).assigned]
    BY DEF Match
  <1> DEFINE b == MatchBatch(monitors, nodes, cursor[s])
             F == found[s]
             O == Online(s)
             cur == cursor[s]
  <1>2. F \in SUBSET Monitors /\ O \in SUBSET Runners /\ cur \in [Domains -> 0..Cardinality(Runners)]
        /\ monitors \in SetToSeqs(F) /\ nodes \in SetToSeqs(O)
    BY DEF SchedTypeOK, Online
  <1>3. assigned'[s] = b.assigned
    BY <1>1 DEF SchedTypeOK
  <1>4. /\ b.assigned \in [Runners -> F \cup {None}]
        /\ \A r \in Runners : b.assigned[r] # None => r \in O
        /\ \A q, r \in Runners : b.assigned[q] = b.assigned[r] /\ b.assigned[q] # None => q = r
    <2> HIDE DEF F, O, cur
    <2> QED
      BY <1>2, MatchResult DEF cur
  <1>5. \A d \in Domains : /\ Cardinality(Of(d, Given(b))) <= DomainCap
                           /\ Cardinality(Taken(b)) >= Least({DomainCap, Cardinality(O), Cardinality(Of(d, F))})
    <2> HIDE DEF F, O, cur
    <2> QED
      BY <1>2, BatchSpreads DEF cur
  <1> HIDE DEF b
  <1>6. Busy(s)' = Taken(b) /\ Matched(s)' = Given(b)
    BY <1>3 DEF Busy, Matched, Taken, Given
  <1>7. Cardinality(Taken(b)) = Cardinality(Given(b))
    <2> DEFINE a == b.assigned
    <2>1. a \in [Runners -> Monitors \cup {None}]
          /\ \A q, r \in Runners : a[q] = a[r] /\ a[q] # None => q = r
      BY <1>2, <1>4
    <2> HIDE DEF a
    <2>2. LET B == {r \in Runners : a[r] # None} IN Cardinality(B) = Cardinality({a[r] : r \in B})
      BY <2>1, AsManyValues
    <2> QED
      BY <2>2 DEF a, Taken, Given
  <1>8. Taken(b) \subseteq O
    BY <1>4 DEF Taken
  <1> QED
    BY <1>5, <1>6, <1>7, <1>8

(* MatchBatch gives jobs to online nodes only, one node per monitor, keeps *)
(* every domain under its cap, and spreads the jobs of a domain over as    *)
(* many nodes as the cap, the nodes and its monitors allow: for every set  *)
(* of monitors and nodes, every order in which they come back from the     *)
(* table and the map, and wherever earlier ticks left the cursor.          *)
THEOREM MatchSpreadsJobs == SchedSpec => MatchSpreads
  <1>1. SchedTypeOK /\ [SchedNext]_schedVars =>
          [\A s \in Instances : pc[s] = "matching" /\ pc'[s] = "dispatching" =>
             /\ Busy(s)' \subseteq Online(s)
             /\ Cardinality(Busy(s)') = Cardinality(Matched(s)')
             /\ \A d \in Domains :
                  /\ Cardinality(Of(d, Matched(s)')) <= DomainCap
                  /\ Cardinality(Busy(s)') >=
                       Least({DomainCap, Cardinality(Online(s)), Cardinality(Of(d, found[s]))})]_schedVars
    BY OnlyMatch, MatchStep
  <1> QED
    BY <1>1, SchedulerTypes, PTL DEF SchedSpec, MatchSpreads
=============================================================================
