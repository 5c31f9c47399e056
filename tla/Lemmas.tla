-------------------------------- MODULE Lemmas --------------------------------
(***************************************************************************)
(* Facts about queues, natural numbers, finite sets and sums that the      *)
(* proofs about several components need.                                   *)
(*                                                                         *)
(* Induction is stated as the existence of a least element, which needs no *)
(* operator as a parameter: a claim about all numbers, or all subsets of a *)
(* finite set, is proved by looking at the least one that violates it.     *)
(***************************************************************************)
EXTENDS Integers, SequencesExt, SequenceTheorems, FiniteSetTheorems, TLAPS

-----------------------------------------------------------------------------
(* Queues.  A queue without repetitions is described by its elements.      *)

\* An element at the end.
LEMMA QueueAppend ==
    ASSUME NEW S, NEW q \in Seq(S), NEW e \in S
    PROVE  /\ Append(q, e) \in Seq(S)
           /\ ToSet(Append(q, e)) = ToSet(q) \cup {e}
           /\ IsInjective(q) /\ e \notin ToSet(q) => IsInjective(Append(q, e))
  <1>1. /\ Append(q, e) \in Seq(S) /\ Len(Append(q, e)) = Len(q) + 1
        /\ \A i \in 1..Len(q) : Append(q, e)[i] = q[i]
        /\ Append(q, e)[Len(q) + 1] = e
    BY AppendProperties
  <1>2. DOMAIN q = 1..Len(q) /\ DOMAIN Append(q, e) = 1..(Len(q) + 1) /\ Len(q) \in Nat
    BY <1>1, LenProperties
  <1> QED
    BY <1>1, <1>2 DEF ToSet, IsInjective

\* The queue without its head.
LEMMA QueueTail ==
    ASSUME NEW S, NEW q \in Seq(S), q # <<>>
    PROVE  /\ Tail(q) \in Seq(S) /\ Head(q) \in S
           /\ ToSet(q) = ToSet(Tail(q)) \cup {Head(q)}
           /\ IsInjective(q) => IsInjective(Tail(q)) /\ Head(q) \notin ToSet(Tail(q))
  <1> DEFINE t == Tail(q)
  <1>1. /\ t \in Seq(S) /\ Head(q) \in S /\ Len(t) = Len(q) - 1
        /\ \A i \in 1..Len(t) : t[i] = q[i + 1]
    BY HeadTailProperties
  <1>2. DOMAIN q = 1..Len(q) /\ DOMAIN t = 1..Len(t) /\ Len(q) \in Nat \ {0}
    BY <1>1, LenProperties, EmptySeq
  <1>3. Head(q) = q[1]
    BY <1>2
  <1> HIDE DEF t
  <1>4. \A i \in DOMAIN q : i = 1 \/ (i - 1 \in DOMAIN t /\ q[i] = t[i - 1])
    BY <1>1, <1>2
  <1>5. \A i \in DOMAIN t : i + 1 \in DOMAIN q /\ t[i] = q[i + 1]
    BY <1>1, <1>2
  <1>6. ToSet(q) = ToSet(t) \cup {Head(q)}
    BY <1>2, <1>3, <1>4, <1>5 DEF ToSet
  <1>7. IsInjective(q) => IsInjective(t) /\ Head(q) \notin ToSet(t)
    BY <1>2, <1>3, <1>5 DEF ToSet, IsInjective
  <1> QED
    BY <1>1, <1>6, <1>7 DEF t

\* Two queues, one after the other.
LEMMA QueueConcat ==
    ASSUME NEW S, NEW p \in Seq(S), NEW q \in Seq(S)
    PROVE  /\ p \o q \in Seq(S)
           /\ ToSet(p \o q) = ToSet(p) \cup ToSet(q)
           /\ IsInjective(p) /\ IsInjective(q) /\ ToSet(p) \cap ToSet(q) = {}
                => IsInjective(p \o q)
  <1> DEFINE c == p \o q
  <1>1. /\ c \in Seq(S) /\ Len(c) = Len(p) + Len(q)
        /\ \A i \in 1..(Len(p) + Len(q)) : c[i] = IF i <= Len(p) THEN p[i] ELSE q[i - Len(p)]
    BY ConcatProperties
  <1>2. /\ DOMAIN p = 1..Len(p) /\ DOMAIN q = 1..Len(q) /\ DOMAIN c = 1..Len(c)
        /\ Len(p) \in Nat /\ Len(q) \in Nat
    BY <1>1, LenProperties
  <1> HIDE DEF c
  <1>3. \A i \in DOMAIN c : \/ i \in DOMAIN p /\ c[i] = p[i]
                            \/ i - Len(p) \in DOMAIN q /\ c[i] = q[i - Len(p)]
    BY <1>1, <1>2
  <1>4. /\ \A i \in DOMAIN p : i \in DOMAIN c /\ c[i] = p[i]
        /\ \A i \in DOMAIN q : i + Len(p) \in DOMAIN c /\ c[i + Len(p)] = q[i]
    BY <1>1, <1>2
  <1>5. ToSet(c) = ToSet(p) \cup ToSet(q)
    BY <1>3, <1>4 DEF ToSet
  <1>6. ASSUME IsInjective(p), IsInjective(q), ToSet(p) \cap ToSet(q) = {},
               NEW i \in DOMAIN c, NEW k \in DOMAIN c, c[i] = c[k]
        PROVE  i = k
    <2>1. \A x \in DOMAIN p, y \in DOMAIN q : p[x] # q[y]
      BY <1>6 DEF ToSet
    <2>2. CASE i \in DOMAIN p /\ c[i] = p[i] /\ k \in DOMAIN p /\ c[k] = p[k]
      BY <1>6, <2>2 DEF IsInjective
    <2>3. CASE /\ i - Len(p) \in DOMAIN q /\ c[i] = q[i - Len(p)]
               /\ k - Len(p) \in DOMAIN q /\ c[k] = q[k - Len(p)]
      <3>1. i - Len(p) = k - Len(p)
        BY <1>6, <2>3 DEF IsInjective
      <3> QED
        BY <3>1, <1>2
    <2> QED
      BY <1>3, <1>6, <2>1, <2>2, <2>3
  <1>7. IsInjective(p) /\ IsInjective(q) /\ ToSet(p) \cap ToSet(q) = {} => IsInjective(c)
    BY <1>6 DEF IsInjective
  <1> QED
    BY <1>1, <1>5, <1>7 DEF c

\* An element put back in front.
LEMMA QueuePrepend ==
    ASSUME NEW S, NEW q \in Seq(S), NEW e \in S
    PROVE  /\ <<e>> \o q \in Seq(S)
           /\ ToSet(<<e>> \o q) = {e} \cup ToSet(q)
           /\ IsInjective(q) /\ e \notin ToSet(q) => IsInjective(<<e>> \o q)
  <1> DEFINE p == <<e>>
  <1>1. p \in Seq(S) /\ ToSet(p) = {e} /\ IsInjective(p)
    BY DEF ToSet, IsInjective
  <1> HIDE DEF p
  <1>2. /\ p \o q \in Seq(S)
        /\ ToSet(p \o q) = ToSet(p) \cup ToSet(q)
        /\ IsInjective(q) /\ e \notin ToSet(q) => IsInjective(p \o q)
    BY <1>1, QueueConcat
  <1> QED
    BY <1>1, <1>2 DEF p

\* A queue of elements of a smaller set.
LEMMA QueueRange ==
    ASSUME NEW S, NEW T, NEW q \in Seq(S), ToSet(q) \subseteq T
    PROVE  q \in Seq(T)
  BY DEF ToSet

\* The head is an element, and stays the head when one is appended.
LEMMA QueueHead ==
    ASSUME NEW S, NEW q \in Seq(S), q # <<>>
    PROVE  /\ Head(q) \in ToSet(q) /\ Head(q) \in S
           /\ \A e \in S : Append(q, e) # <<>> /\ Head(Append(q, e)) = Head(q)
  <1>1. Len(q) \in Nat /\ Len(q) > 0 /\ Head(q) = q[1] /\ DOMAIN q = 1..Len(q)
    OBVIOUS
  <1>2. Head(q) \in ToSet(q)
    BY <1>1 DEF ToSet
  <1>3. ASSUME NEW e \in S PROVE Append(q, e) # <<>> /\ Head(Append(q, e)) = Head(q)
    BY <1>1
  <1> QED
    BY <1>1, <1>2, <1>3

\* The empty queue.
LEMMA QueueEmpty ==
    ASSUME NEW S
    PROVE  <<>> \in Seq(S) /\ ToSet(<<>>) = {} /\ IsInjective(<<>>)
  BY DEF ToSet, IsInjective

-----------------------------------------------------------------------------
(* Induction.                                                              *)

\* A non-empty set of numbers has a least one.
LEMMA LeastNat ==
    ASSUME NEW T \in SUBSET Nat, T # {}
    PROVE  \E x \in T : \A y \in T : x <= y
  <1> DEFINE R == OpToRel(<, Nat)
  <1>1. IsWellFoundedOn(R, Nat)
    BY NatLessThanWellFounded
  <1>2. \A x, y \in Nat : <<y, x>> \in R <=> y < x
    BY DEF OpToRel
  <1> HIDE DEF R
  <1>3. PICK x \in T : \A y \in T : ~(<<y, x>> \in R)
    BY <1>1, WFMin
  <1>4. ASSUME NEW y \in T PROVE x <= y
    <2>1. ~(y < x)
      BY <1>2, <1>3
    <2> QED
      BY <2>1
  <1> QED
    BY <1>4

\* A non-empty set of subsets of a finite set has a minimal one.
LEMMA LeastSubset ==
    ASSUME NEW S, IsFiniteSet(S), NEW T \in SUBSET (SUBSET S), T # {}
    PROVE  \E x \in T : \A y \in T : y \subseteq x => y = x
  <1>1. IsWellFoundedOn(StrictSubsetOrdering(S), SUBSET S)
    BY FS_StrictSubsetOrderingWellFounded, FS_FiniteSubsetsOfFinite
  <1>2. \E x \in T : \A y \in T : ~(<<y, x>> \in StrictSubsetOrdering(S))
    BY <1>1, WFMin
  <1> QED
    BY <1>2 DEF StrictSubsetOrdering

-----------------------------------------------------------------------------
(* Sums over finite sets, as the community module Functions defines them.  *)

Pick(s) == CHOOSE x \in s : TRUE

Adds(g, f, T) ==
    g = [s \in SUBSET T |-> IF s = {} THEN 0 ELSE f[Pick(s)] + g[s \ {Pick(s)}]]

\* What is picked is a member.
LEMMA PickIn == ASSUME NEW s, s # {} PROVE Pick(s) \in s
  BY DEF Pick

\* The sum of the community module is the value of that function.
LEMMA SumIsAdds ==
    ASSUME NEW f, NEW T
    PROVE  SumFunctionOnSet(f, T) = (CHOOSE g : Adds(g, f, T))[T]
  BY Zenon DEF SumFunctionOnSet, FoldFunctionOnSet, MapThenFoldSet, Adds, Pick

\* Two such functions agree where both are defined.
LEMMA AddsUnique ==
    ASSUME NEW S, IsFiniteSet(S), NEW f \in [S -> Int],
           NEW U \in SUBSET S, NEW V \in SUBSET S, NEW g, NEW h,
           Adds(g, f, U), Adds(h, f, V)
    PROVE  \A s \in SUBSET (U \cap V) : g[s] = h[s] /\ g[s] \in Int
  <1> DEFINE Bad == {s \in SUBSET (U \cap V) : ~(g[s] = h[s] /\ g[s] \in Int)}
  <1> SUFFICES ASSUME Bad # {} PROVE FALSE
    OBVIOUS
  <1>0. Bad \in SUBSET (SUBSET S)
    OBVIOUS
  <1>1. PICK s \in Bad : \A t \in Bad : t \subseteq s => t = s
    <2> HIDE DEF Bad
    <2> QED
      BY <1>0, LeastSubset
  <1>2. s \in SUBSET U /\ s \in SUBSET V
    BY <1>1
  <1>3. /\ g[s] = IF s = {} THEN 0 ELSE f[Pick(s)] + g[s \ {Pick(s)}]
        /\ h[s] = IF s = {} THEN 0 ELSE f[Pick(s)] + h[s \ {Pick(s)}]
    BY <1>2 DEF Adds
  <1>4. s # {}
    BY <1>1, <1>3
  <1>5. Pick(s) \in s
    BY <1>4, PickIn
  <1>6. s \ {Pick(s)} \notin Bad /\ s \ {Pick(s)} \in SUBSET (U \cap V)
    BY <1>1, <1>5
  <1>7. g[s \ {Pick(s)}] = h[s \ {Pick(s)}] /\ g[s \ {Pick(s)}] \in Int
    BY <1>6
  <1>8. f[Pick(s)] \in Int
    BY <1>5, <1>1
  <1> QED
    BY <1>1, <1>3, <1>4, <1>7, <1>8

\* There is one for every finite set, by a minimal set that has none.
LEMMA AddsExists ==
    ASSUME NEW S, IsFiniteSet(S), NEW f \in [S -> Int]
    PROVE  \A T \in SUBSET S : \E g : Adds(g, f, T)
  <1> DEFINE Bad == {T \in SUBSET S : ~ \E g : Adds(g, f, T)}
  <1> SUFFICES ASSUME Bad # {} PROVE FALSE
    OBVIOUS
  <1>0. Bad \in SUBSET (SUBSET S)
    OBVIOUS
  <1>1. PICK T \in Bad : \A U \in Bad : U \subseteq T => U = T
    <2> HIDE DEF Bad
    <2> QED
      BY <1>0, LeastSubset
  <1> DEFINE a(U) == CHOOSE g : Adds(g, f, U)
             v(s) == IF s = {} THEN 0 ELSE f[Pick(s)] + a(s \ {Pick(s)})[s \ {Pick(s)}]
             g == [s \in SUBSET T |-> v(s)]
  <1>2. \A U \in SUBSET T : U # T => Adds(a(U), f, U)
    <2> SUFFICES ASSUME NEW U \in SUBSET T, U # T PROVE Adds(a(U), f, U)
      OBVIOUS
    <2>1. \E h : Adds(h, f, U)
      BY <1>1
    <2> QED
      BY <2>1
  <1>3. ASSUME NEW s \in SUBSET T, s # {}
        PROVE  a(s \ {Pick(s)})[s \ {Pick(s)}] = v(s \ {Pick(s)})
    <2> DEFINE r == s \ {Pick(s)}
    <2>1. Pick(s) \in s
      BY <1>3, PickIn
    <2>2. r \in SUBSET T /\ r # T
      BY <2>1
    <2>3. Adds(a(r), f, r)
      BY <1>2, <2>2
    <2>4. a(r)[r] = IF r = {} THEN 0 ELSE f[Pick(r)] + a(r)[r \ {Pick(r)}]
      <3> HIDE DEF r, a
      <3>1. r \in SUBSET r
        OBVIOUS
      <3> QED
        BY <2>3, <3>1 DEF Adds
    <2>5. CASE r = {}
      BY <2>4, <2>5
    <2>6. CASE r # {}
      <3> DEFINE q == r \ {Pick(r)}
      <3>1. Pick(r) \in r
        BY <2>6, PickIn
      <3>2. q \in SUBSET T /\ q # T /\ q \in SUBSET (r \cap q) /\ q \in SUBSET S /\ r \in SUBSET S
        BY <3>1, <2>2
      <3>3. Adds(a(q), f, q)
        BY <1>2, <3>2
      <3>4. a(r)[q] = a(q)[q]
        <4> HIDE DEF r, q, a
        <4> QED
          BY <2>3, <3>2, <3>3, AddsUnique
      <3> QED
        BY <2>4, <2>6, <3>4
    <2> QED
      BY <2>5, <2>6
  <1>4. Adds(g, f, T)
    <2>1. \A s \in SUBSET T : s # {} => s \ {Pick(s)} \in SUBSET T
      OBVIOUS
    <2>2. ASSUME NEW s \in SUBSET T
          PROVE  v(s) = IF s = {} THEN 0 ELSE f[Pick(s)] + g[s \ {Pick(s)}]
      <3>1. CASE s = {}
        BY <3>1
      <3>2. CASE s # {}
        <4> DEFINE r == s \ {Pick(s)}
        <4>1. a(r)[r] = v(r)
          BY <1>3, <3>2
        <4>2. g[r] = v(r)
          <5> HIDE DEF v
          <5> QED
            BY <2>1, <3>2
        <4>3. v(s) = f[Pick(s)] + a(r)[r]
          <5> HIDE DEF a
          <5> QED
            BY <3>2
        <4> HIDE DEF v, a, g
        <4> QED
          BY <3>2, <4>1, <4>2, <4>3
      <3> HIDE DEF v, g
      <3> QED
        BY <3>1, <3>2
    <2> HIDE DEF v
    <2> QED
      BY <2>2 DEF Adds
  <1> QED
    BY <1>1, <1>4

\* So the sum follows its recursion.
LEMMA SumRec ==
    ASSUME NEW S, IsFiniteSet(S), NEW f \in [S -> Int], NEW T \in SUBSET S
    PROVE  /\ SumFunctionOnSet(f, T) \in Int
           /\ T = {} => SumFunctionOnSet(f, T) = 0
           /\ T # {} => SumFunctionOnSet(f, T) =
                          f[Pick(T)] + SumFunctionOnSet(f, T \ {Pick(T)})
  <1> DEFINE a(U) == CHOOSE g : Adds(g, f, U)
             r == T \ {Pick(T)}
  <1>1. \A U \in SUBSET S : Adds(a(U), f, U) /\ SumFunctionOnSet(f, U) = a(U)[U]
    <2> SUFFICES ASSUME NEW U \in SUBSET S
                 PROVE  Adds(a(U), f, U) /\ SumFunctionOnSet(f, U) = a(U)[U]
      OBVIOUS
    <2>1. \E h : Adds(h, f, U)
      BY AddsExists
    <2> QED
      BY <2>1, SumIsAdds
  <1> HIDE DEF a
  <1>2. T \in SUBSET (T \cap T) /\ r \in SUBSET (T \cap r) /\ r \in SUBSET S
    OBVIOUS
  <1>3. Adds(a(T), f, T) /\ Adds(a(r), f, r)
    BY <1>1, <1>2
  <1> HIDE DEF r
  <1>4. a(T)[r] = a(r)[r] /\ a(T)[T] \in Int
    <2>1. \A s \in SUBSET (T \cap T) : a(T)[s] = a(T)[s] /\ a(T)[s] \in Int
      BY <1>3, AddsUnique
    <2>2. \A s \in SUBSET (T \cap r) : a(T)[s] = a(r)[s] /\ a(T)[s] \in Int
      BY <1>2, <1>3, AddsUnique
    <2> QED
      BY <1>2, <2>1, <2>2
  <1>5. a(T)[T] = IF T = {} THEN 0 ELSE f[Pick(T)] + a(T)[r]
    BY <1>2, <1>3 DEF Adds, r
  <1>6. SumFunctionOnSet(f, T) = a(T)[T] /\ SumFunctionOnSet(f, r) = a(r)[r]
    BY <1>1, <1>2
  <1> QED
    BY <1>4, <1>5, <1>6 DEF r

\* Any member may be taken out of a sum, not only the one that is picked.
LEMMA SumRemove ==
    ASSUME NEW S, IsFiniteSet(S), NEW f \in [S -> Int], NEW T \in SUBSET S, NEW x \in T
    PROVE  SumFunctionOnSet(f, T) = f[x] + SumFunctionOnSet(f, T \ {x})
  <1> DEFINE Sum(U) == SumFunctionOnSet(f, U)
             Bad == {U \in SUBSET S : \E y \in U : Sum(U) # f[y] + Sum(U \ {y})}
  <1>0. /\ \A U \in SUBSET S : Sum(U) \in Int
        /\ \A U \in SUBSET S : U # {} => Sum(U) = f[Pick(U)] + Sum(U \ {Pick(U)})
    <2> SUFFICES ASSUME NEW U \in SUBSET S
                 PROVE  /\ Sum(U) \in Int
                        /\ U # {} => Sum(U) = f[Pick(U)] + Sum(U \ {Pick(U)})
      OBVIOUS
    <2> QED
      BY SumRec
  <1> HIDE DEF Sum
  <1> SUFFICES ASSUME Bad # {} PROVE FALSE
    BY DEF Sum
  <1>1. PICK U \in Bad : \A V \in Bad : V \subseteq U => V = U
    <2>1. Bad \in SUBSET (SUBSET S)
      OBVIOUS
    <2> HIDE DEF Bad
    <2> QED
      BY <2>1, LeastSubset
  <1>2. PICK y \in U : Sum(U) # f[y] + Sum(U \ {y})
    BY <1>1
  <1> DEFINE z == Pick(U)
  <1>3. z \in U /\ Sum(U) = f[z] + Sum(U \ {z})
    BY <1>0, <1>2, PickIn
  <1> HIDE DEF z
  <1>4. z # y
    BY <1>2, <1>3
  <1>5. Sum(U \ {z}) = f[y] + Sum((U \ {z}) \ {y})
    BY <1>1, <1>2, <1>3, <1>4
  <1>6. Sum(U \ {y}) = f[z] + Sum((U \ {y}) \ {z})
    BY <1>1, <1>2, <1>3, <1>4
  <1>7. (U \ {z}) \ {y} = (U \ {y}) \ {z}
    OBVIOUS
  <1>8. f[y] \in Int /\ f[z] \in Int /\ Sum((U \ {y}) \ {z}) \in Int
    BY <1>0, <1>1, <1>3
  <1> DEFINE rest == Sum((U \ {y}) \ {z})
  <1>9. Sum(U) = f[z] + (f[y] + rest) /\ Sum(U \ {y}) = f[z] + rest
    BY <1>3, <1>5, <1>6, <1>7
  <1>10. f[z] + (f[y] + rest) = f[y] + (f[z] + rest)
    <2> HIDE DEF rest
    <2> QED
      BY <1>8 DEF rest
  <1> HIDE DEF Bad, rest
  <1> QED
    BY <1>2, <1>9, <1>10

\* Functions that agree on a set have the same sum over it.
LEMMA SumSame ==
    ASSUME NEW S, IsFiniteSet(S), NEW f \in [S -> Int],
           NEW R, IsFiniteSet(R), NEW g \in [R -> Int],
           NEW T \in SUBSET (S \cap R), \A x \in T : f[x] = g[x]
    PROVE  SumFunctionOnSet(f, T) = SumFunctionOnSet(g, T)
  <1> DEFINE Bad == {U \in SUBSET T : SumFunctionOnSet(f, U) # SumFunctionOnSet(g, U)}
  <1> SUFFICES ASSUME Bad # {} PROVE FALSE
    OBVIOUS
  <1>1. PICK U \in Bad : \A V \in Bad : V \subseteq U => V = U
    <2>1. Bad \in SUBSET (SUBSET S)
      OBVIOUS
    <2> HIDE DEF Bad
    <2> QED
      BY <2>1, LeastSubset
  <1>2. U # {}
    BY <1>1, SumRec
  <1>3. PICK x \in U : TRUE
    BY <1>2
  <1>4. /\ SumFunctionOnSet(f, U) = f[x] + SumFunctionOnSet(f, U \ {x})
        /\ SumFunctionOnSet(g, U) = g[x] + SumFunctionOnSet(g, U \ {x})
    BY <1>1, <1>3, SumRemove
  <1>5. SumFunctionOnSet(f, U \ {x}) = SumFunctionOnSet(g, U \ {x})
    BY <1>1, <1>3
  <1> QED
    BY <1>1, <1>4, <1>5

\* A sum of integers is an integer, 0 if all of them are 0.
LEMMA SumType ==
    ASSUME NEW S, IsFiniteSet(S), NEW f \in [S -> Int]
    PROVE  /\ SumFunction(f) \in Int
           /\ SumFunction(f) = SumFunctionOnSet(f, S)
           /\ (\A x \in S : f[x] = 0) => SumFunction(f) = 0
  <1>1. SumFunction(f) = SumFunctionOnSet(f, S)
    BY DEF SumFunction
  <1>2. SumFunctionOnSet(f, S) \in Int
    BY SumRec
  <1>3. ASSUME \A x \in S : f[x] = 0 PROVE SumFunctionOnSet(f, S) = 0
    <2> DEFINE Bad == {U \in SUBSET S : SumFunctionOnSet(f, U) # 0}
    <2> SUFFICES ASSUME Bad # {} PROVE FALSE
      OBVIOUS
    <2>1. PICK U \in Bad : \A V \in Bad : V \subseteq U => V = U
      <3>1. Bad \in SUBSET (SUBSET S)
        OBVIOUS
      <3> HIDE DEF Bad
      <3> QED
        BY <3>1, LeastSubset
    <2>2. U # {}
      BY <2>1, SumRec
    <2>3. PICK x \in U : TRUE
      BY <2>2
    <2>4. SumFunctionOnSet(f, U) = f[x] + SumFunctionOnSet(f, U \ {x})
      BY <2>1, <2>3, SumRemove
    <2>5. SumFunctionOnSet(f, U \ {x}) = 0
      BY <2>1, <2>3
    <2> QED
      BY <1>3, <2>1, <2>4, <2>5
  <1> QED
    BY <1>1, <1>2, <1>3

\* A sum of natural numbers is one.
LEMMA SumNat ==
    ASSUME NEW S, IsFiniteSet(S), NEW f \in [S -> Nat]
    PROVE  SumFunction(f) \in Nat
  <1>0. f \in [S -> Int]
    OBVIOUS
  <1>1. SumFunction(f) = SumFunctionOnSet(f, S)
    BY <1>0, SumType
  <1> DEFINE Bad == {U \in SUBSET S : SumFunctionOnSet(f, U) \notin Nat}
  <1> SUFFICES ASSUME Bad # {} PROVE FALSE
    BY <1>1
  <1>2. PICK U \in Bad : \A V \in Bad : V \subseteq U => V = U
    <2>1. Bad \in SUBSET (SUBSET S)
      OBVIOUS
    <2> HIDE DEF Bad
    <2> QED
      BY <2>1, LeastSubset
  <1>3. U # {}
    <2>1. U \in SUBSET S /\ SumFunctionOnSet(f, U) # 0
      BY <1>2
    <2> QED
      BY <1>0, <2>1, SumRec
  <1>4. PICK x \in U : TRUE
    BY <1>3
  <1>5. SumFunctionOnSet(f, U) = f[x] + SumFunctionOnSet(f, U \ {x})
    BY <1>0, <1>2, <1>4, SumRemove
  <1>6. SumFunctionOnSet(f, U \ {x}) \in Nat /\ f[x] \in Nat
    BY <1>2, <1>4
  <1> QED
    BY <1>2, <1>5, <1>6

\* A sum changes by as much as the one term that changes.
LEMMA SumChange ==
    ASSUME NEW S, IsFiniteSet(S), NEW f \in [S -> Int], NEW g \in [S -> Int],
           NEW x \in S, \A y \in S \ {x} : g[y] = f[y]
    PROVE  SumFunction(g) = SumFunction(f) + (g[x] - f[x])
  <1>1. /\ SumFunctionOnSet(f, S) = f[x] + SumFunctionOnSet(f, S \ {x})
        /\ SumFunctionOnSet(g, S) = g[x] + SumFunctionOnSet(g, S \ {x})
    BY SumRemove
  <1>2. SumFunctionOnSet(f, S \ {x}) = SumFunctionOnSet(g, S \ {x})
    BY SumSame
  <1>3. /\ SumFunctionOnSet(f, S) \in Int /\ SumFunctionOnSet(g, S) \in Int
        /\ SumFunctionOnSet(f, S \ {x}) \in Int
    BY SumRec
  <1>4. SumFunction(f) = SumFunctionOnSet(f, S) /\ SumFunction(g) = SumFunctionOnSet(g, S)
    BY SumType
  <1> QED
    BY <1>1, <1>2, <1>3, <1>4

\* A term more adds its value.
LEMMA SumExtend ==
    ASSUME NEW S, IsFiniteSet(S), NEW f \in [S -> Int],
           NEW R, NEW x \in R, S = R \ {x}, NEW g \in [R -> Int], \A y \in S : g[y] = f[y]
    PROVE  SumFunction(g) = SumFunction(f) + g[x]
  <1>0. R = S \cup {x}
    OBVIOUS
  <1>1. IsFiniteSet(R) /\ R \ {x} = S /\ x \in R /\ g \in [R -> Int] /\ S \in SUBSET (S \cap R)
    BY <1>0, FS_AddElement
  <1>2. SumFunctionOnSet(g, R) = g[x] + SumFunctionOnSet(g, S)
    BY <1>1, SumRemove
  <1>3. SumFunctionOnSet(f, S) = SumFunctionOnSet(g, S)
    BY <1>1, SumSame
  <1>4. SumFunctionOnSet(f, S) \in Int /\ g[x] \in Int
    BY <1>1, SumRec
  <1>5. SumFunction(f) = SumFunctionOnSet(f, S) /\ SumFunction(g) = SumFunctionOnSet(g, R)
    BY <1>1, SumType
  <1> QED
    BY <1>2, <1>3, <1>4, <1>5

\* Addend by addend no more.
LEMMA SumMono ==
    ASSUME NEW S, IsFiniteSet(S), NEW f \in [S -> Int], NEW g \in [S -> Int],
           \A x \in S : f[x] <= g[x]
    PROVE  SumFunction(f) <= SumFunction(g)
  <1> DEFINE Bad == {T \in SUBSET S : ~(SumFunctionOnSet(f, T) <= SumFunctionOnSet(g, T))}
  <1>0. SumFunction(f) = SumFunctionOnSet(f, S) /\ SumFunction(g) = SumFunctionOnSet(g, S)
    BY SumType
  <1> SUFFICES ASSUME Bad # {} PROVE FALSE
    BY <1>0
  <1>1. Bad \in SUBSET (SUBSET S)
    OBVIOUS
  <1>2. PICK T \in Bad : \A U \in Bad : U \subseteq T => U = T
    <2> HIDE DEF Bad
    <2> QED
      BY <1>1, LeastSubset
  <1>3. T \in SUBSET S /\ ~(SumFunctionOnSet(f, T) <= SumFunctionOnSet(g, T))
    OBVIOUS
  <1>4. T # {}
    <2> SUFFICES ASSUME T = {} PROVE FALSE
      OBVIOUS
    <2>1. SumFunctionOnSet(f, T) = 0 /\ SumFunctionOnSet(g, T) = 0
      BY <1>3, SumRec
    <2> QED
      BY <1>3, <2>1
  <1>5. PICK x \in T : TRUE
    BY <1>4
  <1> DEFINE r == T \ {x}
  <1>6. r \notin Bad /\ r \in SUBSET S
    BY <1>2, <1>3, <1>5
  <1>7. SumFunctionOnSet(f, r) <= SumFunctionOnSet(g, r)
    BY <1>6
  <1>8. /\ SumFunctionOnSet(f, T) = f[x] + SumFunctionOnSet(f, r)
        /\ SumFunctionOnSet(g, T) = g[x] + SumFunctionOnSet(g, r)
    BY <1>3, <1>5, SumRemove
  <1>9. SumFunctionOnSet(f, r) \in Int /\ SumFunctionOnSet(g, r) \in Int
    <2> HIDE DEF r
    <2> QED
      BY <1>6, SumRec
  <1>10. f[x] \in Int /\ g[x] \in Int /\ f[x] <= g[x]
    BY <1>3, <1>5
  <1> HIDE DEF r, Bad
  <1> QED
    BY <1>3, <1>7, <1>8, <1>9, <1>10

\* A sum of n addends, none more than K, is at most n * K.
LEMMA SumBound ==
    ASSUME NEW S, IsFiniteSet(S), NEW f \in [S -> Int], NEW K \in Nat,
           \A x \in S : f[x] <= K
    PROVE  SumFunction(f) <= Cardinality(S) * K
  <1> DEFINE Bad == {T \in SUBSET S : ~(SumFunctionOnSet(f, T) <= Cardinality(T) * K)}
  <1>0. SumFunction(f) = SumFunctionOnSet(f, S)
    BY SumType
  <1> SUFFICES ASSUME Bad # {} PROVE FALSE
    BY <1>0
  <1>1. Bad \in SUBSET (SUBSET S)
    OBVIOUS
  <1>2. PICK T \in Bad : \A U \in Bad : U \subseteq T => U = T
    <2> HIDE DEF Bad
    <2> QED
      BY <1>1, LeastSubset
  <1>3. T \in SUBSET S /\ ~(SumFunctionOnSet(f, T) <= Cardinality(T) * K)
    OBVIOUS
  <1>4. T # {}
    <2> SUFFICES ASSUME T = {} PROVE FALSE
      OBVIOUS
    <2>1. SumFunctionOnSet(f, T) = 0
      BY <1>3, SumRec
    <2>2. Cardinality(T) = 0
      BY FS_EmptySet
    <2> QED
      BY <1>3, <2>1, <2>2
  <1>5. PICK x \in T : TRUE
    BY <1>4
  <1> DEFINE r == T \ {x}
  <1>6. r \notin Bad /\ r \in SUBSET S
    BY <1>2, <1>3, <1>5
  <1>7. SumFunctionOnSet(f, r) <= Cardinality(r) * K
    BY <1>6
  <1>8. SumFunctionOnSet(f, T) = f[x] + SumFunctionOnSet(f, r)
    BY <1>3, <1>5, SumRemove
  <1>9. SumFunctionOnSet(f, r) \in Int
    <2> HIDE DEF r
    <2> QED
      BY <1>6, SumRec
  <1>10. f[x] \in Int /\ f[x] <= K
    BY <1>3, <1>5
  <1>11. IsFiniteSet(T)
    BY <1>3, FS_Subset
  <1>12. Cardinality(r) = Cardinality(T) - 1 /\ Cardinality(T) \in Nat
    BY <1>5, <1>11, FS_RemoveElement, FS_CardinalityType
  <1> DEFINE n == Cardinality(T)
  <1> HIDE DEF r, Bad, n
  <1>13. n \in Nat /\ (n - 1) * K = n * K - K /\ n * K \in Int /\ Cardinality(r) * K = (n - 1) * K
    <2>1. n \in Nat /\ Cardinality(r) = n - 1
      BY <1>12 DEF n
    <2> QED
      BY <2>1
  <1>14. SumFunctionOnSet(f, T) <= n * K
    BY <1>7, <1>8, <1>9, <1>10, <1>13
  <1> QED
    BY <1>3, <1>14 DEF n

-----------------------------------------------------------------------------
(* Division.                                                               *)

\* What division is.
LEMMA DivMod ==
    ASSUME NEW a \in Nat, NEW c \in Nat \ {0}
    PROVE  /\ a \div c \in Nat
           /\ c * (a \div c) <= a /\ a < c * (a \div c) + c
  OBVIOUS

\* A product grows with its factor.
LEMMA MulMono ==
    ASSUME NEW c \in Nat, NEW x \in Int, NEW y \in Int, x <= y
    PROVE  c * x <= c * y
  <1>1. c * (y - x) \in Nat
    <2>1. y - x \in Nat
      OBVIOUS
    <2> QED
      BY <2>1
  <1>2. c * (y - x) = c * y - c * x
    OBVIOUS
  <1>3. c * x \in Int /\ c * y \in Int
    OBVIOUS
  <1> QED
    BY <1>1, <1>2, <1>3

\* A larger dividend has no smaller quotient.
LEMMA DivMono ==
    ASSUME NEW a \in Nat, NEW b \in Nat, NEW c \in Nat \ {0}, a <= b
    PROVE  a \div c <= b \div c
  <1> DEFINE x == a \div c
             y == b \div c
  <1>1. x \in Nat /\ y \in Nat /\ c * x <= a /\ b < c * y + c
    BY DivMod
  <1> HIDE DEF x, y
  <1> SUFFICES ASSUME y + 1 <= x PROVE FALSE
    <2>1. x <= y
      BY <1>1
    <2> QED
      BY <2>1 DEF x, y
  <1>2. c * (y + 1) <= c * x
    BY <1>1, MulMono
  <1>3. c * (y + 1) = c * y + c
    BY <1>1
  <1>4. c * y \in Int /\ c * x \in Int
    BY <1>1
  <1> QED
    BY <1>1, <1>2, <1>3, <1>4

\* One divisor less is one quotient less.
LEMMA DivLess ==
    ASSUME NEW a \in Nat, NEW c \in Nat \ {0}, c <= a
    PROVE  (a - c) \div c + 1 = a \div c
  <1> DEFINE d == a - c
             x == a \div c
             z == d \div c
  <1>0. d \in Nat
    OBVIOUS
  <1>1. x \in Nat /\ c * x <= a /\ a < c * x + c
    BY DivMod
  <1>2. z \in Nat /\ c * z <= d /\ d < c * z + c
    <2> HIDE DEF d
    <2> QED
      BY <1>0, DivMod
  <1> HIDE DEF x, z
  <1>3. c * x \in Int /\ c * z \in Int /\ c * (z + 1) = c * z + c /\ c * (z + 2) = c * (z + 1) + c
        /\ c * (z + 1) \in Int /\ c * (x + 1) = c * x + c
    BY <1>1, <1>2
  <1>4. x < z + 2
    <2> SUFFICES ASSUME z + 2 <= x PROVE FALSE
      BY <1>1, <1>2
    <2>1. c * (z + 2) <= c * x
      BY <1>1, <1>2, MulMono
    <2> QED
      BY <1>1, <1>2, <1>3, <2>1
  <1>5. x > z
    <2> SUFFICES ASSUME x + 1 <= z + 1 PROVE FALSE
      BY <1>1, <1>2
    <2>1. c * (x + 1) <= c * (z + 1)
      BY <1>1, <1>2, MulMono
    <2> QED
      BY <1>1, <1>2, <1>3, <2>1
  <1>6. x = z + 1
    BY <1>1, <1>2, <1>4, <1>5
  <1> QED
    BY <1>6 DEF x, z
=============================================================================
