--------------------------- MODULE TableTheorems ---------------------------
(***************************************************************************)
(* Facts about tables: rows kept in a sequence, in the order they were     *)
(* made, and SumFunction, which says what a column of them comes to.       *)
(*                                                                         *)
(* The community modules define the sum by a recursive function on the     *)
(* subsets of the domain.  An induction is done here by a least            *)
(* counterexample: a set of finite sets that is not empty has a minimal    *)
(* one.                                                                    *)
(***************************************************************************)
EXTENDS Integers, Sequences, Functions, FiniteSetTheorems, WellFoundedInduction, TLAPS

\* The definitions the community modules make within LET, by name.
AnyOf(s) == CHOOSE x \in s : TRUE

OneMore(f, s, g) == IF s = {} THEN 0 ELSE f[AnyOf(s)] + g[s \ {AnyOf(s)}]

IsPartialSum(f, S, g) == g = [s \in SUBSET S |-> OneMore(f, s, g)]

PartialSum(f, S) == CHOOSE g : IsPartialSum(f, S, g)

\* The two functions have the same values on T.
Agree(f, h, T) == \A x \in T : f[x] = h[x]

\* The sum as the community modules define it.
LEMMA SumIsPartial == \A f, S : SumFunctionOnSet(f, S) = PartialSum(f, S)[S]
  BY DEF SumFunctionOnSet, FoldFunctionOnSet, MapThenFoldSet, PartialSum, IsPartialSum,
         OneMore, AnyOf

\* Some set of a collection of finite sets has no other of them within it.
LEMMA LeastSet ==
  ASSUME NEW S, IsFiniteSet(S), NEW C, C \subseteq SUBSET S, C # {}
  PROVE  \E T \in C : \A U \in C : ~ (U \subseteq T /\ U # T)
  <1>1. IsWellFoundedOn(StrictSubsetOrdering(S), FiniteSubsetsOf(S))
    BY FS_StrictSubsetOrderingWellFounded
  <1>2. C \subseteq FiniteSubsetsOf(S)
    BY FS_Subset DEF FiniteSubsetsOf
  <1>3. \E T \in C : \A U \in C : ~ (<<U, T>> \in StrictSubsetOrdering(S))
    BY <1>1, <1>2, WFMin, Zenon
  <1> QED
    BY <1>2, <1>3 DEF StrictSubsetOrdering, FiniteSubsetsOf

\* Row numbers and the like.  (The solvers search better where this is not expanded.)
AreNumbers(S) == S \subseteq Int

\* A finite set of integers that is not empty has a largest.
LEMMA LargestOf ==
  ASSUME NEW S, AreNumbers(S), IsFiniteSet(S), S # {}
  PROVE  \E x \in S : \A y \in S : y <= x
  <1> DEFINE Most(s, x) == x \in s /\ \A y \in s : y <= x
             C == {s \in SUBSET S : s # {} /\ ~ \E x \in s : Most(s, x)}
  <1>1. SUFFICES ASSUME C # {} PROVE FALSE
    OBVIOUS
  <1>2. PICK t \in C : \A u \in C : ~ (u \subseteq t /\ u # t)
    <2>1. C \subseteq SUBSET S
      OBVIOUS
    <2> HIDE DEF C
    <2> QED
      BY <1>1, <2>1, LeastSet
  <1>3. PICK x \in t : TRUE
    BY <1>2
  <1>4. t \ {x} # {}
    <2>1. x \in Int
      BY <1>2, <1>3 DEF AreNumbers
    <2>2. t \ {x} = {} => Most(t, x)
      BY <1>3, <2>1
    <2> QED
      BY <1>2, <2>2
  <1>5. PICK y \in t \ {x} : Most(t \ {x}, y)
    <2>1. t \ {x} \in SUBSET S /\ t \ {x} \subseteq t /\ t \ {x} # t
      BY <1>2, <1>3
    <2>2. t \ {x} \notin C
      BY <1>2, <2>1
    <2> QED
      BY <1>4, <2>1, <2>2
  <1>6. x \in Int /\ y \in Int /\ t \subseteq Int
    BY <1>2, <1>3, <1>5 DEF AreNumbers
  <1>7. Most(t, IF x <= y THEN y ELSE x)
    BY <1>3, <1>5, <1>6
  <1> QED
    BY <1>2, <1>7

\* A set with anything in it holds what AnyOf takes of it.
LEMMA AnyOfIn == \A s : s # {} => AnyOf(s) \in s
  BY DEF AnyOf

\* What satisfies the equation of the sum depends only on the terms.
LEMMA PartialUnique ==
  ASSUME NEW S, NEW T \in SUBSET S, IsFiniteSet(T),
         NEW f, NEW g, IsPartialSum(f, S, g),
         NEW h, NEW k, IsPartialSum(h, T, k),
         Agree(f, h, T)
  PROVE  \A s \in SUBSET T : g[s] = k[s]
  <1> USE DEF Agree
  <1> DEFINE C == {s \in SUBSET T : g[s] # k[s]}
  <1> SUFFICES ASSUME C # {} PROVE FALSE
    OBVIOUS
  <1>1. PICK t \in C : \A u \in C : ~ (u \subseteq t /\ u # t)
    <2>1. C \subseteq SUBSET T
      OBVIOUS
    <2> HIDE DEF C
    <2> QED
      BY <2>1, LeastSet
  <1>2. g[t] = OneMore(f, t, g) /\ k[t] = OneMore(h, t, k)
    BY <1>1 DEF IsPartialSum
  <1>3. t # {}
    BY <1>1, <1>2 DEF OneMore
  <1>4. AnyOf(t) \in t
    BY <1>3, AnyOfIn
  <1>5. t \ {AnyOf(t)} \notin C
    BY <1>1, <1>4
  <1>6. g[t \ {AnyOf(t)}] = k[t \ {AnyOf(t)}]
    BY <1>1, <1>5
  <1> QED
    BY <1>1, <1>2, <1>3, <1>4, <1>6 DEF OneMore

\* So it is the same for a set as within a larger one.
LEMMA PartialWithin ==
  ASSUME NEW S, NEW T \in SUBSET S, IsFiniteSet(T), NEW f,
         NEW g, IsPartialSum(f, S, g), NEW k, IsPartialSum(f, T, k)
  PROVE  g[T] = k[T]
  <1>1. Agree(f, f, T) /\ T \in SUBSET T
    BY DEF Agree
  <1> QED
    BY <1>1, PartialUnique

\* The equation has a solution on every finite set.
LEMMA PartialExists ==
  ASSUME NEW S, IsFiniteSet(S), NEW f
  PROVE  IsPartialSum(f, S, PartialSum(f, S))
  <1> DEFINE Solved(s) == \E g : IsPartialSum(f, s, g)
             C == {s \in SUBSET S : ~ Solved(s)}
  <1>1. \A s : Solved(s) => IsPartialSum(f, s, PartialSum(f, s))
    BY DEF PartialSum
  <1>2. SUFFICES ASSUME C # {} PROVE FALSE
    BY <1>1
  <1>3. PICK t \in C : \A u \in C : ~ (u \subseteq t /\ u # t)
    <2>1. C \subseteq SUBSET S
      OBVIOUS
    <2> HIDE DEF C
    <2> QED
      BY <1>2, <2>1, LeastSet
  <1>4. \A u \in SUBSET t : u # t => IsPartialSum(f, u, PartialSum(f, u))
    BY <1>1, <1>3
  <1> DEFINE x == AnyOf(t)
             Below(s) == PartialSum(f, s)[s]
             G == [s \in SUBSET t |-> IF s = t /\ t # {} THEN f[x] + Below(t \ {x})
                                      ELSE IF s = {} THEN 0 ELSE Below(s)]
  <1>5. \A s \in SUBSET t : IsFiniteSet(s)
    BY <1>3, FS_Subset
  <1>6. ASSUME NEW s \in SUBSET t
        PROVE  G[s] = OneMore(f, s, G)
    <2>1. CASE s = {}
      BY <2>1 DEF OneMore
    <2>2. CASE s = t /\ t # {}
      <3>1. x \in t /\ t \ {x} # t /\ t \ {x} \in SUBSET t
        BY <2>2, AnyOfIn
      <3>2. CASE t \ {x} = {}
        <4>1. IsPartialSum(f, {}, PartialSum(f, {}))
          BY <1>4, <2>2, <3>1, <3>2
        <4>2. Below({}) = 0
          BY <4>1 DEF IsPartialSum, OneMore
        <4> QED
          BY <2>2, <3>1, <3>2, <4>2 DEF OneMore
      <3>3. CASE t \ {x} # {}
        BY <2>2, <3>1, <3>3 DEF OneMore
      <3> QED
        BY <3>2, <3>3
    <2>3. CASE s # t /\ s # {}
      <3> DEFINE y == AnyOf(s)
                 v == s \ {y}
      <3>1. y \in s /\ v \in SUBSET s /\ v # t /\ v \in SUBSET t /\ s \in SUBSET s
        BY <2>3, AnyOfIn
      <3>2. IsPartialSum(f, s, PartialSum(f, s)) /\ IsPartialSum(f, v, PartialSum(f, v))
        BY <1>4, <2>3, <3>1
      <3>3. PartialSum(f, s)[s] = OneMore(f, s, PartialSum(f, s))
        <4> HIDE DEF v
        <4> DEFINE p == PartialSum(f, s)
        <4>1. p = [r \in SUBSET s |-> OneMore(f, r, p)]
          BY <3>2 DEF IsPartialSum
        <4> HIDE DEF p
        <4>2. p[s] = OneMore(f, s, p)
          BY <4>1, <3>1
        <4> QED
          BY <4>2 DEF p
      <3>4. Below(s) = f[y] + PartialSum(f, s)[v]
        BY <2>3, <3>3 DEF OneMore
      <3>5. PartialSum(f, s)[v] = Below(v)
        <4>1. IsFiniteSet(v)
          BY <1>5, <3>1
        <4> QED
          BY <3>1, <3>2, <4>1, PartialWithin
      <3>6. Below(v) = G[v]
        <4>1. CASE v = {}
          <5>1. IsPartialSum(f, {}, PartialSum(f, {}))
            BY <3>2, <4>1
          <5>2. Below({}) = 0
            BY <5>1 DEF IsPartialSum, OneMore
          <5> QED
            BY <4>1, <5>2, <3>1
        <4>2. CASE v # {}
          BY <4>2, <3>1
        <4> QED
          BY <4>1, <4>2
      <3>7. G[s] = Below(s)
        BY <2>3
      <3> QED
        BY <2>3, <3>4, <3>5, <3>6, <3>7 DEF OneMore
    <2> QED
      BY <2>1, <2>2, <2>3
  <1>7. IsPartialSum(f, t, G)
    <2> DEFINE H == [s \in SUBSET t |-> OneMore(f, s, G)]
    <2>1. \A s \in SUBSET t : G[s] = H[s]
      BY <1>6
    <2>2. G = H
      BY <2>1
    <2> QED
      BY <2>2 DEF IsPartialSum
  <1> QED
    BY <1>3, <1>7

-----------------------------------------------------------------------------
(* Sums over a set of indices. *)

\* The sum does not depend on what the function is elsewhere.
LEMMA OnSetAgree ==
  ASSUME NEW S, IsFiniteSet(S), NEW f, NEW g, \A x \in S : f[x] = g[x]
  PROVE  SumFunctionOnSet(f, S) = SumFunctionOnSet(g, S)
  <1>1. IsPartialSum(f, S, PartialSum(f, S)) /\ IsPartialSum(g, S, PartialSum(g, S))
    BY PartialExists
  <1>2. \A s \in SUBSET S : PartialSum(f, S)[s] = PartialSum(g, S)[s]
    <2>1. S \in SUBSET S /\ Agree(f, g, S)
      BY DEF Agree
    <2> QED
      BY <1>1, <2>1, PartialUnique
  <1> QED
    BY <1>2, SumIsPartial

\* The sum of no terms, and the term the definition takes first.
LEMMA OnSetFirst ==
  ASSUME NEW S, IsFiniteSet(S), NEW f
  PROVE  /\ S = {} => SumFunctionOnSet(f, S) = 0
         /\ S # {} => /\ AnyOf(S) \in S
                      /\ SumFunctionOnSet(f, S) =
                           f[AnyOf(S)] + SumFunctionOnSet(f, S \ {AnyOf(S)})
  <1> DEFINE p == PartialSum(f, S)
             T == S \ {AnyOf(S)}
  <1>1. IsPartialSum(f, S, p)
    BY PartialExists
  <1>2. p[S] = OneMore(f, S, p)
    <2> HIDE DEF p
    <2> QED
      BY <1>1 DEF IsPartialSum
  <1>3. IsFiniteSet(T) /\ T \in SUBSET S
    BY FS_Subset
  <1>4. p[T] = SumFunctionOnSet(f, T)
    <2>1. IsPartialSum(f, T, PartialSum(f, T))
      BY <1>3, PartialExists
    <2>2. p[T] = PartialSum(f, T)[T]
      <3> HIDE DEF p, T
      <3> QED
        BY <1>1, <1>3, <2>1, PartialWithin
    <2> QED
      BY <2>2, SumIsPartial
  <1>5. SumFunctionOnSet(f, S) = p[S]
    BY SumIsPartial
  <1> HIDE DEF p
  <1> QED
    BY <1>2, <1>4, <1>5, AnyOfIn DEF OneMore

\* A sum of integers is one, a sum of natural numbers too.
LEMMA OnSetType ==
  ASSUME NEW D \in {Nat, Int}, NEW S, IsFiniteSet(S), NEW f, \A x \in S : f[x] \in D
  PROVE  SumFunctionOnSet(f, S) \in D
  <1> DEFINE C == {s \in SUBSET S : SumFunctionOnSet(f, s) \notin D}
  <1>1. SUFFICES ASSUME C # {} PROVE FALSE
    OBVIOUS
  <1>2. PICK t \in C : \A u \in C : ~ (u \subseteq t /\ u # t)
    <2>1. C \subseteq SUBSET S
      OBVIOUS
    <2> HIDE DEF C
    <2> QED
      BY <1>1, <2>1, LeastSet
  <1>3. IsFiniteSet(t)
    BY <1>2, FS_Subset
  <1>4. t # {}
    BY <1>2, <1>3, OnSetFirst
  <1>5. /\ AnyOf(t) \in t
        /\ SumFunctionOnSet(f, t) = f[AnyOf(t)] + SumFunctionOnSet(f, t \ {AnyOf(t)})
    BY <1>3, <1>4, OnSetFirst
  <1>6. SumFunctionOnSet(f, t \ {AnyOf(t)}) \in D
    BY <1>2, <1>5
  <1>7. f[AnyOf(t)] \in D
    BY <1>2, <1>5
  <1>8. SumFunctionOnSet(f, t) \in D
    BY <1>5, <1>6, <1>7
  <1> QED
    BY <1>2, <1>8

\* Any term may be taken first.
LEMMA OnSetAnyFirst ==
  ASSUME NEW S, IsFiniteSet(S), NEW f, \A x \in S : f[x] \in Int, NEW x \in S
  PROVE  SumFunctionOnSet(f, S) = f[x] + SumFunctionOnSet(f, S \ {x})
  <1> DEFINE M(s) == SumFunctionOnSet(f, s)
             Fails(s) == \E y \in s : M(s) # f[y] + M(s \ {y})
             C == {s \in SUBSET S : Fails(s)}
  <1>1. SUFFICES ASSUME C # {} PROVE FALSE
    OBVIOUS
  <1>2. PICK t \in C : \A u \in C : ~ (u \subseteq t /\ u # t)
    <2>1. C \subseteq SUBSET S
      OBVIOUS
    <2> HIDE DEF C
    <2> QED
      BY <1>1, <2>1, LeastSet
  <1>3. PICK y \in t : M(t) # f[y] + M(t \ {y})
    BY <1>2
  <1> DEFINE z == AnyOf(t)
  <1>4. IsFiniteSet(t)
    BY <1>2, FS_Subset
  <1>5. z \in t /\ M(t) = f[z] + M(t \ {z})
    BY <1>3, <1>4, OnSetFirst
  <1>6. z # y
    BY <1>3, <1>5
  <1>7. t \ {z} \notin C /\ t \ {y} \notin C
    BY <1>2, <1>3, <1>5
  <1>8. M(t \ {z}) = f[y] + M((t \ {z}) \ {y}) /\ M(t \ {y}) = f[z] + M((t \ {y}) \ {z})
    BY <1>2, <1>3, <1>5, <1>6, <1>7
  <1>9. (t \ {z}) \ {y} = (t \ {y}) \ {z}
    OBVIOUS
  <1>10. f[y] \in Int /\ f[z] \in Int
    BY <1>2, <1>3, <1>5
  <1>11. M((t \ {y}) \ {z}) \in Int
    <2>1. IsFiniteSet((t \ {y}) \ {z})
      BY <1>4, FS_Subset
    <2>2. \A v \in (t \ {y}) \ {z} : f[v] \in Int
      BY <1>2
    <2> QED
      BY <2>1, <2>2, OnSetType
  <1> DEFINE a == M(t \ {z})
             b == M(t \ {y})
             c == M((t \ {y}) \ {z})
  <1>12. M(t) = f[z] + a /\ a = f[y] + c /\ b = f[z] + c /\ c \in Int
    BY <1>5, <1>8, <1>9, <1>11
  <1>13. M(t) = f[y] + b
    <2> HIDE DEF a, b, c
    <2> QED
      BY <1>10, <1>12
  <1> QED
    BY <1>3, <1>13

-----------------------------------------------------------------------------
(* Sums of the values of a function. *)

\* The sum of no terms.
LEMMA SumEmpty == \A f : DOMAIN f = {} => SumFunction(f) = 0
  BY FS_EmptySet, OnSetFirst DEF SumFunction

\* The type of a sum.
LEMMA SumType ==
  ASSUME NEW D \in {Nat, Int}, NEW S, IsFiniteSet(S), NEW f \in [S -> D]
  PROVE  SumFunction(f) \in D
  BY OnSetType DEF SumFunction

\* One term more.
LEMMA SumMore ==
  ASSUME NEW S, IsFiniteSet(S), NEW x, x \notin S,
         NEW f \in [S -> Int], NEW g \in [S \cup {x} -> Int], \A y \in S : g[y] = f[y]
  PROVE  SumFunction(g) = SumFunction(f) + g[x]
  <1>1. IsFiniteSet(S \cup {x})
    BY FS_AddElement
  <1>2. SumFunctionOnSet(g, S \cup {x}) = g[x] + SumFunctionOnSet(g, (S \cup {x}) \ {x})
    BY <1>1, OnSetAnyFirst
  <1>3. (S \cup {x}) \ {x} = S
    OBVIOUS
  <1>4. SumFunctionOnSet(g, S) = SumFunctionOnSet(f, S)
    BY OnSetAgree
  <1>5. SumFunctionOnSet(f, S) \in Int
    BY OnSetType
  <1>6. SumFunction(g) = g[x] + SumFunction(f)
    BY <1>2, <1>3, <1>4 DEF SumFunction
  <1>7. SumFunction(f) \in Int /\ g[x] \in Int
    BY <1>5 DEF SumFunction
  <1> QED
    BY <1>6, <1>7

\* One term.
LEMMA SumOne ==
  ASSUME NEW x, NEW g \in [{x} -> Int]
  PROVE  SumFunction(g) = g[x]
  <1>1. IsFiniteSet({x}) /\ IsFiniteSet({}) /\ g[x] \in Int /\ DOMAIN g = {x}
    BY FS_Singleton, FS_EmptySet
  <1>2. AnyOf({x}) = x /\ {x} \ {x} = {}
    BY AnyOfIn
  <1>3. SumFunctionOnSet(g, {x}) = g[x] + 0
    <2> DEFINE S == {x}
    <2>1. IsFiniteSet(S) /\ S # {} /\ AnyOf(S) = x /\ S \ {x} = {}
      BY <1>1, <1>2
    <2> HIDE DEF S
    <2>2. SumFunctionOnSet(g, S) = g[x] + SumFunctionOnSet(g, {})
      BY <2>1, OnSetFirst
    <2>3. SumFunctionOnSet(g, {}) = 0
      BY <1>1, OnSetFirst
    <2> QED
      BY <2>2, <2>3 DEF S
  <1> QED
    BY <1>1, <1>3 DEF SumFunction

\* One term changed.
LEMMA SumChange ==
  ASSUME NEW S, IsFiniteSet(S), NEW x \in S,
         NEW f \in [S -> Int], NEW g \in [S -> Int], \A y \in S \ {x} : g[y] = f[y]
  PROVE  SumFunction(g) = SumFunction(f) + (g[x] - f[x])
  <1> DEFINE T == S \ {x}
             h == [y \in T |-> f[y]]
  <1>1. IsFiniteSet(T) /\ x \notin T /\ S = T \cup {x}
    BY FS_Subset
  <1>2. h \in [T -> Int] /\ \A y \in T : f[y] = h[y] /\ g[y] = h[y]
    OBVIOUS
  <1>3. SumFunction(h) \in Int
    <2> HIDE DEF T, h
    <2> QED
      BY <1>1, <1>2, SumType
  <1>4. SumFunction(f) = SumFunction(h) + f[x]
    <2> HIDE DEF T, h
    <2> QED
      BY <1>1, <1>2, SumMore
  <1>5. SumFunction(g) = SumFunction(h) + g[x]
    <2> HIDE DEF T, h
    <2> QED
      BY <1>1, <1>2, SumMore
  <1> HIDE DEF h
  <1> QED
    BY <1>3, <1>4, <1>5

\* A term is no more than the sum, where none is negative.
LEMMA SumHolds ==
  ASSUME NEW S, IsFiniteSet(S), NEW x \in S, NEW f \in [S -> Nat]
  PROVE  f[x] <= SumFunction(f)
  <1> DEFINE T == S \ {x}
             h == [y \in T |-> f[y]]
  <1>1. IsFiniteSet(T) /\ x \notin T /\ S = T \cup {x}
    BY FS_Subset
  <1>2. h \in [T -> Nat] /\ h \in [T -> Int] /\ f \in [S -> Int] /\ \A y \in T : f[y] = h[y]
    OBVIOUS
  <1> HIDE DEF T, h
  <1>3. SumFunction(h) \in Nat
    BY <1>1, <1>2, SumType
  <1>4. SumFunction(f) = SumFunction(h) + f[x]
    BY <1>1, <1>2, SumMore
  <1> QED
    BY <1>3, <1>4

\* The sums of two functions come to that of their pointwise sum.
LEMMA SumPlus ==
  ASSUME NEW S, IsFiniteSet(S), NEW f \in [S -> Int], NEW g \in [S -> Int],
         NEW h \in [S -> Int], \A x \in S : h[x] = f[x] + g[x]
  PROVE  SumFunction(h) = SumFunction(f) + SumFunction(g)
  <1> DEFINE M(k, s) == SumFunctionOnSet(k, s)
             C == {s \in SUBSET S : M(h, s) # M(f, s) + M(g, s)}
  <1>1. SUFFICES ASSUME C # {} PROVE FALSE
    BY DEF SumFunction
  <1>2. PICK t \in C : \A u \in C : ~ (u \subseteq t /\ u # t)
    <2>1. C \subseteq SUBSET S
      OBVIOUS
    <2> HIDE DEF C
    <2> QED
      BY <1>1, <2>1, LeastSet
  <1>3. IsFiniteSet(t)
    BY <1>2, FS_Subset
  <1>4. t # {}
    <2>1. \A k : SumFunctionOnSet(k, {}) = 0
      BY FS_EmptySet, OnSetFirst
    <2>2. M(h, {}) = M(f, {}) + M(g, {})
      BY <2>1
    <2> QED
      BY <1>2, <2>2
  <1>5. PICK x \in t : TRUE
    BY <1>4
  <1> DEFINE u == t \ {x}
  <1>6. u \notin C /\ u \in SUBSET S /\ IsFiniteSet(u)
    BY <1>2, <1>3, <1>5, FS_Subset
  <1>7. M(h, u) = M(f, u) + M(g, u)
    BY <1>6
  <1>8. /\ M(f, t) = f[x] + M(f, u) /\ M(g, t) = g[x] + M(g, u) /\ M(h, t) = h[x] + M(h, u)
        /\ M(f, u) \in Int /\ M(g, u) \in Int
    <2>1. \A k \in [S -> Int] : M(k, t) = k[x] + M(k, u) /\ M(k, u) \in Int
      <3> SUFFICES ASSUME NEW k \in [S -> Int]
                   PROVE  M(k, t) = k[x] + M(k, u) /\ M(k, u) \in Int
        OBVIOUS
      <3>1. (\A y \in t : k[y] \in Int) /\ (\A y \in u : k[y] \in Int)
        BY <1>2
      <3>2. M(k, t) = k[x] + M(k, u)
        BY <1>3, <1>5, <3>1, OnSetAnyFirst
      <3>3. M(k, u) \in Int
        BY <1>6, <3>1, OnSetType
      <3> QED
        BY <3>2, <3>3
    <2> HIDE DEF M
    <2> QED
      BY <2>1
  <1>9. x \in S
    BY <1>2, <1>5
  <1>10. M(h, t) = M(f, t) + M(g, t)
    <2> HIDE DEF M, u
    <2> QED
      BY <1>7, <1>8, <1>9
  <1> QED
    BY <1>2, <1>10

\* Terms that are all zero come to zero.
LEMMA SumZero ==
  ASSUME NEW S, IsFiniteSet(S), NEW f \in [S -> Int], \A x \in S : f[x] = 0
  PROVE  SumFunction(f) = 0
  <1>1. SumFunction(f) = SumFunction(f) + SumFunction(f)
    BY SumPlus
  <1>2. SumFunction(f) \in Int
    BY SumType
  <1>3. \A n \in Int : n = n + n => n = 0
    OBVIOUS
  <1> QED
    BY <1>1, <1>2, <1>3

\* Terms that are no less come to no less.
LEMMA SumMonotone ==
  ASSUME NEW S, IsFiniteSet(S), NEW f \in [S -> Int], NEW g \in [S -> Int],
         \A x \in S : f[x] <= g[x]
  PROVE  SumFunction(f) <= SumFunction(g)
  <1> DEFINE d == [x \in S |-> g[x] - f[x]]
  <1>1. d \in [S -> Nat] /\ d \in [S -> Int] /\ \A x \in S : g[x] = f[x] + d[x]
    OBVIOUS
  <1> HIDE DEF d
  <1>2. SumFunction(g) = SumFunction(f) + SumFunction(d)
    BY <1>1, SumPlus
  <1>3. SumFunction(d) \in Nat /\ SumFunction(f) \in Int
    BY <1>1, SumType
  <1> QED
    BY <1>2, <1>3

\* Terms that are zero may be left out.
LEMMA SumWithin ==
  ASSUME NEW S, IsFiniteSet(S), NEW T \in SUBSET S,
         NEW f \in [S -> Int], NEW g \in [T -> Int],
         \A x \in T : f[x] = g[x], \A x \in S \ T : f[x] = 0
  PROVE  SumFunction(f) = SumFunction(g)
  <1> DEFINE M(s) == SumFunctionOnSet(f, s)
             C == {s \in SUBSET S : M(s) # M(s \cap T)}
  <1>1. SUFFICES ASSUME C # {} PROVE FALSE
    <2>1. S \cap T = T /\ DOMAIN f = S /\ DOMAIN g = T
      OBVIOUS
    <2>2. M(T) = SumFunctionOnSet(g, T)
      BY FS_Subset, OnSetAgree
    <2> QED
      BY <2>1, <2>2 DEF SumFunction
  <1>2. PICK t \in C : \A u \in C : ~ (u \subseteq t /\ u # t)
    <2>1. C \subseteq SUBSET S
      OBVIOUS
    <2> HIDE DEF C
    <2> QED
      BY <1>1, <2>1, LeastSet
  <1>3. t \cap T # t
    BY <1>2
  <1>4. PICK x \in t : x \notin T
    BY <1>3
  <1>5. IsFiniteSet(t) /\ \A y \in t : f[y] \in Int
    BY <1>2, FS_Subset
  <1>6. M(t) = f[x] + M(t \ {x})
    BY <1>5, OnSetAnyFirst
  <1>7. f[x] = 0 /\ x \in S
    BY <1>2, <1>4
  <1>8. M(t \ {x}) \in Int
    <2>1. IsFiniteSet(t \ {x}) /\ \A y \in t \ {x} : f[y] \in Int
      BY <1>5, FS_Subset
    <2> QED
      BY <2>1, OnSetType
  <1>9. M(t \ {x}) = M((t \ {x}) \cap T)
    BY <1>2, <1>4
  <1>10. (t \ {x}) \cap T = t \cap T
    BY <1>4
  <1>11. M(t) = M(t \cap T)
    <2> DEFINE a == M(t \ {x})
    <2>1. M(t) = 0 + a /\ a = M(t \cap T) /\ a \in Int
      BY <1>6, <1>7, <1>8, <1>9, <1>10
    <2>2. 0 + a = a
      <3> HIDE DEF a
      <3> QED
        BY <2>1
    <2> QED
      BY <2>1, <2>2
  <1> QED
    BY <1>2, <1>11
\* What row n gives to cover an amount, after the rows of lower numbers.
Given(amount, has, n) ==
  LET left == amount - SumFunction([m \in {m \in DOMAIN has : m < n} |-> has[m]]) IN
  IF left < 0 THEN 0 ELSE IF has[n] < left THEN has[n] ELSE left

\* All the rows give the amount, or all they have.
LEMMA SumTaken ==
  ASSUME NEW S, AreNumbers(S), IsFiniteSet(S), NEW q \in Nat,
         NEW has \in [S -> Nat], NEW gives \in [S -> Int],
         \A n \in S : gives[n] = Given(q, has, n)
  PROVE  /\ gives \in [S -> Nat]
         /\ \A n \in S : gives[n] <= has[n]
         /\ SumFunction(gives) = IF SumFunction(has) < q THEN SumFunction(has) ELSE q
  <1> DEFINE H(s) == SumFunctionOnSet(has, s)
             G(s) == SumFunctionOnSet(gives, s)
             Lower(s) == \A m \in S, n \in s : m < n => m \in s
             Before(n) == {m \in S : m < n}
             C == {s \in SUBSET S : Lower(s) /\ G(s) # IF H(s) < q THEN H(s) ELSE q}
  <1>1. \A s \in SUBSET S : IsFiniteSet(s) /\ H(s) \in Nat
    BY FS_Subset, OnSetType
  <1>2. \A n \in S : SumFunction([m \in Before(n) |-> has[m]]) = H(Before(n))
    <2> SUFFICES ASSUME NEW n \in S
                 PROVE  SumFunction([m \in Before(n) |-> has[m]]) = H(Before(n))
      OBVIOUS
    <2> DEFINE B == Before(n)
               f == [m \in B |-> has[m]]
    <2>1. IsFiniteSet(B)
      BY <1>1
    <2>2. \A m \in B : f[m] = has[m]
      OBVIOUS
    <2>3. SumFunction(f) = SumFunctionOnSet(f, B)
      BY DEF SumFunction
    <2>4. SumFunctionOnSet(f, B) = SumFunctionOnSet(has, B)
      <3> HIDE DEF B, f
      <3> QED
        BY <2>1, <2>2, OnSetAgree
    <2> QED
      BY <2>3, <2>4
  <1>3. \A n \in S : gives[n] = IF q < H(Before(n)) THEN 0
                                ELSE IF has[n] < q - H(Before(n)) THEN has[n]
                                ELSE q - H(Before(n))
    <2> SUFFICES ASSUME NEW n \in S
                 PROVE  gives[n] = IF q < H(Before(n)) THEN 0
                                   ELSE IF has[n] < q - H(Before(n)) THEN has[n]
                                   ELSE q - H(Before(n))
      OBVIOUS
    <2> DEFINE h == SumFunction([m \in {m \in S : m < n} |-> has[m]])
    <2>1. h = H(Before(n))
      BY <1>2
    <2>2. gives[n] = IF q - h < 0 THEN 0 ELSE IF has[n] < q - h THEN has[n] ELSE q - h
      BY DEF Given
    <2>3. H(Before(n)) \in Nat
      BY <1>1
    <2>4. q - h < 0 <=> q < h
      <3> HIDE DEF h
      <3> QED
        BY <2>1, <2>3
    <2> HIDE DEF h
    <2> QED
      BY <2>1, <2>2, <2>4
  <1>4. gives \in [S -> Nat] /\ \A n \in S : gives[n] <= has[n]
    <2> SUFFICES ASSUME NEW n \in S PROVE gives[n] \in Nat /\ gives[n] <= has[n]
      OBVIOUS
    <2> DEFINE h == H(Before(n))
    <2>1. h \in Nat /\ has[n] \in Nat
      BY <1>1
    <2>2. gives[n] = IF q < h THEN 0 ELSE IF has[n] < q - h THEN has[n] ELSE q - h
      BY <1>3
    <2> HIDE DEF h
    <2> QED
      BY <2>1, <2>2
  <1>5. C = {}
    <2>1. SUFFICES ASSUME C # {} PROVE FALSE
      OBVIOUS
    <2>2. PICK t \in C : \A u \in C : ~ (u \subseteq t /\ u # t)
      <3>1. C \subseteq SUBSET S
        OBVIOUS
      <3> HIDE DEF C
      <3> QED
        BY <2>1, <3>1, LeastSet
    <2>3. IsFiniteSet(t) /\ t \in SUBSET S /\ Lower(t)
      BY <2>2, FS_Subset
    <2>4. t # {}
      <3>1. H({}) = 0 /\ G({}) = 0
        BY FS_EmptySet, OnSetFirst
      <3>2. G({}) = IF H({}) < q THEN H({}) ELSE q
        BY <3>1
      <3> QED
        BY <2>2, <3>2
    <2>5. PICK x \in t : \A y \in t : y <= x
      <3>1. AreNumbers(t)
        BY <2>3 DEF AreNumbers
      <3> QED
        BY <2>3, <2>4, <3>1, LargestOf
    <2> DEFINE u == t \ {x}
    <2>6. u = Before(x)
      <3>1. t \subseteq Int /\ t \subseteq S
        BY <2>3 DEF AreNumbers
      <3>2. u \subseteq Before(x)
        BY <2>5, <3>1
      <3>3. Before(x) \subseteq u
        <4>1. \A m \in S : m < x => m \in t
          BY <2>3, <2>5
        <4>2. \A m \in S : m < x => m # x
          BY <3>1, <2>5
        <4> QED
          BY <4>1, <4>2
      <3> QED
        BY <3>2, <3>3
    <2>7. u \in SUBSET S /\ Lower(u) /\ u \notin C
      <3>1. \A m \in S, n \in S : m < n /\ n < x => m < x
        BY <2>3, <2>5 DEF AreNumbers
      <3>2. Lower(u)
        BY <2>6, <3>1
      <3>3. u \in SUBSET S /\ u \subseteq t /\ u # t
        BY <2>3, <2>5
      <3>4. u \notin C
        <4> HIDE DEF C, u
        <4> QED
          BY <2>2, <3>3
      <3> QED
        BY <3>2, <3>3, <3>4
    <2>8. G(u) = IF H(u) < q THEN H(u) ELSE q
      BY <2>7
    <2>9. G(t) = gives[x] + G(u)
      <3>1. \A y \in t : gives[y] \in Int
        BY <2>3
      <3> QED
        BY <2>3, <2>5, <3>1, OnSetAnyFirst
    <2>10. H(t) = has[x] + H(u)
      <3>1. \A y \in t : has[y] \in Int
        BY <2>3
      <3> QED
        BY <2>3, <2>5, <3>1, OnSetAnyFirst
    <2>11. gives[x] = IF q < H(u) THEN 0 ELSE IF has[x] < q - H(u) THEN has[x] ELSE q - H(u)
      BY <1>3, <2>3, <2>5, <2>6
    <2>12. H(u) \in Nat /\ has[x] \in Nat
      BY <1>1, <2>3, <2>5, <2>7
    <2> DEFINE ht == H(t)
               gt == G(t)
               hu == H(u)
               gu == G(u)
    <2>13. gt = IF ht < q THEN ht ELSE q
      <3>1. gt = gives[x] + gu /\ ht = has[x] + hu /\ gu = IF hu < q THEN hu ELSE q
        BY <2>8, <2>9, <2>10
      <3>2. gives[x] = IF q < hu THEN 0 ELSE IF has[x] < q - hu THEN has[x] ELSE q - hu
        BY <2>11
      <3>3. hu \in Nat
        BY <2>12
      <3> HIDE DEF ht, gt, hu, gu
      <3> QED
        BY <2>12, <3>1, <3>2, <3>3
    <2> QED
      BY <2>2, <2>13
  <1>6. Lower(S)
    OBVIOUS
  <1>7. G(S) = IF H(S) < q THEN H(S) ELSE q
    BY <1>5, <1>6
  <1>8. SumFunction(gives) = G(S) /\ SumFunction(has) = H(S)
    BY DEF SumFunction
  <1> HIDE DEF G, H
  <1> QED
    BY <1>4, <1>7, <1>8

-----------------------------------------------------------------------------
(* Rows kept in a sequence. *)

\* The numbers of the rows.
LEMMA RowNumbers ==
  ASSUME NEW T, NEW s \in Seq(T)
  PROVE  /\ Len(s) \in Nat /\ DOMAIN s = 1 .. Len(s) /\ IsFiniteSet(DOMAIN s)
         /\ DOMAIN s \in SUBSET Nat
         /\ Len(s) + 1 \notin DOMAIN s
         /\ s \in [DOMAIN s -> T] /\ \A i \in DOMAIN s : s[i] \in T
  BY FS_Interval

\* One row more.
LEMMA RowMade ==
  ASSUME NEW T, NEW s \in Seq(T), NEW e \in T, NEW t, t = Append(s, e)
  PROVE  /\ t \in Seq(T) /\ Len(t) = Len(s) + 1
         /\ DOMAIN t = DOMAIN s \cup {Len(s) + 1}
         /\ \A i \in DOMAIN s : t[i] = s[i]
         /\ t[Len(s) + 1] = e
  <1>1. t \in Seq(T) /\ Len(t) = Len(s) + 1 /\ Len(s) \in Nat
    OBVIOUS
  <1>2. DOMAIN t = 1 .. (Len(s) + 1) /\ DOMAIN s = 1 .. Len(s)
    BY <1>1
  <1> QED
    BY <1>1, <1>2

\* Rows that are changed stay the same rows.
LEMMA RowsKept ==
  ASSUME NEW T, NEW s \in Seq(T), NEW U, NEW t \in [DOMAIN s -> U]
  PROVE  t \in Seq(U) /\ Len(t) = Len(s) /\ DOMAIN t = DOMAIN s
  <1>1. Len(s) \in Nat /\ DOMAIN s = 1 .. Len(s)
    OBVIOUS
  <1>2. t \in [1 .. Len(s) -> U]
    BY <1>1
  <1> QED
    BY <1>1, <1>2

-----------------------------------------------------------------------------
(* Columns.  A column of a table is a function of its rows. *)

\* The table has its rows.
AreRows(s, T) == IsFiniteSet(DOMAIN s) /\ \A i \in DOMAIN s : s[i] \in T

\* A sequence is a table of its entries.
LEMMA RowsOf ==
  ASSUME NEW T, NEW s \in Seq(T)
  PROVE  AreRows(s, T)
  BY RowNumbers DEF AreRows

\* The column has a number for every row there may be.
IsColumn(c, T) == c \in [T -> Int]

\* The table has one row more, or one row is changed.
RowAdded(s, t, x) ==
  x \notin DOMAIN s /\ DOMAIN t = DOMAIN s \cup {x} /\ \A i \in DOMAIN s : t[i] = s[i]

RowChanged(s, t, x) ==
  x \in DOMAIN s /\ DOMAIN t = DOMAIN s /\ \A i \in DOMAIN s \ {x} : t[i] = s[i]

\* A row that is appended.
LEMMA RowAppended ==
  ASSUME NEW T, NEW s \in Seq(T), NEW e, NEW t, t = Append(s, e)
  PROVE  RowAdded(s, t, Len(s) + 1) /\ t[Len(s) + 1] = e
  <1>1. Len(s) \in Nat /\ DOMAIN s = 1 .. Len(s) /\ Len(s) + 1 \notin DOMAIN s
    OBVIOUS
  <1>2. DOMAIN t = 1 .. Len(s) + 1 /\ t[Len(s) + 1] = e /\ \A i \in DOMAIN s : t[i] = s[i]
    BY <1>1
  <1>3. DOMAIN t = DOMAIN s \cup {Len(s) + 1}
    BY <1>1, <1>2
  <1> QED
    BY <1>1, <1>2, <1>3 DEF RowAdded

\* What the column comes to.
Column(s, c) == SumFunction([i \in DOMAIN s |-> c[s[i]]])

\* A column of a table has a total.
LEMMA ColumnType ==
  ASSUME NEW D \in {Nat, Int}, NEW T, NEW s, AreRows(s, T), NEW c \in [T -> D]
  PROVE  Column(s, c) \in D
  <1>1. PICK f : f = [i \in DOMAIN s |-> c[s[i]]]
    OBVIOUS
  <1> DEFINE K == DOMAIN s
  <1>2. IsFiniteSet(K) /\ f \in [K -> D] /\ Column(s, c) = SumFunction(f)
    BY <1>1 DEF AreRows, Column
  <1> HIDE DEF K
  <1> QED
    BY <1>2, SumType

\* What a column comes to is a number.
LEMMA ColumnSums ==
  ASSUME NEW T, NEW s, AreRows(s, T), NEW c, IsColumn(c, T)
  PROVE  Column(s, c) \in Int
  BY ColumnType DEF IsColumn

\* The total with one row more.
LEMMA ColumnMade ==
  ASSUME NEW T, NEW s, NEW t, AreRows(s, T), AreRows(t, T), NEW c, IsColumn(c, T), NEW x,
         RowAdded(s, t, x)
  PROVE  Column(t, c) = Column(s, c) + c[t[x]]
  <1> DEFINE K == DOMAIN s
  <1>1. PICK f : f = [i \in DOMAIN s |-> c[s[i]]]
    OBVIOUS
  <1>2. PICK g : g = [i \in DOMAIN t |-> c[t[i]]]
    OBVIOUS
  <1>3. /\ IsFiniteSet(K) /\ f \in [K -> Int] /\ Column(s, c) = SumFunction(f)
        /\ \A i \in K : f[i] = c[s[i]]
    BY <1>1 DEF AreRows, IsColumn, Column, RowAdded
  <1>4. /\ g \in [K \cup {x} -> Int] /\ Column(t, c) = SumFunction(g)
        /\ \A i \in K \cup {x} : g[i] = c[t[i]]
    BY <1>2 DEF AreRows, IsColumn, Column, RowAdded
  <1>5. x \notin K
    BY DEF RowAdded
  <1>6. \A i \in K : g[i] = f[i]
    BY <1>3, <1>4 DEF RowAdded
  <1> HIDE DEF K
  <1>7. SumFunction(g) = SumFunction(f) + g[x]
    BY <1>3, <1>4, <1>6, <1>5, SumMore
  <1> QED
    BY <1>3, <1>4, <1>7

\* The total when one row is changed.
LEMMA ColumnChanged ==
  ASSUME NEW T, NEW s, NEW t, AreRows(s, T), AreRows(t, T), NEW c, IsColumn(c, T), NEW x,
         RowChanged(s, t, x)
  PROVE  Column(t, c) = Column(s, c) + (c[t[x]] - c[s[x]])
  <1> DEFINE K == DOMAIN s
  <1>1. PICK f : f = [i \in DOMAIN s |-> c[s[i]]]
    OBVIOUS
  <1>2. PICK g : g = [i \in DOMAIN t |-> c[t[i]]]
    OBVIOUS
  <1>3. /\ IsFiniteSet(K) /\ f \in [K -> Int] /\ Column(s, c) = SumFunction(f)
        /\ \A i \in K : f[i] = c[s[i]]
    BY <1>1 DEF AreRows, IsColumn, Column, RowChanged
  <1>4. /\ g \in [K -> Int] /\ Column(t, c) = SumFunction(g)
        /\ \A i \in K : g[i] = c[t[i]]
    BY <1>2 DEF AreRows, IsColumn, Column, RowChanged
  <1>5. \A i \in K \ {x} : g[i] = f[i]
    BY <1>3, <1>4 DEF RowChanged
  <1>6. x \in K
    BY DEF RowChanged
  <1> HIDE DEF K
  <1>7. SumFunction(g) = SumFunction(f) + (g[x] - f[x])
    BY <1>3, <1>4, <1>5, <1>6, SumChange
  <1> QED
    BY <1>3, <1>4, <1>7, <1>6

\* The total when some rows are changed, by what each of them moves.
LEMMA ColumnMoved ==
  ASSUME NEW T, NEW s, NEW t, AreRows(s, T), AreRows(t, T), NEW c, IsColumn(c, T),
         DOMAIN t = DOMAIN s, NEW S \in SUBSET DOMAIN s, NEW moved \in [S -> Int],
         \A i \in S : c[t[i]] = c[s[i]] + moved[i],
         \A i \in DOMAIN s \ S : c[t[i]] = c[s[i]]
  PROVE  Column(t, c) = Column(s, c) + SumFunction(moved)
  <1> DEFINE K == DOMAIN s
  <1>1. PICK f : f = [i \in DOMAIN s |-> c[s[i]]]
    OBVIOUS
  <1>2. PICK g : g = [i \in DOMAIN t |-> c[t[i]]]
    OBVIOUS
  <1>3. PICK h : h = [i \in DOMAIN s |-> IF i \in S THEN moved[i] ELSE 0]
    OBVIOUS
  <1>4. /\ IsFiniteSet(K) /\ f \in [K -> Int] /\ Column(s, c) = SumFunction(f)
        /\ \A i \in K : f[i] = c[s[i]]
    BY <1>1 DEF AreRows, IsColumn, Column
  <1>5. /\ g \in [K -> Int] /\ Column(t, c) = SumFunction(g)
        /\ \A i \in K : g[i] = c[t[i]]
    BY <1>2 DEF AreRows, IsColumn, Column
  <1>6. h \in [K -> Int]
    BY <1>3
  <1>7. (\A i \in S : h[i] = moved[i]) /\ \A i \in K \ S : h[i] = 0
    BY <1>3
  <1>8. \A i \in K : g[i] = f[i] + h[i]
    BY <1>4, <1>5, <1>7
  <1>9. S \in SUBSET K
    OBVIOUS
  <1> HIDE DEF K
  <1>10. SumFunction(g) = SumFunction(f) + SumFunction(h)
    BY <1>4, <1>5, <1>6, <1>8, SumPlus
  <1>11. SumFunction(h) = SumFunction(moved)
    BY <1>4, <1>6, <1>7, <1>9, SumWithin
  <1> QED
    BY <1>4, <1>5, <1>10, <1>11

\* The total when no row changes what it adds.
LEMMA ColumnKept ==
  ASSUME NEW s, NEW t, NEW c, DOMAIN t = DOMAIN s, \A i \in DOMAIN s : c[t[i]] = c[s[i]]
  PROVE  Column(t, c) = Column(s, c)
  <1>1. [i \in DOMAIN t |-> c[t[i]]] = [i \in DOMAIN s |-> c[s[i]]]
    OBVIOUS
  <1> QED
    BY <1>1 DEF Column

\* A table without rows.
LEMMA ColumnEmpty == \A s, c : DOMAIN s = {} => Column(s, c) = 0
  <1> SUFFICES ASSUME NEW s, NEW c, DOMAIN s = {} PROVE Column(s, c) = 0
    OBVIOUS
  <1>1. DOMAIN [i \in DOMAIN s |-> c[s[i]]] = {}
    OBVIOUS
  <1> QED
    BY <1>1, SumEmpty DEF Column

-----------------------------------------------------------------------------
(* Sums within sums. *)

\* Only the terms that are not zero count.
LEMMA TermsWithin ==
  \A S, T, f, g : /\ IsFiniteSet(S) /\ T \in SUBSET S
                  /\ f \in [S -> Int] /\ g \in [T -> Int]
                  /\ \A n \in T : f[n] = g[n]
                  /\ \A n \in S \ T : f[n] = 0
                  => SumFunction(f) = SumFunction(g)
  <1> SUFFICES ASSUME NEW S, IsFiniteSet(S), NEW T \in SUBSET S,
                      NEW f \in [S -> Int], NEW g \in [T -> Int],
                      \A n \in T : f[n] = g[n], \A n \in S \ T : f[n] = 0
               PROVE  SumFunction(f) = SumFunction(g)
    OBVIOUS
  <1> QED
    BY SumWithin

\* And one more.
LEMMA TermsAndOne ==
  \A S, T, f, h, m : /\ IsFiniteSet(S) /\ T \in SUBSET S /\ m \in S \ T
                     /\ f \in [S -> Int] /\ h \in [T -> Int]
                     /\ \A n \in T : f[n] = h[n]
                     /\ \A n \in S \ T : n # m => f[n] = 0
                     => SumFunction(f) = SumFunction(h) + f[m]
  <1> SUFFICES ASSUME NEW S, IsFiniteSet(S), NEW T \in SUBSET S, NEW m \in S \ T,
                      NEW f \in [S -> Int], NEW h \in [T -> Int],
                      \A n \in T : f[n] = h[n], \A n \in S \ T : n # m => f[n] = 0
               PROVE  SumFunction(f) = SumFunction(h) + f[m]
    OBVIOUS
  <1> DEFINE U == T \cup {m}
             g == [n \in U |-> f[n]]
  <1>1. /\ U \in SUBSET S /\ g \in [U -> Int] /\ g \in [T \cup {m} -> Int] /\ g[m] = f[m]
        /\ (\A n \in U : f[n] = g[n]) /\ (\A n \in T : g[n] = h[n]) /\ (\A n \in S \ U : f[n] = 0)
    OBVIOUS
  <1>2. IsFiniteSet(T) /\ m \notin T
    BY FS_Subset
  <1> HIDE DEF U, g
  <1>3. SumFunction(f) = SumFunction(g)
    BY <1>1, SumWithin
  <1>4. SumFunction(g) = SumFunction(h) + g[m]
    <2>1. /\ IsFiniteSet(T) /\ m \notin T /\ h \in [T -> Int] /\ g \in [T \cup {m} -> Int]
          /\ \A n \in T : g[n] = h[n]
      BY <1>1, <1>2
    <2> QED
      BY <2>1, SumMore
  <1> QED
    BY <1>1, <1>3, <1>4

\* The whole is what its groups come to.
LEMMA SumGrouped ==
  ASSUME NEW D, IsFiniteSet(D), NEW S, IsFiniteSet(S), NEW kind \in [D -> S],
         NEW q \in [D -> Int], NEW g \in [S -> Int],
         \A i \in S : g[i] = SumFunction([k \in {k \in D : kind[k] = i} |-> q[k]])
  PROVE  SumFunction(q) = SumFunction(g)
  <1> DEFINE h(U) == [k \in D |-> IF kind[k] \in U THEN q[k] ELSE 0]
             M(U) == SumFunctionOnSet(g, U)
             N(U) == SumFunction(h(U))
             C == {U \in SUBSET S : M(U) # N(U)}
  <1>1. \A U : /\ h(U) \in [D -> Int]
               /\ \A k \in D : h(U)[k] = IF kind[k] \in U THEN q[k] ELSE 0
    OBVIOUS
  <1>2. SUFFICES ASSUME C # {} PROVE FALSE
    <2>1. M(S) = N(S)
      BY <1>2
    <2>2. h(S) = q
      OBVIOUS
    <2>3. SumFunction(g) = M(S)
      BY DEF SumFunction
    <2> QED
      BY <2>1, <2>2, <2>3
  <1>3. PICK t \in C : \A u \in C : ~ (u \subseteq t /\ u # t)
    <2>1. C \subseteq SUBSET S
      OBVIOUS
    <2> HIDE DEF C
    <2> QED
      BY <1>2, <2>1, LeastSet
  <1>4. IsFiniteSet(t) /\ t \in SUBSET S
    BY <1>3, FS_Subset
  <1>5. t # {}
    <2>1. M({}) = 0
      BY FS_EmptySet, OnSetFirst
    <2>2. N({}) = 0
      <3>1. h({}) \in [D -> Int] /\ \A k \in D : h({})[k] = 0
        BY <1>1
      <3> HIDE DEF h
      <3> QED
        BY <3>1, SumZero
    <2> HIDE DEF M, N
    <2> QED
      BY <1>3, <2>1, <2>2
  <1>6. PICK x \in t : TRUE
    BY <1>5
  <1> DEFINE u == t \ {x}
  <1>7. u \notin C /\ u \in SUBSET S /\ IsFiniteSet(u)
    BY <1>3, <1>4, <1>6, FS_Subset
  <1>8. M(t) = g[x] + M(u)
    <2>1. \A y \in t : g[y] \in Int
      BY <1>4
    <2> QED
      BY <1>4, <1>6, <2>1, OnSetAnyFirst
  <1>9. N(t) = N(u) + N({x})
    <2>1. \A k \in D : h(t)[k] = h(u)[k] + h({x})[k]
      BY <1>6
    <2>2. h(t) \in [D -> Int] /\ h(u) \in [D -> Int] /\ h({x}) \in [D -> Int]
      BY <1>1
    <2>3. PICK a, b, c : a = h(t) /\ b = h(u) /\ c = h({x})
      OBVIOUS
    <2>4. /\ a \in [D -> Int] /\ b \in [D -> Int] /\ c \in [D -> Int]
          /\ \A k \in D : a[k] = b[k] + c[k]
      BY <2>1, <2>2, <2>3
    <2> HIDE DEF h, C, M
    <2>5. SumFunction(a) = SumFunction(b) + SumFunction(c)
      BY <2>4, SumPlus
    <2> QED
      BY <2>3, <2>5
  <1>10. N({x}) = g[x]
    <2> DEFINE K == {k \in D : kind[k] = x}
               p == [k \in K |-> q[k]]
               e == h({x})
    <2>1. K \in SUBSET D /\ p \in [K -> Int] /\ e \in [D -> Int]
      OBVIOUS
    <2>2. (\A k \in K : e[k] = p[k]) /\ (\A k \in D \ K : e[k] = 0)
      OBVIOUS
    <2>3. g[x] = SumFunction(p)
      BY <1>4
    <2> HIDE DEF K, p, e
    <2>4. SumFunction(e) = SumFunction(p)
      BY <2>1, <2>2, TermsWithin
    <2> QED
      BY <2>3, <2>4 DEF e
  <1>11. M(u) = N(u)
    BY <1>7
  <1>12. N(t) = M(t)
    <2>1. N(u) \in Int /\ g[x] \in Int
      <3>1. h(u) \in [D -> Int]
        BY <1>1
      <3>2. g[x] \in Int
        BY <1>4
      <3> HIDE DEF h
      <3>3. SumFunction(h(u)) \in Int
        BY <3>1, SumType
      <3> QED
        BY <3>2, <3>3
    <2> HIDE DEF M, N, u
    <2> QED
      BY <1>8, <1>9, <1>10, <1>11, <2>1
  <1> QED
    BY <1>3, <1>12
=============================================================================
