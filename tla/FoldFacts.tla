------------------------------- MODULE FoldFacts -------------------------------
(***************************************************************************)
(* Facts about operators of the community modules that the models use and  *)
(* that are defined by recursion: SumFunctionOnSet, which adds up the      *)
(* values of a function over a finite set, and FlattenSeq, which joins a   *)
(* sequence of sequences.  Induction is done by hand, on the set of those  *)
(* arguments for which a fact fails: if it is not empty, then it has a     *)
(* smallest member.                                                        *)
(***************************************************************************)
EXTENDS Integers, SequencesExt, FiniteSetTheorems, TLAPS

LEMMA SmallestMember ==
    ASSUME NEW S, IsFiniteSet(S), NEW F, F \subseteq SUBSET S, F # {}
    PROVE  \E T \in F : \A U \in SUBSET T : U # T => U \notin F
  <1>1. IsWellFoundedOn(StrictSubsetOrdering(S), FiniteSubsetsOf(S))
    BY FS_StrictSubsetOrderingWellFounded
  <1>2. F \subseteq FiniteSubsetsOf(S)
    BY FS_FiniteSubsetsOfFinite
  <1>3. PICK T \in F : \A U \in F : <<U, T>> \notin StrictSubsetOrdering(S)
    BY <1>1, <1>2, WFMin
  <1>4. ASSUME NEW U \in SUBSET T, U # T, U \in F PROVE FALSE
    BY <1>3, <1>4 DEF StrictSubsetOrdering
  <1>5. QED BY <1>3, <1>4

-----------------------------------------------------------------------------
(* The function that the sum is read from.                                  *)
Chosen(T) == CHOOSE x \in T : TRUE

SumsOf(h, f, D) == h = [T \in D |-> IF T = {} THEN 0 ELSE f[Chosen(T)] + h[T \ {Chosen(T)}]]

Sums(f, S) == CHOOSE h : SumsOf(h, f, SUBSET S)

LEMMA SumIsSums ==
    ASSUME NEW f, NEW S PROVE SumFunctionOnSet(f, S) = Sums(f, S)[S]
  BY DEF SumFunctionOnSet, FoldFunctionOnSet, MapThenFoldSet, Sums, SumsOf, Chosen

LEMMA ChosenIsIn == ASSUME NEW T, T # {} PROVE Chosen(T) \in T
  BY DEF Chosen

(* There is one: it is built for the subsets of one element more at a time. *)
LEMMA SumsExist ==
    ASSUME NEW S, IsFiniteSet(S), NEW f
    PROVE  SumsOf(Sums(f, S), f, SUBSET S)
  <1> DEFINE UpTo(n) == {T \in SUBSET S : Cardinality(T) <= n}
             Missing == {n \in Nat : ~\E h : SumsOf(h, f, UpTo(n))}
  <1>0. \A T \in SUBSET S : IsFiniteSet(T) /\ Cardinality(T) \in Nat
    BY FS_Subset, FS_CardinalityType
  <1>1. SUFFICES Cardinality(S) \notin Missing
    <2>1. UpTo(Cardinality(S)) = SUBSET S
      BY FS_Subset
    <2>2. Cardinality(S) \in Nat
      BY <1>0
    <2>3. \E h : SumsOf(h, f, SUBSET S)
      BY <1>1, <2>1, <2>2
    <2>4. QED BY <2>3 DEF Sums
  <1>2. SUFFICES ASSUME Missing # {} PROVE FALSE
    OBVIOUS
  <1>3. PICK n \in Missing : \A k \in Missing : <<k, n>> \notin OpToRel(<, Nat)
    BY <1>2, WFMin, NatLessThanWellFounded
  <1>a. n \in Nat
    BY <1>3, Zenon
  <1>4. CASE n = 0
    <2>1. UpTo(0) = {{}}
      BY <1>0, FS_EmptySet
    <2>2. SumsOf([T \in {{}} |-> 0], f, {{}})
      BY DEF SumsOf
    <2>3. QED BY <1>4, <2>1, <2>2
  <1>5. CASE n # 0
    <2>1. n - 1 \in Nat /\ n - 1 \notin Missing
      <3>1. n \in Nat /\ n - 1 \in Nat /\ n - 1 < n
        BY <1>a, <1>5
      <3>2. <<n - 1, n>> \in OpToRel(<, Nat)
        BY <3>1 DEF OpToRel
      <3> HIDE DEF Missing
      <3>3. QED BY <1>3, <3>1, <3>2
    <2>2. PICK h : SumsOf(h, f, UpTo(n - 1))
      BY <2>1
    <2> DEFINE Value(T) == IF T = {} THEN 0 ELSE f[Chosen(T)] + h[T \ {Chosen(T)}]
               g == [T \in UpTo(n) |-> Value(T)]
    <2>3. ASSUME NEW T \in UpTo(n), T # {} PROVE T \ {Chosen(T)} \in UpTo(n - 1)
      BY <1>0, <2>3, ChosenIsIn, FS_RemoveElement
    <2>4. ASSUME NEW T \in UpTo(n - 1) PROVE g[T] = h[T]
      <3>1. T \in UpTo(n)
        BY <1>0, <1>a, <2>1
      <3>2. g[T] = Value(T)
        BY <3>1
      <3>3. h[T] = Value(T)
        <4> HIDE DEF UpTo
        <4>1. QED BY <2>2, <2>4 DEF SumsOf
      <3>4. QED BY <3>2, <3>3
    <2>5. SumsOf(g, f, UpTo(n))
      BY <2>3, <2>4 DEF SumsOf
    <2>6. QED BY <2>5
  <1>6. QED BY <1>4, <1>5

LEMMA SumsStep ==
    ASSUME NEW S, IsFiniteSet(S), NEW f, NEW T \in SUBSET S
    PROVE  /\ T = {} => Sums(f, S)[T] = 0
           /\ T # {} => Sums(f, S)[T] = f[Chosen(T)] + Sums(f, S)[T \ {Chosen(T)}]
  <1> DEFINE h == Sums(f, S)
  <1>1. SumsOf(h, f, SUBSET S)
    BY SumsExist
  <1> HIDE DEF h
  <1>2. h[T] = IF T = {} THEN 0 ELSE f[Chosen(T)] + h[T \ {Chosen(T)}]
    BY <1>1 DEF SumsOf
  <1>3. QED BY <1>2 DEF h

(* The sum over a set does not depend on what it is a subset of. *)
LEMMA SumsOfSubset ==
    ASSUME NEW S, IsFiniteSet(S), NEW f, NEW T \in SUBSET S
    PROVE  Sums(f, S)[T] = Sums(f, T)[T]
  <1> DEFINE Differs == {U \in SUBSET T : Sums(f, S)[U] # Sums(f, T)[U]}
  <1>1. IsFiniteSet(T)
    BY FS_Subset
  <1>2. SUFFICES ASSUME Differs # {} PROVE FALSE
    OBVIOUS
  <1>3. PICK U \in Differs : \A V \in SUBSET U : V # U => V \notin Differs
    <2>1. Differs \subseteq SUBSET T
      OBVIOUS
    <2> HIDE DEF Differs
    <2>2. QED BY <1>1, <1>2, <2>1, SmallestMember
  <1>4. CASE U = {}
    BY <1>1, <1>4, SumsStep
  <1>5. CASE U # {}
    <2>1. U \ {Chosen(U)} \in SUBSET U /\ U \ {Chosen(U)} # U
      BY <1>5, ChosenIsIn
    <2>2. Sums(f, S)[U \ {Chosen(U)}] = Sums(f, T)[U \ {Chosen(U)}]
      BY <1>3, <2>1
    <2>3. U \in SUBSET S /\ U \in SUBSET T
      BY <1>3
    <2>4. Sums(f, S)[U] = f[Chosen(U)] + Sums(f, S)[U \ {Chosen(U)}]
      BY <1>5, <2>3, SumsStep
    <2>5. Sums(f, T)[U] = f[Chosen(U)] + Sums(f, T)[U \ {Chosen(U)}]
      BY <1>1, <1>5, <2>3, SumsStep
    <2>6. QED BY <1>3, <2>2, <2>4, <2>5
  <1>6. QED BY <1>4, <1>5

-----------------------------------------------------------------------------
LEMMA SumOfEmpty ==
    ASSUME NEW f PROVE SumFunctionOnSet(f, {}) = 0
  BY SumIsSums, SumsStep, FS_EmptySet

LEMMA SumOfFirst ==
    ASSUME NEW S, IsFiniteSet(S), NEW f, S # {}
    PROVE  SumFunctionOnSet(f, S) = f[Chosen(S)] + SumFunctionOnSet(f, S \ {Chosen(S)})
  <1> DEFINE T == S \ {Chosen(S)}
  <1>1. Sums(f, S)[S] = f[Chosen(S)] + Sums(f, S)[T]
    BY SumsStep
  <1>2. T \in SUBSET S
    OBVIOUS
  <1>3. Sums(f, S)[T] = Sums(f, T)[T]
    BY <1>2, SumsOfSubset
  <1>4. QED BY <1>1, <1>3, SumIsSums

LEMMA SumIsInt ==
    ASSUME NEW S, IsFiniteSet(S), NEW f, \A x \in S : f[x] \in Int
    PROVE  SumFunctionOnSet(f, S) \in Int
  <1> DEFINE Bad == {T \in SUBSET S : SumFunctionOnSet(f, T) \notin Int}
  <1>1. SUFFICES ASSUME Bad # {} PROVE FALSE
    OBVIOUS
  <1>2. PICK T \in Bad : \A U \in SUBSET T : U # T => U \notin Bad
    <2>1. Bad \subseteq SUBSET S
      OBVIOUS
    <2> HIDE DEF Bad
    <2>2. QED BY <1>1, <2>1, SmallestMember
  <1>3. T # {}
    <2>1. SumFunctionOnSet(f, T) # 0
      BY <1>2
    <2>2. QED BY <2>1, SumOfEmpty
  <1>4. Chosen(T) \in T /\ T \ {Chosen(T)} \in SUBSET T /\ IsFiniteSet(T)
    BY <1>3, ChosenIsIn, FS_Subset
  <1>5. SumFunctionOnSet(f, T \ {Chosen(T)}) \in Int
    BY <1>2, <1>4
  <1>6. SumFunctionOnSet(f, T) = f[Chosen(T)] + SumFunctionOnSet(f, T \ {Chosen(T)})
    BY <1>3, <1>4, SumOfFirst
  <1>7. f[Chosen(T)] \in Int
    BY <1>2, <1>4
  <1>8. SumFunctionOnSet(f, T) \in Int
    BY <1>5, <1>6, <1>7
  <1>9. QED BY <1>2, <1>8

LEMMA SumIsNat ==
    ASSUME NEW S, IsFiniteSet(S), NEW f, \A x \in S : f[x] \in Nat
    PROVE  SumFunctionOnSet(f, S) \in Nat
  <1> DEFINE Bad == {T \in SUBSET S : SumFunctionOnSet(f, T) \notin Nat}
  <1>1. SUFFICES ASSUME Bad # {} PROVE FALSE
    OBVIOUS
  <1>2. PICK T \in Bad : \A U \in SUBSET T : U # T => U \notin Bad
    <2>1. Bad \subseteq SUBSET S
      OBVIOUS
    <2> HIDE DEF Bad
    <2>2. QED BY <1>1, <2>1, SmallestMember
  <1>3. T # {}
    <2>1. SumFunctionOnSet(f, T) # 0
      BY <1>2
    <2>2. QED BY <2>1, SumOfEmpty
  <1>4. Chosen(T) \in T /\ T \ {Chosen(T)} \in SUBSET T /\ IsFiniteSet(T)
    BY <1>3, ChosenIsIn, FS_Subset
  <1>5. SumFunctionOnSet(f, T \ {Chosen(T)}) \in Nat
    BY <1>2, <1>4
  <1>6. SumFunctionOnSet(f, T) = f[Chosen(T)] + SumFunctionOnSet(f, T \ {Chosen(T)})
    BY <1>3, <1>4, SumOfFirst
  <1>7. f[Chosen(T)] \in Nat
    BY <1>2, <1>4
  <1>8. SumFunctionOnSet(f, T) \in Nat
    BY <1>5, <1>6, <1>7
  <1>9. QED BY <1>2, <1>8

(* Any element may be added last. *)
LEMMA SumOfOne ==
    ASSUME NEW S, IsFiniteSet(S), NEW f, \A x \in S : f[x] \in Int, NEW y \in S
    PROVE  SumFunctionOnSet(f, S) = f[y] + SumFunctionOnSet(f, S \ {y})
  <1> DEFINE Sum(T) == SumFunctionOnSet(f, T)
             Bad == {T \in SUBSET S : \E z \in T : Sum(T) # f[z] + Sum(T \ {z})}
  <1>1. SUFFICES ASSUME Bad # {} PROVE FALSE
    OBVIOUS
  <1>2. PICK T \in Bad : \A U \in SUBSET T : U # T => U \notin Bad
    <2>1. Bad \subseteq SUBSET S
      OBVIOUS
    <2> HIDE DEF Bad
    <2>2. QED BY <1>1, <2>1, SmallestMember
  <1>3. PICK z \in T : Sum(T) # f[z] + Sum(T \ {z})
    BY <1>2
  <1> DEFINE x == Chosen(T)
  <1>4. x \in T /\ IsFiniteSet(T)
    BY <1>2, <1>3, ChosenIsIn, FS_Subset
  <1>5. Sum(T) = f[x] + Sum(T \ {x}) /\ x # z
    BY <1>3, <1>4, SumOfFirst
  <1>6. Sum(T \ {x}) = f[z] + Sum((T \ {x}) \ {z})
    BY <1>2, <1>3, <1>4, <1>5
  <1>7. Sum(T \ {z}) = f[x] + Sum((T \ {z}) \ {x})
    BY <1>2, <1>3, <1>4, <1>5
  <1>8. (T \ {x}) \ {z} = (T \ {z}) \ {x}
    OBVIOUS
  <1>9. f[x] \in Int /\ f[z] \in Int /\ Sum((T \ {x}) \ {z}) \in Int
    BY <1>2, <1>3, <1>4, SumIsInt, FS_Subset
  <1> DEFINE rest == Sum((T \ {x}) \ {z})
  <1>10. /\ Sum(T) = f[x] + (f[z] + rest)
         /\ Sum(T \ {z}) = f[x] + rest
    BY <1>5, <1>6, <1>7, <1>8
  <1> HIDE DEF Sum, x, rest
  <1>11. f[x] + (f[z] + rest) = f[z] + (f[x] + rest)
    BY <1>9 DEF rest
  <1>12. QED BY <1>3, <1>10, <1>11

(* A sum over some things, each counted for a place of its own with no more *)
(* than is there, is no more than the sum over all the places.              *)
LEMMA SumIsWithin ==
    ASSUME NEW S, IsFiniteSet(S), NEW f, \A x \in S : f[x] \in Int,
           NEW P, IsFiniteSet(P), NEW g, \A p \in P : g[p] \in Nat,
           NEW place \in [S -> P],
           \A x, y \in S : place[x] = place[y] => x = y,
           \A x \in S : f[x] <= g[place[x]]
    PROVE  SumFunctionOnSet(f, S) <= SumFunctionOnSet(g, P)
  <1> DEFINE Inside(T, Q) == \A x \in T : place[x] \in Q
             Bad == {T \in SUBSET S : \E Q \in SUBSET P :
                        Inside(T, Q) /\ ~(SumFunctionOnSet(f, T) <= SumFunctionOnSet(g, Q))}
  <1>1. SUFFICES ASSUME Bad # {} PROVE FALSE
    <2>1. Inside(S, P)
      OBVIOUS
    <2>2. QED BY <1>1, <2>1
  <1>2. PICK T \in Bad : \A U \in SUBSET T : U # T => U \notin Bad
    <2>1. Bad \subseteq SUBSET S
      OBVIOUS
    <2> HIDE DEF Bad
    <2>2. QED BY <1>1, <2>1, SmallestMember
  <1>3. PICK Q \in SUBSET P :
            Inside(T, Q) /\ ~(SumFunctionOnSet(f, T) <= SumFunctionOnSet(g, Q))
    BY <1>2
  <1>4. IsFiniteSet(T) /\ IsFiniteSet(Q) /\ SumFunctionOnSet(g, Q) \in Nat
    BY FS_Subset, SumIsNat
  <1>5. T # {}
    BY <1>3, <1>4, SumOfEmpty
  <1> DEFINE x == Chosen(T)
             p == place[x]
  <1>6. x \in T /\ x \in S /\ p \in Q /\ p \in P
    BY <1>3, <1>5, ChosenIsIn
  <1>7. Inside(T \ {x}, Q \ {p})
    BY <1>3, <1>6
  <1>8. SumFunctionOnSet(f, T \ {x}) <= SumFunctionOnSet(g, Q \ {p})
    BY <1>2, <1>6, <1>7
  <1>9. /\ SumFunctionOnSet(f, T) = f[x] + SumFunctionOnSet(f, T \ {x})
        /\ SumFunctionOnSet(g, Q) = g[p] + SumFunctionOnSet(g, Q \ {p})
    BY <1>4, <1>5, <1>6, SumOfFirst, SumOfOne
  <1>10. /\ f[x] \in Int /\ g[p] \in Nat /\ f[x] <= g[p]
         /\ SumFunctionOnSet(f, T \ {x}) \in Int
         /\ SumFunctionOnSet(g, Q \ {p}) \in Int
    <2>1. /\ T \ {x} \in SUBSET S /\ IsFiniteSet(T \ {x})
          /\ Q \ {p} \in SUBSET P /\ IsFiniteSet(Q \ {p})
      BY FS_Subset
    <2>2. SumFunctionOnSet(f, T \ {x}) \in Int
      BY <2>1, SumIsInt
    <2>3. SumFunctionOnSet(g, Q \ {p}) \in Int
      BY <2>1, SumIsNat
    <2>4. QED BY <1>6, <2>2, <2>3
  <1> HIDE DEF x, p
  <1>11. QED BY <1>3, <1>8, <1>9, <1>10
-----------------------------------------------------------------------------
(* Sequences without repetitions, joined.                                   *)
Distinct(s) == \A i, j \in DOMAIN s : s[i] = s[j] => i = j

LEMMA ConcatDistinct ==
    ASSUME NEW S, NEW s \in Seq(S), NEW t \in Seq(S), Distinct(s), Distinct(t),
           ToSet(s) \cap ToSet(t) = {}
    PROVE  /\ s \o t \in Seq(S)
           /\ Distinct(s \o t)
           /\ ToSet(s \o t) = ToSet(s) \cup ToSet(t)
  <1>1. /\ s \o t \in Seq(S)
        /\ DOMAIN (s \o t) = 1 .. Len(s) + Len(t)
        /\ \A i \in 1 .. Len(s) : (s \o t)[i] = s[i]
        /\ \A i \in Len(s) + 1 .. Len(s) + Len(t) : (s \o t)[i] = t[i - Len(s)]
        /\ DOMAIN s = 1 .. Len(s) /\ DOMAIN t = 1 .. Len(t)
        /\ Len(s) \in Nat /\ Len(t) \in Nat
    OBVIOUS
  <1> DEFINE u == s \o t
  <1> HIDE DEF u
  <1>2. \A i \in DOMAIN u : \/ i \in DOMAIN s /\ u[i] = s[i] /\ u[i] \in ToSet(s)
                            \/ i - Len(s) \in DOMAIN t /\ u[i] = t[i - Len(s)]
                               /\ u[i] \in ToSet(t)
    BY <1>1 DEF u, ToSet
  <1>3. Distinct(u)
    BY <1>1, <1>2 DEF Distinct, u
  <1>4. ToSet(u) \subseteq ToSet(s) \cup ToSet(t)
    BY <1>2 DEF ToSet
  <1>5. ASSUME NEW x \in ToSet(s) PROVE x \in ToSet(u)
    BY <1>1 DEF ToSet, u
  <1>6. ASSUME NEW x \in ToSet(t) PROVE x \in ToSet(u)
    <2>1. PICK i \in 1 .. Len(t) : x = t[i]
      BY <1>1 DEF ToSet
    <2>2. i + Len(s) \in DOMAIN u /\ u[i + Len(s)] = x
      BY <1>1, <2>1 DEF u
    <2>3. QED BY <2>2 DEF ToSet
  <1>7. QED BY <1>1, <1>3, <1>4, <1>5, <1>6 DEF u

JoinsOf(h, ss, n) == h = [i \in 1 .. n |-> IF i = 1 THEN ss[i] ELSE h[i - 1] \o ss[i]]

Joins(ss) == CHOOSE h : JoinsOf(h, ss, Len(ss))

LEMMA FlattenIsJoins ==
    ASSUME NEW ss, Len(ss) # 0 PROVE FlattenSeq(ss) = Joins(ss)[Len(ss)]
  BY DEF FlattenSeq, Joins, JoinsOf

LEMMA SmallestNumber ==
    ASSUME NEW F, F \subseteq Nat, F # {}
    PROVE  \E n \in F : n # 0 => n - 1 \in Nat /\ n - 1 \notin F
  <1>1. PICK n \in F : \A k \in F : <<k, n>> \notin OpToRel(<, Nat)
    BY WFMin, NatLessThanWellFounded
  <1>2. ASSUME n # 0 PROVE n - 1 \in Nat /\ <<n - 1, n>> \in OpToRel(<, Nat)
    BY <1>2 DEF OpToRel
  <1>3. QED BY <1>1, <1>2

LEMMA JoinsExist ==
    ASSUME NEW ss, NEW n \in Nat PROVE \E h : JoinsOf(h, ss, n)
  <1> DEFINE Missing == {k \in Nat : ~\E h : JoinsOf(h, ss, k)}
  <1>1. SUFFICES ASSUME Missing # {} PROVE FALSE
    OBVIOUS
  <1>2. PICK k \in Missing : k # 0 => k - 1 \in Nat /\ k - 1 \notin Missing
    <2>1. Missing \subseteq Nat
      OBVIOUS
    <2> HIDE DEF Missing
    <2>2. QED BY <1>1, <2>1, SmallestNumber
  <1>3. k \in Nat
    BY <1>2, Zenon
  <1>4. CASE k = 0
    <2>1. JoinsOf([i \in {} |-> 0], ss, 0)
      BY DEF JoinsOf
    <2>2. QED BY <1>2, <1>4, <2>1
  <1>5. CASE k # 0
    <2>1. PICK h : JoinsOf(h, ss, k - 1)
      BY <1>2, <1>5
    <2> DEFINE g == [i \in 1 .. k |-> IF i = 1 THEN ss[i] ELSE h[i - 1] \o ss[i]]
    <2>2. ASSUME NEW i \in 1 .. k, i # 1 PROVE g[i - 1] = h[i - 1]
      <3>1. i - 1 \in 1 .. k - 1 /\ i - 1 \in 1 .. k
        BY <1>3, <2>2
      <3>2. h[i - 1] = IF i - 1 = 1 THEN ss[i - 1] ELSE h[i - 1 - 1] \o ss[i - 1]
        BY <2>1, <3>1 DEF JoinsOf
      <3>3. QED BY <3>1, <3>2
    <2>3. JoinsOf(g, ss, k)
      BY <2>2 DEF JoinsOf
    <2>4. QED BY <1>2, <2>3
  <1>6. QED BY <1>4, <1>5

LEMMA FlattenDistinct ==
    ASSUME NEW S, NEW n \in Nat, NEW ss \in [1 .. n -> Seq(S)],
           \A k \in 1 .. n : Distinct(ss[k]),
           \A k, l \in 1 .. n : k # l => ToSet(ss[k]) \cap ToSet(ss[l]) = {}
    PROVE  /\ FlattenSeq(ss) \in Seq(S)
           /\ Distinct(FlattenSeq(ss))
           /\ ToSet(FlattenSeq(ss)) = UNION {ToSet(ss[k]) : k \in 1 .. n}
  <1>1. Len(ss) = n /\ DOMAIN ss = 1 .. n
    OBVIOUS
  <1>2. CASE n = 0
    <2>1. ss = <<>> /\ FlattenSeq(ss) = ss
      BY <1>1, <1>2 DEF FlattenSeq
    <2>2. ss \in Seq(S) /\ Distinct(ss) /\ ToSet(ss) = {}
      BY <2>1 DEF Distinct, ToSet
    <2>3. UNION {ToSet(ss[k]) : k \in 1 .. n} = {}
      BY <1>2
    <2>4. QED BY <2>1, <2>2, <2>3
  <1>3. CASE n # 0
    <2> DEFINE h == Joins(ss)
               Up(k) == UNION {ToSet(ss[l]) : l \in 1 .. k}
               Good(k) == h[k] \in Seq(S) /\ Distinct(h[k]) /\ ToSet(h[k]) = Up(k)
               Bad == {k \in Nat : k \in 1 .. n /\ ~Good(k)}
    <2>1. JoinsOf(h, ss, n)
      BY <1>1, JoinsExist DEF Joins
    <2> HIDE DEF h
    <2>2. \A k \in 1 .. n : h[k] = IF k = 1 THEN ss[k] ELSE h[k - 1] \o ss[k]
      BY <2>1 DEF JoinsOf
    <2>3. ASSUME Bad # {} PROVE FALSE
      <3>1. PICK k \in Bad : k # 0 => k - 1 \in Nat /\ k - 1 \notin Bad
        <4>1. Bad \subseteq Nat
          OBVIOUS
        <4> HIDE DEF Bad
        <4>2. QED BY <2>3, <4>1, SmallestNumber
      <3>2. k \in 1 .. n /\ ~Good(k)
        BY <3>1
      <3>3. CASE k = 1
        <4>1. h[k] = ss[k] /\ Up(k) = ToSet(ss[k])
          BY <2>2, <3>2, <3>3
        <4>2. QED BY <3>2, <4>1
      <3>4. CASE k # 1
        <4>1. k - 1 \in 1 .. n /\ h[k] = h[k - 1] \o ss[k]
          <5>1. k \in 1 .. n
            BY <3>2
          <5>2. k - 1 \in 1 .. n
            BY <3>4, <5>1
          <5>3. QED BY <2>2, <3>4, <5>1, <5>2
        <4>2. Good(k - 1)
          BY <3>1, <3>2, <3>4, <4>1
        <4>3. Up(k) = Up(k - 1) \cup ToSet(ss[k])
          <5>1. 1 .. k = (1 .. k - 1) \cup {k}
            BY <3>2
          <5>2. QED BY <5>1
        <4>4. ToSet(h[k - 1]) \cap ToSet(ss[k]) = {}
          BY <3>2, <4>2
        <4>5. ss[k] \in Seq(S) /\ Distinct(ss[k])
          BY <3>2
        <4> HIDE DEF Up
        <4>6. QED BY <3>2, <4>1, <4>2, <4>3, <4>4, <4>5, ConcatDistinct
      <3>5. QED BY <3>3, <3>4
    <2>4. Good(n)
      <3>1. n \notin Bad
        <4> HIDE DEF Bad
        <4>1. QED BY <2>3
      <3>2. n \in 1 .. n
        BY <1>3
      <3> HIDE DEF Good
      <3>3. QED BY <3>1, <3>2
    <2>5. FlattenSeq(ss) = h[n]
      BY <1>1, <1>3, FlattenIsJoins DEF h
    <2>6. QED BY <2>4, <2>5
  <1>4. QED BY <1>2, <1>3

LEMMA TailOfDistinct ==
    ASSUME NEW S, NEW s \in Seq(S), s # <<>>, Distinct(s)
    PROVE  /\ Head(s) \in S /\ Tail(s) \in Seq(S)
           /\ Distinct(Tail(s))
           /\ Head(s) \in ToSet(s)
           /\ ToSet(Tail(s)) = ToSet(s) \ {Head(s)}
  <1>1. /\ Len(s) \in Nat \ {0} /\ DOMAIN s = 1 .. Len(s)
        /\ Head(s) = s[1] /\ 1 \in DOMAIN s /\ Head(s) \in S
        /\ Tail(s) \in Seq(S) /\ DOMAIN Tail(s) = 1 .. Len(s) - 1
        /\ \A i \in 1 .. Len(s) - 1 : Tail(s)[i] = s[i + 1]
    OBVIOUS
  <1> DEFINE u == Tail(s)
  <1> HIDE DEF u
  <1>2. Distinct(u)
    BY <1>1 DEF Distinct, u
  <1>3. ASSUME NEW x \in ToSet(u) PROVE x \in ToSet(s) /\ x # s[1]
    BY <1>1, <1>3 DEF ToSet, Distinct, u
  <1>4. ASSUME NEW x \in ToSet(s), x # s[1] PROVE x \in ToSet(u)
    <2>1. PICK i \in 1 .. Len(s) : x = s[i]
      BY <1>1 DEF ToSet
    <2>2. i - 1 \in DOMAIN u /\ u[i - 1] = x
      BY <1>1, <1>4, <2>1 DEF u
    <2>3. QED BY <2>2 DEF ToSet
  <1>5. QED BY <1>1, <1>2, <1>3, <1>4 DEF u, ToSet

(* The smallest of some positions.                                          *)
LEMMA MinIsIn ==
    ASSUME NEW F, F \subseteq Nat, F # {} PROVE Min(F) \in F
  <1>1. PICK n \in F : \A k \in F : <<k, n>> \notin OpToRel(<, Nat)
    BY WFMin, NatLessThanWellFounded
  <1>2. ASSUME NEW k \in F, k < n PROVE FALSE
    <2>1. <<k, n>> \in OpToRel(<, Nat)
      BY <1>2 DEF OpToRel
    <2>2. QED BY <1>1, <2>1
  <1>3. n \in F /\ \A k \in F : n <= k
    BY <1>2
  <1>4. QED BY <1>3 DEF Min

LEMMA MaxIsIn ==
    ASSUME NEW F, F \subseteq Nat, F # {}, NEW b \in Nat, \A x \in F : x <= b
    PROVE  Max(F) \in F /\ \A x \in F : x <= Max(F)
  <1> DEFINE G == {n \in Nat : \A x \in F : x <= n}
  <1>1. PICK n \in G : n # 0 => n - 1 \in Nat /\ n - 1 \notin G
    <2>1. G \subseteq Nat /\ G # {}
      OBVIOUS
    <2> HIDE DEF G
    <2>2. QED BY <2>1, SmallestNumber
  <1>2. n \in F
    <2>1. CASE n = 0
      <3>1. PICK x \in F : TRUE
        OBVIOUS
      <3>2. x \in Nat /\ x <= 0
        BY <1>1, <2>1
      <3>3. QED BY <2>1, <3>2
    <2>2. CASE n # 0
      <3>1. PICK x \in F : ~(x <= n - 1)
        BY <1>1, <2>2
      <3>2. x \in Nat /\ x <= n /\ n \in Nat
        BY <1>1
      <3>3. x = n
        BY <3>1, <3>2
      <3>4. QED BY <3>3
    <2>3. QED BY <2>1, <2>2
  <1>3. n \in F /\ \A x \in F : n >= x
    BY <1>1, <1>2
  <1>4. QED BY <1>3 DEF Max
=============================================================================
