---------------------------- MODULE DataTheorems ----------------------------
(***************************************************************************)
(* What the community operators the models use compute, for all data: the  *)
(* least element of a set of numbers, and sums over finite sets.  Induction *)
(* is taken in the form "a set of numbers that has 0 and with each number  *)
(* the next one has all of them", which the provers can instantiate.       *)
(***************************************************************************)
EXTENDS Naturals, Sequences, Functions, FiniteSetsExt, FiniteSetTheorems, WellFoundedInduction, TLAPS

\* The relation the library's lemmas are about.
LEMMA LessThan == OpToRel(<, Nat) = {ss \in Nat \X Nat : ss[1] < ss[2]}
BY Zenon DEF OpToRel

\* Min is the least element.
LEMMA MinOfNats ==
    ASSUME NEW S \in SUBSET Nat, S # {}
    PROVE  /\ Min(S) \in S
           /\ \A y \in S : Min(S) <= y
<1>1. PICK x \in S : \A y \in S : ~(<<y, x>> \in OpToRel(<, Nat))
  BY NatLessThanWellFounded, WFMin
<1>2. \A y \in S : ~(<<y, x>> \in {ss \in Nat \X Nat : ss[1] < ss[2]})
  BY <1>1, LessThan, Zenon
<1>3. ASSUME NEW y \in S PROVE x <= y
  <2>1. <<y, x>> \in Nat \X Nat
    OBVIOUS
  <2>2. ~(<<y, x>>[1] < <<y, x>>[2])
    BY <1>2, <2>1, Zenon
  <2> QED BY <2>2
<1> QED BY <1>3 DEF Min

\* The least element is the one at or below all others.
LEMMA MinIs ==
    ASSUME NEW S \in SUBSET Nat, NEW m \in S, \A y \in S : m <= y
    PROVE  Min(S) = m
<1>1. Min(S) \in S /\ \A y \in S : Min(S) <= y
  BY MinOfNats
<1>2. Min(S) <= m /\ m <= Min(S)
  BY <1>1
<1>3. Min(S) \in Nat /\ m \in Nat
  BY <1>1
<1> HIDE DEF Min
<1> QED BY <1>2, <1>3

\* Max is the greatest element, of a set with a bound.
LEMMA MaxOfNats ==
    ASSUME NEW S \in SUBSET Nat, S # {}, NEW b \in Nat, \A y \in S : y <= b
    PROVE  /\ Max(S) \in S
           /\ \A y \in S : y <= Max(S)
<1> DEFINE U == {m \in Nat : \A y \in S : y <= m}
           m == Min(U)
<1>1. m \in U /\ \A y \in U : m <= y
  BY MinOfNats
<1> HIDE DEF m
<1>2. m \in S
  <2> SUFFICES ASSUME m \notin S PROVE FALSE
    OBVIOUS
  <2>1. m \in Nat /\ \A y \in S : y < m
    BY <1>1
  <2>2. PICK x \in S : x < m
    BY <2>1
  <2>3. m - 1 \in Nat /\ \A y \in S : y <= m - 1
    BY <2>1, <2>2
  <2>4. m - 1 \in U
    BY <2>3
  <2> QED BY <1>1, <2>1, <2>4
<1>3. \E x \in S : \A y \in S : y <= x
  BY <1>1, <1>2
<1>4. Max(S) = CHOOSE x \in S : \A y \in S : x >= y
  BY Zenon DEF Max
<1>5. \E x \in S : \A y \in S : x >= y
  BY <1>3
<1>6. Max(S) \in S /\ \A y \in S : Max(S) >= y
  BY <1>4, <1>5, Zenon
<1> QED BY <1>6

LEMMA MaxIs ==
    ASSUME NEW S \in SUBSET Nat, NEW m \in S, \A y \in S : y <= m
    PROVE  Max(S) = m
<1>1. Max(S) \in S /\ \A y \in S : y <= Max(S)
  BY MaxOfNats
<1>2. Max(S) <= m /\ m <= Max(S)
  BY <1>1
<1>3. Max(S) \in Nat /\ m \in Nat
  BY <1>1
<1> HIDE DEF Max
<1> QED BY <1>2, <1>3

\* Induction over the natural numbers.
LEMMA SetInduction ==
    ASSUME NEW S \in SUBSET Nat, 0 \in S, \A n \in S : n + 1 \in S
    PROVE  S = Nat
<1> SUFFICES ASSUME Nat \ S # {} PROVE FALSE
  OBVIOUS
<1> DEFINE m == Min(Nat \ S)
<1>1. m \in Nat \ S /\ \A y \in Nat \ S : m <= y
  BY MinOfNats
<1> HIDE DEF m
<1>2. m - 1 \in Nat /\ m - 1 \notin Nat \ S
  BY <1>1
<1>3. (m - 1) + 1 \in S
  BY <1>2
<1> QED BY <1>1, <1>3

-----------------------------------------------------------------------------
(* Sums: the recursive function behind SumFunctionOnSet exists and is unique *)

Pick(s) == CHOOSE x \in s : TRUE

\* g adds up f over the members of D, a set of sets.
Adds(f, D, g) ==
    g = [s \in D |-> IF s = {} THEN 0 ELSE f[Pick(s)] + g[s \ {Pick(s)}]]

\* A set that is not empty has the member picked.
LEMMA PickMember == ASSUME NEW s, s # {} PROVE Pick(s) \in s
BY DEF Pick

\* The sum is the value at S of some function that adds up f.
LEMMA SumDef ==
    ASSUME NEW f, NEW S
    PROVE  SumFunctionOnSet(f, S) = (CHOOSE g : Adds(f, SUBSET S, g))[S]
BY DEF SumFunctionOnSet, FoldFunctionOnSet, MapThenFoldSet, Pick, Adds

Small(S, n) == {s \in SUBSET S : Cardinality(s) <= n}

\* Every member leaves a set that is smaller by one.
LEMMA SmallerSet ==
    ASSUME NEW s, IsFiniteSet(s), NEW m \in Nat, Cardinality(s) = m + 1
    PROVE  /\ s # {} /\ Pick(s) \in s
           /\ \A x \in s : IsFiniteSet(s \ {x}) /\ Cardinality(s \ {x}) = m
<1>1. s # {}
  BY FS_EmptySet
<1>2. \A x \in s : IsFiniteSet(s \ {x}) /\ Cardinality(s \ {x}) = Cardinality(s) - 1
  BY FS_RemoveElement
<1> QED BY <1>1, <1>2, PickMember

\* Such a function exists on the sets of at most n members.
LEMMA AddsToSmall ==
    ASSUME NEW f, NEW S, IsFiniteSet(S), NEW n \in Nat
    PROVE  \E g : Adds(f, Small(S, n), g)
<1> DEFINE Good == {m \in Nat : \E g : Adds(f, Small(S, m), g)}
<1>1. 0 \in Good
  <2> DEFINE g == [s \in Small(S, 0) |-> 0]
  <2>1. \A s \in Small(S, 0) : s = {}
    <3> TAKE s \in Small(S, 0)
    <3>1. IsFiniteSet(s) /\ Cardinality(s) <= 0
      BY FS_Subset DEF Small
    <3> QED BY <3>1, FS_EmptySet, FS_CardinalityType
  <2>2. Adds(f, Small(S, 0), g)
    BY <2>1 DEF Adds
  <2> QED BY <2>2
<1>2. ASSUME NEW m \in Good PROVE m + 1 \in Good
  <2> PICK g : Adds(f, Small(S, m), g)
    OBVIOUS
  <2> DEFINE Next(h, s) == IF s = {} THEN 0 ELSE f[Pick(s)] + h[s \ {Pick(s)}]
             D == Small(S, m + 1)
             h == [s \in D |-> Next(g, s)]
  <2>1. ASSUME NEW s \in D, s # {} PROVE s \ {Pick(s)} \in Small(S, m) /\ s \ {Pick(s)} \in D
    <3>1. IsFiniteSet(s) /\ Cardinality(s) <= m + 1
      BY FS_Subset DEF Small
    <3>2. Cardinality(s \ {Pick(s)}) = Cardinality(s) - 1 /\ Cardinality(s) \in Nat
      BY <2>1, <3>1, PickMember, FS_RemoveElement, FS_CardinalityType
    <3> QED BY <3>1, <3>2 DEF Small
  <2>2. ASSUME NEW s \in Small(S, m), s \in D PROVE h[s] = g[s]
    BY <2>2 DEF Adds
  <2>3. \A s \in D : Next(g, s) = Next(h, s)
    BY <2>1, <2>2
  <2>4. h = [s \in D |-> Next(h, s)]
    BY <2>3
  <2> HIDE DEF h
  <2>5. Adds(f, D, h)
    BY <2>4 DEF Adds
  <2> QED BY <2>5
<1> HIDE DEF Good
<1>3. Good = Nat
  BY <1>1, <1>2, SetInduction DEF Good
<1> QED BY <1>3 DEF Good

Agree(g, h, D) == \A s \in D : g[s] = h[s]

\* Any two such functions agree where both are defined.
LEMMA AddsUnique ==
    ASSUME NEW f, NEW S, NEW T \in SUBSET S, IsFiniteSet(S),
           NEW g, Adds(f, SUBSET S, g), NEW h, Adds(f, SUBSET T, h)
    PROVE  Agree(g, h, SUBSET T)
<1> DEFINE Good == {m \in Nat : \A s \in SUBSET T : Cardinality(s) = m => g[s] = h[s]}
<1>0. \A s \in SUBSET T : IsFiniteSet(s) /\ s \in SUBSET S
  BY FS_Subset
<1>1. 0 \in Good
  BY <1>0, FS_EmptySet DEF Adds
<1>2. ASSUME NEW m \in Good PROVE m + 1 \in Good
  <2> SUFFICES ASSUME NEW s \in SUBSET T, Cardinality(s) = m + 1 PROVE g[s] = h[s]
    OBVIOUS
  <2>0. m \in Nat /\ IsFiniteSet(s) /\ s \in SUBSET S
    BY <1>0
  <2>1. s # {} /\ Cardinality(s \ {Pick(s)}) = m
    BY <2>0, SmallerSet
  <2>2. s \ {Pick(s)} \in SUBSET T
    OBVIOUS
  <2>3. g[s \ {Pick(s)}] = h[s \ {Pick(s)}]
    BY <2>1, <2>2
  <2>4. g[s] = f[Pick(s)] + g[s \ {Pick(s)}]
    BY <2>0, <2>1, Zenon DEF Adds
  <2>5. h[s] = f[Pick(s)] + h[s \ {Pick(s)}]
    BY <2>1, Zenon DEF Adds
  <2> QED BY <2>3, <2>4, <2>5
<1> HIDE DEF Good
<1>3. Good = Nat
  BY <1>1, <1>2, SetInduction DEF Good
<1>4. \A s \in SUBSET T : Cardinality(s) \in Good
  BY <1>0, <1>3, FS_CardinalityType
<1> QED BY <1>4 DEF Good, Agree

\* So it exists, and the sum is its value.
LEMMA SumAdds ==
    ASSUME NEW f, NEW S, IsFiniteSet(S)
    PROVE  \E g : Adds(f, SUBSET S, g) /\ SumFunctionOnSet(f, S) = g[S]
<1>1. Cardinality(S) \in Nat /\ Small(S, Cardinality(S)) = SUBSET S
  BY FS_CardinalityType, FS_Subset DEF Small
<1>2. \E g : Adds(f, SUBSET S, g)
  <2>1. \E g : Adds(f, Small(S, Cardinality(S)), g)
    BY <1>1, AddsToSmall, Zenon
  <2> QED BY <1>1, <2>1
<1>3. Adds(f, SUBSET S, CHOOSE g : Adds(f, SUBSET S, g))
  BY <1>2
<1> QED BY <1>3, SumDef

\* The step of the recursion.
LEMMA SumPick ==
    ASSUME NEW f, NEW S, IsFiniteSet(S), S # {}
    PROVE  SumFunctionOnSet(f, S) = f[Pick(S)] + SumFunctionOnSet(f, S \ {Pick(S)})
<1> DEFINE T == S \ {Pick(S)}
<1>0. IsFiniteSet(T) /\ T \in SUBSET S
  BY FS_RemoveElement
<1>1. PICK g : Adds(f, SUBSET S, g) /\ SumFunctionOnSet(f, S) = g[S]
  BY SumAdds
<1>2. PICK h : Adds(f, SUBSET T, h) /\ SumFunctionOnSet(f, T) = h[T]
  BY <1>0, SumAdds
<1>3. g[T] = h[T]
  <2> HIDE DEF T
  <2>1. Agree(g, h, SUBSET T)
    BY <1>0, <1>1, <1>2, AddsUnique, Zenon
  <2> QED BY <2>1 DEF Agree
<1>4. g[S] = f[Pick(S)] + g[T]
  BY <1>1, Zenon DEF Adds
<1> QED BY <1>1, <1>2, <1>3, <1>4

-----------------------------------------------------------------------------
(* What a sum is *)

\* A sum over no elements.
LEMMA SumOfNone == ASSUME NEW f PROVE SumFunctionOnSet(f, {}) = 0
<1>1. PICK g : Adds(f, SUBSET {}, g) /\ SumFunctionOnSet(f, {}) = g[{}]
  BY SumAdds, FS_EmptySet
<1> QED BY <1>1, Zenon DEF Adds

\* A sum of numbers is a number.
LEMMA SumType ==
    ASSUME NEW f, NEW S, IsFiniteSet(S), \A x \in S : f[x] \in Nat
    PROVE  SumFunctionOnSet(f, S) \in Nat
<1> DEFINE Good == {m \in Nat : \A T \in SUBSET S :
                        Cardinality(T) = m => SumFunctionOnSet(f, T) \in Nat}
<1>0. \A T \in SUBSET S : IsFiniteSet(T)
  BY FS_Subset
<1>1. 0 \in Good
  BY <1>0, FS_EmptySet, SumOfNone
<1>2. ASSUME NEW m \in Good PROVE m + 1 \in Good
  <2> SUFFICES ASSUME NEW T \in SUBSET S, Cardinality(T) = m + 1
               PROVE  SumFunctionOnSet(f, T) \in Nat
    OBVIOUS
  <2>1. m \in Nat /\ IsFiniteSet(T)
    BY <1>0
  <2>2. T # {} /\ Pick(T) \in T /\ Cardinality(T \ {Pick(T)}) = m
    BY <2>1, SmallerSet
  <2>3. SumFunctionOnSet(f, T \ {Pick(T)}) \in Nat /\ f[Pick(T)] \in Nat
    BY <2>2
  <2>4. SumFunctionOnSet(f, T) = f[Pick(T)] + SumFunctionOnSet(f, T \ {Pick(T)})
    BY <2>1, <2>2, SumPick
  <2> QED BY <2>3, <2>4
<1> HIDE DEF Good
<1>3. Good = Nat
  BY <1>1, <1>2, SetInduction DEF Good
<1>4. Cardinality(S) \in Good
  BY <1>3, FS_CardinalityType
<1> QED BY <1>4 DEF Good

\* Any element can be taken out of a sum.
LEMMA SumRemove ==
    ASSUME NEW f, NEW S, IsFiniteSet(S), \A y \in S : f[y] \in Nat, NEW x \in S
    PROVE  SumFunctionOnSet(f, S) = f[x] + SumFunctionOnSet(f, S \ {x})
<1> DEFINE Sum(T) == SumFunctionOnSet(f, T)
           Good == {m \in Nat : \A T \in SUBSET S : \A y \in T :
                        Cardinality(T) = m => Sum(T) = f[y] + Sum(T \ {y})}
<1>0. ASSUME NEW T \in SUBSET S
      PROVE  IsFiniteSet(T) /\ Sum(T) \in Nat
  BY FS_Subset, SumType
<1>1. 0 \in Good
  BY <1>0, FS_EmptySet
<1>2. ASSUME NEW m \in Good PROVE m + 1 \in Good
  <2> SUFFICES ASSUME NEW T \in SUBSET S, NEW y \in T, Cardinality(T) = m + 1
               PROVE  Sum(T) = f[y] + Sum(T \ {y})
    OBVIOUS
  <2> DEFINE z == Pick(T)
  <2>1. z \in T /\ Sum(T) = f[z] + Sum(T \ {z})
    BY <1>0, SumPick, PickMember
  <2>2. CASE z = y
    BY <2>1, <2>2
  <2>3. CASE z # y
    <3> HIDE DEF z
    <3>0. m \in Nat /\ IsFiniteSet(T)
      BY <1>0
    <3>1. Cardinality(T \ {z}) = m /\ Cardinality(T \ {y}) = m
      BY <2>1, <3>0, SmallerSet
    <3>2. Sum(T \ {z}) = f[y] + Sum((T \ {z}) \ {y})
      BY <2>3, <3>1
    <3>3. Sum(T \ {y}) = f[z] + Sum((T \ {y}) \ {z})
      BY <2>1, <2>3, <3>1
    <3>4. (T \ {z}) \ {y} = (T \ {y}) \ {z}
      OBVIOUS
    <3>5. Sum((T \ {y}) \ {z}) \in Nat /\ f[y] \in Nat /\ f[z] \in Nat
      BY <1>0, <2>1
    <3> HIDE DEF Sum
    <3> QED BY <2>1, <3>2, <3>3, <3>4, <3>5
  <2> QED BY <2>2, <2>3
<1> HIDE DEF Good
<1>3. Good = Nat
  BY <1>1, <1>2, SetInduction DEF Good
<1>4. Cardinality(S) \in Good
  BY <1>3, FS_CardinalityType
<1> QED BY <1>4 DEF Good

\* A sum depends on the values at its set only.
LEMMA SumSame ==
    ASSUME NEW f, NEW g, NEW S, IsFiniteSet(S), \A x \in S : f[x] = g[x] /\ f[x] \in Nat
    PROVE  SumFunctionOnSet(f, S) = SumFunctionOnSet(g, S)
<1> DEFINE Good == {m \in Nat : \A T \in SUBSET S :
                        Cardinality(T) = m => SumFunctionOnSet(f, T) = SumFunctionOnSet(g, T)}
<1>0. \A T \in SUBSET S : IsFiniteSet(T)
  BY FS_Subset
<1>1. 0 \in Good
  BY <1>0, FS_EmptySet, SumOfNone
<1>2. ASSUME NEW m \in Good PROVE m + 1 \in Good
  <2> SUFFICES ASSUME NEW T \in SUBSET S, Cardinality(T) = m + 1
               PROVE  SumFunctionOnSet(f, T) = SumFunctionOnSet(g, T)
    OBVIOUS
  <2>1. m \in Nat /\ IsFiniteSet(T)
    BY <1>0
  <2>2. T # {} /\ Pick(T) \in T /\ Cardinality(T \ {Pick(T)}) = m
    BY <2>1, SmallerSet
  <2>3. SumFunctionOnSet(f, T \ {Pick(T)}) = SumFunctionOnSet(g, T \ {Pick(T)})
    BY <2>2
  <2>4. /\ SumFunctionOnSet(f, T) = f[Pick(T)] + SumFunctionOnSet(f, T \ {Pick(T)})
        /\ SumFunctionOnSet(g, T) = g[Pick(T)] + SumFunctionOnSet(g, T \ {Pick(T)})
    BY <2>1, <2>2, SumPick
  <2> QED BY <2>2, <2>3, <2>4
<1> HIDE DEF Good
<1>3. Good = Nat
  BY <1>1, <1>2, SetInduction DEF Good
<1>4. Cardinality(S) \in Good
  BY <1>3, FS_CardinalityType
<1> QED BY <1>4 DEF Good

\* One value more at one element makes one more in all.
LEMMA SumIncrement ==
    ASSUME NEW f, NEW g, NEW S, IsFiniteSet(S), NEW x \in S,
           \A y \in S : f[y] \in Nat,
           \A y \in S : g[y] = IF y = x THEN f[y] + 1 ELSE f[y]
    PROVE  SumFunctionOnSet(g, S) = SumFunctionOnSet(f, S) + 1
<1>0. IsFiniteSet(S \ {x})
  BY FS_RemoveElement
<1>1. SumFunctionOnSet(f, S \ {x}) = SumFunctionOnSet(g, S \ {x})
  BY <1>0, SumSame
<1>2. SumFunctionOnSet(f, S) = f[x] + SumFunctionOnSet(f, S \ {x})
  BY SumRemove
<1>3. SumFunctionOnSet(g, S) = g[x] + SumFunctionOnSet(g, S \ {x})
  BY SumRemove
<1>4. SumFunctionOnSet(f, S \ {x}) \in Nat
  BY <1>0, SumType
<1> QED BY <1>1, <1>2, <1>3, <1>4

\* A sum of nothings.
LEMMA SumOfZeros ==
    ASSUME NEW f, NEW S, IsFiniteSet(S), \A x \in S : f[x] = 0
    PROVE  SumFunctionOnSet(f, S) = 0
<1> DEFINE Good == {m \in Nat : \A T \in SUBSET S :
                        Cardinality(T) = m => SumFunctionOnSet(f, T) = 0}
<1>0. \A T \in SUBSET S : IsFiniteSet(T)
  BY FS_Subset
<1>1. 0 \in Good
  BY <1>0, FS_EmptySet, SumOfNone
<1>2. ASSUME NEW m \in Good PROVE m + 1 \in Good
  <2> SUFFICES ASSUME NEW T \in SUBSET S, Cardinality(T) = m + 1
               PROVE  SumFunctionOnSet(f, T) = 0
    OBVIOUS
  <2>1. m \in Nat /\ IsFiniteSet(T)
    BY <1>0
  <2>2. T # {} /\ Pick(T) \in T /\ Cardinality(T \ {Pick(T)}) = m
    BY <2>1, SmallerSet
  <2>4. SumFunctionOnSet(f, T) = f[Pick(T)] + SumFunctionOnSet(f, T \ {Pick(T)})
    BY <2>1, <2>2, SumPick
  <2> QED BY <2>2, <2>4
<1> HIDE DEF Good
<1>3. Good = Nat
  BY <1>1, <1>2, SetInduction DEF Good
<1>4. Cardinality(S) \in Good
  BY <1>3, FS_CardinalityType
<1> QED BY <1>4 DEF Good

\* A part adds up to no more than the whole.
LEMMA SumSubset ==
    ASSUME NEW f, NEW S, IsFiniteSet(S), \A x \in S : f[x] \in Nat, NEW T \in SUBSET S
    PROVE  SumFunctionOnSet(f, T) <= SumFunctionOnSet(f, S)
<1> DEFINE Sum(U) == SumFunctionOnSet(f, U)
           Good == {m \in Nat : \A U \in SUBSET S :
                        Cardinality(U) = m /\ T \subseteq U => Sum(T) <= Sum(U)}
<1>0. ASSUME NEW U \in SUBSET S
      PROVE  IsFiniteSet(U) /\ Sum(U) \in Nat /\ \A x \in U : f[x] \in Nat
  BY FS_Subset, SumType
<1>1. 0 \in Good
  <2> SUFFICES ASSUME NEW U \in SUBSET S, Cardinality(U) = 0, T \subseteq U
               PROVE  Sum(T) <= Sum(U)
    OBVIOUS
  <2>1. U = {} /\ T = U
    BY <1>0, FS_EmptySet
  <2>2. Sum(U) \in Nat
    BY <1>0
  <2> QED BY <2>1, <2>2
<1>2. ASSUME NEW m \in Good PROVE m + 1 \in Good
  <2> SUFFICES ASSUME NEW U \in SUBSET S, Cardinality(U) = m + 1, T \subseteq U
               PROVE  Sum(T) <= Sum(U)
    OBVIOUS
  <2>1. Sum(T) \in Nat /\ Sum(U) \in Nat
    BY <1>0
  <2>2. CASE T = U
    BY <2>1, <2>2
  <2>3. CASE T # U
    <3> PICK x \in U : x \notin T
      BY <2>3
    <3>1. m \in Nat /\ IsFiniteSet(U) /\ f[x] \in Nat
      BY <1>0
    <3>2. Cardinality(U \ {x}) = m /\ T \subseteq U \ {x} /\ U \ {x} \in SUBSET S
      BY <3>1, SmallerSet
    <3>3. Sum(T) <= Sum(U \ {x}) /\ Sum(U \ {x}) \in Nat
      BY <1>0, <3>2
    <3>4. Sum(U) = f[x] + Sum(U \ {x})
      <4>1. \A y \in U : f[y] \in Nat
        BY <1>0
      <4> QED BY <3>1, <4>1, SumRemove
    <3> HIDE DEF Sum
    <3> QED BY <2>1, <3>1, <3>3, <3>4
  <2> QED BY <2>2, <2>3
<1> HIDE DEF Good
<1>3. Good = Nat
  BY <1>1, <1>2, SetInduction DEF Good
<1>4. Cardinality(S) \in Good
  BY <1>3, FS_CardinalityType
<1> QED BY <1>4 DEF Good

\* A sum taken in other terms: b names each element of S once.
LEMMA SumRenamed ==
    ASSUME NEW f, NEW S, IsFiniteSet(S), \A x \in S : f[x] \in Nat,
           NEW b, \A x, y \in S : b[x] = b[y] => x = y,
           NEW g, \A x \in S : g[b[x]] = f[x]
    PROVE  SumFunctionOnSet(g, {b[x] : x \in S}) = SumFunctionOnSet(f, S)
<1> DEFINE Image(T) == {b[x] : x \in T}
           Good == {m \in Nat : \A T \in SUBSET S : Cardinality(T) = m =>
                        /\ IsFiniteSet(Image(T))
                        /\ SumFunctionOnSet(g, Image(T)) = SumFunctionOnSet(f, T)}
<1>0. \A T \in SUBSET S : IsFiniteSet(T)
  BY FS_Subset
<1>1. 0 \in Good
  <2> SUFFICES ASSUME NEW T \in SUBSET S, Cardinality(T) = 0
               PROVE  /\ IsFiniteSet(Image(T))
                      /\ SumFunctionOnSet(g, Image(T)) = SumFunctionOnSet(f, T)
    OBVIOUS
  <2>1. T = {} /\ Image(T) = {}
    BY <1>0, FS_EmptySet
  <2> QED BY <2>1, SumOfNone, FS_EmptySet
<1>2. ASSUME NEW m \in Good PROVE m + 1 \in Good
  <2> SUFFICES ASSUME NEW T \in SUBSET S, Cardinality(T) = m + 1
               PROVE  /\ IsFiniteSet(Image(T))
                      /\ SumFunctionOnSet(g, Image(T)) = SumFunctionOnSet(f, T)
    OBVIOUS
  <2>1. m \in Nat /\ IsFiniteSet(T)
    BY <1>0
  <2>2. PICK z \in T : Cardinality(T \ {z}) = m
    BY <2>1, SmallerSet
  <2> DEFINE U == T \ {z}
             V == Image(U)
             W == Image(T)
  <2>3. IsFiniteSet(V) /\ SumFunctionOnSet(g, V) = SumFunctionOnSet(f, U)
    BY <2>2
  <2>4. W = V \cup {b[z]} /\ W \ {b[z]} = V /\ b[z] \in W
    OBVIOUS
  <2>5. \A v \in W : g[v] \in Nat
    OBVIOUS
  <2>6. \A x \in T : f[x] \in Nat
    OBVIOUS
  <2>7. g[b[z]] = f[z]
    OBVIOUS
  <2> HIDE DEF V, W, Good
  <2>8. IsFiniteSet(W)
    BY <2>3, <2>4, FS_AddElement
  <2>9. SumFunctionOnSet(g, W) = g[b[z]] + SumFunctionOnSet(g, W \ {b[z]})
    BY <2>4, <2>5, <2>8, SumRemove
  <2>10. SumFunctionOnSet(f, T) = f[z] + SumFunctionOnSet(f, U)
    BY <2>1, <2>6, SumRemove
  <2>11. IsFiniteSet(W) /\ SumFunctionOnSet(g, W) = SumFunctionOnSet(f, T)
    BY <2>3, <2>4, <2>7, <2>8, <2>9, <2>10
  <2> QED BY <2>11 DEF W
<1> HIDE DEF Good
<1>3. Good = Nat
  BY <1>1, <1>2, SetInduction DEF Good
<1>4. Cardinality(S) \in Good
  BY <1>3, FS_CardinalityType
<1> QED BY <1>4 DEF Good

-----------------------------------------------------------------------------
(* Counting *)

\* How many elements of S have value v under h.
Occurs(h, S, v) == Cardinality({y \in S : h[y] = v})

\* A count over a finite set is a number.
LEMMA OccursType ==
    ASSUME NEW S, IsFiniteSet(S), NEW h, NEW v
    PROVE  IsFiniteSet({y \in S : h[y] = v}) /\ Occurs(h, S, v) \in Nat
BY FS_Subset, FS_CardinalityType DEF Occurs

\* g and h differ at x only.
SameBut(g, h, S, x) == \A y \in S : y # x => g[y] = h[y]

\* One element of S has changed its value.
LEMMA OccursChanged ==
    ASSUME NEW S, IsFiniteSet(S), NEW h, NEW g, NEW x \in S, NEW v, SameBut(g, h, S, x)
    PROVE  Occurs(g, S, v) = Occurs(h, S, v) - (IF h[x] = v THEN 1 ELSE 0)
                                             + (IF g[x] = v THEN 1 ELSE 0)
<1> DEFINE before == {y \in S : h[y] = v}
           after == {y \in S : g[y] = v}
<1>1. IsFiniteSet(before) /\ Cardinality(before) \in Nat
  BY FS_Subset, FS_CardinalityType
<1>2. CASE h[x] # v /\ g[x] = v
  <2>1. after = before \cup {x} /\ x \notin before
    BY <1>2 DEF SameBut
  <2>2. Cardinality(after) = Cardinality(before) + 1
    BY <1>1, <2>1, FS_AddElement
  <2> HIDE DEF before, after
  <2>3. Cardinality(after) = Cardinality(before) - (IF h[x] = v THEN 1 ELSE 0)
                                                 + (IF g[x] = v THEN 1 ELSE 0)
    BY <1>1, <1>2, <2>2
  <2> QED BY <2>3, Zenon DEF Occurs, before, after
<1>3. CASE h[x] = v /\ g[x] # v
  <2>1. after = before \ {x} /\ x \in before
    BY <1>3 DEF SameBut
  <2>2. Cardinality(after) = Cardinality(before) - 1
    BY <1>1, <2>1, FS_RemoveElement
  <2> HIDE DEF before, after
  <2>3. Cardinality(after) = Cardinality(before) - (IF h[x] = v THEN 1 ELSE 0)
                                                 + (IF g[x] = v THEN 1 ELSE 0)
    BY <1>1, <1>3, <2>2
  <2> QED BY <2>3, Zenon DEF Occurs, before, after
<1>4. CASE h[x] = v <=> g[x] = v
  <2>1. after = before
    BY <1>4 DEF SameBut
  <2> HIDE DEF before, after
  <2>2. Cardinality(after) = Cardinality(before) - (IF h[x] = v THEN 1 ELSE 0)
                                                 + (IF g[x] = v THEN 1 ELSE 0)
    BY <1>1, <1>4, <2>1
  <2> QED BY <2>2, Zenon DEF Occurs, before, after
<1> QED BY <1>2, <1>3, <1>4

\* How often v occurs in a sequence that has grown at its end.
LEMMA OccursAppend ==
    ASSUME NEW S, NEW s \in Seq(S), NEW x, NEW v
    PROVE  Occurs(Append(s, x), DOMAIN Append(s, x), v)
             = Occurs(s, DOMAIN s, v) + (IF x = v THEN 1 ELSE 0)
<1> DEFINE before == {n \in DOMAIN s : s[n] = v}
           after == {n \in DOMAIN Append(s, x) : Append(s, x)[n] = v}
<1>1. IsFiniteSet(before) /\ Cardinality(before) \in Nat
  <2>1. IsFiniteSet(1 .. Len(s)) /\ before \in SUBSET (1 .. Len(s))
    BY FS_Interval
  <2> QED BY <2>1, FS_Subset, FS_CardinalityType
<1>2. Len(s) + 1 \notin before
  OBVIOUS
<1>3. after = IF x = v THEN before \cup {Len(s) + 1} ELSE before
  OBVIOUS
<1> HIDE DEF before, after
<1>4. Cardinality(after) = Cardinality(before) + (IF x = v THEN 1 ELSE 0)
  <2>1. Cardinality(before \cup {Len(s) + 1}) = Cardinality(before) + 1
    BY <1>1, <1>2, FS_AddElement
  <2>2. CASE x = v
    BY <1>3, <2>1, <2>2
  <2>3. CASE x # v
    BY <1>1, <1>3, <2>3
  <2> QED BY <2>2, <2>3
<1> QED BY <1>4, Zenon DEF Occurs, before, after

\* How often v occurs in a sequence that has lost its head.
LEMMA OccursTail ==
    ASSUME NEW S, NEW s \in Seq(S), s # <<>>, NEW v
    PROVE  Occurs(Tail(s), DOMAIN Tail(s), v)
             = Occurs(s, DOMAIN s, v) - (IF Head(s) = v THEN 1 ELSE 0)
<1> DEFINE before == {n \in DOMAIN s : s[n] = v}
           after == {n \in DOMAIN Tail(s) : Tail(s)[n] = v}
           next == [n \in after |-> n + 1]
<1>1. IsFiniteSet(before) /\ IsFiniteSet(after) /\ Cardinality(before) \in Nat
  <2>1. IsFiniteSet(1 .. Len(s)) /\ before \in SUBSET (1 .. Len(s))
    BY FS_Interval
  <2>2. after \in SUBSET (1 .. Len(s))
    OBVIOUS
  <2> QED BY <2>1, <2>2, FS_Subset, FS_CardinalityType
<1>2. next \in Bijection(after, before \ {1})
  <2>1. next \in [after -> before \ {1}]
    OBVIOUS
  <2>2. \A m, n \in after : next[m] = next[n] => m = n
    OBVIOUS
  <2>3. \A m \in before \ {1} : \E n \in after : next[n] = m
    <3> TAKE m \in before \ {1}
    <3>1. m - 1 \in after /\ (m - 1) + 1 = m
      OBVIOUS
    <3> QED BY <3>1
  <2> HIDE DEF next, before, after
  <2>4. next \in Injection(after, before \ {1})
    BY <2>1, <2>2 DEF Injection, IsInjective
  <2>5. next \in Surjection(after, before \ {1})
    BY <2>1, <2>3 DEF Surjection
  <2> QED BY <2>4, <2>5 DEF Bijection
<1>3. Cardinality(before \ {1}) = Cardinality(after)
  BY <1>1, <1>2, FS_Bijection DEF ExistsBijection
<1>4. 1 \in before <=> Head(s) = v
  OBVIOUS
<1> HIDE DEF before, after
<1>5. Cardinality(after) = IF 1 \in before THEN Cardinality(before) - 1 ELSE Cardinality(before)
  BY <1>1, <1>3, FS_RemoveElement
<1>6. Cardinality(after) = Cardinality(before) - (IF Head(s) = v THEN 1 ELSE 0)
  BY <1>1, <1>4, <1>5
<1> QED BY <1>6, Zenon DEF Occurs, before, after

-----------------------------------------------------------------------------
(* Division by a number that is not known *)

\* A quotient and a remainder.
LEMMA Quotient ==
    ASSUME NEW a \in Nat, NEW d \in Nat \ {0}
    PROVE  /\ a \div d \in Nat /\ a % d \in Nat /\ a % d < d
           /\ a = d * (a \div d) + (a % d)
           /\ d * (a \div d) \in Nat
<1>1. a \div d \in Nat /\ a % d \in Nat /\ a % d < d /\ a = d * (a \div d) + (a % d)
  OBVIOUS
<1>2. \A q \in Nat : d * q \in Nat
  OBVIOUS
<1> QED BY <1>1, <1>2

\* Multiples of d are d apart.
LEMMA TimesLess ==
    ASSUME NEW d \in Nat \ {0}, NEW m \in Nat, NEW n \in Nat
    PROVE  /\ d * m \in Nat /\ d * n \in Nat
           /\ m < n => d * m + d <= d * n
           /\ m <= n => d * m <= d * n
           /\ d * m < d * n => m < n
           /\ d * m <= d * n => m <= n
<1>1. \A a, k \in Nat : d * (a + k) = d * a + d * k /\ d * a \in Nat /\ d * k \in Nat
  OBVIOUS
<1>2. \A k \in Nat \ {0} : d * k >= d
  OBVIOUS
<1>3. ASSUME NEW a \in Nat, NEW b \in Nat, a < b PROVE d * a + d <= d * b
  <2> DEFINE k == b - a
  <2>1. k \in Nat \ {0} /\ a + k = b
    BY <1>3
  <2> HIDE DEF k
  <2>2. d * b = d * a + d * k /\ d * k >= d /\ d * a \in Nat /\ d * k \in Nat
    BY <1>1, <1>2, <2>1
  <2> QED BY <2>2
<1>4. d * m \in Nat /\ d * n \in Nat
  BY <1>1
<1>5. m < n => d * m + d <= d * n
  BY <1>3
<1>6. n < m => d * n + d <= d * m
  BY <1>3
<1>7. m <= n => d * m <= d * n
  <2>1. CASE m = n
    BY <1>4, <2>1
  <2>2. CASE m # n
    BY <1>4, <1>5, <2>2
  <2> QED BY <2>1, <2>2
<1>8. d * m < d * n => m < n
  <2>1. CASE m = n
    BY <1>4, <2>1
  <2>2. CASE m # n
    BY <1>4, <1>6, <2>2
  <2> QED BY <2>1, <2>2
<1>9. d * m <= d * n => m <= n
  BY <1>4, <1>6
<1> QED BY <1>4, <1>5, <1>7, <1>8, <1>9

\* There is one quotient and one remainder.
LEMMA Division ==
    ASSUME NEW d \in Nat \ {0}, NEW q \in Nat, NEW r \in Nat, r < d
    PROVE  (d * q + r) \div d = q /\ (d * q + r) % d = r
<1> DEFINE a == d * q + r
           p == a \div d
           s == a % d
<1>1. d * q \in Nat /\ a \in Nat
  BY TimesLess
<1> HIDE DEF a
<1>2. p \in Nat /\ s \in Nat /\ s < d /\ a = d * p + s /\ d * p \in Nat
  BY <1>1, Quotient
<1> HIDE DEF p, s
<1>3. p < q => d * p + d <= d * q
  BY <1>2, TimesLess
<1>4. q < p => d * q + d <= d * p
  BY <1>2, TimesLess
<1>5. d * q + r = d * p + s
  BY <1>2 DEF a
<1>6. p = q
  BY <1>1, <1>2, <1>3, <1>4, <1>5
<1>7. s = r
  BY <1>1, <1>2, <1>5, <1>6
<1> QED BY <1>6, <1>7 DEF a, p, s

\* The next number has the next remainder, or none and the next quotient.
LEMMA NextQuotient ==
    ASSUME NEW a \in Nat, NEW d \in Nat \ {0}
    PROVE  \/ /\ (a % d) + 1 < d
              /\ (a + 1) \div d = a \div d /\ (a + 1) % d = (a % d) + 1
           \/ /\ (a % d) + 1 = d
              /\ (a + 1) \div d = a \div d + 1 /\ (a + 1) % d = 0
<1> DEFINE q == a \div d
           r == a % d
<1>1. q \in Nat /\ r \in Nat /\ r < d /\ a = d * q + r /\ d * q \in Nat
  BY Quotient
<1> HIDE DEF q, r
<1>2. CASE r + 1 < d
  <2>1. a + 1 = d * q + (r + 1)
    BY <1>1
  <2>2. (d * q + (r + 1)) \div d = q /\ (d * q + (r + 1)) % d = r + 1
    BY <1>1, <1>2, Division
  <2> QED BY <1>2, <2>1, <2>2 DEF q, r
<1>3. CASE r + 1 >= d
  <2>1. r + 1 = d
    BY <1>1, <1>3
  <2>2. d * (q + 1) = d * q + d
    BY <1>1
  <2>3. a + 1 = d * (q + 1) + 0
    BY <1>1, <2>1, <2>2
  <2>4. (d * (q + 1) + 0) \div d = q + 1 /\ (d * (q + 1) + 0) % d = 0
    BY <1>1, Division
  <2> QED BY <2>1, <2>3, <2>4 DEF q, r
<1> QED BY <1>1, <1>2, <1>3
=============================================================================
