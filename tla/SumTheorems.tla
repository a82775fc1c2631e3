---------------------------- MODULE SumTheorems ----------------------------
(***************************************************************************)
(* What the byte counters of this system rest on: the sum of a function    *)
(* over a finite set, as SumFunctionOnSet of Functions defines it.         *)
(*                                                                         *)
(* SumFunctionOnSet is a recursive function chosen on the subsets of its   *)
(* index set, so its value is not even known to exist before an induction. *)
(* The induction here is over a set of naturals that contains 0 and is     *)
(* closed under successor (NaturalsAreAll), which follows from the         *)
(* well-foundedness of < on Nat and takes no operator as a parameter.      *)
(***************************************************************************)
EXTENDS Integers, FiniteSets, Functions, FiniteSetTheorems, WellFoundedInduction, TLAPS

(* A non-empty set of naturals has a least element.                        *)
LEMMA LeastNatural ==
  ASSUME NEW T, T \subseteq Nat, T # {}
  PROVE  \E x \in T : \A y \in T : x <= y
<1> DEFINE R == OpToRel(<, Nat)
<1>1. IsWellFoundedOn(R, Nat)
  BY Zenon, NatLessThanWellFounded
<1>2. \A x, y \in Nat : ~(<<y, x>> \in R) => x <= y
  BY DEF OpToRel
<1> HIDE DEF R
<1>3. \E x \in T : \A y \in T : ~(<<y, x>> \in R)
  BY Zenon, <1>1, WFMin
<1> QED BY <1>2, <1>3

(* Induction over the naturals, on a set of them.                          *)
LEMMA NaturalsAreAll ==
  ASSUME NEW P, 0 \in P, \A n \in Nat : n \in P => n + 1 \in P
  PROVE  Nat \subseteq P
<1> DEFINE T == Nat \ P
<1>1. SUFFICES ASSUME T # {} PROVE FALSE
  BY Zenon
<1>2. PICK x \in T : \A y \in T : x <= y
  BY Zenon, <1>1, LeastNatural
<1>3. x - 1 \in Nat /\ x - 1 \notin T
  BY <1>2
<1> QED BY <1>2, <1>3

(* A non-empty set of naturals below a bound has a greatest element.       *)
LEMMA GreatestNatural ==
  ASSUME NEW S, S \subseteq Nat, S # {}, NEW m \in Nat, \A s \in S : s <= m
  PROVE  \E s \in S : \A t \in S : t <= s
<1> DEFINE T == {m - s : s \in S}
<1>1. T \subseteq Nat
  OBVIOUS
<1>2. T # {}
  OBVIOUS
<1>3. PICK x \in T : \A y \in T : x <= y
  BY <1>1, <1>2, LeastNatural
<1>4. PICK s \in S : x = m - s
  BY <1>3
<1>5. \A t \in S : m - s <= m - t
  BY <1>3, <1>4
<1> QED BY <1>5

(* The element the recursion takes first.                                  *)
Pick(s) == CHOOSE x \in s : TRUE

(* g sums f over each set of D.                                            *)
IsSum(f, g, D) ==
  g = [s \in D |-> IF s = {} THEN 0 ELSE f[Pick(s)] + g[s \ {Pick(s)}]]

(* The function the definition chooses for the index set S.                *)
SumOf(f, S) == CHOOSE g : IsSum(f, g, SUBSET S)

(* SumFunctionOnSet is that function, applied to the whole index set.      *)
LEMMA SumIsChosen ==
  ASSUME NEW f, NEW S
  PROVE  SumFunctionOnSet(f, S) = SumOf(f, S)[S]
BY Zenon DEF SumFunctionOnSet, FoldFunctionOnSet, MapThenFoldSet, IsSum, Pick, SumOf

(* The first element is one.                                               *)
LEMMA PickIn == ASSUME NEW s, s # {} PROVE Pick(s) \in s
BY DEF Pick

(* The subsets of S with at most n elements.                               *)
Small(S, n) == {s \in SUBSET S : Cardinality(s) <= n}

(* Taking an element away makes a finite set smaller.                      *)
LEMMA Smaller ==
  ASSUME NEW S, IsFiniteSet(S), NEW s \in SUBSET S, NEW x \in s
  PROVE  /\ IsFiniteSet(s) /\ Cardinality(s) \in Nat
         /\ Cardinality(s \ {x}) = Cardinality(s) - 1
         /\ Cardinality(s \ {x}) \in Nat
BY FS_Subset, FS_RemoveElement, FS_CardinalityType

(* Such a function exists: by induction on the size of the subsets.        *)
LEMMA SumExists ==
  ASSUME NEW f, NEW S, IsFiniteSet(S)
  PROVE  IsSum(f, SumOf(f, S), SUBSET S)
<1> DEFINE P == {n \in Nat : \E g : IsSum(f, g, Small(S, n))}
<1>1. 0 \in P
  <2> DEFINE g == [s \in Small(S, 0) |-> 0]
  <2>1. \A s \in Small(S, 0) : s = {}
    BY FS_Subset, FS_EmptySet, FS_CardinalityType DEF Small
  <2>2. IsSum(f, g, Small(S, 0))
    BY <2>1 DEF IsSum
  <2> QED BY <2>2
<1>2. ASSUME NEW n \in Nat, n \in P PROVE n + 1 \in P
  <2>1. PICK g : IsSum(f, g, Small(S, n))
    BY Zenon, <1>2
  <2> DEFINE h == [s \in Small(S, n + 1) |->
                     IF s = {} THEN 0 ELSE f[Pick(s)] + g[s \ {Pick(s)}]]
  <2>2. ASSUME NEW s \in Small(S, n + 1), s # {}
        PROVE  s \ {Pick(s)} \in Small(S, n) /\ s \ {Pick(s)} \in Small(S, n + 1)
    BY <2>2, Smaller, PickIn DEF Small
  <2>3. ASSUME NEW s \in Small(S, n) PROVE h[s] = g[s]
    <3>1. s \in Small(S, n + 1)
      BY FS_Subset, FS_CardinalityType DEF Small
    <3>2. g[s] = IF s = {} THEN 0 ELSE f[Pick(s)] + g[s \ {Pick(s)}]
      BY Zenon, <2>1 DEF IsSum
    <3> QED BY Zenon, <3>1, <3>2
  <2>4. h = [s \in Small(S, n + 1) |-> IF s = {} THEN 0 ELSE f[Pick(s)] + h[s \ {Pick(s)}]]
    BY Zenon, <2>2, <2>3
  <2> HIDE DEF h
  <2>5. IsSum(f, h, Small(S, n + 1))
    BY Zenon, <2>4 DEF IsSum
  <2> QED BY <2>5
<1>3. Nat \subseteq P
  <2> HIDE DEF P
  <2> QED BY Zenon, <1>1, <1>2, NaturalsAreAll
<1>4. Cardinality(S) \in Nat
  BY Zenon, FS_CardinalityType
<1>5. SUBSET S = Small(S, Cardinality(S))
  BY FS_Subset DEF Small
<1>6. \E g : IsSum(f, g, SUBSET S)
  BY Zenon, <1>3, <1>4, <1>5
<1> QED BY <1>6, Zenon DEF SumOf

(* The recursion, as two equations.                                        *)
LEMMA SumUnfolds ==
  ASSUME NEW f, NEW S, IsFiniteSet(S)
  PROVE  /\ SumOf(f, S)[{}] = 0
         /\ \A s \in SUBSET S :
              s # {} => SumOf(f, S)[s] = f[Pick(s)] + SumOf(f, S)[s \ {Pick(s)}]
<1> DEFINE g == SumOf(f, S)
<1>0. IsSum(f, g, SUBSET S)
  BY Zenon, SumExists
<1> HIDE DEF g
<1>1. g = [s \in SUBSET S |-> IF s = {} THEN 0 ELSE f[Pick(s)] + g[s \ {Pick(s)}]]
  BY Zenon, <1>0 DEF IsSum
<1>2. \A s \in SUBSET S : g[s] = IF s = {} THEN 0 ELSE f[Pick(s)] + g[s \ {Pick(s)}]
  BY Zenon, <1>1
<1>3. g[{}] = 0
  BY <1>2
<1>4. \A s \in SUBSET S : s # {} => g[s] = f[Pick(s)] + g[s \ {Pick(s)}]
  BY Zenon, <1>2
<1> QED BY Zenon, <1>3, <1>4 DEF g

(* The sum over nothing.                                                   *)
LEMMA SumOfNone ==
  ASSUME NEW f, NEW S, IsFiniteSet(S)
  PROVE  SumOf(f, S)[{}] = 0
BY Zenon, SumUnfolds

(* s is a non-empty part of S.                                             *)
Part(s, S) == s \in SUBSET S /\ s # {}

(* The second equation at s.                                               *)
SumsPick(f, S, s) == SumOf(f, S)[s] = f[Pick(s)] + SumOf(f, S)[s \ {Pick(s)}]

(* It holds at every non-empty part.                                       *)
LEMMA SumOfPick ==
  ASSUME NEW f, NEW S, IsFiniteSet(S), NEW s, Part(s, S)
  PROVE  SumsPick(f, S, s)
BY SumUnfolds DEF Part, SumsPick

(* What is summed over s depends on the values at s only.                  *)
LEMMA SumOfLocal ==
  ASSUME NEW f, NEW h, NEW S, NEW T, IsFiniteSet(S), IsFiniteSet(T),
         NEW s \in SUBSET S, s \in SUBSET T, \A x \in s : f[x] = h[x]
  PROVE  SumOf(f, S)[s] = SumOf(h, T)[s]
<1> DEFINE P == {n \in Nat : \A u \in SUBSET s :
                   Cardinality(u) = n => SumOf(f, S)[u] = SumOf(h, T)[u]}
<1>1. 0 \in P
  BY FS_Subset, FS_EmptySet, SumOfNone
<1>2. ASSUME NEW n \in Nat, n \in P PROVE n + 1 \in P
  <2> SUFFICES ASSUME NEW u \in SUBSET s, Cardinality(u) = n + 1
               PROVE  SumOf(f, S)[u] = SumOf(h, T)[u]
    OBVIOUS
  <2>1. u # {} /\ IsFiniteSet(u) /\ Part(u, S) /\ Part(u, T)
    BY FS_Subset, FS_EmptySet DEF Part
  <2>2. Pick(u) \in u /\ u \ {Pick(u)} \in SUBSET s /\ Cardinality(u \ {Pick(u)}) = n
    BY <2>1, PickIn, Smaller
  <2>3. SumOf(f, S)[u \ {Pick(u)}] = SumOf(h, T)[u \ {Pick(u)}]
    BY Zenon, <1>2, <2>2
  <2>4. SumsPick(f, S, u) /\ SumsPick(h, T, u)
    BY Zenon, <2>1, SumOfPick
  <2> QED BY Zenon, <2>2, <2>3, <2>4 DEF SumsPick
<1>3. Nat \subseteq P
  <2> HIDE DEF P
  <2> QED BY Zenon, <1>1, <1>2, NaturalsAreAll
<1>4. Cardinality(s) \in Nat
  BY Zenon, FS_Subset, FS_CardinalityType
<1> QED BY Zenon, <1>3, <1>4

(* A sum depends on the values at its indices only.                        *)
LEMMA SumLocal ==
  ASSUME NEW f, NEW h, NEW S, IsFiniteSet(S), \A x \in S : f[x] = h[x]
  PROVE  SumFunctionOnSet(f, S) = SumFunctionOnSet(h, S)
<1>1. S \in SUBSET S
  BY Zenon
<1>2. SumOf(f, S)[S] = SumOf(h, S)[S]
  BY <1>1, SumOfLocal
<1> QED BY Zenon, <1>2, SumIsChosen

(* An empty sum is zero.                                                   *)
LEMMA SumEmpty == ASSUME NEW f PROVE SumFunctionOnSet(f, {}) = 0
BY SumIsChosen, SumOfNone, FS_EmptySet

(* The sum over a subset, as the sum over the whole set computes it.       *)
LEMMA SumOfSubset ==
  ASSUME NEW f, NEW S, IsFiniteSet(S), NEW s \in SUBSET S
  PROVE  SumFunctionOnSet(f, s) = SumOf(f, S)[s]
<1>1. IsFiniteSet(s) /\ s \in SUBSET s
  BY Zenon, FS_Subset
<1>2. \A x \in s : f[x] = f[x]
  BY Zenon
<1>3. SumOf(f, s)[s] = SumOf(f, S)[s]
  BY <1>1, <1>2, SumOfLocal
<1> QED BY Zenon, <1>3, SumIsChosen

(* A sum is its first value and the sum over the other indices.            *)
LEMMA SumUnfoldsPick ==
  ASSUME NEW f, NEW S, IsFiniteSet(S), S # {}
  PROVE  SumFunctionOnSet(f, S) = f[Pick(S)] + SumFunctionOnSet(f, S \ {Pick(S)})
<1>0. S \ {Pick(S)} \in SUBSET S /\ S \in SUBSET S
  BY Zenon
<1>1. SumFunctionOnSet(f, S \ {Pick(S)}) = SumOf(f, S)[S \ {Pick(S)}]
  BY Zenon, <1>0, SumOfSubset
<1>2. Part(S, S)
  BY Zenon, <1>0 DEF Part
<1>3. SumsPick(f, S, S)
  BY Zenon, <1>2, SumOfPick
<1> QED BY Zenon, <1>1, <1>3, SumIsChosen DEF SumsPick

(* The sum of integers is an integer, of naturals a natural.               *)
LEMMA SumType ==
  ASSUME NEW f, NEW S, IsFiniteSet(S), NEW V, V \in {Int, Nat}, \A x \in S : f[x] \in V
  PROVE  SumFunctionOnSet(f, S) \in V
<1> DEFINE P == {n \in Nat : \A u \in SUBSET S :
                   Cardinality(u) = n => SumFunctionOnSet(f, u) \in V}
<1>1. 0 \in P
  BY FS_Subset, FS_EmptySet, SumEmpty
<1>2. ASSUME NEW n \in Nat, n \in P PROVE n + 1 \in P
  <2> SUFFICES ASSUME NEW u \in SUBSET S, Cardinality(u) = n + 1
               PROVE  SumFunctionOnSet(f, u) \in V
    OBVIOUS
  <2>1. u # {} /\ IsFiniteSet(u)
    BY FS_Subset, FS_EmptySet
  <2>2. Pick(u) \in u /\ u \ {Pick(u)} \in SUBSET S /\ Cardinality(u \ {Pick(u)}) = n
    BY <2>1, PickIn, Smaller
  <2>3. SumFunctionOnSet(f, u \ {Pick(u)}) \in V /\ f[Pick(u)] \in V
    BY Zenon, <1>2, <2>2
  <2>4. SumFunctionOnSet(f, u) = f[Pick(u)] + SumFunctionOnSet(f, u \ {Pick(u)})
    BY Zenon, <2>1, SumUnfoldsPick
  <2> QED BY <2>3, <2>4
<1>3. Nat \subseteq P
  <2> HIDE DEF P
  <2> QED BY Zenon, <1>1, <1>2, NaturalsAreAll
<1>4. Cardinality(S) \in Nat
  BY Zenon, FS_CardinalityType
<1> QED BY Zenon, <1>3, <1>4

(* An index contributes its value to the sum, whichever index it is.       *)
LEMMA SumElement ==
  ASSUME NEW f, NEW S, IsFiniteSet(S), \A x \in S : f[x] \in Int, NEW x \in S
  PROVE  SumFunctionOnSet(f, S) = f[x] + SumFunctionOnSet(f, S \ {x})
<1> DEFINE P == {n \in Nat : \A u \in SUBSET S : \A y \in u : Cardinality(u) = n =>
                   SumFunctionOnSet(f, u) = f[y] + SumFunctionOnSet(f, u \ {y})}
<1>1. 0 \in P
  BY FS_Subset, FS_EmptySet
<1>2. ASSUME NEW n \in Nat, n \in P PROVE n + 1 \in P
  <2> SUFFICES ASSUME NEW u \in SUBSET S, NEW y \in u, Cardinality(u) = n + 1
               PROVE  SumFunctionOnSet(f, u) = f[y] + SumFunctionOnSet(f, u \ {y})
    OBVIOUS
  <2> DEFINE z == Pick(u)
  <2>1. z \in u /\ IsFiniteSet(u)
    BY Zenon, PickIn, FS_Subset
  <2>2. SumFunctionOnSet(f, u) = f[z] + SumFunctionOnSet(f, u \ {z})
    BY Zenon, <2>1, SumUnfoldsPick
  <2> HIDE DEF z
  <2>3. CASE y = z
    BY Zenon, <2>2, <2>3
  <2>4. CASE y # z
    <3>1. /\ u \ {z} \in SUBSET S /\ y \in u \ {z} /\ Cardinality(u \ {z}) = n
          /\ u \ {y} \in SUBSET S /\ z \in u \ {y} /\ Cardinality(u \ {y}) = n
      BY <2>1, <2>4, Smaller
    <3>2. SumFunctionOnSet(f, u \ {z}) = f[y] + SumFunctionOnSet(f, (u \ {z}) \ {y})
      BY Zenon, <1>2, <3>1
    <3>3. SumFunctionOnSet(f, u \ {y}) = f[z] + SumFunctionOnSet(f, (u \ {y}) \ {z})
      BY Zenon, <1>2, <3>1
    <3>4. (u \ {z}) \ {y} = (u \ {y}) \ {z}
      BY Zenon
    <3>5. SumFunctionOnSet(f, (u \ {y}) \ {z}) \in Int /\ f[y] \in Int /\ f[z] \in Int
      <4>1. IsFiniteSet((u \ {y}) \ {z}) /\ (u \ {y}) \ {z} \in SUBSET S
        BY Zenon, <2>1, FS_Subset
      <4>2. \A w \in (u \ {y}) \ {z} : f[w] \in Int
        BY Zenon
      <4>3. SumFunctionOnSet(f, (u \ {y}) \ {z}) \in Int
        BY <4>1, <4>2, SumType
      <4> QED BY Zenon, <2>1, <4>3
    <3> DEFINE sum == SumFunctionOnSet(f, u)
               sumY == SumFunctionOnSet(f, u \ {y})
               sumZ == SumFunctionOnSet(f, u \ {z})
               rest == SumFunctionOnSet(f, (u \ {y}) \ {z})
    <3>6. /\ sum = f[z] + sumZ /\ sumZ = f[y] + rest /\ sumY = f[z] + rest
          /\ rest \in Int /\ f[y] \in Int /\ f[z] \in Int
      BY Zenon, <2>2, <3>2, <3>3, <3>4, <3>5
    <3> HIDE DEF sum, sumY, sumZ, rest
    <3>7. sum = f[y] + sumY
      BY <3>6
    <3> QED BY Zenon, <3>7 DEF sum, sumY
  <2> QED BY Zenon, <2>3, <2>4
<1>3. Nat \subseteq P
  <2> HIDE DEF P
  <2> QED BY Zenon, <1>1, <1>2, NaturalsAreAll
<1>4. Cardinality(S) \in Nat
  BY Zenon, FS_CardinalityType
<1> QED BY Zenon, <1>3, <1>4

(* A sum is the sum over a part and the sum over the rest.                 *)
LEMMA SumSplits ==
  ASSUME NEW f, NEW S, IsFiniteSet(S), \A x \in S : f[x] \in Int, NEW A \in SUBSET S
  PROVE  SumFunctionOnSet(f, S) = SumFunctionOnSet(f, A) + SumFunctionOnSet(f, S \ A)
<1> DEFINE P == {n \in Nat : \A u \in SUBSET S : Cardinality(u) = n =>
                   SumFunctionOnSet(f, S) = SumFunctionOnSet(f, u) + SumFunctionOnSet(f, S \ u)}
<1>0. \A u \in SUBSET S : SumFunctionOnSet(f, u) \in Int
  BY FS_Subset, SumType
<1>1. 0 \in P
  <2>1. \A u \in SUBSET S : Cardinality(u) = 0 => u = {}
    BY FS_Subset, FS_EmptySet
  <2>2. S \ {} = S /\ SumFunctionOnSet(f, S) \in Int
    BY <1>0
  <2>3. SumFunctionOnSet(f, S) = SumFunctionOnSet(f, {}) + SumFunctionOnSet(f, S \ {})
    BY <2>2, SumEmpty
  <2> QED BY <2>1, <2>3
<1>2. ASSUME NEW n \in Nat, n \in P PROVE n + 1 \in P
  <2> SUFFICES ASSUME NEW u \in SUBSET S, Cardinality(u) = n + 1
               PROVE  SumFunctionOnSet(f, S) = SumFunctionOnSet(f, u) + SumFunctionOnSet(f, S \ u)
    OBVIOUS
  <2>1. u # {} /\ IsFiniteSet(u)
    BY FS_Subset, FS_EmptySet
  <2>2. PICK y \in u : TRUE
    BY Zenon, <2>1
  <2>3. u \ {y} \in SUBSET S /\ Cardinality(u \ {y}) = n
    BY <2>1, Smaller
  <2>4. SumFunctionOnSet(f, S) =
          SumFunctionOnSet(f, u \ {y}) + SumFunctionOnSet(f, S \ (u \ {y}))
    BY Zenon, <1>2, <2>3
  <2>5. SumFunctionOnSet(f, u) = f[y] + SumFunctionOnSet(f, u \ {y})
    BY <2>1, SumElement
  <2>6. SumFunctionOnSet(f, S \ (u \ {y})) = f[y] + SumFunctionOnSet(f, S \ u)
    <3>1. (S \ (u \ {y})) \ {y} = S \ u /\ y \in S \ (u \ {y})
      BY Zenon
    <3>2. IsFiniteSet(S \ (u \ {y}))
      BY Zenon, FS_Difference
    <3>3. SumFunctionOnSet(f, S \ (u \ {y})) = f[y] + SumFunctionOnSet(f, (S \ (u \ {y})) \ {y})
      BY <3>1, <3>2, SumElement
    <3> QED BY Zenon, <3>1, <3>3
  <2>7. /\ SumFunctionOnSet(f, u \ {y}) \in Int /\ SumFunctionOnSet(f, S \ u) \in Int
        /\ f[y] \in Int
    BY Zenon, <1>0
  <2> QED BY <2>4, <2>5, <2>6, <2>7
<1>3. Nat \subseteq P
  <2> HIDE DEF P
  <2> QED BY Zenon, <1>1, <1>2, NaturalsAreAll
<1>4. Cardinality(A) \in Nat
  BY Zenon, FS_Subset, FS_CardinalityType
<1> QED BY Zenon, <1>3, <1>4

(* One more index adds its value.                                          *)
LEMMA SumExtends ==
  ASSUME NEW f, NEW h, NEW S, IsFiniteSet(S), NEW x, x \notin S,
         \A y \in S : f[y] \in Int /\ h[y] = f[y], h[x] \in Int
  PROVE  SumFunctionOnSet(h, S \cup {x}) = SumFunctionOnSet(f, S) + h[x]
<1> DEFINE T == S \cup {x}
<1>1. IsFiniteSet(T) /\ x \in T /\ T \ {x} = S
  BY FS_AddElement
<1>2. \A y \in T : h[y] \in Int
  BY Zenon
<1>3. SumFunctionOnSet(h, T) = h[x] + SumFunctionOnSet(h, T \ {x})
  <2> HIDE DEF T
  <2> QED BY <1>1, <1>2, SumElement
<1>4. SumFunctionOnSet(h, S) = SumFunctionOnSet(f, S)
  BY SumLocal
<1>5. SumFunctionOnSet(f, S) \in Int
  BY SumType
<1>6. SumFunctionOnSet(h, T) = h[x] + SumFunctionOnSet(f, S)
  BY Zenon, <1>1, <1>3, <1>4
<1> HIDE DEF T
<1>7. SumFunctionOnSet(h, T) = SumFunctionOnSet(f, S) + h[x]
  BY <1>5, <1>6
<1> QED BY Zenon, <1>7 DEF T

(* One index less takes its value.                                         *)
LEMMA SumShrinks ==
  ASSUME NEW f, NEW h, NEW S, IsFiniteSet(S), NEW x \in S,
         \A y \in S : f[y] \in Int, \A y \in S \ {x} : h[y] = f[y]
  PROVE  SumFunctionOnSet(h, S \ {x}) = SumFunctionOnSet(f, S) - f[x]
<1>1. SumFunctionOnSet(f, S) = f[x] + SumFunctionOnSet(f, S \ {x})
  BY SumElement
<1>2. IsFiniteSet(S \ {x})
  BY Zenon, FS_Difference
<1>3. SumFunctionOnSet(h, S \ {x}) = SumFunctionOnSet(f, S \ {x})
  BY <1>2, SumLocal
<1>4. SumFunctionOnSet(f, S \ {x}) \in Int
  BY <1>2, SumType
<1>5. f[x] \in Int
  BY Zenon
<1> QED BY <1>1, <1>3, <1>4, <1>5

(* A sum follows a change of the value at one index.                       *)
LEMMA SumChanges ==
  ASSUME NEW f, NEW h, NEW S, IsFiniteSet(S), NEW x \in S,
         \A y \in S : f[y] \in Int, h[x] \in Int, \A y \in S \ {x} : h[y] = f[y]
  PROVE  SumFunctionOnSet(h, S) = SumFunctionOnSet(f, S) - f[x] + h[x]
<1>1. SumFunctionOnSet(f, S) = f[x] + SumFunctionOnSet(f, S \ {x})
  BY SumElement
<1>2. \A y \in S : h[y] \in Int
  BY Zenon
<1>3. SumFunctionOnSet(h, S) = h[x] + SumFunctionOnSet(h, S \ {x})
  BY <1>2, SumElement
<1>4. IsFiniteSet(S \ {x})
  BY Zenon, FS_Difference
<1>5. SumFunctionOnSet(h, S \ {x}) = SumFunctionOnSet(f, S \ {x})
  BY <1>4, SumLocal
<1>6. SumFunctionOnSet(f, S \ {x}) \in Int /\ f[x] \in Int
  BY <1>4, SumType
<1> QED BY <1>1, <1>3, <1>5, <1>6

(* A sum is zero when every value is.                                      *)
LEMMA SumOfZeros ==
  ASSUME NEW f, NEW S, IsFiniteSet(S), \A x \in S : f[x] = 0
  PROVE  SumFunctionOnSet(f, S) = 0
<1> DEFINE P == {n \in Nat : \A u \in SUBSET S : Cardinality(u) = n => SumFunctionOnSet(f, u) = 0}
<1>1. 0 \in P
  BY FS_Subset, FS_EmptySet, SumEmpty
<1>2. ASSUME NEW n \in Nat, n \in P PROVE n + 1 \in P
  <2> SUFFICES ASSUME NEW u \in SUBSET S, Cardinality(u) = n + 1
               PROVE  SumFunctionOnSet(f, u) = 0
    OBVIOUS
  <2>1. u # {} /\ IsFiniteSet(u)
    BY FS_Subset, FS_EmptySet
  <2>2. Pick(u) \in u /\ u \ {Pick(u)} \in SUBSET S /\ Cardinality(u \ {Pick(u)}) = n
    BY <2>1, PickIn, Smaller
  <2>3. SumFunctionOnSet(f, u \ {Pick(u)}) = 0 /\ f[Pick(u)] = 0
    BY Zenon, <1>2, <2>2
  <2>4. SumFunctionOnSet(f, u) = f[Pick(u)] + SumFunctionOnSet(f, u \ {Pick(u)})
    BY Zenon, <2>1, SumUnfoldsPick
  <2> QED BY <2>3, <2>4
<1>3. Nat \subseteq P
  <2> HIDE DEF P
  <2> QED BY Zenon, <1>1, <1>2, NaturalsAreAll
<1>4. Cardinality(S) \in Nat
  BY Zenon, FS_CardinalityType
<1> QED BY Zenon, <1>3, <1>4

====
