----------------------------- MODULE SumTheorems -----------------------------
(***************************************************************************)
(* What SumOver comes to: nothing for no elements, one value more for one  *)
(* element more, whichever order the fold takes them in; and what a queue  *)
(* weighs, element by element.                                             *)
(*                                                                         *)
(* The fold's recursive function takes the elements one by one. That there *)
(* is such a function is proved by induction on the size of the set, in    *)
(* its first-order form: the sizes up to which it exists are all of Nat.   *)
(***************************************************************************)
EXTENDS Sums, FiniteSetTheorems, SequenceTheorems, WellFoundedInduction, TLAPS

(* A set of natural numbers that is not empty has a least element.         *)
LEMMA LeastNat ==
  ASSUME NEW T \in SUBSET Nat, T # {}
  PROVE  \E n \in T : \A m \in T : n <= m
<1>1. PICK n \in T : \A m \in T : ~(<<m, n>> \in OpToRel(<, Nat))
  BY NatLessThanWellFounded, WFMin, Zenon
<1>2. \A m \in T : ~(m < n)
  BY <1>1 DEF OpToRel
<1> QED BY <1>2

(* Induction: a set with 0, and with the successor of each of its numbers, *)
(* has them all.                                                           *)
LEMMA SetInduction ==
  ASSUME NEW T, 0 \in T, \A n \in Nat : n \in T => n + 1 \in T
  PROVE  Nat \subseteq T
<1> SUFFICES ASSUME Nat \ T # {} PROVE FALSE
  OBVIOUS
<1>1. PICK n \in Nat \ T : \A m \in Nat \ T : n <= m
  BY LeastNat
<1>2. n # 0 /\ n - 1 \in Nat
  BY <1>1
<1>3. n - 1 \in T
  BY <1>1, <1>2
<1> QED BY <1>2, <1>3

-----------------------------------------------------------------------------
(* The recursive function of the fold                                      *)

First(S) == CHOOSE x \in S : TRUE

\* One step of the recursion, from the sums g of smaller sets.
Step(g, f, s) == IF s = {} THEN 0 ELSE f[First(s)] + g[s \ {First(s)}]

Recurses(g, f, S) == g = [s \in SUBSET S |-> Step(g, f, s)]

Recursive(f, S) == CHOOSE g : Recurses(g, f, S)

(* The sum is a value of the fold's function.                              *)
LEMMA SumUnfolded ==
  ASSUME NEW f, NEW S
  PROVE  SumOver(f, S) = Recursive(f, S)[S]
BY DEF SumOver, MapThenSumSet, MapThenFoldSet, First, Step, Recurses, Recursive

(* One element less.                                                       *)
LEMMA OneLess ==
  ASSUME NEW S, IsFiniteSet(S), NEW x \in S
  PROVE  /\ IsFiniteSet(S \ {x}) /\ Cardinality(S \ {x}) = Cardinality(S) - 1
         /\ Cardinality(S) \in Nat /\ Cardinality(S \ {x}) \in Nat
BY FS_RemoveElement, FS_CardinalityType

(* There is such a function over the subsets of a finite set.              *)
LEMMA RecursionExists ==
  ASSUME NEW D, NEW f \in [D -> Int], NEW S \in SUBSET D, IsFiniteSet(S)
  PROVE  \E g \in [SUBSET S -> Int] : Recurses(g, f, S)
<1> DEFINE UpTo(g, n) == \A s \in SUBSET S : Cardinality(s) <= n => g[s] = Step(g, f, s)
           T == {n \in Nat : \E g \in [SUBSET S -> Int] : UpTo(g, n)}
<1>1. \A s \in SUBSET S : IsFiniteSet(s) /\ Cardinality(s) \in Nat /\ Cardinality(s) <= Cardinality(S)
  BY FS_Subset, FS_CardinalityType
<1>2. \A s \in SUBSET S : s # {} => First(s) \in s /\ f[First(s)] \in Int
  BY DEF First
<1>3. 0 \in T
  <2> DEFINE g == [s \in SUBSET S |-> 0]
  <2>1. g \in [SUBSET S -> Int] /\ UpTo(g, 0)
    BY <1>1, FS_EmptySet DEF Step
  <2> HIDE DEF g
  <2> QED BY <2>1
<1>4. ASSUME NEW n \in Nat, n \in T PROVE n + 1 \in T
  <2>1. PICK g \in [SUBSET S -> Int] : UpTo(g, n)
    BY <1>4
  <2> DEFINE h == [s \in SUBSET S |-> Step(g, f, s)]
  <2>2. h \in [SUBSET S -> Int]
    BY <1>2 DEF Step
  <2>3. ASSUME NEW s \in SUBSET S, Cardinality(s) <= n + 1 PROVE h[s] = Step(h, f, s)
    <3>1. CASE s = {}
      BY <3>1 DEF Step
    <3>2. CASE s # {}
      <4> DEFINE x == First(s)
                 r == s \ {x}
      <4>1. x \in s
        BY <1>2, <3>2
      <4>2. r \in SUBSET S /\ Cardinality(r) <= n
        BY <1>1, <2>3, <4>1, OneLess
      <4>3. g[r] = h[r]
        BY <2>1, <4>2
      <4> QED BY <3>2, <4>3 DEF Step
    <3> QED BY <3>1, <3>2
  <2>4. UpTo(h, n + 1)
    BY <2>3
  <2> HIDE DEF h
  <2> QED BY <2>2, <2>4
<1>5. Cardinality(S) \in T
  <2> HIDE DEF T
  <2>1. Nat \subseteq T
    BY <1>3, <1>4, SetInduction
  <2> QED BY <1>1, <2>1
<1>6. PICK g \in [SUBSET S -> Int] : UpTo(g, Cardinality(S))
  BY <1>5
<1>7. g = [s \in SUBSET S |-> Step(g, f, s)]
  BY <1>1, <1>6
<1> QED BY <1>7 DEF Recurses

(* The function the fold takes is one.                                     *)
LEMMA RecursionHolds ==
  ASSUME NEW D, NEW f \in [D -> Int], NEW S \in SUBSET D, IsFiniteSet(S)
  PROVE  Recurses(Recursive(f, S), f, S)
BY RecursionExists DEF Recursive

(* Two such functions agree on the sets both are defined for.              *)
LEMMA RecursionUnique ==
  ASSUME NEW f, NEW S, NEW R, R \subseteq S, IsFiniteSet(R), NEW g, NEW h,
         Recurses(g, f, S), Recurses(h, f, R)
  PROVE  g[R] = h[R]
<1> DEFINE T == {n \in Nat : \A s \in SUBSET R : Cardinality(s) <= n => g[s] = h[s]}
<1>1. \A s \in SUBSET R : IsFiniteSet(s) /\ Cardinality(s) \in Nat
  BY FS_Subset, FS_CardinalityType
<1>2. \A s \in SUBSET R : g[s] = Step(g, f, s) /\ h[s] = Step(h, f, s)
  BY DEF Recurses
<1>3. 0 \in T
  BY <1>1, <1>2, FS_EmptySet DEF Step
<1>4. ASSUME NEW n \in Nat, n \in T PROVE n + 1 \in T
  <2> SUFFICES ASSUME NEW s \in SUBSET R, Cardinality(s) <= n + 1 PROVE g[s] = h[s]
    OBVIOUS
  <2>1. CASE s = {}
    BY <1>2, <2>1 DEF Step
  <2>2. CASE s # {}
    <3> DEFINE x == First(s)
               r == s \ {x}
    <3>1. x \in s
      BY <2>2 DEF First
    <3>2. r \in SUBSET R /\ Cardinality(r) <= n
      BY <1>1, <3>1, OneLess
    <3>3. g[r] = h[r]
      BY <1>4, <3>2
    <3> QED BY <1>2, <2>2, <3>3 DEF Step
  <2> QED BY <2>1, <2>2
<1>5. Cardinality(R) \in T
  <2> HIDE DEF T
  <2>1. Nat \subseteq T
    BY <1>3, <1>4, SetInduction
  <2> QED BY <1>1, <2>1
<1> QED BY <1>1, <1>5

-----------------------------------------------------------------------------
(* Sums                                                                    *)

(* The sum of no values.                                                   *)
LEMMA SumEmpty ==
  ASSUME NEW D, NEW f \in [D -> Int]
  PROVE  SumOver(f, {}) = 0
<1>1. Recurses(Recursive(f, {}), f, {})
  BY FS_EmptySet, RecursionHolds
<1> QED BY <1>1, SumUnfolded DEF Recurses, Step

(* The fold takes its first element, then sums the others.                 *)
LEMMA SumFirst ==
  ASSUME NEW D, NEW f \in [D -> Int], NEW S \in SUBSET D, IsFiniteSet(S), S # {}
  PROVE  SumOver(f, S) = f[First(S)] + SumOver(f, S \ {First(S)})
<1> DEFINE x == First(S)
           R == S \ {x}
<1>1. x \in S /\ IsFiniteSet(R) /\ R \in SUBSET D
  BY OneLess DEF First
<1>2. Recurses(Recursive(f, S), f, S) /\ Recurses(Recursive(f, R), f, R)
  BY <1>1, RecursionHolds
<1>3. Recursive(f, S)[R] = Recursive(f, R)[R]
  BY <1>1, <1>2, RecursionUnique
<1>4. Recursive(f, S)[S] = f[x] + Recursive(f, S)[R]
  BY <1>2 DEF Recurses, Step
<1> QED BY <1>3, <1>4, SumUnfolded

(* A sum of integers is an integer.                                        *)
LEMMA SumType ==
  ASSUME NEW D, NEW f \in [D -> Int], NEW S \in SUBSET D, IsFiniteSet(S)
  PROVE  SumOver(f, S) \in Int
<1>1. PICK g \in [SUBSET S -> Int] : Recurses(g, f, S)
  BY RecursionExists
<1>2. g[S] = Recursive(f, S)[S]
  BY <1>1, RecursionHolds, RecursionUnique
<1> QED BY <1>1, <1>2, SumUnfolded

(* Any element may be taken first.                                         *)
LEMMA SumRemove ==
  ASSUME NEW D, NEW f \in [D -> Int], NEW S \in SUBSET D, IsFiniteSet(S), NEW x \in S
  PROVE  SumOver(f, S) = f[x] + SumOver(f, S \ {x})
<1> DEFINE T == {n \in Nat : \A s \in SUBSET S, z \in S :
                   Cardinality(s) <= n /\ z \in s => SumOver(f, s) = f[z] + SumOver(f, s \ {z})}
<1>1. \A s \in SUBSET S : IsFiniteSet(s) /\ Cardinality(s) \in Nat /\ SumOver(f, s) \in Int
  BY FS_Subset, FS_CardinalityType, SumType
<1>2. 0 \in T
  BY <1>1, FS_EmptySet
<1>3. ASSUME NEW n \in Nat, n \in T PROVE n + 1 \in T
  <2> SUFFICES ASSUME NEW s \in SUBSET S, NEW z \in S, Cardinality(s) <= n + 1, z \in s
               PROVE  SumOver(f, s) = f[z] + SumOver(f, s \ {z})
    OBVIOUS
  <2> DEFINE y == First(s)
             s1 == s \ {y}
             s2 == s \ {z}
             r == s1 \ {z}
  <2>1. y \in s /\ y \in S
    BY DEF First
  <2>2. SumOver(f, s) = f[y] + SumOver(f, s1)
    BY <1>1, SumFirst
  <2>3. CASE z = y
    BY <2>2, <2>3
  <2>4. CASE z # y
    <3>1. s1 \in SUBSET S /\ s2 \in SUBSET S /\ r \in SUBSET S /\ r = s2 \ {y}
      OBVIOUS
    <3>2. Cardinality(s1) <= n /\ Cardinality(s2) <= n
      BY <1>1, <2>1, OneLess
    <3>3. SumOver(f, s1) = f[z] + SumOver(f, r)
      BY <1>3, <2>4, <3>1, <3>2
    <3>4. SumOver(f, s2) = f[y] + SumOver(f, r)
      BY <1>3, <2>1, <2>4, <3>1, <3>2
    <3>5. f[y] \in Int /\ f[z] \in Int /\ SumOver(f, r) \in Int
      BY <1>1, <2>1, <3>1
    <3> HIDE DEF y, s1, s2, r
    <3>6. SumOver(f, s) = f[z] + SumOver(f, s2)
      BY <2>2, <3>3, <3>4, <3>5
    <3> QED BY <3>6 DEF s2
  <2> QED BY <2>3, <2>4
<1>4. Cardinality(S) \in T
  <2> HIDE DEF T
  <2>1. Nat \subseteq T
    BY <1>2, <1>3, SetInduction
  <2> QED BY <1>1, <2>1
<1> QED BY <1>1, <1>4

(* One element more adds its value.                                        *)
LEMMA SumAdd ==
  ASSUME NEW D, NEW f \in [D -> Int], NEW S \in SUBSET D, IsFiniteSet(S), NEW x \in D, x \notin S
  PROVE  SumOver(f, S \cup {x}) = SumOver(f, S) + f[x]
<1> DEFINE R == S \cup {x}
<1>1. R \in SUBSET D /\ IsFiniteSet(R) /\ x \in R /\ R \ {x} = S
  BY FS_AddElement
<1>2. SumOver(f, R) = f[x] + SumOver(f, S)
  BY <1>1, SumRemove
<1> QED BY <1>2, SumType

(* Equal values have one sum, whatever functions they are values of.       *)
LEMMA SumSame ==
  ASSUME NEW D, NEW f \in [D -> Int], NEW E, NEW g \in [E -> Int],
         NEW S, S \subseteq D, S \subseteq E, IsFiniteSet(S), \A x \in S : f[x] = g[x]
  PROVE  SumOver(f, S) = SumOver(g, S)
<1> DEFINE T == {n \in Nat : \A s \in SUBSET S :
                   Cardinality(s) <= n => SumOver(f, s) = SumOver(g, s)}
<1>1. \A s \in SUBSET S : IsFiniteSet(s) /\ Cardinality(s) \in Nat
  BY FS_Subset, FS_CardinalityType
<1>2. 0 \in T
  BY <1>1, FS_EmptySet, SumEmpty
<1>3. ASSUME NEW n \in Nat, n \in T PROVE n + 1 \in T
  <2> SUFFICES ASSUME NEW s \in SUBSET S, Cardinality(s) <= n + 1
               PROVE  SumOver(f, s) = SumOver(g, s)
    OBVIOUS
  <2>1. CASE s = {}
    BY <2>1, SumEmpty
  <2>2. CASE s # {}
    <3>1. PICK x \in s : TRUE
      BY <2>2
    <3> DEFINE r == s \ {x}
    <3>2. r \in SUBSET S /\ Cardinality(r) <= n
      BY <1>1, OneLess
    <3>3. SumOver(f, r) = SumOver(g, r)
      BY <1>3, <3>2
    <3>4. SumOver(f, s) = f[x] + SumOver(f, r) /\ SumOver(g, s) = g[x] + SumOver(g, r)
      BY <1>1, SumRemove
    <3> QED BY <3>3, <3>4
  <2> QED BY <2>1, <2>2
<1>4. Cardinality(S) \in T
  <2> HIDE DEF T
  <2>1. Nat \subseteq T
    BY <1>2, <1>3, SetInduction
  <2> QED BY <1>1, <2>1
<1> QED BY <1>1, <1>4

(* Values that are not negative have no negative sum.                      *)
LEMMA SumNat ==
  ASSUME NEW D, NEW f \in [D -> Int], NEW S \in SUBSET D, IsFiniteSet(S),
         \A x \in S : f[x] \in Nat
  PROVE  SumOver(f, S) \in Nat
<1> DEFINE T == {n \in Nat : \A s \in SUBSET S : Cardinality(s) <= n => SumOver(f, s) \in Nat}
<1>1. \A s \in SUBSET S : IsFiniteSet(s) /\ Cardinality(s) \in Nat
  BY FS_Subset, FS_CardinalityType
<1>2. 0 \in T
  BY <1>1, FS_EmptySet, SumEmpty
<1>3. ASSUME NEW n \in Nat, n \in T PROVE n + 1 \in T
  <2> SUFFICES ASSUME NEW s \in SUBSET S, Cardinality(s) <= n + 1 PROVE SumOver(f, s) \in Nat
    OBVIOUS
  <2>1. CASE s = {}
    BY <2>1, SumEmpty
  <2>2. CASE s # {}
    <3>1. PICK x \in s : TRUE
      BY <2>2
    <3> DEFINE r == s \ {x}
    <3>2. r \in SUBSET S /\ Cardinality(r) <= n
      BY <1>1, OneLess
    <3>3. SumOver(f, r) \in Nat
      BY <1>3, <3>2
    <3>4. SumOver(f, s) = f[x] + SumOver(f, r)
      BY <1>1, SumRemove
    <3> QED BY <3>3, <3>4
  <2> QED BY <2>1, <2>2
<1>4. Cardinality(S) \in T
  <2> HIDE DEF T
  <2>1. Nat \subseteq T
    BY <1>2, <1>3, SetInduction
  <2> QED BY <1>1, <2>1
<1> QED BY <1>1, <1>4

(* One value is another.                                                   *)
LEMMA SumChange ==
  ASSUME NEW D, NEW f \in [D -> Int], NEW g \in [D -> Int], NEW S \in SUBSET D, IsFiniteSet(S),
         NEW x \in S, \A y \in S \ {x} : g[y] = f[y]
  PROVE  SumOver(g, S) = SumOver(f, S) - f[x] + g[x]
<1> DEFINE R == S \ {x}
<1>1. IsFiniteSet(R) /\ R \in SUBSET D
  BY OneLess
<1>2. SumOver(f, S) = f[x] + SumOver(f, R) /\ SumOver(g, S) = g[x] + SumOver(g, R)
  BY SumRemove
<1>3. SumOver(g, R) = SumOver(f, R) /\ SumOver(f, R) \in Int
  BY <1>1, SumSame, SumType
<1> HIDE DEF R
<1> QED BY <1>2, <1>3

\* g is f with an amount added to one value.
Adds(g, f, D, x, a) ==
  /\ f \in [D -> Int] /\ g \in [D -> Int] /\ a \in Int
  /\ \A y \in D : g[y] = f[y] + (IF y = x THEN a ELSE 0)

(* The sum has it too, if there is such a value.                           *)
LEMMA SumPlus ==
  ASSUME NEW g, NEW f, NEW D, NEW x, NEW a, IsFiniteSet(D), Adds(g, f, D, x, a)
  PROVE  SumOver(g, D) = SumOver(f, D) + (IF x \in D THEN a ELSE 0)
<1>0. /\ f \in [D -> Int] /\ g \in [D -> Int] /\ a \in Int
      /\ \A y \in D : g[y] = f[y] + (IF y = x THEN a ELSE 0)
  BY DEF Adds
<1>1. SumOver(f, D) \in Int /\ SumOver(g, D) \in Int
  BY <1>0, SumType
<1>2. CASE x \in D
  <2>1. SumOver(g, D) = SumOver(f, D) - f[x] + g[x]
    <3>1. \A y \in D \ {x} : g[y] = f[y]
      BY <1>0
    <3> QED BY <1>0, <1>2, <3>1, SumChange
  <2> QED BY <1>0, <1>1, <1>2, <2>1
<1>3. CASE x \notin D
  <2>1. \A y \in D : f[y] = g[y]
    BY <1>0, <1>3
  <2>2. SumOver(f, D) = SumOver(g, D)
    BY <1>0, <2>1, SumSame
  <2> QED BY <1>1, <1>3, <2>2
<1> QED BY <1>2, <1>3

(* The values of a sequence as far as m, and one further.                  *)
LEMMA SumFurther ==
  ASSUME NEW D, NEW f \in [D -> Int], NEW m \in Nat, 1..(m + 1) \in SUBSET D
  PROVE  SumOver(f, 1..(m + 1)) = SumOver(f, 1..m) + f[m + 1]
<1>1. ASSUME NEW R \in SUBSET D, IsFiniteSet(R), NEW x \in D, x \notin R
      PROVE  SumOver(f, R \cup {x}) = SumOver(f, R) + f[x]
  BY <1>1, SumAdd
<1>2. (1..m) \cup {m + 1} = 1..(m + 1) /\ m + 1 \in 1..(m + 1) /\ m + 1 \notin 1..m
  OBVIOUS
<1>3. 1..m \in SUBSET D /\ m + 1 \in D /\ IsFiniteSet(1..m)
  BY <1>2, FS_Interval
<1>4. SumOver(f, (1..m) \cup {m + 1}) = SumOver(f, 1..m) + f[m + 1]
  BY <1>1, <1>2, <1>3
<1> QED BY <1>2, <1>4

\* f is defined for the indices of a sequence of n + 1 elements, g for those of
\* one that is f without its last element,
Extends(f, F, g, G, n) ==
  /\ n \in Nat /\ F = 1..(n + 1) /\ G = 1..n
  /\ f \in [F -> Int] /\ g \in [G -> Int]
  /\ \A i \in G : f[i] = g[i]

\* or without its first.
Precedes(f, F, g, G, n) ==
  /\ n \in Nat /\ F = 1..(n + 1) /\ G = 1..n
  /\ f \in [F -> Int] /\ g \in [G -> Int]
  /\ \A i \in G : g[i] = f[i + 1]

(* The values of a sequence with one more at its end,                      *)
LEMMA SumAppended ==
  ASSUME NEW f, NEW F, NEW g, NEW G, NEW n, Extends(f, F, g, G, n)
  PROVE  SumOver(f, F) = SumOver(g, G) + f[n + 1]
<1>0. f \in [F -> Int] /\ g \in [G -> Int] /\ \A i \in G : f[i] = g[i]
  BY DEF Extends
<1>1. IsFiniteSet(G)
  BY FS_Interval DEF Extends
<1>2. G \in SUBSET F /\ n + 1 \in F /\ n + 1 \notin G /\ F = G \cup {n + 1}
  BY DEF Extends
<1>3. SumOver(f, G \cup {n + 1}) = SumOver(f, G) + f[n + 1]
  BY <1>0, <1>1, <1>2, SumAdd
<1>4. SumOver(f, G) = SumOver(g, G)
  BY <1>0, <1>1, <1>2, SumSame
<1> QED BY <1>2, <1>3, <1>4

(* and of one without its first.                                           *)
LEMMA SumShifted ==
  ASSUME NEW f, NEW F, NEW g, NEW G, NEW n, Precedes(f, F, g, G, n)
  PROVE  SumOver(f, F) = f[1] + SumOver(g, G)
<1>0. n \in Nat /\ f \in [F -> Int] /\ g \in [G -> Int] /\ \A i \in G : g[i] = f[i + 1]
  BY DEF Precedes
<1> DEFINE T == {m \in Nat : m <= n => SumOver(f, 1..(m + 1)) = f[1] + SumOver(g, 1..m)}
<1>1. ASSUME NEW m \in Nat, m <= n PROVE SumOver(f, 1..(m + 1)) = SumOver(f, 1..m) + f[m + 1]
  <2>1. 1..(m + 1) \in SUBSET F
    BY <1>0, <1>1 DEF Precedes
  <2> QED BY <1>0, <2>1, SumFurther
<1>2. ASSUME NEW m \in Nat, m < n PROVE SumOver(g, 1..(m + 1)) = SumOver(g, 1..m) + g[m + 1]
  <2>1. 1..(m + 1) \in SUBSET G
    BY <1>0, <1>2 DEF Precedes
  <2> QED BY <1>0, <2>1, SumFurther
<1>3. 0 \in T
  <2>1. 1..0 = {} /\ 0 <= n /\ 0 + 1 = 1 /\ f[1] \in Int
    BY DEF Precedes
  <2>2. SumOver(f, {}) = 0 /\ SumOver(g, {}) = 0
    BY <1>0, SumEmpty
  <2>3. SumOver(f, 1..(0 + 1)) = SumOver(f, 1..0) + f[0 + 1]
    BY <1>1, <2>1, Zenon
  <2> QED BY <2>1, <2>2, <2>3
<1>4. ASSUME NEW m \in Nat, m \in T PROVE m + 1 \in T
  <2> SUFFICES ASSUME m + 1 <= n
               PROVE  SumOver(f, 1..((m + 1) + 1)) = f[1] + SumOver(g, 1..(m + 1))
    OBVIOUS
  <2>1. m < n /\ m <= n /\ m + 1 \in Nat /\ m + 1 \in G
    BY DEF Precedes
  <2>2. SumOver(f, 1..((m + 1) + 1)) = SumOver(f, 1..(m + 1)) + f[(m + 1) + 1]
    BY <1>1, <2>1
  <2>3. SumOver(g, 1..(m + 1)) = SumOver(g, 1..m) + g[m + 1]
    BY <1>2, <2>1
  <2>4. SumOver(f, 1..(m + 1)) = f[1] + SumOver(g, 1..m) /\ g[m + 1] = f[(m + 1) + 1]
    BY <1>0, <1>4, <2>1
  <2>5. SumOver(g, 1..m) \in Int
    <3>0. IsFiniteSet(1..m)
      BY FS_Interval
    <3>1. 1..m \in SUBSET G
      BY <1>0, <2>1 DEF Precedes
    <3> QED BY <1>0, <3>0, <3>1, SumType
  <2>6. f[1] \in Int /\ g[m + 1] \in Int
    BY <1>0, <2>1 DEF Precedes
  <2> QED BY <2>2, <2>3, <2>4, <2>5, <2>6
<1>5. n \in T
  <2> HIDE DEF T
  <2> QED BY <1>0, <1>3, <1>4, SetInduction
<1> QED BY <1>0, <1>5 DEF Precedes

-----------------------------------------------------------------------------
(* Along a queue                                                           *)

\* What the elements of a queue weigh together.
Along(u, q) == SumOver([i \in DOMAIN q |-> u[q[i]]], DOMAIN q)

LEMMA AlongType ==
  ASSUME NEW S, NEW u \in [S -> Nat], NEW q \in Seq(S)
  PROVE  /\ IsFiniteSet(DOMAIN q) /\ Along(u, q) \in Nat
         /\ [i \in DOMAIN q |-> u[q[i]]] \in [DOMAIN q -> Nat]
<1> DEFINE f == [i \in DOMAIN q |-> u[q[i]]]
<1>1. Len(q) \in Nat /\ DOMAIN q = 1..Len(q)
  BY LenProperties
<1>2. IsFiniteSet(DOMAIN q)
  BY <1>1, FS_Interval
<1>3. \A i \in DOMAIN q : q[i] \in S
  BY <1>1, ElementOfSeq
<1>4. f \in [DOMAIN q -> Nat]
  BY <1>3
<1>5. f \in [DOMAIN q -> Int]
  BY <1>4
<1>6. Along(u, q) = SumOver(f, DOMAIN q)
  BY DEF Along
<1> HIDE DEF f
<1>7. SumOver(f, DOMAIN q) \in Nat
  BY <1>2, <1>4, <1>5, SumNat
<1> QED BY <1>2, <1>4, <1>6, <1>7 DEF f

(* Nothing is along an empty queue, which                                  *)
LEMMA AlongNone ==
  ASSUME NEW S, NEW u \in [S -> Nat]
  PROVE  Along(u, <<>>) = 0
<1>1. PICK q \in Seq(S) : q = <<>>
  BY EmptySeq
<1>2. PICK f : f = [i \in DOMAIN q |-> u[q[i]]]
  OBVIOUS
<1>3. f \in [DOMAIN q -> Nat]
  BY <1>2, AlongType
<1>4. f \in [DOMAIN q -> Int]
  BY <1>3
<1>5. DOMAIN q = {}
  BY <1>1, EmptySeq
<1>6. SumOver(f, {}) = 0
  BY <1>4, SumEmpty
<1> QED BY <1>1, <1>2, <1>5, <1>6 DEF Along

(* grows at its end                                                        *)
LEMMA AlongAppend ==
  ASSUME NEW S, NEW u \in [S -> Nat], NEW q \in Seq(S), NEW e \in S
  PROVE  Along(u, Append(q, e)) = Along(u, q) + u[e]
<1>1. /\ Append(q, e) \in Seq(S) /\ Len(Append(q, e)) = Len(q) + 1
      /\ Append(q, e)[Len(q) + 1] = e /\ \A i \in 1..Len(q) : Append(q, e)[i] = q[i]
  BY AppendProperties
<1>2. PICK r, F : r = Append(q, e) /\ F = DOMAIN r
  OBVIOUS
<1>3. PICK n, G : n = Len(q) /\ G = DOMAIN q
  OBVIOUS
<1>4. n \in Nat /\ G = 1..n /\ F = 1..(n + 1)
  BY <1>1, <1>2, <1>3, LenProperties
<1>5. r \in Seq(S) /\ r[n + 1] = e /\ \A i \in G : r[i] = q[i]
  BY <1>1, <1>2, <1>3, <1>4
<1>6. PICK f : f = [i \in F |-> u[r[i]]]
  OBVIOUS
<1>7. PICK g : g = [i \in G |-> u[q[i]]]
  OBVIOUS
<1>8. f \in [F -> Nat] /\ g \in [G -> Nat]
  BY <1>2, <1>3, <1>5, <1>6, <1>7, AlongType
<1>9. f \in [F -> Int] /\ g \in [G -> Int]
  BY <1>8
<1>10. n + 1 \in F /\ G \subseteq F
  BY <1>4
<1>11. f[n + 1] = u[e] /\ \A i \in G : f[i] = g[i]
  BY <1>5, <1>6, <1>7, <1>10
<1>12. SumOver(f, F) = SumOver(g, G) + f[n + 1]
  <2>1. Extends(f, F, g, G, n)
    BY <1>4, <1>9, <1>11 DEF Extends
  <2> QED BY <2>1, SumAppended
<1>13. Along(u, r) = SumOver(f, F) /\ Along(u, q) = SumOver(g, G)
  BY <1>2, <1>3, <1>6, <1>7 DEF Along
<1> QED BY <1>2, <1>11, <1>12, <1>13

(* and shrinks at its front.                                               *)
LEMMA AlongTail ==
  ASSUME NEW S, NEW u \in [S -> Nat], NEW q \in Seq(S), q # <<>>
  PROVE  Along(u, q) = u[Head(q)] + Along(u, Tail(q))
<1>1. PICK r, G : r = Tail(q) /\ G = DOMAIN r
  OBVIOUS
<1>2. PICK n, F : n = Len(q) - 1 /\ F = DOMAIN q
  OBVIOUS
<1>a. /\ Len(q) \in Nat /\ Len(q) # 0 /\ F = 1..Len(q) /\ Head(q) = q[1]
      /\ r \in Seq(S) /\ Len(r) = Len(q) - 1 /\ \A i \in 1..Len(r) : r[i] = q[i + 1]
  BY <1>1, <1>2, EmptySeq, LenProperties, HeadTailProperties
<1>3. n \in Nat /\ F = 1..(n + 1) /\ G = 1..n /\ n = Len(r)
  BY <1>1, <1>2, <1>a, LenProperties
<1>4. r \in Seq(S) /\ q[1] = Head(q) /\ \A i \in G : r[i] = q[i + 1]
  BY <1>3, <1>a
<1>5. PICK f : f = [i \in F |-> u[q[i]]]
  OBVIOUS
<1>6. PICK g : g = [i \in G |-> u[r[i]]]
  OBVIOUS
<1>7. f \in [F -> Nat] /\ g \in [G -> Nat]
  BY <1>1, <1>2, <1>4, <1>5, <1>6, AlongType
<1>8. f \in [F -> Int] /\ g \in [G -> Int]
  BY <1>7
<1>9. 1 \in F /\ \A i \in G : i + 1 \in F
  BY <1>3
<1>10. f[1] = u[Head(q)] /\ \A i \in G : g[i] = f[i + 1]
  BY <1>4, <1>5, <1>6, <1>9
<1>11. SumOver(f, F) = f[1] + SumOver(g, G)
  <2>1. Precedes(f, F, g, G, n)
    BY <1>3, <1>8, <1>10 DEF Precedes
  <2> QED BY <2>1, SumShifted
<1>12. Along(u, q) = SumOver(f, F) /\ Along(u, r) = SumOver(g, G)
  BY <1>1, <1>2, <1>5, <1>6 DEF Along
<1> QED BY <1>1, <1>10, <1>11, <1>12

(* It is the same for two queues of elements that weigh the same.          *)
LEMMA AlongSame ==
  ASSUME NEW S, NEW u \in [S -> Nat], NEW q \in Seq(S), NEW r \in Seq(S),
         DOMAIN q = DOMAIN r, \A i \in DOMAIN q : u[q[i]] = u[r[i]]
  PROVE  Along(u, q) = Along(u, r)
<1>1. PICK f, g : f = [i \in DOMAIN q |-> u[q[i]]] /\ g = [i \in DOMAIN r |-> u[r[i]]]
  OBVIOUS
<1>2. /\ IsFiniteSet(DOMAIN q) /\ f \in [DOMAIN q -> Nat] /\ g \in [DOMAIN r -> Nat]
      /\ Along(u, q) = SumOver(f, DOMAIN q) /\ Along(u, r) = SumOver(g, DOMAIN r)
  <2>1. IsFiniteSet(DOMAIN q) /\ [i \in DOMAIN q |-> u[q[i]]] \in [DOMAIN q -> Nat]
    BY AlongType
  <2>2. [i \in DOMAIN r |-> u[r[i]]] \in [DOMAIN r -> Nat]
    BY AlongType
  <2>3. Along(u, q) = SumOver(f, DOMAIN q) /\ Along(u, r) = SumOver(g, DOMAIN r)
    BY <1>1 DEF Along
  <2> QED BY <1>1, <2>1, <2>2, <2>3
<1>3. f \in [DOMAIN q -> Int] /\ g \in [DOMAIN q -> Int] /\ \A i \in DOMAIN q : f[i] = g[i]
  BY <1>1, <1>2
<1> QED BY <1>2, <1>3, SumSame
=============================================================================
