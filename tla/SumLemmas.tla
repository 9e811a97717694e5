------------------------------ MODULE SumLemmas ------------------------------
(***************************************************************************)
(* What the proofs need to know of numbers, finite sets and sums over      *)
(* sets, in the form of sets: the library's theorems on induction take an  *)
(* operator, which the provers cannot instantiate.                         *)
(***************************************************************************)
EXTENDS Naturals, FiniteSetsExt, FiniteSetTheorems, WellFoundedInduction, TLAPS

\* The sum of w over a set.
SumOver(w, S) == MapThenSumSet(LAMBDA x : w[x], S)

\* A set of natural numbers has a smallest one.
LEMMA Smallest ==
  ASSUME NEW T, T \subseteq Nat, T # {}
  PROVE  \E x \in T : \A y \in T : x <= y
<1> DEFINE R == OpToRel(<, Nat)
<1>1. \A x, y \in Nat : <<x, y>> \in R <=> x < y
  BY DEF OpToRel
<1>2. IsWellFoundedOn(R, Nat)
  BY NatLessThanWellFounded
<1> HIDE DEF R
<1>3. \E x \in T : \A y \in T : ~(<<y, x>> \in R)
  BY <1>2, WFMin, Zenon
<1>4. PICK x \in T : \A y \in T : ~(<<y, x>> \in R)
  BY <1>3
<1>5. ASSUME NEW y \in T PROVE x <= y
  <2>1. x \in Nat /\ y \in Nat /\ ~(<<y, x>> \in R)
    BY <1>4
  <2>2. ~(y < x)
    BY <1>1, <2>1
  <2> QED BY <2>1, <2>2
<1> QED BY <1>5

\* A set that holds 0 and every successor holds every natural number.
LEMMA NumbersFrom0 ==
  ASSUME NEW P, 0 \in P, \A n \in Nat : n \in P => n + 1 \in P
  PROVE  Nat \subseteq P
<1> DEFINE T == Nat \ P
<1> SUFFICES ASSUME T # {} PROVE FALSE
  OBVIOUS
<1>1. PICK x \in T : \A y \in T : x <= y
  BY Smallest
<1>2. x \in Nat /\ x # 0
  OBVIOUS
<1>3. x - 1 \in Nat /\ ~(x <= x - 1)
  BY <1>2
<1>4. x - 1 \in P
  BY <1>1, <1>3
<1>5. (x - 1) + 1 \in P
  BY <1>3, <1>4
<1> QED BY <1>2, <1>5

\* A family of sets that holds the empty set, and with a set every larger one
\* by an element, holds every finite set.
LEMMA SetsFromEmpty ==
  ASSUME NEW S, IsFiniteSet(S), NEW P, {} \in P,
         \A T \in SUBSET S : T \in P => \A x \in S \ T : T \cup {x} \in P
  PROVE  S \in P
<1> DEFINE Q == {n \in Nat : \A T \in SUBSET S : Cardinality(T) = n => T \in P}
<1>1. \A T \in SUBSET S : IsFiniteSet(T) /\ Cardinality(T) \in Nat
  BY FS_Subset, FS_CardinalityType
<1>2. 0 \in Q
  BY <1>1, FS_EmptySet
<1>3. ASSUME NEW n \in Nat, n \in Q PROVE n + 1 \in Q
  <2> SUFFICES ASSUME NEW T \in SUBSET S, Cardinality(T) = n + 1
               PROVE  T \in P
    OBVIOUS
  <2>1. T # {}
    <3>1. IsFiniteSet(T) /\ n + 1 # 0
      BY <1>1
    <3> QED BY <3>1, FS_EmptySet
  <2>2. PICK x \in T : TRUE
    BY <2>1
  <2>3. Cardinality(T \ {x}) = n
    <3>1. Cardinality(T \ {x}) = Cardinality(T) - 1
      BY <1>1, FS_RemoveElement
    <3> QED BY <3>1
  <2>4. T \ {x} \in P
    BY <1>3, <2>3
  <2>5. (T \ {x}) \cup {x} = T /\ x \in S \ (T \ {x})
    OBVIOUS
  <2> QED BY <2>4, <2>5
<1> HIDE DEF Q
<1>4. Nat \subseteq Q
  BY <1>2, <1>3, NumbersFrom0
<1> QED BY <1>1, <1>4 DEF Q

(***************************************************************************)
(* Sums.                                                                   *)
(***************************************************************************)
Pick(s) == CHOOSE x \in s : TRUE

Summed(f, w, s) == IF s = {} THEN 0 ELSE w[Pick(s)] + f[s \ {Pick(s)}]

\* The recursion of a sum over a finite set has a solution.
LEMMA SumSolved ==
  ASSUME NEW S, IsFiniteSet(S), NEW w
  PROVE  \E f : f = [s \in SUBSET S |-> Summed(f, w, s)]
<1> DEFINE Level(n) == {s \in SUBSET S : Cardinality(s) <= n}
           Q == {n \in Nat : \E f : f = [s \in Level(n) |-> Summed(f, w, s)]}
<1>1. \A s \in SUBSET S : /\ Cardinality(s) \in Nat
                          /\ Cardinality(s) = 0 <=> s = {}
                          /\ s # {} => /\ Pick(s) \in s
                                       /\ s \ {Pick(s)} \in SUBSET S
                                       /\ Cardinality(s \ {Pick(s)})
                                            = Cardinality(s) - 1
  <2> SUFFICES ASSUME NEW s \in SUBSET S
               PROVE  /\ Cardinality(s) \in Nat
                      /\ Cardinality(s) = 0 <=> s = {}
                      /\ s # {} => /\ Pick(s) \in s
                                   /\ s \ {Pick(s)} \in SUBSET S
                                   /\ Cardinality(s \ {Pick(s)})
                                        = Cardinality(s) - 1
    OBVIOUS
  <2>1. IsFiniteSet(s)
    BY FS_Subset
  <2>2. Cardinality(s) \in Nat /\ (Cardinality(s) = 0 <=> s = {})
    BY <2>1, FS_CardinalityType, FS_EmptySet
  <2>3. s # {} => Pick(s) \in s
    BY DEF Pick
  <2> QED BY <2>1, <2>2, <2>3, FS_RemoveElement
<1>2. 0 \in Q
  <2> DEFINE g == [s \in Level(0) |-> 0]
  <2>1. \A s \in Level(0) : s = {}
    <3>1. \A k \in Nat : k <= 0 => k = 0
      OBVIOUS
    <3> QED BY <1>1, <3>1
  <2>2. g = [s \in Level(0) |-> Summed(g, w, s)]
    BY <2>1 DEF Summed
  <2> QED BY <2>2
<1>3. ASSUME NEW n \in Nat, n \in Q PROVE n + 1 \in Q
  <2>1. PICK f : f = [s \in Level(n) |-> Summed(f, w, s)]
    BY <1>3
  <2> DEFINE g == [s \in Level(n + 1) |-> Summed(f, w, s)]
  <2>2. ASSUME NEW s \in Level(n + 1) PROVE g[s] = Summed(g, w, s)
    <3>1. CASE s = {}
      BY <3>1 DEF Summed
    <3>2. CASE s # {}
      <4> DEFINE t == s \ {Pick(s)}
      <4>1. t \in Level(n) /\ t \in Level(n + 1)
        BY <1>1, <3>2
      <4>2. f[t] = Summed(f, w, t) /\ g[t] = Summed(f, w, t)
        BY <2>1, <4>1
      <4> QED BY <3>2, <4>2 DEF Summed
    <3> QED BY <3>1, <3>2
  <2>3. g = [s \in Level(n + 1) |-> Summed(g, w, s)]
    BY <2>2
  <2> HIDE DEF g
  <2> QED BY <2>3
<1> HIDE DEF Q
<1>4. Nat \subseteq Q
  BY <1>2, <1>3, NumbersFrom0
<1>5. Cardinality(S) \in Q
  BY <1>1, <1>4
<1>6. Level(Cardinality(S)) = SUBSET S
  <2>1. \A s \in SUBSET S : Cardinality(s) <= Cardinality(S)
    BY FS_Subset
  <2> QED BY <2>1
<1> QED BY <1>5, <1>6 DEF Q

\* What a sum is: nothing, or one element and the sum of the others.
LEMMA SumStep ==
  ASSUME NEW S, IsFiniteSet(S), NEW w
  PROVE  SumOver(w, S) = IF S = {} THEN 0
                         ELSE w[Pick(S)] + SumOver(w, S \ {Pick(S)})
<1> DEFINE iter(T) == CHOOSE f : f = [s \in SUBSET T |-> Summed(f, w, s)]
<1>1. \A T : SumOver(w, T) = iter(T)[T]
  BY DEF SumOver, MapThenSumSet, MapThenFoldSet, Summed, Pick
<1>2. ASSUME NEW T \in SUBSET S
      PROVE  iter(T) = [s \in SUBSET T |-> Summed(iter(T), w, s)]
  <2>1. IsFiniteSet(T)
    BY FS_Subset
  <2> QED BY <2>1, SumSolved
<1> HIDE DEF iter
<1>3. CASE S = {}
  BY <1>1, <1>2, <1>3 DEF Summed
<1>4. CASE S # {}
  <2> DEFINE x == Pick(S)
             T == S \ {x}
             Q == {n \in Nat : \A t \in SUBSET T :
                                 Cardinality(t) = n => iter(S)[t] = iter(T)[t]}
  <2>1. x \in S
    BY <1>4 DEF Pick
  <2> HIDE DEF x
  <2>2. \A t \in SUBSET T : IsFiniteSet(t) /\ Cardinality(t) \in Nat
    BY FS_Subset, FS_CardinalityType
  <2>3. ASSUME NEW t \in SUBSET T
        PROVE  /\ iter(S)[t] = Summed(iter(S), w, t)
               /\ iter(T)[t] = Summed(iter(T), w, t)
    BY <1>2
  <2>a. T \in SUBSET T
    OBVIOUS
  <2> HIDE DEF T
  <2>4. 0 \in Q
    <3>1. \A t \in SUBSET T : Cardinality(t) = 0 => t = {}
      BY <2>2, FS_EmptySet
    <3> QED BY <2>3, <3>1 DEF Summed
  <2>5. ASSUME NEW n \in Nat, n \in Q PROVE n + 1 \in Q
    <3> SUFFICES ASSUME NEW t \in SUBSET T, Cardinality(t) = n + 1
                 PROVE  iter(S)[t] = iter(T)[t]
      OBVIOUS
    <3>1. t # {}
      <4>1. IsFiniteSet(t) /\ n + 1 # 0
        BY <2>2
      <4> QED BY <4>1, FS_EmptySet
    <3>2. Pick(t) \in t
      BY <3>1 DEF Pick
    <3>3. Cardinality(t \ {Pick(t)}) = n
      <4>1. Cardinality(t \ {Pick(t)}) = Cardinality(t) - 1
        BY <2>2, <3>2, FS_RemoveElement
      <4> QED BY <4>1
    <3>4. iter(S)[t \ {Pick(t)}] = iter(T)[t \ {Pick(t)}]
      BY <2>5, <3>3
    <3> QED BY <2>3, <3>1, <3>4 DEF Summed
  <2> HIDE DEF Q
  <2>6. Nat \subseteq Q
    BY <2>4, <2>5, NumbersFrom0
  <2>7. iter(S)[T] = iter(T)[T]
    BY <2>a, <2>2, <2>6 DEF Q
  <2>8. iter(S)[S] = Summed(iter(S), w, S)
    BY <1>2
  <2>9. SumOver(w, S) = w[x] + iter(S)[T]
    BY <1>1, <1>4, <2>8 DEF Summed, x, T
  <2>10. SumOver(w, T) = iter(T)[T]
    BY <1>1
  <2> QED BY <1>4, <2>7, <2>9, <2>10 DEF x, T
<1> QED BY <1>3, <1>4

\* A sum grows by what is put into it.
LEMMA SumInsert ==
  ASSUME NEW S, IsFiniteSet(S), NEW w, \A x \in S : w[x] \in Nat
  PROVE  /\ SumOver(w, S) \in Nat
         /\ \A x \in S : SumOver(w, S) = w[x] + SumOver(w, S \ {x})
<1> DEFINE Good(T) == /\ SumOver(w, T) \in Nat
                      /\ \A x \in T :
                           SumOver(w, T) = w[x] + SumOver(w, T \ {x})
           Q == {n \in Nat : \A T \in SUBSET S :
                               Cardinality(T) <= n => Good(T)}
<1>1. \A T \in SUBSET S : IsFiniteSet(T) /\ Cardinality(T) \in Nat
  BY FS_Subset, FS_CardinalityType
<1>a. Good({})
  <2>1. SumOver(w, {}) = 0
    BY FS_EmptySet, SumStep
  <2> QED BY <2>1
<1>2. 0 \in Q
  <2> SUFFICES ASSUME NEW T \in SUBSET S, Cardinality(T) <= 0 PROVE Good(T)
    OBVIOUS
  <2>0. Cardinality(T) = 0
    BY <1>1
  <2>1. T = {}
    BY <1>1, <2>0, FS_EmptySet
  <2> QED BY <1>a, <2>1
<1>3. ASSUME NEW n \in Nat, n \in Q PROVE n + 1 \in Q
  <2> SUFFICES ASSUME NEW T \in SUBSET S, Cardinality(T) <= n + 1, T # {}
               PROVE  Good(T)
    <3>1. Good({})
      BY <1>a
    <3> QED BY <3>1
  <2>1. \A x \in T : Cardinality(T \ {x}) <= n
    <3> SUFFICES ASSUME NEW x \in T
                 PROVE  Cardinality(T \ {x}) <= n
      OBVIOUS
    <3>1. Cardinality(T \ {x}) = Cardinality(T) - 1
      BY <1>1, FS_RemoveElement
    <3> QED BY <1>1, <3>1
  <2>2. \A U \in SUBSET T : \A x \in T : x \notin U => Good(U)
    <3> SUFFICES ASSUME NEW U \in SUBSET T, NEW x \in T, x \notin U
                 PROVE  Good(U)
      OBVIOUS
    <3>1. U \in SUBSET (T \ {x}) /\ IsFiniteSet(T \ {x})
      BY <1>1
    <3>2. Cardinality(U) <= Cardinality(T \ {x})
      BY <3>1, FS_Subset
    <3>3. Cardinality(U) <= n
      BY <1>1, <2>1, <3>2
    <3> QED BY <1>3, <3>3
  <2>b. \A x \in T : Good(T \ {x})
    BY <2>2
  <2> HIDE DEF Q
  <2> DEFINE y == Pick(T)
  <2>4. y \in T
    BY DEF Pick
  <2>5. SumOver(w, T) = w[y] + SumOver(w, T \ {y})
    BY <1>1, SumStep
  <2> HIDE DEF y
  <2>6. w[y] \in Nat /\ SumOver(w, T \ {y}) \in Nat
    BY <2>b, <2>4
  <2>7. ASSUME NEW x \in T PROVE SumOver(w, T) = w[x] + SumOver(w, T \ {x})
    <3>1. CASE x = y
      BY <2>5, <3>1
    <3>2. CASE x # y
      <4> DEFINE U == (T \ {x}) \ {y}
      <4>1. U = (T \ {y}) \ {x}
        OBVIOUS
      <4>2. SumOver(w, T \ {y}) = w[x] + SumOver(w, U)
        BY <2>b, <2>4, <3>2, <4>1
      <4>3. SumOver(w, T \ {x}) = w[y] + SumOver(w, U)
        BY <2>b, <2>4, <3>2
      <4>4. SumOver(w, T \ {x}) \in Nat /\ w[x] \in Nat
        BY <2>b
      <4>6. SumOver(w, U) \in Nat
        BY <2>2
      <4> HIDE DEF U
      <4> QED BY <2>5, <2>6, <4>2, <4>3, <4>4, <4>6
    <3> QED BY <3>1, <3>2
  <2>8. SumOver(w, T) \in Nat
    BY <2>5, <2>6
  <2> QED BY <2>7, <2>8
<1> HIDE DEF Q
<1>4. Nat \subseteq Q
  BY <1>2, <1>3, NumbersFrom0
<1>5. Cardinality(S) \in Q /\ Cardinality(S) <= Cardinality(S)
  BY <1>1, <1>4
<1> QED BY <1>5 DEF Q

\* A sum with a new element.
LEMMA SumAdd ==
  ASSUME NEW S, IsFiniteSet(S), NEW x, x \notin S, NEW w,
         \A y \in S \cup {x} : w[y] \in Nat
  PROVE  SumOver(w, S \cup {x}) = w[x] + SumOver(w, S)
<1> DEFINE T == S \cup {x}
<1>1. IsFiniteSet(T)
  BY FS_AddElement
<1>2. x \in T /\ T \ {x} = S /\ \A y \in T : w[y] \in Nat
  OBVIOUS
<1> HIDE DEF T
<1>3. SumOver(w, T) = w[x] + SumOver(w, T \ {x})
  BY <1>1, <1>2, SumInsert
<1> QED BY <1>2, <1>3 DEF T

\* Sums of what is the same are the same.
LEMMA SumSame ==
  ASSUME NEW S, IsFiniteSet(S), NEW v, NEW w, \A x \in S : v[x] \in Nat,
         \A x \in S : w[x] = v[x]
  PROVE  SumOver(w, S) = SumOver(v, S)
<1> DEFINE P == {T \in SUBSET S : SumOver(w, T) = SumOver(v, T)}
<1>1. {} \in P
  BY FS_EmptySet, SumStep
<1>2. ASSUME NEW T \in SUBSET S, T \in P, NEW x \in S \ T
      PROVE  T \cup {x} \in P
  <2>1. /\ IsFiniteSet(T) /\ x \notin T
        /\ \A y \in T \cup {x} : v[y] \in Nat /\ w[y] \in Nat
    BY FS_Subset
  <2>2. SumOver(v, T \cup {x}) = v[x] + SumOver(v, T)
    BY <2>1, SumAdd
  <2>3. SumOver(w, T \cup {x}) = w[x] + SumOver(w, T)
    BY <2>1, SumAdd
  <2> QED BY <1>2, <2>2, <2>3
<1> HIDE DEF P
<1>3. S \in P
  BY <1>1, <1>2, SetsFromEmpty
<1> QED BY <1>3 DEF P

\* The sum over two sets that have nothing in common.
LEMMA SumUnion ==
  ASSUME NEW S, NEW T, IsFiniteSet(S), IsFiniteSet(T), S \cap T = {},
         NEW w, \A x \in S \cup T : w[x] \in Nat
  PROVE  SumOver(w, S \cup T) = SumOver(w, S) + SumOver(w, T)
<1> DEFINE P == {U \in SUBSET T :
                   SumOver(w, S \cup U) = SumOver(w, S) + SumOver(w, U)}
<1>0. \A U \in SUBSET T : IsFiniteSet(U) /\ IsFiniteSet(S \cup U)
  BY FS_Subset, FS_Union
<1>a. \A U \in SUBSET T : /\ SumOver(w, S) \in Nat /\ SumOver(w, U) \in Nat
                           /\ SumOver(w, S \cup U) \in Nat
  BY <1>0, SumInsert
<1>1. {} \in P
  <2>1. SumOver(w, {}) = 0 /\ S \cup {} = S
    BY FS_EmptySet, SumStep
  <2> QED BY <1>a, <2>1
<1>2. ASSUME NEW U \in SUBSET T, U \in P, NEW x \in T \ U
      PROVE  U \cup {x} \in P
  <2>1. /\ S \cup (U \cup {x}) = (S \cup U) \cup {x}
        /\ U \cup {x} \in SUBSET T /\ x \notin U /\ x \notin S \cup U
        /\ \A y \in (S \cup U) \cup {x} : w[y] \in Nat
        /\ \A y \in U \cup {x} : w[y] \in Nat
    OBVIOUS
  <2>2. SumOver(w, U \cup {x}) = w[x] + SumOver(w, U)
    BY <1>0, <2>1, SumAdd
  <2>3. SumOver(w, (S \cup U) \cup {x}) = w[x] + SumOver(w, S \cup U)
    BY <1>0, <2>1, SumAdd
  <2>4. w[x] \in Nat
    OBVIOUS
  <2>5. SumOver(w, S \cup U) = SumOver(w, S) + SumOver(w, U)
    BY <1>2
  <2>6. /\ SumOver(w, S) \in Nat /\ SumOver(w, U) \in Nat
        /\ SumOver(w, S \cup U) \in Nat
    BY <1>a
  <2> HIDE DEF P
  <2>7. w[x] + (SumOver(w, S) + SumOver(w, U))
          = SumOver(w, S) + (w[x] + SumOver(w, U))
    BY <2>4, <2>6
  <2>8. SumOver(w, (S \cup U) \cup {x})
          = SumOver(w, S) + (w[x] + SumOver(w, U))
    BY <2>3, <2>5, <2>7
  <2>9. SumOver(w, S \cup (U \cup {x}))
          = SumOver(w, S) + SumOver(w, U \cup {x})
    BY <2>1, <2>2, <2>8, Zenon
  <2> QED BY <2>1, <2>9 DEF P
<1> HIDE DEF P
<1>3. T \in P
  BY <1>1, <1>2, SetsFromEmpty
<1> QED BY <1>3 DEF P

\* A part of a sum is not larger.
LEMMA SumPart ==
  ASSUME NEW S, NEW T, IsFiniteSet(T), S \subseteq T,
         NEW w, \A x \in T : w[x] \in Nat
  PROVE  /\ SumOver(w, S) \in Nat /\ SumOver(w, T) \in Nat
         /\ SumOver(w, S) <= SumOver(w, T)
<1> DEFINE U == T \ S
<1>1. /\ IsFiniteSet(S) /\ IsFiniteSet(U) /\ S \cap U = {} /\ S \cup U = T
      /\ \A x \in S \cup U : w[x] \in Nat
  BY FS_Subset
<1> HIDE DEF U
<1>2. SumOver(w, T) = SumOver(w, S) + SumOver(w, U)
  BY <1>1, SumUnion
<1>3. SumOver(w, S) \in Nat /\ SumOver(w, U) \in Nat
  BY <1>1, SumInsert
<1> QED BY <1>2, <1>3

\* A sum of nothing but zeros.
LEMMA SumZero ==
  ASSUME NEW S, IsFiniteSet(S), NEW w, \A x \in S : w[x] = 0
  PROVE  SumOver(w, S) = 0
<1> DEFINE P == {T \in SUBSET S : SumOver(w, T) = 0}
<1>1. {} \in P
  BY FS_EmptySet, SumStep
<1>2. ASSUME NEW T \in SUBSET S, T \in P, NEW x \in S \ T
      PROVE  T \cup {x} \in P
  <2>1. /\ IsFiniteSet(T) /\ x \notin T
        /\ \A y \in T \cup {x} : w[y] \in Nat
    BY FS_Subset
  <2>2. SumOver(w, T \cup {x}) = w[x] + SumOver(w, T)
    BY <2>1, SumAdd
  <2> QED BY <1>2, <2>2
<1> HIDE DEF P
<1>3. S \in P
  BY <1>1, <1>2, SetsFromEmpty
<1> QED BY <1>3 DEF P

\* A sum when one of its terms grows by one.
LEMMA SumCount ==
  ASSUME NEW S, IsFiniteSet(S), NEW w, NEW v, NEW n \in S,
         \A x \in S : w[x] \in Nat,
         \A x \in S : v[x] = IF x = n THEN w[x] + 1 ELSE w[x]
  PROVE  SumOver(v, S) = SumOver(w, S) + 1
<1>1. \A x \in S : v[x] \in Nat
  OBVIOUS
<1>2. SumOver(v, S) = v[n] + SumOver(v, S \ {n})
  BY <1>1, SumInsert
<1>3. SumOver(w, S) = w[n] + SumOver(w, S \ {n})
  BY SumInsert
<1>4. IsFiniteSet(S \ {n})
  BY FS_Subset
<1>5. \A x \in S \ {n} : w[x] \in Nat /\ v[x] = w[x]
  OBVIOUS
<1>6. SumOver(v, S \ {n}) = SumOver(w, S \ {n})
  BY <1>4, <1>5, SumSame
<1>7. SumOver(w, S \ {n}) \in Nat
  BY <1>4, <1>5, SumInsert
<1>8. v[n] = w[n] + 1 /\ w[n] \in Nat
  OBVIOUS
<1> QED BY <1>2, <1>3, <1>6, <1>7, <1>8
=============================================================================
