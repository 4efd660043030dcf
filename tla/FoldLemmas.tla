----------------------------- MODULE FoldLemmas ------------------------------
(***************************************************************************)
(* What the folds of the community modules compute, for sets and sequences *)
(* of any size.  Induction is over the elements of a set of numbers, and   *)
(* a recursive function exists because one does on ever larger subsets.    *)
(***************************************************************************)
EXTENDS Integers, FiniteSets, Sequences, FiniteSetsExt, FiniteSetTheorems,
        WellFoundedInduction, TLAPS

-----------------------------------------------------------------------------
(* Induction *)

LEMMA LeastNumber ==
    ASSUME NEW T, T \subseteq Nat, T # {}
    PROVE  \E x \in T : \A y \in T : x <= y
<1>1. PICK x \in T : \A y \in T : ~(<<y, x>> \in OpToRel(<, Nat))
  BY NatLessThanWellFounded, WFMin
<1>2. ASSUME NEW y \in T PROVE x <= y
  <2>1. x \in Nat /\ y \in Nat
    OBVIOUS
  <2>2. ~(y < x)
    BY <1>1, <2>1 DEF OpToRel
  <2> QED BY <2>1, <2>2
<1> QED BY <1>2

LEMMA NumberInduction ==
    ASSUME NEW T, 0 \in T, \A n \in Nat : n \in T => n + 1 \in T
    PROVE  \A n \in Nat : n \in T
<1> SUFFICES ASSUME Nat \ T # {} PROVE FALSE
  OBVIOUS
<1>1. PICK x \in Nat \ T : \A y \in Nat \ T : x <= y
  BY LeastNumber
<1>2. x # 0 /\ x - 1 \in Nat
  BY <1>1
<1>3. x - 1 \in T
  BY <1>1, <1>2
<1> QED BY <1>1, <1>2, <1>3

-----------------------------------------------------------------------------
(* Recursion over the subsets of a finite set, each of which loses the     *)
(* element c of it                                                         *)

Chooser(c, S) == \A s \in SUBSET S : s # {} => c[s] \in s

Keeps(step, S, V) == \A s \in SUBSET S, v \in V : s # {} => step[s][v] \in V

Recursion(h, S, base, c, step) ==
    /\ h[{}] = base
    /\ \A s \in SUBSET S : s # {} => h[s] = step[s][h[s \ {c[s]}]]

LEMMA SetRecursion ==
    ASSUME NEW S, IsFiniteSet(S), NEW V, NEW base \in V,
           NEW c, Chooser(c, S), NEW step, Keeps(step, S, V)
    PROVE  \E h \in [SUBSET S -> V] : Recursion(h, S, base, c, step)
<1> USE DEF Chooser, Keeps, Recursion
<1> DEFINE Upto(h, n) ==
             /\ h[{}] = base
             /\ \A s \in SUBSET S :
                   s # {} /\ Cardinality(s) <= n => h[s] = step[s][h[s \ {c[s]}]]
           T == {n \in Nat : \E h \in [SUBSET S -> V] : Upto(h, n)}
<1>1. ASSUME NEW s \in SUBSET S
      PROVE  /\ Cardinality(s) \in Nat
             /\ s # {} => Cardinality(s) # 0
             /\ s # {} => /\ s \ {c[s]} \in SUBSET S
                          /\ Cardinality(s \ {c[s]}) = Cardinality(s) - 1
  BY FS_Subset, FS_CardinalityType, FS_EmptySet, FS_RemoveElement
<1>2. 0 \in T
  <2> DEFINE h == [s \in SUBSET S |-> base]
  <2>1. h \in [SUBSET S -> V] /\ h[{}] = base
    OBVIOUS
  <2>2. ASSUME NEW s \in SUBSET S, s # {}, Cardinality(s) <= 0 PROVE FALSE
    <3>1. Cardinality(s) \in Nat /\ Cardinality(s) # 0
      BY <1>1, <2>2
    <3> QED BY <2>2, <3>1
  <2> HIDE DEF h
  <2>3. Upto(h, 0)
    BY <2>1, <2>2
  <2> QED BY <2>1, <2>3
<1>3. ASSUME NEW n \in Nat, n \in T PROVE n + 1 \in T
  <2>1. PICK h \in [SUBSET S -> V] : Upto(h, n)
    BY <1>3
  <2> DEFINE g == [s \in SUBSET S |-> IF Cardinality(s) = n + 1 THEN step[s][h[s \ {c[s]}]]
                                      ELSE h[s]]
  <2>2. \A s \in SUBSET S : Cardinality(s) = n + 1 => s # {}
    <3>1. Cardinality({}) = 0 /\ n + 1 # 0
      BY FS_EmptySet
    <3> QED BY <3>1
  <2>3. \A s \in SUBSET S : s # {} => h[s \ {c[s]}] \in V
    BY <1>1
  <2>4. g \in [SUBSET S -> V]
    BY <2>2, <2>3
  <2>5. g[{}] = base
    BY <2>1, <2>2
  <2>6. ASSUME NEW s \in SUBSET S, s # {}, Cardinality(s) <= n + 1
        PROVE  g[s] = step[s][g[s \ {c[s]}]]
    <3> DEFINE rest == s \ {c[s]}
    <3>1. /\ rest \in SUBSET S /\ Cardinality(s) \in Nat
          /\ Cardinality(rest) = Cardinality(s) - 1
      BY <1>1, <2>6
    <3> HIDE DEF rest
    <3>2. g[rest] = h[rest]
      BY <2>6, <3>1
    <3>3. CASE Cardinality(s) = n + 1
      BY <3>2, <3>3 DEF rest
    <3>4. CASE Cardinality(s) <= n
      <4>1. g[s] = h[s]
        BY <3>1, <3>4
      <4>2. h[s] = step[s][h[rest]]
        BY <2>1, <2>6, <3>4 DEF rest
      <4> QED BY <3>2, <4>1, <4>2 DEF rest
    <3> QED BY <2>6, <3>1, <3>3, <3>4
  <2> HIDE DEF g
  <2>7. Upto(g, n + 1)
    BY <2>5, <2>6
  <2> HIDE DEF Upto
  <2> QED BY <2>4, <2>7
<1> HIDE DEF T
<1>4. Cardinality(S) \in T
  <2>1. Cardinality(S) \in Nat
    BY <1>1
  <2> QED BY <1>2, <1>3, <2>1, NumberInduction
<1>5. PICK h \in [SUBSET S -> V] : Upto(h, Cardinality(S))
  BY <1>4 DEF T
<1>6. \A s \in SUBSET S : Cardinality(s) <= Cardinality(S)
  BY FS_Subset
<1> QED BY <1>5, <1>6

\* What holds of the empty set, and of a set when it holds without the element
\* c of it, holds of all subsets.
Inductive(P, S, c) ==
    \A s \in SUBSET S : s # {} /\ s \ {c[s]} \in P => s \in P

LEMMA SetInduction ==
    ASSUME NEW S, IsFiniteSet(S), NEW P, {} \in P,
           NEW c, Chooser(c, S), Inductive(P, S, c)
    PROVE  \A s \in SUBSET S : s \in P
<1> USE DEF Chooser, Inductive
<1> DEFINE T == {n \in Nat : \A s \in SUBSET S : Cardinality(s) <= n => s \in P}
<1>1. ASSUME NEW s \in SUBSET S
      PROVE  /\ Cardinality(s) \in Nat
             /\ Cardinality(s) = 0 => s = {}
             /\ s # {} => /\ s \ {c[s]} \in SUBSET S
                          /\ Cardinality(s \ {c[s]}) = Cardinality(s) - 1
  BY FS_Subset, FS_CardinalityType, FS_EmptySet, FS_RemoveElement
<1>2. 0 \in T
  <2>1. ASSUME NEW s \in SUBSET S, Cardinality(s) <= 0 PROVE s \in P
    <3>1. Cardinality(s) \in Nat
      BY <1>1
    <3>2. Cardinality(s) = 0
      BY <2>1, <3>1
    <3>3. s = {}
      BY <1>1, <3>2
    <3> QED BY <3>3
  <2> QED BY <2>1
<1>3. ASSUME NEW n \in Nat, n \in T PROVE n + 1 \in T
  <2>1. ASSUME NEW s \in SUBSET S, Cardinality(s) <= n + 1 PROVE s \in P
    <3>1. CASE s = {}
      BY <3>1
    <3>2. CASE s # {}
      <4> DEFINE rest == s \ {c[s]}
      <4>1. /\ rest \in SUBSET S /\ Cardinality(s) \in Nat
            /\ Cardinality(rest) = Cardinality(s) - 1
        BY <1>1, <3>2
      <4> HIDE DEF rest
      <4>2. Cardinality(rest) <= n
        BY <2>1, <4>1
      <4>3. rest \in P
        BY <1>3, <4>1, <4>2
      <4> QED BY <3>2, <4>3 DEF rest
    <3> QED BY <3>1, <3>2
  <2> QED BY <2>1
<1> HIDE DEF T
<1>4. \A n \in Nat : n \in T
  BY <1>2, <1>3, NumberInduction
<1>5. ASSUME NEW s \in SUBSET S PROVE s \in P
  <2>1. Cardinality(s) \in Nat
    BY <1>1
  <2>2. Cardinality(s) \in T /\ Cardinality(s) <= Cardinality(s)
    BY <1>4, <2>1
  <2> QED BY <2>2 DEF T
<1> QED BY <1>5
-----------------------------------------------------------------------------
(* Sums *)

Chosen(s) == CHOOSE x \in s : TRUE

\* h gives the sum of f over every subset of S.
SumsOf(h, f, S) ==
    /\ h \in [SUBSET S -> Int] /\ h[{}] = 0
    /\ \A s \in SUBSET S : s # {} => h[s] = f[Chosen(s)] + h[s \ {Chosen(s)}]

Total(f, S) == MapThenSumSet(LAMBDA x : f[x], S)

LEMMA TotalIsSum ==
    ASSUME NEW S, IsFiniteSet(S), NEW f, \A x \in S : f[x] \in Int
    PROVE  \E h : SumsOf(h, f, S) /\ Total(f, S) = h[S]
<1> DEFINE Sums(g) == g = [s \in SUBSET S |-> IF s = {} THEN 0
                                              ELSE f[Chosen(s)] + g[s \ {Chosen(s)}]]
           iter == CHOOSE g : Sums(g)
<1>1. \A s \in SUBSET S : s # {} => Chosen(s) \in s /\ f[Chosen(s)] \in Int
  BY DEF Chosen
<1>2. PICK c, step : /\ c = [s \in SUBSET S |-> Chosen(s)]
                     /\ step = [s \in SUBSET S |-> [v \in Int |-> f[Chosen(s)] + v]]
  OBVIOUS
<1>3. Chooser(c, S)
  BY <1>1, <1>2 DEF Chooser
<1>4. Keeps(step, S, Int)
  BY <1>1, <1>2 DEF Keeps
<1>5. PICK h \in [SUBSET S -> Int] : Recursion(h, S, 0, c, step)
  <2>1. 0 \in Int
    OBVIOUS
  <2> QED BY <1>3, <1>4, <2>1, SetRecursion
<1>6. Sums(h)
  BY <1>1, <1>2, <1>5 DEF Recursion
<1>7. Sums(iter)
  BY <1>6
<1>8. Total(f, S) = iter[S]
  BY DEF Total, MapThenSumSet, MapThenFoldSet, Chosen
<1> HIDE DEF iter
<1>9. /\ iter = [s \in SUBSET S |-> iter[s]] /\ iter[{}] = 0
      /\ \A s \in SUBSET S : s # {} => iter[s] = f[Chosen(s)] + iter[s \ {Chosen(s)}]
  BY <1>7
<1>10. PICK P : P = {s \in SUBSET S : iter[s] \in Int}
  OBVIOUS
<1>11. \A s \in SUBSET S : s \in P
  <2>1. {} \in P
    BY <1>9, <1>10
  <2>2. ASSUME NEW s \in SUBSET S, s # {}, s \ {c[s]} \in P PROVE s \in P
    <3>1. c[s] = Chosen(s) /\ f[Chosen(s)] \in Int
      BY <1>1, <1>2, <2>2
    <3>2. iter[s \ {Chosen(s)}] \in Int
      BY <1>10, <2>2, <3>1
    <3>3. iter[s] = f[Chosen(s)] + iter[s \ {Chosen(s)}]
      BY <1>9, <2>2
    <3> QED BY <1>10, <3>1, <3>2, <3>3
  <2>3. Inductive(P, S, c)
    BY <2>2 DEF Inductive
  <2> QED BY <1>3, <2>1, <2>3, SetInduction
<1>12. \A s \in SUBSET S : iter[s] \in Int
  BY <1>10, <1>11
<1>13. SumsOf(iter, f, S)
  BY <1>9, <1>12 DEF SumsOf
<1> QED BY <1>8, <1>13

\* Chosen as a function, for SetInduction.
ChosenOfEach(S) == [s \in SUBSET S |-> Chosen(s)]

LEMMA ChosenIn ==
    ASSUME NEW S
    PROVE  Chooser(ChosenOfEach(S), S)
BY DEF Chooser, ChosenOfEach, Chosen

\* Changing one summand changes the sum by as much.
LEMMA TotalUpdate ==
    ASSUME NEW S, IsFiniteSet(S), NEW f, \A x \in S : f[x] \in Int,
           NEW a \in S, NEW d \in Int, NEW g, g[a] = f[a] + d,
           \A x \in S : x # a => g[x] = f[x]
    PROVE  Total(g, S) = Total(f, S) + d
<1>1. \A x \in S : g[x] \in Int
  OBVIOUS
<1>2. PICK h : SumsOf(h, f, S) /\ Total(f, S) = h[S]
  BY TotalIsSum
<1>3. PICK k : SumsOf(k, g, S) /\ Total(g, S) = k[S]
  BY <1>1, TotalIsSum
<1>4. PICK P : P = {s \in SUBSET S : k[s] = h[s] + (IF a \in s THEN d ELSE 0)}
  OBVIOUS
<1>5. {} \in P
  BY <1>2, <1>3, <1>4 DEF SumsOf
<1>6. Inductive(P, S, ChosenOfEach(S))
  <2>1. ASSUME NEW s \in SUBSET S, s # {}, s \ {Chosen(s)} \in P PROVE s \in P
    <3> DEFINE x == Chosen(s)
               rest == s \ {x}
    <3>1. x \in s
      BY <2>1 DEF Chosen
    <3>2. rest \in SUBSET S /\ f[x] \in Int /\ g[x] = f[x] + (IF x = a THEN d ELSE 0)
      BY <3>1
    <3>3. h[s] = f[x] + h[rest] /\ k[s] = g[x] + k[rest]
      BY <1>2, <1>3, <2>1 DEF SumsOf
    <3>4. h[rest] \in Int /\ k[rest] = h[rest] + (IF a \in rest THEN d ELSE 0)
      BY <1>2, <1>4, <2>1, <3>2 DEF SumsOf
    <3>5. /\ a \in s <=> x = a \/ a \in rest
          /\ ~(x = a /\ a \in rest)
      BY <3>1
    <3> HIDE DEF x, rest
    <3>6. k[s] = h[s] + (IF a \in s THEN d ELSE 0)
      BY <3>2, <3>3, <3>4, <3>5
    <3> QED BY <1>4, <3>6
  <2> QED BY <2>1 DEF Inductive, ChosenOfEach
<1>7. S \in P
  <2>1. S \in SUBSET S
    OBVIOUS
  <2> QED BY <1>5, <1>6, <2>1, ChosenIn, SetInduction
<1> QED BY <1>2, <1>3, <1>4, <1>7

\* A sum of integers is an integer.
LEMMA TotalType ==
    ASSUME NEW S, IsFiniteSet(S), NEW f, \A x \in S : f[x] \in Int
    PROVE  Total(f, S) \in Int
<1>1. PICK h : SumsOf(h, f, S) /\ Total(f, S) = h[S]
  BY TotalIsSum
<1>2. S \in SUBSET S
  OBVIOUS
<1> QED BY <1>1, <1>2 DEF SumsOf

\* Functions that agree on S have the same sum over it.
LEMMA TotalSame ==
    ASSUME NEW S, IsFiniteSet(S), NEW f, \A x \in S : f[x] \in Int,
           NEW g, \A x \in S : g[x] = f[x]
    PROVE  Total(g, S) = Total(f, S)
<1>1. CASE S = {}
  <2>1. PICK h : SumsOf(h, f, S) /\ Total(f, S) = h[S]
    BY TotalIsSum
  <2>2. \A x \in S : g[x] \in Int
    OBVIOUS
  <2>3. PICK k : SumsOf(k, g, S) /\ Total(g, S) = k[S]
    BY <2>2, TotalIsSum
  <2> QED BY <1>1, <2>1, <2>3 DEF SumsOf
<1>2. CASE S # {}
  <2>1. PICK a \in S : TRUE
    BY <1>2
  <2>2. g[a] = f[a] + 0 /\ 0 \in Int
    OBVIOUS
  <2>3. Total(g, S) = Total(f, S) + 0
    BY <2>1, <2>2, TotalUpdate
  <2> QED BY <2>3, TotalType
<1> QED BY <1>1, <1>2

\* A sum of zeros is zero.
LEMMA TotalZero ==
    ASSUME NEW S, IsFiniteSet(S), NEW f, \A x \in S : f[x] = 0
    PROVE  Total(f, S) = 0
<1>1. \A x \in S : f[x] \in Int
  OBVIOUS
<1>2. PICK h : SumsOf(h, f, S) /\ Total(f, S) = h[S]
  BY <1>1, TotalIsSum
<1>3. PICK P : P = {s \in SUBSET S : h[s] = 0}
  OBVIOUS
<1>4. {} \in P
  BY <1>2, <1>3 DEF SumsOf
<1>5. Inductive(P, S, ChosenOfEach(S))
  BY <1>2, <1>3 DEF Inductive, ChosenOfEach, Chosen, SumsOf
<1>6. S \in P
  <2>1. S \in SUBSET S
    OBVIOUS
  <2> QED BY <1>4, <1>5, <2>1, ChosenIn, SetInduction
<1> QED BY <1>2, <1>3, <1>6

\* The sum over a set does not depend on the order of its elements.
LEMMA AnyOrder ==
    ASSUME NEW S, IsFiniteSet(S), NEW f, \A x \in S : f[x] \in Int,
           NEW h, SumsOf(h, f, S)
    PROVE  \A s \in SUBSET S : \A x \in s : h[s] = f[x] + h[s \ {x}]
<1> DEFINE Any(s) == \A x \in s : h[s] = f[x] + h[s \ {x}]
           T == {n \in Nat : \A s \in SUBSET S : Cardinality(s) <= n => Any(s)}
<1>1. ASSUME NEW s \in SUBSET S
      PROVE  /\ Cardinality(s) \in Nat
             /\ \A x \in s : Cardinality(s \ {x}) = Cardinality(s) - 1
             /\ Cardinality(s) = 0 => s = {}
  BY FS_Subset, FS_CardinalityType, FS_EmptySet, FS_RemoveElement
<1>2. 0 \in T
  <2>1. ASSUME NEW s \in SUBSET S, Cardinality(s) <= 0 PROVE Any(s)
    <3>1. s = {}
      BY <1>1, <2>1
    <3> QED BY <3>1
  <2> QED BY <2>1
<1>3. ASSUME NEW n \in Nat, n \in T PROVE n + 1 \in T
  <2>1. ASSUME NEW s \in SUBSET S, Cardinality(s) <= n + 1, NEW x \in s
        PROVE  h[s] = f[x] + h[s \ {x}]
    <3> DEFINE c == Chosen(s)
               sc == s \ {c}
               sx == s \ {x}
               both == sc \ {x}
    <3>1. c \in s
      BY DEF Chosen
    <3>2. h[s] = f[c] + h[sc]
      BY <3>1 DEF SumsOf
    <3>3. CASE x = c
      BY <3>2, <3>3
    <3>4. CASE x # c
      <4>1. /\ sc \in SUBSET S /\ sx \in SUBSET S /\ both \in SUBSET S
            /\ x \in sc /\ c \in sx /\ sx \ {c} = both
        BY <3>1, <3>4
      <4>2. Cardinality(sc) <= n /\ Cardinality(sx) <= n
        BY <1>1, <2>1, <3>1
      <4>3. Any(sc) /\ Any(sx)
        BY <1>3, <4>1, <4>2
      <4>4. h[sc] = f[x] + h[both]
        BY <4>1, <4>3
      <4>5. h[sx] = f[c] + h[both]
        BY <4>1, <4>3
      <4>6. h[both] \in Int /\ f[x] \in Int /\ f[c] \in Int
        BY <3>1, <4>1 DEF SumsOf
      <4> HIDE DEF c, sc, sx, both
      <4>7. h[s] = f[x] + h[sx]
        BY <3>2, <4>4, <4>5, <4>6
      <4> QED BY <4>7 DEF sx
    <3> QED BY <3>3, <3>4
  <2> QED BY <2>1
<1> HIDE DEF T
<1>4. \A n \in Nat : n \in T
  BY <1>2, <1>3, NumberInduction
<1>5. ASSUME NEW s \in SUBSET S PROVE Any(s)
  <2>1. Cardinality(s) \in Nat /\ Cardinality(s) <= Cardinality(s)
    BY <1>1
  <2> QED BY <1>4, <2>1 DEF T
<1> QED BY <1>5

\* There is one such sum, over the subsets of a smaller set too.
LEMMA OneSum ==
    ASSUME NEW S, IsFiniteSet(S), NEW f, \A x \in S : f[x] \in Int,
           NEW h, SumsOf(h, f, S), NEW R \in SUBSET S, NEW g, \A x \in R : g[x] = f[x],
           NEW k, SumsOf(k, g, R)
    PROVE  k[R] = h[R]
<1>1. PICK P : P = {s \in SUBSET R : k[s] = h[s]}
  OBVIOUS
<1>2. {} \in P
  BY <1>1 DEF SumsOf
<1>3. Inductive(P, R, ChosenOfEach(R))
  BY <1>1 DEF Inductive, ChosenOfEach, Chosen, SumsOf
<1>4. IsFiniteSet(R) /\ R \in SUBSET R
  BY FS_Subset
<1>5. R \in P
  BY <1>2, <1>3, <1>4, ChosenIn, SetInduction
<1> QED BY <1>1, <1>5

\* One element more
LEMMA TotalInsert ==
    ASSUME NEW S, IsFiniteSet(S), NEW f, \A x \in S : f[x] \in Int, NEW a \in S
    PROVE  Total(f, S) = Total(f, S \ {a}) + f[a]
<1> DEFINE R == S \ {a}
<1>1. R \in SUBSET S /\ S \in SUBSET S /\ IsFiniteSet(R) /\ \A x \in R : f[x] \in Int
  BY FS_Subset
<1> HIDE DEF R
<1>2. PICK h : SumsOf(h, f, S) /\ Total(f, S) = h[S]
  BY TotalIsSum
<1>3. PICK k : SumsOf(k, f, R) /\ Total(f, R) = k[R]
  BY <1>1, TotalIsSum
<1>4. k[R] = h[R]
  BY <1>1, <1>2, <1>3, OneSum
<1>5. h[S] = f[a] + h[R]
  BY <1>1, <1>2, AnyOrder DEF R
<1>6. h[R] \in Int /\ f[a] \in Int
  BY <1>1, <1>2 DEF SumsOf
<1>7. Total(f, S) = Total(f, R) + f[a]
  BY <1>2, <1>3, <1>4, <1>5, <1>6
<1> QED BY <1>7 DEF R

-----------------------------------------------------------------------------
(* Sequences: FoldLeft recurs over the subsets of the domain, each of      *)
(* which loses its largest element; what it computes of the first k        *)
(* elements is its value at 1..k.                                          *)

LEMMA MinIsLeast ==
    ASSUME NEW s \in SUBSET Nat, s # {}
    PROVE  Min(s) \in s /\ \A y \in s : Min(s) <= y
<1>1. \E x \in s : \A y \in s : x <= y
  BY LeastNumber
<1> QED BY <1>1 DEF Min

LEMMA MaxIsLargest ==
    ASSUME NEW n \in Nat, NEW s \in SUBSET (1..n), s # {}
    PROVE  Max(s) \in s /\ \A y \in s : Max(s) >= y
<1> DEFINE T == {n - x : x \in s}
<1>1. T \subseteq Nat /\ T # {}
  OBVIOUS
<1>2. PICK m \in T : \A y \in T : m <= y
  BY <1>1, LeastNumber
<1>3. PICK x \in s : m = n - x
  BY <1>2
<1>4. ASSUME NEW y \in s PROVE x >= y
  <2>1. n - y \in T
    OBVIOUS
  <2>2. n - x <= n - y
    BY <1>2, <1>3, <2>1
  <2>3. x \in Nat /\ y \in Nat
    OBVIOUS
  <2> QED BY <2>2, <2>3
<1>5. \E z \in s : \A y \in s : z >= y
  BY <1>3, <1>4
<1> QED BY <1>5 DEF Max

LEMMA MaxOfPrefix ==
    ASSUME NEW k \in Nat \ {0}
    PROVE  Max(1..k) = k /\ (1..k) \ {k} = 1..(k - 1) /\ 1..k # {}
<1>1. k \in 1..k
  OBVIOUS
<1>2. Max(1..k) \in 1..k /\ Max(1..k) >= k
  BY <1>1, MaxIsLargest
<1> QED BY <1>1, <1>2

StepsOver(step, n, V) == \A k \in 1..n, v \in V : step[k][v] \in V

Iteration(h, n, base, step) ==
    /\ h[{}] = base
    /\ \A s \in SUBSET (1..n) : s # {} => h[s] = step[Max(s)][h[s \ {Max(s)}]]

LEMMA SequenceRecursion ==
    ASSUME NEW n \in Nat, NEW V, NEW base \in V, NEW step, StepsOver(step, n, V)
    PROVE  \E h \in [SUBSET (1..n) -> V] : Iteration(h, n, base, step)
<1> DEFINE S == 1..n
<1>1. PICK c, next : /\ c = [s \in SUBSET S |-> Max(s)]
                     /\ next = [s \in SUBSET S |-> step[Max(s)]]
  OBVIOUS
<1>2. \A s \in SUBSET S : s # {} => Max(s) \in S /\ Max(s) \in s
  BY MaxIsLargest
<1>3. Chooser(c, S) /\ Keeps(next, S, V)
  BY <1>1, <1>2 DEF Chooser, Keeps, StepsOver
<1>4. IsFiniteSet(S)
  BY FS_Interval
<1> HIDE DEF S
<1>5. PICK h \in [SUBSET S -> V] : Recursion(h, S, base, c, next)
  BY <1>3, <1>4, SetRecursion
<1>6. Iteration(h, n, base, step)
  BY <1>1, <1>5 DEF Recursion, Iteration, S
<1> QED BY <1>5, <1>6 DEF S

\* What the recursion says of the first k elements.
LEMMA IterationPrefix ==
    ASSUME NEW n \in Nat, NEW h, NEW base, NEW step, Iteration(h, n, base, step),
           NEW k \in 1..n
    PROVE  h[1..k] = step[k][h[1..(k - 1)]]
<1>1. 1..k \in SUBSET (1..n) /\ k \in Nat \ {0}
  OBVIOUS
<1> QED BY <1>1, MaxOfPrefix DEF Iteration

\* h gives, at 1..k, what the first k of n steps make of base.
Steps(h, n, base, step, V) ==
    /\ h[1..0] = base
    /\ \A k \in 0..n : h[1..k] \in V
    /\ \A k \in 1..n : h[1..k] = step[k][h[1..(k - 1)]]

\* The first steps decide what they make of base.
LEMMA StepsUnique ==
    ASSUME NEW n \in Nat, NEW m \in Nat, m <= n, NEW V, NEW base,
           NEW h, NEW step, Steps(h, n, base, step, V),
           NEW g, NEW next, Steps(g, m, base, next, V),
           \A k \in 1..m : \A v \in V : next[k][v] = step[k][v]
    PROVE  g[1..m] = h[1..m]
<1> DEFINE T == {k \in Nat : k <= m => g[1..k] = h[1..k]}
<1>1. 0 \in T
  BY DEF Steps
<1>2. ASSUME NEW j \in Nat, j \in T PROVE j + 1 \in T
  <2> SUFFICES ASSUME j + 1 <= m PROVE g[1..(j + 1)] = h[1..(j + 1)]
    OBVIOUS
  <2>1. j + 1 \in 1..m /\ j + 1 \in 1..n /\ (j + 1) - 1 = j /\ j \in 0..m
    OBVIOUS
  <2>2. g[1..j] = h[1..j] /\ g[1..j] \in V
    BY <1>2, <2>1 DEF Steps
  <2>3. g[1..(j + 1)] = next[j + 1][g[1..j]]
    BY <2>1 DEF Steps
  <2>4. h[1..(j + 1)] = step[j + 1][h[1..j]]
    BY <2>1 DEF Steps
  <2> QED BY <2>1, <2>2, <2>3, <2>4
<1> HIDE DEF T
<1>3. m \in T
  BY <1>1, <1>2, NumberInduction
<1> QED BY <1>3 DEF T

\* Each step applies to what the steps before it made, when that is in V.
Follows(g, n, step, V) ==
    \A k \in 1..n : g[1..(k - 1)] \in V => g[1..k] = step[k][g[1..(k - 1)]]

LEMMA StepsFollow ==
    ASSUME NEW n \in Nat, NEW V, NEW base \in V, NEW step, StepsOver(step, n, V),
           NEW g, g[1..0] = base, Follows(g, n, step, V)
    PROVE  Steps(g, n, base, step, V)
<1> DEFINE T == {k \in Nat : k <= n => g[1..k] \in V}
<1>1. 0 \in T
  OBVIOUS
<1>2. ASSUME NEW j \in Nat, j \in T PROVE j + 1 \in T
  <2> SUFFICES ASSUME j + 1 <= n PROVE g[1..(j + 1)] \in V
    OBVIOUS
  <2>1. j + 1 \in 1..n /\ (j + 1) - 1 = j /\ g[1..j] \in V
    BY <1>2
  <2>2. g[1..(j + 1)] = step[j + 1][g[1..j]]
    BY <2>1 DEF Follows
  <2> QED BY <2>1, <2>2 DEF StepsOver
<1> HIDE DEF T
<1>3. \A k \in Nat : k \in T
  BY <1>1, <1>2, NumberInduction
<1>4. \A k \in 0..n : g[1..k] \in V
  BY <1>3 DEF T
<1>5. ASSUME NEW k \in 1..n PROVE g[1..k] = step[k][g[1..(k - 1)]]
  <2>1. k - 1 \in 0..n
    OBVIOUS
  <2>2. g[1..(k - 1)] \in V
    BY <1>4, <2>1
  <2> QED BY <2>2 DEF Follows
<1> QED BY <1>4, <1>5 DEF Steps
=============================================================================
