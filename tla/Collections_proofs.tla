--------------------------- MODULE Collections_proofs ---------------------------
(***************************************************************************)
(* What the model's operators on collections compute: sums over finite     *)
(* functions (FoldFunction(+, 0, f) of the community modules) and lists    *)
(* read in pages (Paging).  Induction is stated with a set of good         *)
(* numbers or subsets, so that it can be cited for any property.           *)
(***************************************************************************)
EXTENDS Paging, Functions, FiniteSetTheorems, WellFoundedInduction, TLAPS

-----------------------------------------------------------------------------
\* Whole numbers and their quotients

LEMMA Quotient ==
  ASSUME NEW x \in Nat, NEW n \in Nat \ {0}
  PROVE  x \div n \in Nat /\ n * (x \div n) <= x /\ x < n * (x \div n) + n
OBVIOUS

LEMMA TimesOrder ==
  ASSUME NEW n \in Nat, NEW a \in Int, NEW b \in Int, a <= b
  PROVE  n * a <= n * b /\ n * a \in Int /\ n * b \in Int
<1>1. n * (b - a) >= 0 /\ n * (b - a) = n * b - n * a
  OBVIOUS
<1>2. n * a \in Int /\ n * b \in Int
  OBVIOUS
<1> QED BY <1>1, <1>2

LEMMA QuotientOrder ==
  ASSUME NEW x \in Nat, NEW y \in Nat, NEW n \in Nat \ {0}, x <= y
  PROVE  x \div n <= y \div n
<1> PICK q, r : q = x \div n /\ r = y \div n
  OBVIOUS
<1>1. q \in Nat /\ r \in Nat /\ n * q <= x /\ y < n * r + n
  BY Quotient
<1>2. ASSUME r + 1 <= q PROVE FALSE
  <2>1. n * (r + 1) <= n * q /\ n * q \in Int /\ n * r \in Int
    BY <1>1, <1>2, TimesOrder
  <2>2. n * (r + 1) = n * r + n
    BY <1>1
  <2> QED BY <1>1, <2>1, <2>2
<1> QED BY <1>1, <1>2

-----------------------------------------------------------------------------
\* Induction

\* A set of numbers that is not empty has a least one.
LEMMA LeastNumber ==
  ASSUME NEW S \in SUBSET Nat, S # {}
  PROVE  \E least \in S : \A k \in S : least <= k
<1>1. PICK least \in S : \A k \in S : ~(<<k, least>> \in OpToRel(<, Nat))
  BY NatLessThanWellFounded, WFMin
<1>2. \A k \in S : ~(k < least)
  BY <1>1 DEF OpToRel
<1> QED BY <1>2

\* G holds every number when it holds 0 and, with a number, the next one.
LEMMA NumberInduction ==
  ASSUME NEW G, 0 \in G, \A n \in Nat : n \in G => n + 1 \in G
  PROVE  \A n \in Nat : n \in G
<1> SUFFICES ASSUME Nat \ G # {} PROVE FALSE
  OBVIOUS
<1>1. PICK least \in Nat \ G : \A k \in Nat \ G : least <= k
  BY LeastNumber
<1>2. least # 0 /\ least - 1 \in Nat
  BY <1>1
<1>3. least - 1 \in G
  BY <1>1, <1>2
<1>4. (least - 1) + 1 \in G
  BY <1>2, <1>3
<1> QED BY <1>1, <1>4

\* G holds every subset of S when it holds each one that it holds without any
\* one of its elements.
LEMMA SubsetInduction ==
  ASSUME NEW S, IsFiniteSet(S), NEW G,
         \A s \in SUBSET S : (\A x \in s : s \ {x} \in G) => s \in G
  PROVE  \A s \in SUBSET S : s \in G
<1> DEFINE H == {n \in Nat : \A s \in SUBSET S : Cardinality(s) = n => s \in G}
<1>1. \A s \in SUBSET S : IsFiniteSet(s) /\ Cardinality(s) \in Nat
  BY FS_Subset, FS_CardinalityType
<1>2. 0 \in H
  <2> SUFFICES ASSUME NEW s \in SUBSET S, Cardinality(s) = 0 PROVE s \in G
    OBVIOUS
  <2>1. s = {}
    BY <1>1, FS_EmptySet
  <2> QED BY <2>1
<1>3. ASSUME NEW n \in Nat, n \in H
      PROVE  n + 1 \in H
  <2> SUFFICES ASSUME NEW s \in SUBSET S, Cardinality(s) = n + 1 PROVE s \in G
    BY <1>3
  <2>1. ASSUME NEW x \in s
        PROVE  s \ {x} \in G
    <3>1. Cardinality(s \ {x}) = n
      BY <1>1, FS_RemoveElement
    <3> QED BY <3>1, <1>3
  <2> QED BY <2>1
<1>4. \A n \in Nat : n \in H
  <2> HIDE DEF H
  <2> QED BY <1>2, <1>3, NumberInduction
<1> QED BY <1>1, <1>4

-----------------------------------------------------------------------------
\* The recursive function behind the fold: sums over the subsets of S

chosen(s) == CHOOSE x \in s : TRUE
add_chosen(f, sum, s) == IF s = {} THEN 0 ELSE f[chosen(s)] + sum[s \ {chosen(s)}]
Adds(f, sum, D) == sum = [s \in D |-> add_chosen(f, sum, s)]

Sums(f, S) == CHOOSE sum : Adds(f, sum, SUBSET S)
SumOf(f) == Sums(f, DOMAIN f)[DOMAIN f]

\* The sum over f is what the fold computes.
LEMMA FoldIsSum ==
  ASSUME NEW f
  PROVE  FoldFunction(+, 0, f) = SumOf(f)
BY DEF FoldFunction, FoldFunctionOnSet, MapThenFoldSet, SumOf, Sums, Adds, add_chosen, chosen

\* Sums over the subsets of up to n elements give those of n + 1.
LEMMA SumsGrow ==
  ASSUME NEW D, NEW E \in SUBSET D, NEW f, NEW g, Adds(f, g, E), {} \in E,
         \A s \in D : s # {} => s \ {chosen(s)} \in E
  PROVE  \E h : Adds(f, h, D)
<1> DEFINE h == [s \in D |-> add_chosen(f, g, s)]
<1>1. \A s \in E : h[s] = g[s]
  BY DEF Adds
<1>2. \A s \in D : add_chosen(f, h, s) = add_chosen(f, g, s)
  <2> SUFFICES ASSUME NEW s \in D PROVE add_chosen(f, h, s) = add_chosen(f, g, s)
    OBVIOUS
  <2>1. s # {} => h[s \ {chosen(s)}] = g[s \ {chosen(s)}]
    BY <1>1
  <2> HIDE DEF h
  <2> QED BY <2>1 DEF add_chosen
<1>3. h = [s \in D |-> add_chosen(f, g, s)]
  OBVIOUS
<1> HIDE DEF h
<1>4. h = [s \in D |-> add_chosen(f, h, s)]
  BY <1>2, <1>3
<1> QED BY <1>4 DEF Adds

\* The recursion has a solution.
LEMMA SumsExist ==
  ASSUME NEW S, IsFiniteSet(S), NEW f
  PROVE  Adds(f, Sums(f, S), SUBSET S)
<1> DEFINE upto(n) == {s \in SUBSET S : Cardinality(s) <= n}
           H == {n \in Nat : \E g : Adds(f, g, upto(n))}
<1>1. \A s \in SUBSET S : IsFiniteSet(s) /\ Cardinality(s) \in Nat
  BY FS_Subset, FS_CardinalityType
<1>2. 0 \in H
  <2> DEFINE g == [s \in upto(0) |-> 0]
  <2>1. \A s \in upto(0) : s = {}
    BY <1>1, FS_EmptySet
  <2>2. Adds(f, g, upto(0))
    BY <2>1 DEF Adds, add_chosen
  <2> QED BY <2>2
<1>3. ASSUME NEW n \in Nat, n \in H
      PROVE  n + 1 \in H
  <2>1. PICK g : Adds(f, g, upto(n))
    BY <1>3
  <2>2. upto(n) \in SUBSET upto(n + 1) /\ {} \in upto(n)
    BY <1>1, FS_EmptySet
  <2>3. \A s \in upto(n + 1) : s # {} => s \ {chosen(s)} \in upto(n)
    <3> SUFFICES ASSUME NEW s \in upto(n + 1), s # {} PROVE s \ {chosen(s)} \in upto(n)
      OBVIOUS
    <3>1. chosen(s) \in s
      BY DEF chosen
    <3>2. Cardinality(s \ {chosen(s)}) = Cardinality(s) - 1
      BY <3>1, <1>1, FS_RemoveElement
    <3> QED BY <3>2, <1>1
  <2>4. \E h : Adds(f, h, upto(n + 1))
    <3> HIDE DEF upto
    <3> QED BY <2>1, <2>2, <2>3, SumsGrow
  <2> HIDE DEF upto
  <2> QED BY <2>4
<1>4. Cardinality(S) \in H
  <2>1. \A n \in Nat : n \in H
    <3> HIDE DEF H
    <3> QED BY <1>2, <1>3, NumberInduction
  <2> QED BY <2>1, <1>1
<1>5. upto(Cardinality(S)) = SUBSET S
  BY <1>1, FS_Subset
<1> HIDE DEF upto
<1>6. \E g : Adds(f, g, SUBSET S)
  BY <1>4, <1>5
<1> QED BY <1>6 DEF Sums

\* One step of the sums.
LEMMA SumStep ==
  ASSUME NEW S, IsFiniteSet(S), NEW f, NEW s \in SUBSET S
  PROVE  /\ s = {} => Sums(f, S)[s] = 0
         /\ s # {} => /\ chosen(s) \in s
                      /\ Sums(f, S)[s] = f[chosen(s)] + Sums(f, S)[s \ {chosen(s)}]
<1> DEFINE sum == Sums(f, S)
<1>1. Adds(f, sum, SUBSET S)
  BY SumsExist
<1> HIDE DEF sum
<1>2. sum[s] = add_chosen(f, sum, s)
  BY <1>1 DEF Adds
<1>3. s # {} => chosen(s) \in s
  BY DEF chosen
<1> QED BY <1>2, <1>3 DEF add_chosen, sum

\* Sums of integers are integers.
LEMMA SumType ==
  ASSUME NEW S, IsFiniteSet(S), NEW f, \A x \in S : f[x] \in Int, NEW s \in SUBSET S
  PROVE  Sums(f, S)[s] \in Int
<1> DEFINE G == {t \in SUBSET S : Sums(f, S)[t] \in Int}
<1>1. ASSUME NEW t \in SUBSET S, \A x \in t : t \ {x} \in G
      PROVE  t \in G
  <2>1. CASE t = {}
    <3>1. Sums(f, S)[t] = 0
      BY <2>1, SumStep
    <3> QED BY <3>1
  <2>2. CASE t # {}
    <3>1. PICK x \in t : Sums(f, S)[t] = f[x] + Sums(f, S)[t \ {x}]
      BY <2>2, SumStep
    <3>2. Sums(f, S)[t \ {x}] \in Int /\ f[x] \in Int
      BY <1>1
    <3> QED BY <3>1, <3>2
  <2> QED BY <2>1, <2>2
<1> HIDE DEF G
<1>2. \A t \in SUBSET S : t \in G
  BY <1>1, SubsetInduction
<1> QED BY <1>2 DEF G

\* Any element may be added last.
LEMMA SumTake ==
  ASSUME NEW S, IsFiniteSet(S), NEW f, \A x \in S : f[x] \in Int,
         NEW s \in SUBSET S, NEW a \in s
  PROVE  Sums(f, S)[s] = f[a] + Sums(f, S)[s \ {a}]
<1> DEFINE G == {t \in SUBSET S : \A b \in t : Sums(f, S)[t] = f[b] + Sums(f, S)[t \ {b}]}
<1>1. ASSUME NEW t \in SUBSET S, \A x \in t : t \ {x} \in G
      PROVE  t \in G
  <2> SUFFICES ASSUME NEW b \in t PROVE Sums(f, S)[t] = f[b] + Sums(f, S)[t \ {b}]
    OBVIOUS
  <2>1. PICK x \in t : Sums(f, S)[t] = f[x] + Sums(f, S)[t \ {x}]
    BY SumStep
  <2>2. CASE x = b
    BY <2>1, <2>2
  <2>3. CASE x # b
    <3>1. Sums(f, S)[t \ {x}] = f[b] + Sums(f, S)[(t \ {x}) \ {b}]
      BY <2>1, <2>3, <1>1
    <3>2. Sums(f, S)[t \ {b}] = f[x] + Sums(f, S)[(t \ {b}) \ {x}]
      BY <2>1, <2>3, <1>1
    <3>3. (t \ {x}) \ {b} = (t \ {b}) \ {x} /\ (t \ {x}) \ {b} \in SUBSET S
      OBVIOUS
    <3>4. Sums(f, S)[(t \ {x}) \ {b}] \in Int /\ f[x] \in Int /\ f[b] \in Int
      BY <2>1, <3>3, SumType
    <3>5. Sums(f, S)[t \ {b}] = f[x] + Sums(f, S)[(t \ {x}) \ {b}]
      BY <3>2, <3>3
    <3> DEFINE rest == Sums(f, S)[(t \ {x}) \ {b}]
    <3>6. Sums(f, S)[t] = f[x] + (f[b] + rest) /\ Sums(f, S)[t \ {b}] = f[x] + rest
      BY <2>1, <3>1, <3>5
    <3>7. rest \in Int
      BY <3>4
    <3> HIDE DEF rest
    <3> QED BY <3>4, <3>6, <3>7
  <2> QED BY <2>2, <2>3
<1> HIDE DEF G
<1>2. \A t \in SUBSET S : t \in G
  BY <1>1, SubsetInduction
<1> QED BY <1>2 DEF G

\* f is g, and more by h on a part T of their domain: so are the sums.
MoreBy(f, g, h, S, T) ==
  /\ IsFiniteSet(S) /\ T \subseteq S
  /\ f \in [S -> Int] /\ g \in [S -> Int] /\ h \in [T -> Int]
  /\ \A x \in T : f[x] = g[x] + h[x]
  /\ \A x \in S \ T : f[x] = g[x]

LEMMA SumAdd ==
  ASSUME NEW S, NEW T, NEW f, NEW g, NEW h, MoreBy(f, g, h, S, T)
  PROVE  SumOf(f) = SumOf(g) + SumOf(h)
<1> USE DEF MoreBy
<1> DEFINE G == {s \in SUBSET S : Sums(f, S)[s] = Sums(g, S)[s] + Sums(h, T)[s \cap T]}
<1>0. IsFiniteSet(T)
  BY FS_Subset
<1>1. ASSUME NEW s \in SUBSET S, \A x \in s : s \ {x} \in G
      PROVE  s \in G
  <2>1. CASE s = {}
    <3>1. Sums(f, S)[s] = 0 /\ Sums(g, S)[s] = 0
      BY <2>1, SumStep
    <3>2. Sums(h, T)[s \cap T] = 0
      BY <2>1, <1>0, SumStep
    <3> QED BY <3>1, <3>2
  <2>2. CASE s # {}
    <3>1. PICK x \in s : TRUE
      BY <2>2
    <3>2. /\ Sums(f, S)[s] = f[x] + Sums(f, S)[s \ {x}]
          /\ Sums(g, S)[s] = g[x] + Sums(g, S)[s \ {x}]
      BY SumTake
    <3>3. Sums(f, S)[s \ {x}] = Sums(g, S)[s \ {x}] + Sums(h, T)[(s \ {x}) \cap T]
      BY <1>1
    <3>4. /\ Sums(f, S)[s \ {x}] \in Int /\ Sums(g, S)[s \ {x}] \in Int
          /\ Sums(h, T)[(s \ {x}) \cap T] \in Int /\ f[x] \in Int /\ g[x] \in Int
      <4>1. s \ {x} \in SUBSET S /\ (s \ {x}) \cap T \in SUBSET T
        OBVIOUS
      <4> QED BY <4>1, <1>0, SumType
    <3>5. CASE x \in T
      <4>1. s \cap T \in SUBSET T /\ x \in s \cap T /\ (s \ {x}) \cap T = (s \cap T) \ {x}
        BY <3>5
      <4>2. Sums(h, T)[s \cap T] = h[x] + Sums(h, T)[(s \ {x}) \cap T]
        BY <4>1, <1>0, SumTake
      <4>3. h[x] \in Int /\ f[x] = g[x] + h[x]
        BY <3>5
      <4> QED BY <3>2, <3>3, <3>4, <4>2, <4>3
    <3>6. CASE x \notin T
      <4>1. (s \ {x}) \cap T = s \cap T /\ f[x] = g[x]
        BY <3>6
      <4> QED BY <3>2, <3>3, <3>4, <4>1
    <3> QED BY <3>5, <3>6
  <2> QED BY <2>1, <2>2
<1> HIDE DEF G
<1>2. \A s \in SUBSET S : s \in G
  BY <1>1, SubsetInduction
<1>3. Sums(f, S)[S] = Sums(g, S)[S] + Sums(h, T)[S \cap T]
  BY <1>2 DEF G
<1>4. S \cap T = T /\ DOMAIN f = S /\ DOMAIN g = S /\ DOMAIN h = T
  OBVIOUS
<1> QED BY <1>3, <1>4 DEF SumOf

\* The type of a sum.
LEMMA SumOfType ==
  ASSUME NEW S, IsFiniteSet(S), NEW f \in [S -> Int]
  PROVE  SumOf(f) \in Int
<1>1. DOMAIN f = S /\ S \in SUBSET S /\ \A x \in S : f[x] \in Int
  OBVIOUS
<1>2. Sums(f, S)[S] \in Int
  BY <1>1, SumType
<1> QED BY <1>1, <1>2 DEF SumOf

\* One value is its own sum.
LEMMA SumSingle ==
  ASSUME NEW T, IsFiniteSet(T), NEW h \in [T -> Int], NEW a \in T, T \subseteq {a}
  PROVE  SumOf(h) = h[a]
<1> DEFINE rest == T \ {a}
<1>1. T \in SUBSET T /\ rest \in SUBSET T /\ rest = {} /\ DOMAIN h = T
  OBVIOUS
<1>2. \A x \in T : h[x] \in Int
  OBVIOUS
<1>3. Sums(h, T)[T] = h[a] + Sums(h, T)[rest]
  <2>1. T # {} => /\ chosen(T) \in T
                  /\ Sums(h, T)[T] = h[chosen(T)] + Sums(h, T)[T \ {chosen(T)}]
    BY <1>1, SumStep
  <2>2. T # {} /\ (chosen(T) \in T => chosen(T) = a)
    OBVIOUS
  <2> QED BY <2>1, <2>2
<1> HIDE DEF rest
<1>4. Sums(h, T)[rest] = 0
  BY <1>1, SumStep
<1>5. h[a] \in Int
  BY <1>2
<1> QED BY <1>1, <1>3, <1>4, <1>5 DEF SumOf

\* One value grows: so does the sum.
LEMMA SumOne ==
  ASSUME NEW S, IsFiniteSet(S), NEW f \in [S -> Int], NEW g \in [S -> Int],
         NEW a \in S, NEW d \in Int, f[a] = g[a] + d,
         \A x \in S : x # a => f[x] = g[x]
  PROVE  SumOf(f) = SumOf(g) + d
<1> DEFINE T == {a}
           h == [x \in T |-> d]
<1>1. T \in SUBSET S /\ h \in [T -> Int] /\ IsFiniteSet(T) /\ h[a] = d
  BY FS_Singleton
<1>2. /\ \A x \in T : f[x] = g[x] + h[x]
      /\ \A x \in S \ T : f[x] = g[x]
  OBVIOUS
<1>3. a \in T /\ T \subseteq {a}
  OBVIOUS
<1> HIDE DEF T, h
<1>4. SumOf(h) = d
  BY <1>1, <1>3, SumSingle
<1>5. SumOf(f) = SumOf(g) + SumOf(h)
  <2>1. MoreBy(f, g, h, S, T)
    BY <1>1, <1>2 DEF MoreBy
  <2> QED BY <2>1, SumAdd
<1> QED BY <1>4, <1>5

\* Equal values have the same sum.
LEMMA SumSame ==
  ASSUME NEW S, NEW f \in [S -> Int], NEW g \in [S -> Int], \A x \in S : f[x] = g[x]
  PROVE  SumOf(f) = SumOf(g)
<1>1. f = g
  OBVIOUS
<1> QED BY <1>1

\* Amounts sum up to an amount.
LEMMA SumNat ==
  ASSUME NEW S, IsFiniteSet(S), NEW f \in [S -> Nat]
  PROVE  SumOf(f) \in Nat
<1> DEFINE G == {s \in SUBSET S : Sums(f, S)[s] \in Nat}
<1>1. ASSUME NEW s \in SUBSET S, \A x \in s : s \ {x} \in G
      PROVE  s \in G
  <2>1. CASE s = {}
    <3>1. Sums(f, S)[s] = 0
      BY <2>1, SumStep
    <3> QED BY <3>1
  <2>2. CASE s # {}
    <3>1. PICK x \in s : TRUE
      BY <2>2
    <3>2. f[x] \in Nat /\ \A y \in S : f[y] \in Int
      OBVIOUS
    <3>3. Sums(f, S)[s] = f[x] + Sums(f, S)[s \ {x}]
      BY <3>2, SumTake
    <3>4. Sums(f, S)[s \ {x}] \in Nat
      BY <1>1
    <3> QED BY <3>2, <3>3, <3>4
  <2> QED BY <2>1, <2>2
<1> HIDE DEF G
<1>2. \A s \in SUBSET S : s \in G
  BY <1>1, SubsetInduction
<1>3. Sums(f, S)[S] \in Nat /\ DOMAIN f = S
  BY <1>2 DEF G
<1> QED BY <1>3 DEF SumOf

\* A sum grows with its values.
LEMMA SumOrder ==
  ASSUME NEW S, IsFiniteSet(S), NEW f \in [S -> Int], NEW g \in [S -> Int],
         \A x \in S : f[x] <= g[x]
  PROVE  SumOf(f) <= SumOf(g)
<1> DEFINE h == [x \in S |-> g[x] - f[x]]
<1>1. h \in [S -> Nat] /\ h \in [S -> Int] /\ \A x \in S : g[x] = f[x] + h[x]
  OBVIOUS
<1> HIDE DEF h
<1>2. MoreBy(g, f, h, S, S)
  BY <1>1 DEF MoreBy
<1>3. SumOf(g) = SumOf(f) + SumOf(h)
  BY <1>2, SumAdd
<1>4. SumOf(h) \in Nat /\ SumOf(f) \in Int
  BY <1>1, SumNat, SumOfType
<1> QED BY <1>3, <1>4

\* A sum of multiples is a multiple of the sum.
LEMMA SumScaled ==
  ASSUME NEW S, IsFiniteSet(S), NEW c \in Int, NEW f \in [S -> Int], NEW g \in [S -> Int],
         \A x \in S : g[x] = c * f[x]
  PROVE  SumOf(g) = c * SumOf(f)
<1> DEFINE G == {s \in SUBSET S : Sums(g, S)[s] = c * Sums(f, S)[s]}
<1>0. \A x \in S : f[x] \in Int /\ g[x] \in Int
  OBVIOUS
<1>1. ASSUME NEW s \in SUBSET S, \A x \in s : s \ {x} \in G
      PROVE  s \in G
  <2>1. CASE s = {}
    <3>1. Sums(f, S)[s] = 0 /\ Sums(g, S)[s] = 0
      BY <2>1, SumStep
    <3> QED BY <3>1
  <2>2. CASE s # {}
    <3>1. PICK x \in s : TRUE
      BY <2>2
    <3>2. Sums(f, S)[s] = f[x] + Sums(f, S)[s \ {x}]
      BY <1>0, SumTake
    <3>21. Sums(g, S)[s] = g[x] + Sums(g, S)[s \ {x}]
      BY <1>0, SumTake
    <3>3. Sums(g, S)[s \ {x}] = c * Sums(f, S)[s \ {x}] /\ g[x] = c * f[x]
      BY <1>1
    <3>4. f[x] \in Int /\ Sums(f, S)[s \ {x}] \in Int
      BY <1>0, SumType
    <3>5. \A y, z \in Int : c * (y + z) = c * y + c * z
      OBVIOUS
    <3> QED BY <3>2, <3>21, <3>3, <3>4, <3>5
  <2> QED BY <2>1, <2>2
<1> HIDE DEF G
<1>2. \A s \in SUBSET S : s \in G
  BY <1>1, SubsetInduction
<1>3. Sums(g, S)[S] = c * Sums(f, S)[S] /\ DOMAIN f = S /\ DOMAIN g = S
  BY <1>2 DEF G
<1> QED BY <1>3 DEF SumOf

\* A sum of ones counts.
LEMMA SumCounts ==
  ASSUME NEW S, IsFiniteSet(S), NEW f \in [S -> Int], \A x \in S : f[x] = 1
  PROVE  SumOf(f) = Cardinality(S)
<1> DEFINE G == {s \in SUBSET S : Sums(f, S)[s] = Cardinality(s)}
<1>1. ASSUME NEW s \in SUBSET S, \A x \in s : s \ {x} \in G
      PROVE  s \in G
  <2>1. CASE s = {}
    <3>1. Sums(f, S)[s] = 0 /\ Cardinality(s) = 0
      BY <2>1, SumStep, FS_EmptySet
    <3> QED BY <3>1
  <2>2. CASE s # {}
    <3>1. PICK x \in s : TRUE
      BY <2>2
    <3>2. Sums(f, S)[s] = 1 + Sums(f, S)[s \ {x}]
      BY SumTake
    <3>3. Sums(f, S)[s \ {x}] = Cardinality(s \ {x})
      BY <1>1
    <3>4. Cardinality(s \ {x}) = Cardinality(s) - 1 /\ Cardinality(s) \in Nat
      BY FS_Subset, FS_RemoveElement, FS_CardinalityType
    <3> QED BY <3>2, <3>3, <3>4
  <2> QED BY <2>1, <2>2
<1> HIDE DEF G
<1>2. \A s \in SUBSET S : s \in G
  BY <1>1, SubsetInduction
<1>3. Sums(f, S)[S] = Cardinality(S) /\ DOMAIN f = S
  BY <1>2 DEF G
<1> QED BY <1>3 DEF SumOf

\* Where some values grow by at most q, and the others do not, the sum grows by
\* at most q for each of the former.
LEMMA SumRaised ==
  ASSUME NEW S, IsFiniteSet(S), NEW V \in SUBSET S, NEW q \in Int,
         NEW f \in [S -> Int], NEW g \in [S -> Int],
         \A x \in V : f[x] <= g[x] + q, \A x \in S \ V : f[x] <= g[x]
  PROVE  SumOf(f) <= SumOf(g) + q * Cardinality(V)
<1> DEFINE h == [x \in S |-> IF x \in V THEN g[x] + q ELSE g[x]]
           d == [x \in V |-> q]
           one == [x \in V |-> 1]
<1>1. /\ h \in [S -> Int] /\ d \in [V -> Int] /\ one \in [V -> Int] /\ IsFiniteSet(V)
      /\ \A x \in S : f[x] <= h[x]
      /\ \A x \in V : h[x] = g[x] + d[x] /\ d[x] = q * one[x] /\ one[x] = 1
      /\ \A x \in S \ V : h[x] = g[x]
  BY FS_Subset
<1> HIDE DEF h, d, one
<1>2. MoreBy(h, g, d, S, V)
  BY <1>1 DEF MoreBy
<1>3. SumOf(f) <= SumOf(h) /\ SumOf(h) = SumOf(g) + SumOf(d)
  BY <1>1, <1>2, SumOrder, SumAdd
<1>4. SumOf(d) = q * SumOf(one)
  BY <1>1, SumScaled
<1>5. SumOf(one) = Cardinality(V)
  BY <1>1, SumCounts
<1> QED BY <1>3, <1>4, <1>5

\* Nothing adds up to nothing.
LEMMA SumOfNone ==
  ASSUME NEW S, IsFiniteSet(S)
  PROVE  SumOf([x \in S |-> 0]) = 0
<1> DEFINE f == [x \in S |-> 0]
<1>1. f \in [S -> Int] /\ \A x \in S : f[x] = f[x] + f[x]
  OBVIOUS
<1> HIDE DEF f
<1>2. MoreBy(f, f, f, S, S)
  BY <1>1 DEF MoreBy
<1>3. SumOf(f) \in Int /\ SumOf(f) = SumOf(f) + SumOf(f)
  BY <1>1, <1>2, SumOfType, SumAdd
<1>4. \A x \in Int : x = x + x => x = 0
  OBVIOUS
<1> QED BY <1>3, <1>4 DEF f

\* No amount is more than the sum.
LEMMA SumAtLeast ==
  ASSUME NEW S, IsFiniteSet(S), NEW f \in [S -> Nat], NEW a \in S
  PROVE  f[a] <= SumOf(f)
<1> DEFINE g == [f EXCEPT ![a] = 0]
<1>1. /\ g \in [S -> Nat] /\ f \in [S -> Int] /\ g \in [S -> Int] /\ f[a] \in Int
      /\ f[a] = g[a] + f[a] /\ \A x \in S : x # a => f[x] = g[x]
  OBVIOUS
<1> HIDE DEF g
<1>2. SumOf(f) = SumOf(g) + f[a]
  BY <1>1, SumOne
<1>3. SumOf(g) \in Nat /\ f[a] \in Nat
  BY <1>1, SumNat
<1> QED BY <1>2, <1>3

\* What is outside of a part T and holds nothing adds nothing.
LEMMA SumPart ==
  ASSUME NEW S, IsFiniteSet(S), NEW f \in [S -> Int], NEW T \in SUBSET S,
         NEW h \in [T -> Int], \A x \in T : f[x] = h[x], \A x \in S \ T : f[x] = 0
  PROVE  SumOf(f) = SumOf(h)
<1> DEFINE g == [x \in S |-> 0]
<1>1. g \in [S -> Int] /\ \A x \in S : g[x] = 0
  OBVIOUS
<1>2. SumOf(g) = 0
  BY SumOfNone
<1> HIDE DEF g
<1>3. (\A x \in T : f[x] = g[x] + h[x]) /\ \A x \in S \ T : f[x] = g[x]
  BY <1>1
<1>4. MoreBy(f, g, h, S, T)
  BY <1>1, <1>3 DEF MoreBy
<1>5. SumOf(f) = 0 + SumOf(h)
  BY <1>2, <1>4, SumAdd
<1>6. SumOf(h) \in Int
  BY SumOfType, FS_Subset
<1> QED BY <1>5, <1>6

\* A part of some amounts is no more than all of them.
LEMMA SumWithin ==
  ASSUME NEW S, IsFiniteSet(S), NEW f \in [S -> Nat], NEW T \in SUBSET S,
         NEW h \in [T -> Nat], \A x \in T : h[x] = f[x]
  PROVE  SumOf(h) <= SumOf(f)
<1> DEFINE g == [x \in S |-> IF x \in T THEN h[x] ELSE 0]
<1>1. /\ g \in [S -> Int] /\ f \in [S -> Int] /\ h \in [T -> Int]
      /\ \A x \in S : g[x] <= f[x]
      /\ \A x \in T : g[x] = h[x]
      /\ \A x \in S \ T : g[x] = 0
  OBVIOUS
<1> HIDE DEF g
<1>2. SumOf(g) = SumOf(h)
  BY <1>1, SumPart
<1>3. SumOf(g) <= SumOf(f)
  BY <1>1, SumOrder
<1> QED BY <1>2, <1>3

\* One more value adds to the sum.
LEMMA SumMore ==
  ASSUME NEW S, IsFiniteSet(S), NEW a \in S, NEW T \in SUBSET S, a \notin T,
         \A x \in S : x = a \/ x \in T,
         NEW f \in [S -> Int], NEW h \in [T -> Int], \A x \in T : f[x] = h[x]
  PROVE  SumOf(f) = SumOf(h) + f[a]
<1> DEFINE g == [x \in S |-> IF x = a THEN 0 ELSE h[x]]
<1>1. /\ g \in [S -> Int] /\ \A x \in T : g[x] = h[x]
      /\ \A x \in S \ T : g[x] = 0
  OBVIOUS
<1>2. /\ f[a] \in Int /\ f[a] = g[a] + f[a]
      /\ \A x \in S : x # a => f[x] = g[x]
  OBVIOUS
<1> HIDE DEF g
<1>3. SumOf(g) = SumOf(h)
  BY <1>1, SumPart
<1>4. SumOf(f) = SumOf(g) + f[a]
  BY <1>1, <1>2, SumOne
<1> QED BY <1>3, <1>4

-----------------------------------------------------------------------------
\* Lists in pages.  L is the order of the keys: it holds <<j, k>> when j comes
\* before k

Ordered(L, keys) ==
  /\ IsFiniteSet(keys)
  /\ \A i, j, k \in keys : <<i, j>> \in L /\ <<j, k>> \in L => <<i, k>> \in L
  /\ \A j, k \in keys : j = k \/ <<j, k>> \in L \/ <<k, j>> \in L
  /\ \A k \in keys : <<k, k>> \notin L

\* The keys of a list that come before one, that come beyond a page, and the
\* first n of them
BeforeKey(L, list, k) == {j \in list : <<j, k>> \in L}
Beyond(L, keys, from) == {k \in keys : \A s \in from : <<s, k>> \in L}
FirstOf(L, list, n) == {k \in list : Cardinality(BeforeKey(L, list, k)) < n}
LastOf(L, list) == {k \in list : \A j \in list : j = k \/ <<j, k>> \in L}

LEMMA SmallerBefore ==
  ASSUME NEW L, NEW keys, Ordered(L, keys), NEW list \in SUBSET keys,
         NEW j \in list, NEW k \in list
  PROVE  /\ Cardinality(BeforeKey(L, list, k)) \in Nat
         /\ <<j, k>> \in L =>
              Cardinality(BeforeKey(L, list, j)) < Cardinality(BeforeKey(L, list, k))
<1>1. IsFiniteSet(BeforeKey(L, list, k)) /\ IsFiniteSet(BeforeKey(L, list, j))
  BY FS_Subset DEF Ordered, BeforeKey
<1>2. /\ Cardinality(BeforeKey(L, list, k)) \in Nat
      /\ Cardinality(BeforeKey(L, list, j)) \in Nat
  BY <1>1, FS_CardinalityType
<1>3. ASSUME <<j, k>> \in L
      PROVE  Cardinality(BeforeKey(L, list, j)) < Cardinality(BeforeKey(L, list, k))
  <2>1. /\ BeforeKey(L, list, j) \subseteq BeforeKey(L, list, k)
        /\ j \in BeforeKey(L, list, k) /\ j \notin BeforeKey(L, list, j)
    BY <1>3 DEF Ordered, BeforeKey
  <2>2. /\ Cardinality(BeforeKey(L, list, j)) <= Cardinality(BeforeKey(L, list, k))
        /\ Cardinality(BeforeKey(L, list, j)) = Cardinality(BeforeKey(L, list, k))
             => BeforeKey(L, list, j) = BeforeKey(L, list, k)
    BY <1>1, <2>1, FS_Subset
  <2> QED BY <1>2, <2>1, <2>2
<1> QED BY <1>2, <1>3

\* A list that is not empty has a first key.
LEMMA FirstKey ==
  ASSUME NEW L, NEW keys, Ordered(L, keys), NEW list \in SUBSET keys, list # {}
  PROVE  \E first \in list : \A j \in list : j = first \/ <<first, j>> \in L
<1> DEFINE counts == {Cardinality(BeforeKey(L, list, k)) : k \in list}
<1>1. counts \in SUBSET Nat /\ counts # {}
  BY SmallerBefore
<1>2. PICK least \in counts : \A c \in counts : least <= c
  BY <1>1, LeastNumber
<1>3. PICK first \in list : least = Cardinality(BeforeKey(L, list, first))
  BY <1>2
<1>4. ASSUME NEW j \in list, <<j, first>> \in L PROVE FALSE
  <2>1. Cardinality(BeforeKey(L, list, j)) < Cardinality(BeforeKey(L, list, first))
    BY <1>4, SmallerBefore
  <2>2. /\ Cardinality(BeforeKey(L, list, first)) <= Cardinality(BeforeKey(L, list, j))
        /\ Cardinality(BeforeKey(L, list, first)) \in Nat
        /\ Cardinality(BeforeKey(L, list, j)) \in Nat
    BY <1>1, <1>2, <1>3
  <2> QED BY <2>1, <2>2
<1> QED BY <1>4 DEF Ordered

\* And a last one.
LEMMA LastKey ==
  ASSUME NEW L, NEW keys, Ordered(L, keys), NEW list \in SUBSET keys, list # {}
  PROVE  \E last \in list :
           LastOf(L, list) = {last} /\ \A j \in list : j = last \/ <<j, last>> \in L
<1> DEFINE back == {x \in keys \X keys : <<x[2], x[1]>> \in L}
<1>1. \A j, k \in keys : <<j, k>> \in back <=> <<k, j>> \in L
  OBVIOUS
<1> HIDE DEF back
<1>2. Ordered(back, keys)
  BY <1>1 DEF Ordered
<1>3. PICK last \in list : \A j \in list : j = last \/ <<last, j>> \in back
  BY <1>2, FirstKey
<1>4. \A j \in list : j = last \/ <<j, last>> \in L
  BY <1>1, <1>3
<1>5. ASSUME NEW k \in list, \A j \in list : j = k \/ <<j, k>> \in L
      PROVE  k = last
  BY <1>4, <1>5 DEF Ordered
<1> QED BY <1>4, <1>5 DEF LastOf

\* The first keys of a list: some, when there are any, and all others after them.
LEMMA FirstOnes ==
  ASSUME NEW L, NEW keys, Ordered(L, keys), NEW list \in SUBSET keys, NEW n \in Nat \ {0}
  PROVE  /\ list # {} => FirstOf(L, list, n) # {}
         /\ \A k \in list \ FirstOf(L, list, n) : \A e \in FirstOf(L, list, n) : <<e, k>> \in L
<1>1. ASSUME list # {} PROVE FirstOf(L, list, n) # {}
  <2>1. PICK first \in list : \A j \in list : j = first \/ <<first, j>> \in L
    BY <1>1, FirstKey
  <2>2. BeforeKey(L, list, first) = {}
    BY <2>1 DEF BeforeKey, Ordered
  <2>3. Cardinality(BeforeKey(L, list, first)) = 0
    BY <2>2, FS_EmptySet
  <2> QED BY <2>3 DEF FirstOf
<1>2. ASSUME NEW k \in list \ FirstOf(L, list, n), NEW e \in FirstOf(L, list, n)
      PROVE  <<e, k>> \in L
  <2>1. e \in list /\ e # k /\ Cardinality(BeforeKey(L, list, e)) < n
        /\ ~(Cardinality(BeforeKey(L, list, k)) < n)
    BY <1>2 DEF FirstOf
  <2>2. Cardinality(BeforeKey(L, list, e)) \in Nat /\ Cardinality(BeforeKey(L, list, k)) \in Nat
    BY <2>1, SmallerBefore
  <2>3. ASSUME <<k, e>> \in L PROVE FALSE
    BY <2>1, <2>2, <2>3, SmallerBefore
  <2> QED BY <2>1, <2>3 DEF Ordered
<1> QED BY <1>1, <1>2

\* The pages that a reader asks for, each beyond the last key of the one before
NextPage(L, keys, n, shown) ==
  IF LastOf(L, shown) = {} THEN {} ELSE FirstOf(L, Beyond(L, keys, LastOf(L, shown)), n)
AllPages(L, keys, n, count, pages) ==
  pages = [i \in 0 .. count |->
             IF i = 0 THEN FirstOf(L, Beyond(L, keys, {}), n)
             ELSE NextPage(L, keys, n, pages[i - 1])]

LEMMA PagesExist ==
  ASSUME NEW L, NEW keys, NEW n, NEW count \in Nat
  PROVE  \E pages : AllPages(L, keys, n, count, pages)
<1> DEFINE G == {c \in Nat : \E pages : AllPages(L, keys, n, c, pages)}
<1>1. 0 \in G
  <2> DEFINE one == [i \in 0 .. 0 |-> FirstOf(L, Beyond(L, keys, {}), n)]
  <2>1. one = [i \in 0 .. 0 |-> IF i = 0 THEN FirstOf(L, Beyond(L, keys, {}), n)
                                ELSE NextPage(L, keys, n, one[i - 1])]
    OBVIOUS
  <2> HIDE DEF one
  <2>2. AllPages(L, keys, n, 0, one)
    BY <2>1 DEF AllPages
  <2> QED BY <2>2
<1>2. ASSUME NEW c \in Nat, c \in G PROVE c + 1 \in G
  <2>1. PICK f : AllPages(L, keys, n, c, f)
    BY <1>2
  <2> DEFINE g == [i \in 0 .. c + 1 |-> IF i = c + 1 THEN NextPage(L, keys, n, f[c]) ELSE f[i]]
  <2>2. g[c + 1] = NextPage(L, keys, n, f[c]) /\ \A i \in 0 .. c : g[i] = f[i]
    OBVIOUS
  <2>3. DOMAIN g = 0 .. c + 1 /\ g = [i \in 0 .. c + 1 |-> g[i]]
    OBVIOUS
  <2> HIDE DEF g
  <2>4. \A i \in 0 .. c : f[i] = IF i = 0 THEN FirstOf(L, Beyond(L, keys, {}), n)
                                 ELSE NextPage(L, keys, n, f[i - 1])
    BY <2>1 DEF AllPages
  <2>5. ASSUME NEW i \in 0 .. c + 1
        PROVE  g[i] = IF i = 0 THEN FirstOf(L, Beyond(L, keys, {}), n)
                      ELSE NextPage(L, keys, n, g[i - 1])
    <3>1. CASE i = c + 1
      <4>1. i # 0 /\ g[i - 1] = f[c]
        BY <2>2, <3>1
      <4> QED BY <2>2, <3>1, <4>1
    <3>2. CASE i # c + 1
      <4>1. i \in 0 .. c /\ (i # 0 => i - 1 \in 0 .. c)
        BY <3>2
      <4>2. g[i] = f[i] /\ (i # 0 => g[i - 1] = f[i - 1])
        BY <2>2, <4>1
      <4> QED BY <2>4, <4>1, <4>2
    <3> QED BY <3>1, <3>2
  <2>6. AllPages(L, keys, n, c + 1, g)
    BY <2>3, <2>5 DEF AllPages
  <2> QED BY <2>6
<1> HIDE DEF G
<1>3. count \in G
  BY <1>1, <1>2, NumberInduction
<1> QED BY <1>3 DEF G

\* A reader sees every key, and none twice, with one page for every key: the
\* pages follow one another, and as long as a key was not shown each has another
\* last key.
LEMMA PagesShow ==
  ASSUME NEW L, NEW keys, Ordered(L, keys), NEW n \in Nat \ {0}, NEW count \in Nat,
         Cardinality(keys) <= count, NEW pages, AllPages(L, keys, n, count, pages)
  PROVE  Shows(pages, keys)
<1>1. /\ DOMAIN pages = 0 .. count
      /\ pages[0] = FirstOf(L, keys, n)
      /\ \A i \in 1 .. count : pages[i] = NextPage(L, keys, n, pages[i - 1])
  <2>1. Beyond(L, keys, {}) = keys
    BY DEF Beyond
  <2> QED BY <2>1 DEF AllPages
<1>2. \A i \in 0 .. count : pages[i] \subseteq keys
  <2>1. \A i \in 1 .. count : pages[i] \subseteq keys
    BY <1>1 DEF NextPage, FirstOf, Beyond
  <2>2. pages[0] \subseteq keys
    BY <1>1 DEF FirstOf
  <2> QED BY <2>1, <2>2
\* every key of a page comes after those of the page before
<1>3. ASSUME NEW i \in 1 .. count, NEW k \in pages[i]
      PROVE  /\ pages[i - 1] # {} /\ \A j \in pages[i - 1] : <<j, k>> \in L
             /\ k \in keys /\ i - 1 \in 0 .. count
  <2> PICK q : q = pages[i - 1]
    OBVIOUS
  <2>1. q \subseteq keys /\ k \in keys
    BY <1>2
  <2>2. LastOf(L, q) # {} /\ k \in Beyond(L, keys, LastOf(L, q))
    BY <1>1, <1>3 DEF NextPage, FirstOf
  <2>3. q # {}
    BY <2>2 DEF LastOf
  <2>4. PICK last \in q : LastOf(L, q) = {last} /\ \A j \in q : j = last \/ <<j, last>> \in L
    BY <2>1, <2>3, LastKey
  <2>5. <<last, k>> \in L
    BY <2>2, <2>4 DEF Beyond
  <2>6. ASSUME NEW j \in q PROVE <<j, k>> \in L
    <3>1. j \in keys /\ last \in keys /\ (j = last \/ <<j, last>> \in L)
      BY <2>1, <2>4
    <3> QED BY <2>1, <2>5, <3>1 DEF Ordered
  <2> QED BY <2>1, <2>3, <2>6
\* and after those of all pages before
<1>4. \A i, j \in 0 .. count : i < j =>
        \A e \in pages[i], k \in pages[j] : <<e, k>> \in L
  <2> DEFINE After(i, d) == i + d + 1 \in 0 .. count =>
               \A e \in pages[i], k \in pages[i + d + 1] : <<e, k>> \in L
             G == {d \in Nat : \A i \in 0 .. count : After(i, d)}
  <2>1. 0 \in G
    BY <1>3
  <2>2. ASSUME NEW d \in Nat, d \in G PROVE d + 1 \in G
    <3>1. ASSUME NEW i \in 0 .. count, i + (d + 1) + 1 \in 0 .. count,
                 NEW e \in pages[i], NEW k \in pages[i + (d + 1) + 1]
          PROVE  <<e, k>> \in L
      <4> PICK m : m = i + (d + 1) + 1
        OBVIOUS
      <4>1. m \in 1 .. count /\ m - 1 = i + d + 1 /\ k \in pages[m]
        BY <3>1
      <4>2. PICK j \in pages[m - 1] : <<j, k>> \in L
        BY <1>3, <4>1
      <4>3. <<e, j>> \in L
        BY <2>2, <4>1, <4>2
      <4>4. e \in keys /\ j \in keys /\ k \in keys
        BY <1>2, <4>1, <4>2
      <4> QED BY <4>2, <4>3, <4>4 DEF Ordered
    <3> QED BY <3>1
  <2>3. \A d \in Nat : d \in G
    <3> HIDE DEF G
    <3> QED BY <2>1, <2>2, NumberInduction
  <2>4. ASSUME NEW i \in 0 .. count, NEW j \in 0 .. count, i < j,
               NEW e \in pages[i], NEW k \in pages[j]
        PROVE  <<e, k>> \in L
    <3>1. j - i - 1 \in Nat /\ i + (j - i - 1) + 1 = j
      BY <2>4
    <3> QED BY <2>3, <2>4, <3>1
  <2> QED BY <2>4
\* a key that no page shows comes after all of them
<1>5. ASSUME NEW k \in keys, \A i \in 0 .. count : k \notin pages[i]
      PROVE  \A i \in 0 .. count : pages[i] # {} /\ \A e \in pages[i] : <<e, k>> \in L
  <2> DEFINE Behind(i) == pages[i] # {} /\ \A e \in pages[i] : <<e, k>> \in L
             G == {i \in Nat : i \in 0 .. count => Behind(i)}
  <2>1. 0 \in G
    BY <1>1, <1>5, FirstOnes
  <2>2. ASSUME NEW i \in Nat, i \in G PROVE i + 1 \in G
    <3>1. ASSUME i + 1 \in 0 .. count PROVE Behind(i + 1)
      <4> PICK q : q = pages[i]
        OBVIOUS
      <4>1. i \in 0 .. count /\ Behind(i) /\ i + 1 \in 1 .. count /\ (i + 1) - 1 = i
        BY <2>2, <3>1
      <4>2. PICK last \in q : LastOf(L, q) = {last}
        BY <1>2, <4>1, LastKey
      <4> DEFINE rest == Beyond(L, keys, {last})
      <4>3. k \in rest /\ rest \in SUBSET keys
        BY <4>1, <4>2 DEF Beyond
      <4>4. pages[i + 1] = FirstOf(L, rest, n)
        BY <1>1, <4>1, <4>2 DEF NextPage
      <4> HIDE DEF rest
      <4> QED BY <1>5, <3>1, <4>3, <4>4, FirstOnes
    <3> QED BY <3>1
  <2>3. \A i \in Nat : i \in G
    <3> HIDE DEF G
    <3> QED BY <2>1, <2>2, NumberInduction
  <2> QED BY <2>3
<1>6. \A k \in keys : \E i \in 0 .. count : k \in pages[i]
  <2> SUFFICES ASSUME NEW k \in keys, \A i \in 0 .. count : k \notin pages[i] PROVE FALSE
    OBVIOUS
  <2>1. \A i \in 0 .. count : pages[i] # {}
    BY <1>5
  <2> DEFINE f == [i \in 0 .. count |-> CHOOSE e \in pages[i] : TRUE]
  <2>2. \A i \in 0 .. count : f[i] \in pages[i]
    BY <2>1
  <2>3. f \in [0 .. count -> keys]
    BY <1>2, <2>2
  <2> HIDE DEF f
  <2>4. ASSUME NEW i \in 0 .. count, NEW j \in 0 .. count, f[i] = f[j] PROVE i = j
    <3>1. f[i] \in keys /\ <<f[i], f[i]>> \notin L
      BY <1>2, <2>2 DEF Ordered
    <3> QED BY <1>4, <2>2, <2>4, <3>1
  <2>5. f \in Injection(0 .. count, keys)
    BY <2>3, <2>4 DEF Injection, IsInjective
  <2>6. IsFiniteSet(0 .. count) /\ Cardinality(0 .. count) = count + 1
    <3>1. /\ IsFiniteSet(0 .. count)
          /\ Cardinality(0 .. count) = IF 0 > count THEN 0 ELSE count - 0 + 1
      BY FS_Interval
    <3> QED BY <3>1
  <2>7. IsFiniteSet(keys) /\ Cardinality(keys) \in Nat
    BY FS_CardinalityType DEF Ordered
  <2>8. Cardinality(0 .. count) <= Cardinality(keys)
    BY <2>5, <2>6, <2>7, FS_Injection
  <2> QED BY <2>6, <2>7, <2>8
<1>7. ASSUME NEW i \in 0 .. count, NEW j \in 0 .. count, i # j PROVE pages[i] \cap pages[j] = {}
  <2>1. \A k \in pages[i] \cap pages[j] : <<k, k>> \in L /\ k \in keys
    BY <1>2, <1>4, <1>7
  <2> QED BY <2>1 DEF Ordered
<1> DEFINE shown == {<<i, pages[i]>> : i \in DOMAIN pages}
<1>8. UNION {x[2] : x \in shown} = keys
  <2>1. \A x \in shown : \E i \in 0 .. count : x[2] = pages[i]
    BY <1>1
  <2>2. \A i \in 0 .. count : \E x \in shown : x[2] = pages[i]
    <3> SUFFICES ASSUME NEW i \in 0 .. count PROVE \E x \in shown : x[2] = pages[i]
      OBVIOUS
    <3>1. <<i, pages[i]>> \in shown /\ <<i, pages[i]>>[2] = pages[i]
      BY <1>1
    <3> QED BY <3>1
  <2> HIDE DEF shown
  <2> QED BY <1>2, <1>6, <2>1, <2>2
<1>9. ASSUME NEW x \in shown, NEW y \in shown, x # y PROVE x[2] \cap y[2] = {}
  <2>1. PICK i, j \in 0 .. count : x = <<i, pages[i]>> /\ y = <<j, pages[j]>>
    BY <1>1
  <2>2. i # j
    BY <1>9, <2>1
  <2> QED BY <1>7, <2>1, <2>2
<1> QED BY <1>8, <1>9 DEF Shows

-----------------------------------------------------------------------------
\* The pages of the contracts: numbered keys up or down, read with a limit that
\* asks for something

IsLimit(limit) == limit = {} \/ \E n \in Nat \ {0} : limit = {n}

PagesOf(keys, limit, count) == Pages(LAMBDA s : page(keys, s, limit), count)
ReversePagesOf(keys, limit, count) ==
  ReversePages(LAMBDA s : reverse_page(keys, s, limit), count)

Up == {x \in Int \X Int : x[1] < x[2]}
Down == {x \in Int \X Int : x[1] > x[2]}

LEMMA LimitPositive ==
  ASSUME NEW limit, IsLimit(limit)
  PROVE  align_limit(limit) \in Nat \ {0}
<1>1. DEFAULT_LIMIT \in Nat \ {0} /\ MAX_LIMIT \in Nat \ {0}
  BY PagingAssumption
<1>2. CASE limit = {}
  BY <1>1, <1>2 DEF align_limit
<1>3. ASSUME NEW n \in Nat \ {0}, limit = {n} PROVE align_limit(limit) \in Nat \ {0}
  <2>1. (CHOOSE m \in limit : TRUE) = n
    BY <1>3
  <2>2. limit # {}
    BY <1>3
  <2> QED BY <1>1, <2>1, <2>2 DEF align_limit
<1> QED BY <1>2, <1>3 DEF IsLimit

LEMMA UpAndDown ==
  ASSUME NEW keys \in SUBSET Int, IsFiniteSet(keys)
  PROVE  /\ Ordered(Up, keys) /\ Ordered(Down, keys)
         /\ \A j, k \in keys : /\ <<j, k>> \in Up <=> j < k
                               /\ <<j, k>> \in Down <=> j > k
<1>1. \A j, k \in keys : /\ <<j, k>> \in Up <=> j < k
                         /\ <<j, k>> \in Down <=> j > k
  BY DEF Up, Down
<1>2. \A k \in keys : k \in Int
  OBVIOUS
<1>3. Ordered(Up, keys)
  BY <1>1, <1>2 DEF Ordered
<1>4. Ordered(Down, keys)
  BY <1>1, <1>2 DEF Ordered
<1> QED BY <1>1, <1>3, <1>4

\* A page holds the first keys beyond the last one seen.
LEMMA PageFirst ==
  ASSUME NEW keys \in SUBSET Int, IsFiniteSet(keys), NEW from \in SUBSET keys, NEW limit
  PROVE  /\ page(keys, from, limit) = FirstOf(Up, Beyond(Up, keys, from), align_limit(limit))
         /\ reverse_page(keys, from, limit)
              = FirstOf(Down, Beyond(Down, keys, from), align_limit(limit))
         /\ Last(from) = LastOf(Up, from) /\ First(from) = LastOf(Down, from)
<1>0. /\ \A k \in keys : k \in Int
      /\ \A j, k \in keys : /\ <<j, k>> \in Up <=> j < k
                            /\ <<j, k>> \in Down <=> j > k
  BY UpAndDown
<1> DEFINE rest == {k \in keys : after(k, from)}
           back == {k \in keys : before(k, from)}
<1>1. rest = Beyond(Up, keys, from)
  BY <1>0 DEF after, Beyond
<1>2. back = Beyond(Down, keys, from)
  BY <1>0 DEF before, Beyond
<1>3. \A k \in rest : {j \in rest : j < k} = BeforeKey(Up, rest, k)
  BY <1>0 DEF BeforeKey
<1>4. \A k \in back : {j \in back : j > k} = BeforeKey(Down, back, k)
  BY <1>0 DEF BeforeKey
<1>5. page(keys, from, limit)
        = {k \in rest : Cardinality({j \in rest : j < k}) < align_limit(limit)}
  BY DEF page
<1>6. reverse_page(keys, from, limit)
        = {k \in back : Cardinality({j \in back : j > k}) < align_limit(limit)}
  BY DEF reverse_page
<1> HIDE DEF rest, back
<1>7. page(keys, from, limit) = FirstOf(Up, rest, align_limit(limit))
  BY <1>3, <1>5 DEF FirstOf
<1>8. reverse_page(keys, from, limit) = FirstOf(Down, back, align_limit(limit))
  BY <1>4, <1>6 DEF FirstOf
<1>9. Last(from) = LastOf(Up, from) /\ First(from) = LastOf(Down, from)
  <2>1. ASSUME NEW j \in from, NEW k \in from
        PROVE  /\ j <= k <=> (j = k \/ <<j, k>> \in Up)
               /\ j >= k <=> (j = k \/ <<j, k>> \in Down)
    <3>1. j \in keys /\ k \in keys
      OBVIOUS
    <3>2. j \in Int /\ k \in Int
      BY <3>1
    <3>3. (j <= k <=> j = k \/ j < k) /\ (j >= k <=> j = k \/ j > k)
      BY <3>2
    <3> QED BY <1>0, <3>1, <3>3
  <2>2. Last(from) = LastOf(Up, from)
    BY <2>1 DEF Last, LastOf
  <2>3. First(from) = LastOf(Down, from)
    BY <2>1 DEF First, LastOf
  <2> QED BY <2>2, <2>3
<1> QED BY <1>1, <1>2, <1>7, <1>8, <1>9

\* The recursion of the reader, up and down
Reads(keys, limit, count, pages) ==
  pages = [i \in 0 .. count |->
             IF i = 0 THEN page(keys, {}, limit)
             ELSE LET last == Last(pages[i - 1])
                  IN IF last = {} THEN {} ELSE page(keys, last, limit)]
ReadsBack(keys, limit, count, pages) ==
  pages = [i \in 0 .. count |->
             IF i = 0 THEN reverse_page(keys, {}, limit)
             ELSE LET first == First(pages[i - 1])
                  IN IF first = {} THEN {} ELSE reverse_page(keys, first, limit)]

LEMMA ReadsAll ==
  ASSUME NEW keys \in SUBSET Int, IsFiniteSet(keys), NEW limit, NEW count \in Nat, NEW pages
  PROVE  /\ Reads(keys, limit, count, pages)
              <=> AllPages(Up, keys, align_limit(limit), count, pages)
         /\ ReadsBack(keys, limit, count, pages)
              <=> AllPages(Down, keys, align_limit(limit), count, pages)
<1> PICK n : n = align_limit(limit)
  OBVIOUS
<1>0. \A from \in SUBSET keys :
        /\ page(keys, from, limit) = FirstOf(Up, Beyond(Up, keys, from), n)
        /\ reverse_page(keys, from, limit) = FirstOf(Down, Beyond(Down, keys, from), n)
        /\ Last(from) = LastOf(Up, from) /\ First(from) = LastOf(Down, from)
        /\ Last(from) \in SUBSET keys /\ First(from) \in SUBSET keys
  BY PageFirst DEF Last, First
<1>1. {} \in SUBSET keys
  OBVIOUS
<1>2. \A from \in SUBSET keys :
        /\ NextPage(Up, keys, n, from) =
             LET last == Last(from) IN IF last = {} THEN {} ELSE page(keys, last, limit)
        /\ NextPage(Down, keys, n, from) =
             LET first == First(from) IN IF first = {} THEN {} ELSE reverse_page(keys, first, limit)
  BY <1>0 DEF NextPage
<1>3. \A L, from : NextPage(L, keys, n, from) \in SUBSET keys
                   /\ FirstOf(L, Beyond(L, keys, from), n) \in SUBSET keys
  BY DEF NextPage, FirstOf, Beyond
<1>4. \A from, first : /\ page(keys, from, limit) \in SUBSET keys
                       /\ reverse_page(keys, first, limit) \in SUBSET keys
  BY DEF page, reverse_page
<1>5. ASSUME \A i \in 0 .. count : pages[i] \in SUBSET keys
      PROVE  /\ Reads(keys, limit, count, pages) <=> AllPages(Up, keys, n, count, pages)
             /\ ReadsBack(keys, limit, count, pages) <=> AllPages(Down, keys, n, count, pages)
  <2> DEFINE reads(i) == IF i = 0 THEN page(keys, {}, limit)
                         ELSE LET last == Last(pages[i - 1])
                              IN IF last = {} THEN {} ELSE page(keys, last, limit)
             reads_back(i) == IF i = 0 THEN reverse_page(keys, {}, limit)
                              ELSE LET first == First(pages[i - 1])
                                   IN IF first = {} THEN {} ELSE reverse_page(keys, first, limit)
             shown(L, i) == IF i = 0 THEN FirstOf(L, Beyond(L, keys, {}), n)
                            ELSE NextPage(L, keys, n, pages[i - 1])
  <2>1. ASSUME NEW i \in 0 .. count
        PROVE  reads(i) = shown(Up, i) /\ reads_back(i) = shown(Down, i)
    <3>1. CASE i = 0
      BY <1>0, <1>1, <3>1
    <3>2. CASE i # 0
      <4>1. pages[i - 1] \in SUBSET keys
        BY <1>5, <3>2
      <4> QED BY <1>2, <3>2, <4>1
    <3> QED BY <3>1, <3>2
  <2>2. /\ Reads(keys, limit, count, pages) <=> pages = [i \in 0 .. count |-> reads(i)]
        /\ ReadsBack(keys, limit, count, pages) <=> pages = [i \in 0 .. count |-> reads_back(i)]
        /\ \A L : AllPages(L, keys, n, count, pages) <=> pages = [i \in 0 .. count |-> shown(L, i)]
    BY DEF Reads, ReadsBack, AllPages
  <2> HIDE DEF reads, reads_back, shown
  <2> QED BY <2>1, <2>2
<1>6. \/ Reads(keys, limit, count, pages) \/ ReadsBack(keys, limit, count, pages)
      => \A i \in 0 .. count : pages[i] \in SUBSET keys
  BY <1>4 DEF Reads, ReadsBack
<1>7. \A L : AllPages(L, keys, n, count, pages)
             => \A i \in 0 .. count : pages[i] \in SUBSET keys
  BY <1>3 DEF AllPages
<1> QED BY <1>5, <1>6, <1>7

\* Whoever reads all pages of a list sees every key once.
LEMMA KeysShown ==
  ASSUME NEW keys \in SUBSET Int, IsFiniteSet(keys), NEW limit, IsLimit(limit),
         NEW count \in Nat, Cardinality(keys) <= count
  PROVE  /\ Shows(PagesOf(keys, limit, count), keys)
         /\ Shows(ReversePagesOf(keys, limit, count), keys)
<1> PICK n : n = align_limit(limit)
  OBVIOUS
<1>0. n \in Nat \ {0} /\ Ordered(Up, keys) /\ Ordered(Down, keys)
  BY LimitPositive, UpAndDown
<1>1. PagesOf(keys, limit, count) = CHOOSE pages : Reads(keys, limit, count, pages)
  BY DEF PagesOf, Pages, Reads
<1>2. ReversePagesOf(keys, limit, count) = CHOOSE pages : ReadsBack(keys, limit, count, pages)
  BY DEF ReversePagesOf, ReversePages, ReadsBack
<1>3. \E pages : Reads(keys, limit, count, pages)
  BY PagesExist, ReadsAll
<1>4. \E pages : ReadsBack(keys, limit, count, pages)
  BY PagesExist, ReadsAll
<1>5. AllPages(Up, keys, n, count, PagesOf(keys, limit, count))
  BY <1>1, <1>3, ReadsAll
<1>6. AllPages(Down, keys, n, count, ReversePagesOf(keys, limit, count))
  BY <1>2, <1>4, ReadsAll
<1> QED BY <1>0, <1>5, <1>6, PagesShow

\* What is shown is the union of the pages.
LEMMA ShownUnion ==
  ASSUME NEW pages, NEW keys, Shows(pages, keys)
  PROVE  UNION {pages[i] : i \in DOMAIN pages} = keys
<1> DEFINE shown == {<<i, pages[i]>> : i \in DOMAIN pages}
<1>1. UNION {x[2] : x \in shown} = keys
  BY DEF Shows
<1>2. {x[2] : x \in shown} = {pages[i] : i \in DOMAIN pages}
  <2>1. \A x \in shown : \E i \in DOMAIN pages : x[2] = pages[i]
    OBVIOUS
  <2>2. \A i \in DOMAIN pages : \E x \in shown : x[2] = pages[i]
    <3> SUFFICES ASSUME NEW i \in DOMAIN pages PROVE \E x \in shown : x[2] = pages[i]
      OBVIOUS
    <3>1. <<i, pages[i]>> \in shown /\ <<i, pages[i]>>[2] = pages[i]
      OBVIOUS
    <3> QED BY <3>1
  <2> HIDE DEF shown
  <2> QED BY <2>1, <2>2
<1> QED BY <1>1, <1>2

\* Keys of a finite set of numbers, as many pages as that set has members.
LEMMA KeysOfShown ==
  ASSUME NEW all \in SUBSET Int, IsFiniteSet(all), NEW keys \in SUBSET all,
         NEW limit, IsLimit(limit)
  PROVE  Shows(PagesOf(keys, limit, Cardinality(all)), keys)
<1>1. /\ IsFiniteSet(keys) /\ Cardinality(keys) <= Cardinality(all)
      /\ Cardinality(all) \in Nat /\ keys \in SUBSET Int
  BY FS_Subset, FS_CardinalityType
<1> QED BY <1>1, KeysShown
=============================================================================
