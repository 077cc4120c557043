------------------------------ MODULE SumFacts ------------------------------
(***************************************************************************)
(* Induction over the natural numbers, stated of a set, and what the sum   *)
(* of a finite set of numbers is: MapThenSumSet picks the elements in some *)
(* order, and the order does not matter.                                   *)
(***************************************************************************)
EXTENDS Integers, FiniteSetsExt, FiniteSetTheorems, WellFoundedInduction, TLAPS

\* A set with 0 in it, and with each successor of a member, has every number.
LEMMA SetInduction ==
  ASSUME NEW S, 0 \in S, \A n \in Nat : n \in S => n + 1 \in S
  PROVE  Nat \subseteq S
<1> SUFFICES ASSUME Nat \ S # {} PROVE FALSE
  OBVIOUS
<1> DEFINE R == OpToRel(<, Nat)
<1>1. IsWellFoundedOn(R, Nat)
  BY NatLessThanWellFounded
<1>2. \A a, b \in Nat : <<a, b>> \in R <=> a < b
  BY DEF OpToRel
<1> HIDE DEF R
<1>3. PICK x \in Nat \ S : \A y \in Nat \ S : ~(<<y, x>> \in R)
  BY <1>1, WFMin
<1>4. x # 0 /\ x - 1 \in Nat /\ x - 1 < x
  BY <1>3
<1>5. x - 1 \in S
  BY <1>2, <1>3, <1>4
<1>6. (x - 1) + 1 \in S
  BY <1>4, <1>5
<1>7. QED
  BY <1>3, <1>4, <1>6

-----------------------------------------------------------------------------
(***************************************************************************)
(* The sum of h over T, and the function over the subsets of T by which it *)
(* is defined.                                                             *)
(***************************************************************************)
Total(h, T) == MapThenSumSet(LAMBDA j : h[j], T)

Pick(s) == CHOOSE x \in s : TRUE

SumsOf(it, h, T) ==
  it = [s \in SUBSET T |-> IF s = {} THEN 0 ELSE h[Pick(s)] + it[s \ {Pick(s)}]]

\* The numbers h are integers on a finite set.
Summable(h, T) == IsFiniteSet(T) /\ \A x \in T : h[x] \in Int

\* Taking an element from a subset leaves a subset with one element less.
LEMMA Smaller ==
  ASSUME NEW T, IsFiniteSet(T), NEW s \in SUBSET T
  PROVE  /\ IsFiniteSet(s) /\ Cardinality(s) \in Nat /\ Cardinality(s) <= Cardinality(T)
         /\ Cardinality(s) = 0 <=> s = {}
         /\ s # {} => Pick(s) \in s
         /\ \A x \in s : s \ {x} \in SUBSET T /\ Cardinality(s \ {x}) = Cardinality(s) - 1
<1>1. IsFiniteSet(s) /\ Cardinality(s) \in Nat /\ Cardinality(s) <= Cardinality(T)
  BY FS_Subset, FS_CardinalityType
<1>2. Cardinality(s) = 0 <=> s = {}
  BY <1>1, FS_EmptySet
<1>3. s # {} => Pick(s) \in s
  BY DEF Pick
<1>4. \A x \in s : s \ {x} \in SUBSET T /\ Cardinality(s \ {x}) = Cardinality(s) - 1
  BY <1>1, FS_RemoveElement
<1>5. QED
  BY <1>1, <1>2, <1>3, <1>4

\* Every subset has its sum: by induction on how many elements it has.
LEMMA SumsExist ==
  ASSUME NEW T, NEW h, Summable(h, T)
  PROVE  \E it : SumsOf(it, h, T)
<1> USE DEF Summable
<1> DEFINE Sum1(it, s) == IF s = {} THEN 0 ELSE h[Pick(s)] + it[s \ {Pick(s)}]
           Good(n, it) == \A s \in SUBSET T : Cardinality(s) <= n => it[s] = Sum1(it, s)
           S == {n \in Nat : \E it \in [SUBSET T -> Int] : Good(n, it)}
<1>0. \A s \in SUBSET T :
        /\ Cardinality(s) \in Nat /\ Cardinality(s) <= Cardinality(T)
        /\ Cardinality(s) = 0 <=> s = {}
  BY Smaller
<1>p. \A s \in SUBSET T : s # {} =>
        /\ Pick(s) \in s /\ h[Pick(s)] \in Int
        /\ s \ {Pick(s)} \in SUBSET T /\ Cardinality(s \ {Pick(s)}) = Cardinality(s) - 1
  BY Smaller
<1>1. 0 \in S
  <2>1. [s \in SUBSET T |-> 0] \in [SUBSET T -> Int]
    OBVIOUS
  <2>2. \A s \in SUBSET T : Cardinality(s) <= 0 => s = {}
    BY <1>0
  <2>3. Good(0, [s \in SUBSET T |-> 0])
    BY <2>2
  <2>4. QED
    BY <2>1, <2>3
<1>2. ASSUME NEW n \in Nat, n \in S
      PROVE  n + 1 \in S
  <2>1. PICK it \in [SUBSET T -> Int] : Good(n, it)
    BY <1>2
  <2> DEFINE nx == [s \in SUBSET T |-> IF Cardinality(s) <= n THEN it[s] ELSE Sum1(it, s)]
  <2>2. ASSUME NEW s \in SUBSET T
        PROVE  Sum1(it, s) \in Int
    <3>1. s # {} => h[Pick(s)] \in Int /\ it[s \ {Pick(s)}] \in Int
      BY <1>p
    <3>2. QED
      BY <3>1
  <2>3. nx \in [SUBSET T -> Int]
    BY <2>2
  <2>4. ASSUME NEW s \in SUBSET T, Cardinality(s) <= n + 1
        PROVE  nx[s] = Sum1(nx, s)
    <3>1. nx[s] = Sum1(it, s)
      BY <2>1
    <3>2. CASE s = {}
      BY <3>1, <3>2
    <3>3. CASE s # {}
      <4>1. s \ {Pick(s)} \in SUBSET T /\ Cardinality(s \ {Pick(s)}) <= n
        BY <1>0, <1>p, <2>4, <3>3
      <4>2. nx[s \ {Pick(s)}] = it[s \ {Pick(s)}]
        BY <4>1
      <4>3. QED
        BY <3>1, <3>3, <4>2
    <3>4. QED
      BY <3>2, <3>3
  <2>5. Good(n + 1, nx)
    BY <2>4
  <2> HIDE DEF nx, Good
  <2>6. QED
    BY <2>3, <2>5
<1>3. Cardinality(T) \in S
  <2> HIDE DEF S
  <2>1. QED
    BY <1>0, <1>1, <1>2, SetInduction
<1>4. PICK it \in [SUBSET T -> Int] : Good(Cardinality(T), it)
  BY <1>3
<1>5. \A s \in SUBSET T : it[s] = Sum1(it, s)
  BY <1>0, <1>4
<1>6. it = [s \in SUBSET T |-> it[s]]
  OBVIOUS
<1>7. it = [s \in SUBSET T |-> Sum1(it, s)]
  BY <1>5, <1>6
<1>8. QED
  BY <1>7 DEF SumsOf

\* A sum is defined by its function.
LEMMA TotalIs ==
  ASSUME NEW T, NEW h, Summable(h, T)
  PROVE  \E it : SumsOf(it, h, T) /\ Total(h, T) = it[T]
<1> DEFINE it == CHOOSE it : SumsOf(it, h, T)
<1>1. SumsOf(it, h, T)
  <2>1. PICK f : SumsOf(f, h, T)
    BY SumsExist
  <2>2. QED
    BY <2>1, Zenon
<1>2. Total(h, T) = it[T]
  BY DEF Total, MapThenSumSet, MapThenFoldSet, SumsOf, Pick
<1>3. QED
  BY <1>1, <1>2

\* The equation of the function, subset by subset.
LEMMA SumsStep ==
  ASSUME NEW T, NEW h, NEW it, SumsOf(it, h, T), NEW s \in SUBSET T
  PROVE  it[s] = IF s = {} THEN 0 ELSE h[Pick(s)] + it[s \ {Pick(s)}]
BY DEF SumsOf

\* Two such functions agree wherever both are defined and their numbers agree.
LEMMA SumsAgree ==
  ASSUME NEW T, IsFiniteSet(T), NEW U, NEW h, NEW g, NEW it, NEW jt,
         SumsOf(it, h, T), SumsOf(jt, g, U), T \subseteq U, \A x \in T : h[x] = g[x]
  PROVE  it[T] = jt[T]
<1> DEFINE S == {n \in Nat : \A s \in SUBSET T : Cardinality(s) <= n => it[s] = jt[s]}
<1>u. \A s \in SUBSET T : s \in SUBSET U
  OBVIOUS
<1>0. \A s \in SUBSET T :
        /\ Cardinality(s) \in Nat /\ Cardinality(s) <= Cardinality(T)
        /\ Cardinality(s) = 0 <=> s = {}
  BY Smaller
<1>p. \A s \in SUBSET T : s # {} =>
        /\ Pick(s) \in T
        /\ s \ {Pick(s)} \in SUBSET T /\ Cardinality(s \ {Pick(s)}) = Cardinality(s) - 1
  BY Smaller
<1>e. ASSUME NEW s \in SUBSET T
      PROVE  /\ it[s] = IF s = {} THEN 0 ELSE h[Pick(s)] + it[s \ {Pick(s)}]
             /\ jt[s] = IF s = {} THEN 0 ELSE g[Pick(s)] + jt[s \ {Pick(s)}]
  <2>1. it[s] = IF s = {} THEN 0 ELSE h[Pick(s)] + it[s \ {Pick(s)}]
    BY DEF SumsOf
  <2>2. jt[s] = IF s = {} THEN 0 ELSE g[Pick(s)] + jt[s \ {Pick(s)}]
    BY <1>u, SumsStep
  <2>3. QED
    BY <2>1, <2>2
<1>1. 0 \in S
  BY <1>0, <1>e
<1>2. ASSUME NEW n \in Nat, n \in S
      PROVE  n + 1 \in S
  <2>1. ASSUME NEW s \in SUBSET T, Cardinality(s) <= n + 1, s # {}
        PROVE  it[s] = jt[s]
    <3>1. Cardinality(s \ {Pick(s)}) <= n /\ s \ {Pick(s)} \in SUBSET T
      BY <1>0, <1>p, <2>1
    <3>2. it[s \ {Pick(s)}] = jt[s \ {Pick(s)}]
      BY <1>2, <3>1
    <3>3. h[Pick(s)] = g[Pick(s)]
      BY <1>p, <2>1
    <3>4. QED
      BY <1>e, <2>1, <3>2, <3>3
  <2>2. ASSUME NEW s \in SUBSET T, s = {}
        PROVE  it[s] = jt[s]
    BY <1>e, <2>2
  <2>3. \A s \in SUBSET T : Cardinality(s) <= n + 1 => it[s] = jt[s]
    BY <2>1, <2>2
  <2>4. QED
    BY <2>3
<1>3. Cardinality(T) \in S
  <2> HIDE DEF S
  <2>1. Cardinality(T) \in Nat
    BY <1>0
  <2>2. QED
    BY <1>1, <1>2, <2>1, SetInduction
<1>4. QED
  BY <1>0, <1>3

\* Any element may be taken first.
LEMMA AnyFirst ==
  ASSUME NEW T, NEW h, Summable(h, T), NEW it, SumsOf(it, h, T)
  PROVE  /\ \A s \in SUBSET T : it[s] \in Int
         /\ \A s \in SUBSET T : \A x \in s : it[s] = h[x] + it[s \ {x}]
<1> DEFINE Good(s) == it[s] \in Int /\ \A x \in s : it[s] = h[x] + it[s \ {x}]
           S == {n \in Nat : \A s \in SUBSET T : Cardinality(s) <= n => Good(s)}
<1>h. IsFiniteSet(T) /\ \A x \in T : h[x] \in Int
  BY DEF Summable
<1>0. \A s \in SUBSET T :
        /\ Cardinality(s) \in Nat /\ Cardinality(s) <= Cardinality(T)
        /\ Cardinality(s) = 0 <=> s = {}
  BY <1>h, Smaller
<1>r. \A s \in SUBSET T : \A x \in s :
        s \ {x} \in SUBSET T /\ Cardinality(s \ {x}) = Cardinality(s) - 1
  BY <1>h, Smaller
<1>p. \A s \in SUBSET T : s # {} => Pick(s) \in s
  BY <1>h, Smaller
<1>e. \A s \in SUBSET T : it[s] = IF s = {} THEN 0 ELSE h[Pick(s)] + it[s \ {Pick(s)}]
  BY SumsStep
<1>1. 0 \in S
  <2>1. ASSUME NEW s \in SUBSET T, Cardinality(s) <= 0
        PROVE  Good(s)
    <3>1. s = {} /\ it[s] = 0
      BY <1>0, <1>e, <2>1
    <3>2. QED
      BY <3>1
  <2> HIDE DEF Good
  <2>2. QED
    BY <2>1
<1>2. ASSUME NEW n \in Nat, n \in S
      PROVE  n + 1 \in S
  <2>1. ASSUME NEW s \in SUBSET T, Cardinality(s) <= n + 1, s # {}
        PROVE  Good(s)
    <3> DEFINE p == Pick(s)
    <3>1. p \in s /\ h[p] \in Int
      BY <1>h, <1>p, <2>1
    <3>2. it[s] = h[p] + it[s \ {p}]
      BY <1>e, <2>1
    <3> HIDE DEF p
    <3>3. ASSUME NEW x \in s
          PROVE  s \ {x} \in SUBSET T /\ Cardinality(s \ {x}) <= n /\ Good(s \ {x})
      <4>1. s \ {x} \in SUBSET T /\ Cardinality(s \ {x}) <= n
        BY <1>0, <1>r, <2>1
      <4>2. QED
        BY <1>2, <4>1
    <3>4. it[s] \in Int
      <4>1. it[s \ {p}] \in Int
        BY <3>1, <3>3
      <4>2. QED
        BY <3>1, <3>2, <4>1
    <3>5. ASSUME NEW x \in s, x # p
          PROVE  it[s] = h[x] + it[s \ {x}]
      <4> DEFINE w == (s \ {p}) \ {x}
      <4>1. x \in s \ {p} /\ p \in s \ {x} /\ w = (s \ {x}) \ {p}
        BY <3>1, <3>5
      <4>2. it[s \ {p}] = h[x] + it[w]
        BY <3>1, <3>3, <4>1
      <4>3. it[s \ {x}] = h[p] + it[w]
        BY <3>3, <4>1
      <4>4. w \in SUBSET T /\ Cardinality(w) <= n
        <5>1. /\ s \ {p} \in SUBSET T /\ Cardinality(s \ {p}) <= n
              /\ Cardinality(s \ {p}) \in Nat
          BY <1>0, <3>1, <3>3
        <5>2. w \in SUBSET T /\ Cardinality(w) = Cardinality(s \ {p}) - 1
          BY <1>r, <4>1, <5>1
        <5>3. QED
          BY <5>1, <5>2
      <4>5. it[w] \in Int /\ h[x] \in Int
        BY <1>2, <1>h, <4>4
      <4> HIDE DEF w
      <4>6. QED
        BY <3>1, <3>2, <4>2, <4>3, <4>5
    <3>6. QED
      BY <3>2, <3>4, <3>5
  <2>2. ASSUME NEW s \in SUBSET T, s = {}
        PROVE  Good(s)
    <3>1. it[s] = 0
      BY <1>e, <2>2
    <3>2. QED
      BY <2>2, <3>1
  <2>3. \A s \in SUBSET T : Cardinality(s) <= n + 1 => Good(s)
    BY <2>1, <2>2
  <2> HIDE DEF Good
  <2>4. QED
    BY <2>3
<1>3. Cardinality(T) \in S
  <2> HIDE DEF S
  <2>1. QED
    BY <1>0, <1>1, <1>2, SetInduction
<1>4. QED
  BY <1>0, <1>3

-----------------------------------------------------------------------------
(***************************************************************************)
(* What is to be known of a sum                                            *)
(***************************************************************************)
\* The sum of nothing is zero, and every sum of integers is an integer.
LEMMA TotalType ==
  ASSUME NEW T, NEW h, Summable(h, T)
  PROVE  Total(h, T) \in Int /\ (T = {} => Total(h, T) = 0)
<1>1. PICK it : SumsOf(it, h, T) /\ Total(h, T) = it[T]
  BY TotalIs
<1>2. it[T] \in Int
  BY <1>1, AnyFirst
<1>3. it[T] = IF T = {} THEN 0 ELSE h[Pick(T)] + it[T \ {Pick(T)}]
  BY <1>1, SumsStep
<1>4. QED
  BY <1>1, <1>2, <1>3

\* A sum is decided by the numbers summed.
LEMMA TotalSame ==
  ASSUME NEW T, NEW h, NEW g, Summable(h, T), \A x \in T : h[x] = g[x]
  PROVE  Total(h, T) = Total(g, T)
<1>1. Summable(g, T) /\ IsFiniteSet(T)
  BY DEF Summable
<1>2. PICK it : SumsOf(it, h, T) /\ Total(h, T) = it[T]
  BY TotalIs
<1>3. PICK jt : SumsOf(jt, g, T) /\ Total(g, T) = jt[T]
  BY <1>1, TotalIs
<1>4. it[T] = jt[T]
  BY <1>1, <1>2, <1>3, SumsAgree
<1>5. QED
  BY <1>2, <1>3, <1>4

\* One more element adds its number.
LEMMA TotalAdd ==
  ASSUME NEW T, NEW h, NEW x, x \notin T, Summable(h, T \cup {x})
  PROVE  Total(h, T \cup {x}) = Total(h, T) + h[x]
<1> DEFINE U == T \cup {x}
<1>1. IsFiniteSet(T) /\ Summable(h, T)
  BY FS_Subset DEF Summable
<1>2. PICK it : SumsOf(it, h, U) /\ Total(h, U) = it[U]
  BY TotalIs
<1>3. PICK jt : SumsOf(jt, h, T) /\ Total(h, T) = jt[T]
  BY <1>1, TotalIs
<1>4. it[T] = jt[T]
  BY <1>1, <1>2, <1>3, SumsAgree
<1>5. it[U] = h[x] + it[U \ {x}]
  BY <1>2, AnyFirst
<1>6. U \ {x} = T
  OBVIOUS
<1>7. T \in SUBSET U /\ Summable(h, U)
  OBVIOUS
<1>8. it[T] \in Int /\ h[x] \in Int
  BY <1>2, <1>7, AnyFirst DEF Summable
<1> DEFINE a == it[T]
           b == h[x]
<1>a. Total(h, U) = b + a /\ Total(h, T) = a /\ a \in Int /\ b \in Int
  BY <1>2, <1>3, <1>4, <1>5, <1>6, <1>8
<1> HIDE DEF U, a
<1>9. Total(h, U) = Total(h, T) + h[x]
  BY <1>a
<1>10. QED
  BY <1>9 DEF U
=============================================================================
