----------------------------- MODULE DataLemmas ------------------------------
(***************************************************************************)
(* Facts about numbers, finite sums, sequences, iteration and closure that *)
(* the proofs of several components rest on.  Induction is by the least    *)
(* counterexample.                                                         *)
(***************************************************************************)
EXTENDS Integers, Sequences, FiniteSets, Functions, SequencesExt, FiniteSetTheorems,
        NaturalsInduction, WellFoundedInduction, TLAPS

\* Every set of natural numbers with an element has a least one.
LEMMA LeastNatural ==
    ASSUME NEW T \in SUBSET Nat, T # {}
    PROVE  \E x \in T : \A y \in T : x <= y
<1> DEFINE R == OpToRel(<, Nat)
<1>1. IsWellFoundedOn(R, Nat)
    BY NatLessThanWellFounded
<1>2. \A x, y \in Nat : <<y, x>> \in R <=> y < x
    BY DEF OpToRel
<1> HIDE DEF R
<1>3. PICK x \in T : \A y \in T : ~(<<y, x>> \in R)
    BY <1>1, WFMin
<1>4. \A y \in T : x <= y
    <2> SUFFICES ASSUME NEW y \in T, ~(x <= y) PROVE FALSE  OBVIOUS
    <2>1. x \in Nat /\ y \in Nat /\ y < x  OBVIOUS
    <2>2. <<y, x>> \in R  BY <2>1, <1>2
    <2> QED BY <2>2, <1>3
<1> QED BY <1>4

\* The element the folds of the library take first.
First(s) == CHOOSE x \in s : TRUE

\* g gives the sums of f over the sets in U, which has every set without its first element.
Sums(f, U, g) == g = [s \in U |-> IF s = {} THEN 0 ELSE f[First(s)] + g[s \ {First(s)}]]

\* Taking an element away from a finite set makes it smaller by one.
LEMMA Smaller ==
  ASSUME NEW s, IsFiniteSet(s), NEW x \in s
  PROVE  /\ IsFiniteSet(s \ {x}) /\ Cardinality(s \ {x}) \in Nat /\ Cardinality(s) \in Nat
         /\ Cardinality(s) = Cardinality(s \ {x}) + 1
  <1>1. IsFiniteSet(s \ {x}) /\ Cardinality(s \ {x}) = Cardinality(s) - 1
    BY FS_RemoveElement
  <1>2. Cardinality(s) \in Nat /\ Cardinality(s \ {x}) \in Nat
    BY <1>1, FS_CardinalityType
  <1> QED BY <1>1, <1>2

\* The recursion of the library's fold has a solution on the subsets of a finite set.
LEMMA SumsExist ==
  ASSUME NEW f, NEW S, IsFiniteSet(S)
  PROVE  \E g : Sums(f, SUBSET S, g)
  <1> DEFINE Sub(n) == {s \in SUBSET S : Cardinality(s) <= n}
             T == {n \in Nat : ~ \E g : Sums(f, Sub(n), g)}
  <1>0. \A s \in SUBSET S : IsFiniteSet(s) /\ Cardinality(s) \in Nat /\ Cardinality(s) <= Cardinality(S)
    BY FS_Subset, FS_CardinalityType
  <1>1. T = {}
    <2> SUFFICES ASSUME T # {} PROVE FALSE
      OBVIOUS
    <2>1. PICK n \in T : \A m \in T : n <= m
      <3>1. T \in SUBSET Nat OBVIOUS
      <3> QED BY <3>1, LeastNatural
    <2>2. CASE n = 0
      <3> DEFINE g == [s \in Sub(0) |-> 0]
      <3>1. \A s \in Sub(0) : s = {}
        BY <1>0, FS_EmptySet
      <3>2. Sums(f, Sub(0), g)
        BY <3>1 DEF Sums
      <3> QED BY <2>1, <2>2, <3>2
    <2>3. CASE n # 0
      <3>1. n - 1 \in Nat /\ n \in Nat /\ ~(n <= n - 1)
        BY <2>1, <2>3
      <3>2. PICK g : Sums(f, Sub(n - 1), g)
        BY <2>1, <3>1
      <3> DEFINE h == [s \in Sub(n) |-> IF s = {} THEN 0 ELSE f[First(s)] + g[s \ {First(s)}]]
      <3>3. \A s \in Sub(n - 1) : s \in Sub(n) /\ g[s] = h[s]
        <4> SUFFICES ASSUME NEW s \in Sub(n - 1) PROVE s \in Sub(n) /\ g[s] = h[s]
          OBVIOUS
        <4>1. s \in Sub(n) BY <1>0, <3>1
        <4> QED BY <3>2, <4>1, Zenon DEF Sums
      <3>4. \A s \in Sub(n) : s # {} => s \ {First(s)} \in Sub(n - 1)
        <4> SUFFICES ASSUME NEW s \in Sub(n), s # {} PROVE s \ {First(s)} \in Sub(n - 1)
          OBVIOUS
        <4>1. First(s) \in s BY DEF First
        <4>2. Cardinality(s) = Cardinality(s \ {First(s)}) + 1 /\ Cardinality(s \ {First(s)}) \in Nat
          BY <1>0, <4>1, Smaller
        <4>3. Cardinality(s) <= n /\ s \ {First(s)} \in SUBSET S OBVIOUS
        <4> QED BY <3>1, <4>2, <4>3
      <3>5. \A s \in Sub(n) : h[s] = IF s = {} THEN 0 ELSE f[First(s)] + h[s \ {First(s)}]
        <4> SUFFICES ASSUME NEW s \in Sub(n)
                     PROVE  h[s] = IF s = {} THEN 0 ELSE f[First(s)] + h[s \ {First(s)}]
          OBVIOUS
        <4>1. h[s] = IF s = {} THEN 0 ELSE f[First(s)] + g[s \ {First(s)}]
          BY Zenon
        <4> HIDE DEF h, Sub
        <4> QED BY <3>3, <3>4, <4>1
      <3>6. Sums(f, Sub(n), h)
        <4>1. h = [s \in Sub(n) |-> h[s]] OBVIOUS
        <4> HIDE DEF h, Sub
        <4> QED BY <3>5, <4>1 DEF Sums
      <3> QED BY <2>1, <3>6
    <2> QED BY <2>2, <2>3
  <1>2. Cardinality(S) \in Nat /\ Sub(Cardinality(S)) = SUBSET S
    BY <1>0, FS_CardinalityType
  <1> QED BY <1>1, <1>2

\* Two solutions give a set they both know the same sum.
LEMMA SumsAgree ==
  ASSUME NEW f, NEW S, NEW T, IsFiniteSet(S), NEW g, NEW h,
         Sums(f, SUBSET S, g), Sums(f, SUBSET T, h), S \subseteq T
  PROVE  \A s \in SUBSET S : g[s] = h[s]
  <1> DEFINE B == {n \in Nat : \E s \in SUBSET S : Cardinality(s) = n /\ g[s] # h[s]}
  <1>0. \A s \in SUBSET S : IsFiniteSet(s) /\ Cardinality(s) \in Nat
    BY FS_Subset, FS_CardinalityType
  <1>1. B = {}
    <2> SUFFICES ASSUME B # {} PROVE FALSE OBVIOUS
    <2>1. PICK n \in B : \A m \in B : n <= m
      <3>1. B \in SUBSET Nat OBVIOUS
      <3> QED BY <3>1, LeastNatural
    <2>2. PICK s \in SUBSET S : Cardinality(s) = n /\ g[s] # h[s]
      BY <2>1
    <2>3. s \in SUBSET S /\ s \in SUBSET T OBVIOUS
    <2>4. /\ g[s] = IF s = {} THEN 0 ELSE f[First(s)] + g[s \ {First(s)}]
          /\ h[s] = IF s = {} THEN 0 ELSE f[First(s)] + h[s \ {First(s)}]
      BY <2>3, Zenon DEF Sums
    <2>5. s # {} BY <2>2, <2>4
    <2>6. First(s) \in s BY <2>5 DEF First
    <2> DEFINE t == s \ {First(s)}
    <2>7. t \in SUBSET S /\ Cardinality(t) \in Nat /\ ~(n <= Cardinality(t))
      BY <1>0, <2>2, <2>6, Smaller
    <2> HIDE DEF t
    <2>8. g[t] = h[t]
      BY <2>1, <2>7
    <2> QED BY <2>2, <2>4, <2>5, <2>8 DEF t
  <1> QED BY <1>0, <1>1

\* The library's sum over a finite set takes the set's first element off.
LEMMA SumStep ==
  ASSUME NEW f, NEW S, IsFiniteSet(S)
  PROVE  SumFunctionOnSet(f, S) =
            IF S = {} THEN 0 ELSE f[First(S)] + SumFunctionOnSet(f, S \ {First(S)})
  <1>1. \A A : SumFunctionOnSet(f, A) = (CHOOSE g : Sums(f, SUBSET A, g))[A]
    BY Zenon DEF SumFunctionOnSet, FoldFunctionOnSet, MapThenFoldSet, Sums, First
  <1>2. PICK B : B = S \ {First(S)}
    OBVIOUS
  <1>3. IsFiniteSet(B) /\ B \subseteq S
    BY <1>2, FS_Subset
  <1>4. PICK g : g = CHOOSE h : Sums(f, SUBSET S, h)
    OBVIOUS
  <1>5. PICK h : h = CHOOSE k : Sums(f, SUBSET B, k)
    OBVIOUS
  <1>6. Sums(f, SUBSET S, g)
    BY <1>4, SumsExist
  <1>7. Sums(f, SUBSET B, h)
    BY <1>3, <1>5, SumsExist
  <1>8. h[B] = g[B]
    <2>1. \A s \in SUBSET B : h[s] = g[s]
      BY <1>3, <1>6, <1>7, SumsAgree, SMTT(30)
    <2> QED BY <2>1
  <1>9. g[S] = IF S = {} THEN 0 ELSE f[First(S)] + g[B]
    BY <1>2, <1>6, Zenon DEF Sums
  <1>10. SumFunctionOnSet(f, S) = g[S] /\ SumFunctionOnSet(f, B) = h[B]
    BY <1>1, <1>4, <1>5
  <1> QED BY <1>2, <1>8, <1>9, <1>10

\* A sum of natural numbers is one, and any element of the set may be the one taken off.
LEMMA SumTakeAway ==
  ASSUME NEW f, NEW S, IsFiniteSet(S), \A x \in S : f[x] \in Nat
  PROVE  /\ SumFunctionOnSet(f, S) \in Nat
         /\ \A x \in S : SumFunctionOnSet(f, S) = f[x] + SumFunctionOnSet(f, S \ {x})
  <1> DEFINE Good(s) == /\ SumFunctionOnSet(f, s) \in Nat
                        /\ \A x \in s : SumFunctionOnSet(f, s) = f[x] + SumFunctionOnSet(f, s \ {x})
             B == {n \in Nat : \E s \in SUBSET S : Cardinality(s) = n /\ ~Good(s)}
  <1>0. \A s \in SUBSET S : IsFiniteSet(s) /\ Cardinality(s) \in Nat
    BY FS_Subset, FS_CardinalityType
  <1>1. B = {}
    <2> SUFFICES ASSUME B # {} PROVE FALSE OBVIOUS
    <2>1. PICK n \in B : \A m \in B : n <= m
      <3>1. B \in SUBSET Nat OBVIOUS
      <3> QED BY <3>1, LeastNatural
    <2>2. PICK s \in SUBSET S : Cardinality(s) = n /\ ~Good(s)
      BY <2>1
    <2>3. \A x \in s : s \ {x} \in SUBSET S /\ Good(s \ {x})
      <3> SUFFICES ASSUME NEW x \in s PROVE s \ {x} \in SUBSET S /\ Good(s \ {x})
        OBVIOUS
      <3>0. PICK t : t = s \ {x} OBVIOUS
      <3>1. t \in SUBSET S /\ Cardinality(t) \in Nat /\ ~(n <= Cardinality(t))
        BY <1>0, <2>2, <3>0, Smaller
      <3> HIDE DEF Good
      <3> QED BY <2>1, <3>0, <3>1
    <2>4. SumFunctionOnSet(f, s) =
            IF s = {} THEN 0 ELSE f[First(s)] + SumFunctionOnSet(f, s \ {First(s)})
      BY <1>0, SumStep
    <2>5. CASE s = {}
      BY <2>2, <2>4, <2>5
    <2>6. CASE s # {}
      <3>0. PICK a : a = First(s) OBVIOUS
      <3>1. a \in s /\ f[a] \in Nat BY <2>6, <3>0 DEF First
      <3>2. PICK t : t = s \ {a} OBVIOUS
      <3>3. Good(t) BY <2>3, <3>1, <3>2
      <3>4. SumFunctionOnSet(f, s) = f[a] + SumFunctionOnSet(f, t)
        BY <2>4, <2>6, <3>0, <3>2
      <3>5. SumFunctionOnSet(f, s) \in Nat
        BY <3>1, <3>3, <3>4
      <3>6. ASSUME NEW x \in s
            PROVE  SumFunctionOnSet(f, s) = f[x] + SumFunctionOnSet(f, s \ {x})
        <4>1. CASE x = a  BY <3>2, <3>4, <4>1
        <4>2. CASE x # a
          <5>1. PICK u : u = s \ {x} OBVIOUS
          <5>2. Good(u) BY <2>3, <5>1
          <5>3. PICK v : v = t \ {x} OBVIOUS
          <5>4. v = u \ {a} /\ a \in u /\ x \in t
            BY <3>1, <3>2, <4>2, <5>1, <5>3
          <5>5. SumFunctionOnSet(f, u) = f[a] + SumFunctionOnSet(f, v)
            BY <5>2, <5>4
          <5>6. SumFunctionOnSet(f, t) = f[x] + SumFunctionOnSet(f, v)
            BY <3>3, <5>3, <5>4
          <5>7. Good(v)
            <6>1. Cardinality(v) \in Nat /\ ~(n <= Cardinality(v)) /\ v \in SUBSET S
              <7>1. v \subseteq s /\ a \in s /\ ~(a \in v) BY <3>1, <5>1, <5>4
              <7>2. v \in SUBSET S /\ v \subseteq s \ {a} BY <7>1
              <7>3. IsFiniteSet(s \ {a}) /\ Cardinality(s \ {a}) \in Nat /\ ~(n <= Cardinality(s \ {a}))
                BY <1>0, <2>2, <7>1, Smaller
              <7>4. Cardinality(v) <= Cardinality(s \ {a})
                BY <7>2, <7>3, FS_Subset
              <7> QED BY <1>0, <2>1, <7>2, <7>3, <7>4
            <6> HIDE DEF Good
            <6> QED BY <2>1, <6>1
          <5>8. /\ SumFunctionOnSet(f, v) \in Nat /\ f[x] \in Nat
            BY <5>7
          <5> QED BY <3>1, <3>4, <5>1, <5>5, <5>6, <5>8
        <4> QED BY <4>1, <4>2
      <3> QED BY <2>2, <3>5, <3>6
    <2> QED BY <2>5, <2>6
  <1>2. Good(S)
    <2> HIDE DEF Good
    <2>1. S \in SUBSET S /\ Cardinality(S) \in Nat BY <1>0
    <2> QED BY <1>1, <2>1
  <1> QED BY <1>2

\* The sum over no element is 0.
LEMMA SumEmpty == ASSUME NEW f PROVE SumFunctionOnSet(f, {}) = 0
  BY SumStep, FS_EmptySet

\* A sum depends on the values at the elements of its set only.
LEMMA SumSame ==
  ASSUME NEW f, NEW h, NEW S, IsFiniteSet(S), \A x \in S : f[x] = h[x]
  PROVE  SumFunctionOnSet(f, S) = SumFunctionOnSet(h, S)
  <1> DEFINE Bad(s) == SumFunctionOnSet(f, s) # SumFunctionOnSet(h, s)
             B == {n \in Nat : \E s \in SUBSET S : Cardinality(s) = n /\ Bad(s)}
  <1>0. \A s \in SUBSET S : IsFiniteSet(s) /\ Cardinality(s) \in Nat
    BY FS_Subset, FS_CardinalityType
  <1>1. B = {}
    <2> SUFFICES ASSUME B # {} PROVE FALSE OBVIOUS
    <2>1. PICK n \in B : \A m \in B : n <= m
      <3>1. B \in SUBSET Nat OBVIOUS
      <3> QED BY <3>1, LeastNatural
    <2>2. PICK s \in SUBSET S : Cardinality(s) = n /\ Bad(s)
      BY <2>1
    <2>3. PICK a : a = First(s) OBVIOUS
    <2>4. PICK t : t = s \ {a} OBVIOUS
    <2>5. /\ SumFunctionOnSet(f, s) = IF s = {} THEN 0 ELSE f[a] + SumFunctionOnSet(f, t)
          /\ SumFunctionOnSet(h, s) = IF s = {} THEN 0 ELSE h[a] + SumFunctionOnSet(h, t)
      BY <1>0, <2>3, <2>4, SumStep
    <2>6. s # {} BY <2>2, <2>5
    <2>7. a \in s BY <2>3, <2>6 DEF First
    <2>8. t \in SUBSET S /\ Cardinality(t) \in Nat /\ ~(n <= Cardinality(t))
      BY <1>0, <2>2, <2>4, <2>7, Smaller
    <2>9. ~Bad(t)
      <3> HIDE DEF Bad
      <3> QED BY <2>1, <2>8
    <2> QED BY <2>2, <2>5, <2>6, <2>7, <2>9
  <1> QED BY <1>0, <1>1

\* The sum over a set is the sum over a part of it and the sum over the rest.
LEMMA SumSplit ==
  ASSUME NEW f, NEW S, IsFiniteSet(S), \A x \in S : f[x] \in Nat, NEW T \in SUBSET S
  PROVE  SumFunctionOnSet(f, S) = SumFunctionOnSet(f, T) + SumFunctionOnSet(f, S \ T)
  <1> DEFINE Bad(s) == SumFunctionOnSet(f, S) # SumFunctionOnSet(f, s) + SumFunctionOnSet(f, S \ s)
             B == {n \in Nat : \E s \in SUBSET S : Cardinality(s) = n /\ Bad(s)}
  <1>0. \A s \in SUBSET S : /\ IsFiniteSet(s) /\ Cardinality(s) \in Nat
                            /\ SumFunctionOnSet(f, s) \in Nat
                            /\ \A x \in s : SumFunctionOnSet(f, s) = f[x] + SumFunctionOnSet(f, s \ {x})
    <2> SUFFICES ASSUME NEW s \in SUBSET S
                 PROVE  /\ IsFiniteSet(s) /\ Cardinality(s) \in Nat
                        /\ SumFunctionOnSet(f, s) \in Nat
                        /\ \A x \in s : SumFunctionOnSet(f, s) = f[x] + SumFunctionOnSet(f, s \ {x})
      OBVIOUS
    <2>1. IsFiniteSet(s) /\ \A x \in s : f[x] \in Nat  BY FS_Subset
    <2> QED BY <2>1, FS_CardinalityType, SumTakeAway
  <1>1. B = {}
    <2> SUFFICES ASSUME B # {} PROVE FALSE OBVIOUS
    <2>1. PICK n \in B : \A m \in B : n <= m
      <3>1. B \in SUBSET Nat OBVIOUS
      <3> QED BY <3>1, LeastNatural
    <2>2. PICK s \in SUBSET S : Cardinality(s) = n /\ Bad(s)
      BY <2>1
    <2>3. s # {}
      <3>1. S \ {} = S OBVIOUS
      <3>2. SumFunctionOnSet(f, S) \in Nat BY <1>0
      <3> QED BY <2>2, <3>1, <3>2, SumEmpty
    <2>4. PICK a : a \in s BY <2>3
    <2>5. PICK t : t = s \ {a} OBVIOUS
    <2>6. t \in SUBSET S /\ Cardinality(t) \in Nat /\ ~(n <= Cardinality(t))
      BY <1>0, <2>2, <2>4, <2>5, Smaller
    <2>7. ~Bad(t)
      <3> HIDE DEF Bad
      <3> QED BY <2>1, <2>6
    <2>8. PICK u : u = S \ s OBVIOUS
    <2>9. PICK v : v = S \ t OBVIOUS
    <2>10. a \in v /\ v \ {a} = u /\ v \in SUBSET S /\ u \in SUBSET S /\ f[a] \in Nat
      BY <2>4, <2>5, <2>8, <2>9
    <2>11. SumFunctionOnSet(f, v) = f[a] + SumFunctionOnSet(f, u)
      BY <1>0, <2>10
    <2>12. SumFunctionOnSet(f, s) = f[a] + SumFunctionOnSet(f, t)
      BY <1>0, <2>4, <2>5
    <2>13. /\ SumFunctionOnSet(f, u) \in Nat /\ SumFunctionOnSet(f, t) \in Nat
      BY <1>0, <2>6, <2>10
    <2> QED BY <2>2, <2>7, <2>8, <2>9, <2>10, <2>11, <2>12, <2>13
  <1> QED BY <1>0, <1>1

\* The sum of sums over classes that have no element in common is the sum over them all.
LEMMA SumClasses ==
  ASSUME NEW w, NEW A, IsFiniteSet(A), \A a \in A : w[a] \in Nat,
         NEW S, IsFiniteSet(S), NEW cls, NEW b,
         \A s \in S : cls[s] \subseteq A /\ b[s] = SumFunctionOnSet(w, cls[s]),
         \A s, t \in S : s # t => cls[s] \cap cls[t] = {}
  PROVE  SumFunctionOnSet(b, S) = SumFunctionOnSet(w, {a \in A : \E s \in S : a \in cls[s]})
  <1> DEFINE All(s) == {a \in A : \E x \in s : a \in cls[x]}
             Bad(s) == SumFunctionOnSet(b, s) # SumFunctionOnSet(w, All(s))
             B == {n \in Nat : \E s \in SUBSET S : Cardinality(s) = n /\ Bad(s)}
  <1>0. \A s \in SUBSET S : IsFiniteSet(s) /\ Cardinality(s) \in Nat
    BY FS_Subset, FS_CardinalityType
  <1>1. \A C \in SUBSET A : IsFiniteSet(C) /\ SumFunctionOnSet(w, C) \in Nat
    <2> SUFFICES ASSUME NEW C \in SUBSET A PROVE IsFiniteSet(C) /\ SumFunctionOnSet(w, C) \in Nat
      OBVIOUS
    <2>1. IsFiniteSet(C) /\ \A a \in C : w[a] \in Nat BY FS_Subset
    <2> QED BY <2>1, SumTakeAway
  <1>2. B = {}
    <2> SUFFICES ASSUME B # {} PROVE FALSE OBVIOUS
    <2>1. PICK n \in B : \A m \in B : n <= m
      <3>1. B \in SUBSET Nat OBVIOUS
      <3> QED BY <3>1, LeastNatural
    <2>2. PICK s \in SUBSET S : Cardinality(s) = n /\ Bad(s)
      BY <2>1
    <2>3. s # {}
      <3>1. All({}) = {} OBVIOUS
      <3> QED BY <2>2, <3>1, SumEmpty
    <2>4. PICK x : x \in s BY <2>3
    <2>5. PICK t : t = s \ {x} OBVIOUS
    <2>6. t \in SUBSET S /\ Cardinality(t) \in Nat /\ ~(n <= Cardinality(t))
      BY <1>0, <2>2, <2>4, <2>5, Smaller
    <2>7. ~Bad(t)
      <3> HIDE DEF Bad
      <3> QED BY <2>1, <2>6
    <2>8. SumFunctionOnSet(b, s) = b[x] + SumFunctionOnSet(b, t)
      <3>1. \A y \in s : b[y] \in Nat BY <1>1
      <3> QED BY <1>0, <2>4, <2>5, <3>1, SumTakeAway
    <2>9. All(t) = All(s) \ cls[x] /\ cls[x] \subseteq All(s) /\ All(s) \subseteq A
      BY <2>4, <2>5
    <2>10. PICK C : C = All(s) OBVIOUS
    <2>11. PICK D : D = All(t) OBVIOUS
    <2>12. D = C \ cls[x] /\ cls[x] \in SUBSET C /\ C \in SUBSET A
      BY <2>9, <2>10, <2>11
    <2>13. SumFunctionOnSet(w, C) = SumFunctionOnSet(w, cls[x]) + SumFunctionOnSet(w, C \ cls[x])
      BY <1>1, <2>12, SumSplit
    <2>14. b[x] = SumFunctionOnSet(w, cls[x]) BY <2>4
    <2> HIDE DEF All
    <2> QED BY <2>2, <2>7, <2>8, <2>10, <2>11, <2>12, <2>13, <2>14
  <1> QED BY <1>0, <1>2

\* The sum of zeros.
LEMMA SumZero ==
  ASSUME NEW S, IsFiniteSet(S), NEW f, \A x \in S : f[x] = 0
  PROVE  SumFunctionOnSet(f, S) = 0
  <1> DEFINE Bad(s) == SumFunctionOnSet(f, s) # 0
             B == {n \in Nat : \E s \in SUBSET S : Cardinality(s) = n /\ Bad(s)}
  <1>0. \A s \in SUBSET S : IsFiniteSet(s) /\ Cardinality(s) \in Nat
    BY FS_Subset, FS_CardinalityType
  <1>1. B = {}
    <2> SUFFICES ASSUME B # {} PROVE FALSE OBVIOUS
    <2>1. PICK n \in B : \A m \in B : n <= m
      <3>1. B \in SUBSET Nat OBVIOUS
      <3> QED BY <3>1, LeastNatural
    <2>2. PICK s \in SUBSET S : Cardinality(s) = n /\ Bad(s)
      BY <2>1
    <2>3. PICK a : a = First(s) OBVIOUS
    <2>4. PICK t : t = s \ {a} OBVIOUS
    <2>5. SumFunctionOnSet(f, s) = IF s = {} THEN 0 ELSE f[a] + SumFunctionOnSet(f, t)
      BY <1>0, <2>3, <2>4, SumStep
    <2>6. a \in s BY <2>2, <2>3, <2>5 DEF First
    <2>7. t \in SUBSET S /\ Cardinality(t) \in Nat /\ ~(n <= Cardinality(t))
      BY <1>0, <2>2, <2>4, <2>6, Smaller
    <2>8. ~Bad(t)
      <3> HIDE DEF Bad
      <3> QED BY <2>1, <2>7
    <2> QED BY <2>2, <2>5, <2>6, <2>8
  <1> QED BY <1>0, <1>1

\* Counting one thing more makes the sum of all counters larger by one.
LEMMA SumBump ==
  ASSUME NEW S, IsFiniteSet(S), NEW f \in [S -> Nat], NEW x \in S
  PROVE  /\ SumFunction(f) \in Nat
         /\ SumFunction([f EXCEPT ![x] = @ + 1]) = SumFunction(f) + 1
  <1>1. PICK g : g = [f EXCEPT ![x] = @ + 1] OBVIOUS
  <1>2. g \in [S -> Nat] /\ g[x] = f[x] + 1 /\ \A y \in S \ {x} : g[y] = f[y]
    BY <1>1
  <1>3. DOMAIN f = S /\ DOMAIN g = S BY <1>2
  <1>4. SumFunction(f) = SumFunctionOnSet(f, S) /\ SumFunction(g) = SumFunctionOnSet(g, S)
    BY <1>3, Zenon DEF SumFunction
  <1>5. PICK T : T = S \ {x} OBVIOUS
  <1>6. IsFiniteSet(T) BY <1>5, FS_Subset
  <1>7. SumFunctionOnSet(f, T) = SumFunctionOnSet(g, T)
    <2>1. \A y \in T : f[y] = g[y] BY <1>2, <1>5
    <2> QED BY <1>6, <2>1, SumSame
  <1>8. /\ SumFunctionOnSet(f, T) \in Nat /\ SumFunctionOnSet(f, S) \in Nat
        /\ SumFunctionOnSet(f, S) = f[x] + SumFunctionOnSet(f, T)
    <2>1. (\A y \in T : f[y] \in Nat) /\ \A y \in S : f[y] \in Nat BY <1>5
    <2> QED BY <1>5, <1>6, <2>1, SumTakeAway
  <1>9. SumFunctionOnSet(g, S) = g[x] + SumFunctionOnSet(g, T)
    <2>1. \A y \in S : g[y] \in Nat BY <1>2
    <2> QED BY <1>5, <2>1, SumTakeAway
  <1>10. f[x] \in Nat OBVIOUS
  <1> QED BY <1>1, <1>2, <1>4, <1>7, <1>8, <1>9, <1>10

\* As many elements as places, when no two places hold the same.
LEMMA CountDistinct ==
  ASSUME NEW n \in Nat, NEW g, DOMAIN g = 1 .. n, \A j, k \in 1 .. n : g[j] = g[k] => j = k
  PROVE  IsFiniteSet(Range(g)) /\ Cardinality(Range(g)) = n
  <1> DEFINE S == {g[k] : k \in 1 .. n}
             m == [k \in 1 .. n |-> g[k]]
  <1>1. m \in [1 .. n -> S] /\ \A j, k \in 1 .. n : m[j] = m[k] => j = k
    OBVIOUS
  <1>2. \A x \in S : \E k \in 1 .. n : m[k] = x
    OBVIOUS
  <1> HIDE DEF m, S
  <1>3. m \in Bijection(1 .. n, S)
    BY <1>1, <1>2, Zenon DEF Bijection, Injection, Surjection, IsInjective
  <1>4. ExistsBijection(1 .. n, S)
    BY <1>3, Zenon DEF ExistsBijection
  <1>5. IsFiniteSet(1 .. n) /\ Cardinality(1 .. n) = n
    <2>1. 1 \in Int /\ n \in Int
      OBVIOUS
    <2>2. /\ IsFiniteSet(1 .. n)
          /\ Cardinality(1 .. n) = IF 1 > n THEN 0 ELSE n - 1 + 1
      BY <2>1, FS_Interval, Zenon
    <2> QED BY <2>2
  <1>6. IsFiniteSet(S) /\ Cardinality(S) = n
    BY <1>4, <1>5, FS_Bijection, Zenon
  <1>7. S = Range(g)
    BY Zenon DEF S, Range
  <1> QED BY <1>6, <1>7

-----------------------------------------------------------------------------
(* Iteration, and what a relation leads to.                                 *)

\* A sequence is one over any set that has its elements.
LEMMA SeqWithin ==
  ASSUME NEW S, NEW T, NEW s \in Seq(S), \A k \in 1 .. Len(s) : s[k] \in T
  PROVE  s \in Seq(T)
  <1>1. s = [k \in 1 .. Len(s) |-> s[k]] /\ Len(s) \in Nat OBVIOUS
  <1> QED BY <1>1

\* Step k of G leads from a value in V to a value in V.
Steps(V, N, G) == \A k \in 1 .. N : \A x \in V : G[k][x] \in V

\* f carries v through N steps of G.
Carried(V, v, N, G, f) ==
    f \in [0 .. N -> V] /\ \A n \in 0 .. N : f[n] = IF n = 0 THEN v ELSE G[n][f[n - 1]]

\* A value can be carried through any number of steps.
LEMMA IterationExists ==
  ASSUME NEW V, NEW v \in V, NEW N \in Nat, NEW G, Steps(V, N, G)
  PROVE  \E f : Carried(V, v, N, G, f)
  <1> DEFINE Carries(m, f) == f \in [0 .. m -> V] /\ f[0] = v /\ \A n \in 1 .. m : f[n] = G[n][f[n - 1]]
             T == {m \in 0 .. N : ~ \E f : Carries(m, f)}
  <1>1. T = {}
    <2> SUFFICES ASSUME T # {} PROVE FALSE OBVIOUS
    <2>1. PICK m \in T : \A k \in T : m <= k
      <3>1. T \in SUBSET Nat OBVIOUS
      <3> QED BY <3>1, LeastNatural
    <2>2. CASE m = 0
      <3> DEFINE f == [n \in 0 .. 0 |-> v]
      <3>1. Carries(0, f) OBVIOUS
      <3> QED BY <2>1, <2>2, <3>1
    <2>3. CASE m # 0
      <3>1. m - 1 \in 0 .. N /\ ~(m <= m - 1) /\ m \in 1 .. N BY <2>1, <2>3
      <3>2. PICK f : Carries(m - 1, f) BY <2>1, <3>1
      <3>3. f[m - 1] \in V BY <3>1, <3>2
      <3>4. G[m][f[m - 1]] \in V BY <3>1, <3>3 DEF Steps
      <3> DEFINE h == [n \in 0 .. m |-> IF n = m THEN G[m][f[m - 1]] ELSE f[n]]
      <3>5. \A n \in 0 .. m : h[n] \in V
        <4> SUFFICES ASSUME NEW n \in 0 .. m PROVE h[n] \in V OBVIOUS
        <4>1. CASE n = m BY <3>4, <4>1
        <4>2. CASE n # m
          <5>1. n \in 0 .. m - 1 BY <3>1, <4>2
          <5> QED BY <3>2, <4>2, <5>1
        <4> QED BY <4>1, <4>2
      <3>6. h \in [0 .. m -> V] BY <3>5
      <3>7. h[0] = v BY <3>1, <3>2
      <3>8. \A n \in 1 .. m : h[n] = G[n][h[n - 1]]
        <4> SUFFICES ASSUME NEW n \in 1 .. m PROVE h[n] = G[n][h[n - 1]] OBVIOUS
        <4>1. n - 1 \in 0 .. m /\ n - 1 # m /\ n \in 0 .. m BY <3>1
        <4>2. h[n - 1] = f[n - 1] BY <4>1
        <4>3. CASE n = m BY <4>1, <4>2, <4>3
        <4>4. CASE n # m
          <5>1. n \in 1 .. m - 1 BY <3>1, <4>4
          <5>2. h[n] = f[n] BY <4>1, <4>4
          <5> QED BY <3>2, <4>2, <5>1, <5>2
        <4> QED BY <4>3, <4>4
      <3>9. Carries(m, h) BY <3>6, <3>7, <3>8
      <3> QED BY <2>1, <3>9
    <2> QED BY <2>2, <2>3
  <1>2. N \in 0 .. N OBVIOUS
  <1>3. PICK f : Carries(N, f) BY <1>1, <1>2
  <1>4. \A n \in 0 .. N : f[n] = IF n = 0 THEN v ELSE G[n][f[n - 1]]
    BY <1>3
  <1> QED BY <1>3, <1>4 DEF Carried

\* What the pairs in E lead to from S, from the second to the first.
Behind(E, S) == {e[1] : e \in {x \in E : x[2] \in S}}

\* g grows from S0 along E, N times.
Growth(E, S0, N, g) ==
    \A n \in 0 .. N : g[n] = IF n = 0 THEN S0 ELSE g[n - 1] \cup Behind(E, g[n - 1])

\* A set that grows along E for as many steps as there is room has all that E leads to,
\* and no more.
LEMMA GrowthCloses ==
  ASSUME NEW E, NEW U, IsFiniteSet(U), NEW N \in Nat, Cardinality(U) <= N,
         NEW S0 \in SUBSET U, \A e \in E : e[1] \in U,
         NEW g, Growth(E, S0, N, g)
  PROVE  /\ S0 \subseteq g[N] /\ Behind(E, g[N]) \subseteq g[N] /\ g[N] \subseteq U
         /\ \A S : S0 \subseteq S /\ Behind(E, S) \subseteq S => g[N] \subseteq S
  <1>0. N \in 0 .. N /\ 0 \in 0 .. N OBVIOUS
  <1> USE DEF Growth
  <1>1. ASSUME NEW S, S0 \subseteq S, Behind(E, S) \subseteq S
        PROVE  \A n \in 0 .. N : S0 \subseteq g[n] /\ g[n] \subseteq S
    <2> DEFINE T == {n \in 0 .. N : ~(S0 \subseteq g[n] /\ g[n] \subseteq S)}
    <2> SUFFICES ASSUME T # {} PROVE FALSE OBVIOUS
    <2>1. PICK m \in T : \A k \in T : m <= k
      <3>1. T \in SUBSET Nat OBVIOUS
      <3> QED BY <3>1, LeastNatural
    <2>2. m # 0 BY <1>1, <2>1
    <2>3. m - 1 \in 0 .. N /\ ~(m <= m - 1) BY <2>1, <2>2
    <2>4. S0 \subseteq g[m - 1] /\ g[m - 1] \subseteq S BY <2>1, <2>3
    <2>5. g[m] = g[m - 1] \cup Behind(E, g[m - 1]) BY <2>1, <2>2
    <2>6. Behind(E, g[m - 1]) \subseteq Behind(E, S) BY <2>4 DEF Behind
    <2> QED BY <1>1, <2>1, <2>4, <2>5, <2>6
  <1>2. Behind(E, U) \subseteq U BY DEF Behind
  <1>3. \A n \in 0 .. N : S0 \subseteq g[n] /\ g[n] \subseteq U BY <1>1, <1>2
  <1>4. \A n \in 0 .. N : IsFiniteSet(g[n]) /\ Cardinality(g[n]) \in Nat
    BY <1>3, FS_Subset, FS_CardinalityType
  <1> DEFINE Full(n) == Behind(E, g[n]) \subseteq g[n] \/ Cardinality(g[n]) >= n
             T == {n \in 0 .. N : ~Full(n)}
  <1>5. T = {}
    <2> SUFFICES ASSUME T # {} PROVE FALSE OBVIOUS
    <2>1. PICK m \in T : \A k \in T : m <= k
      <3>1. T \in SUBSET Nat OBVIOUS
      <3> QED BY <3>1, LeastNatural
    <2>2. m # 0 BY <1>4, <2>1
    <2>3. m - 1 \in 0 .. N /\ ~(m <= m - 1) /\ m \in 0 .. N BY <2>1, <2>2
    <2>4. Full(m - 1) BY <2>1, <2>3
    <2>5. g[m] = g[m - 1] \cup Behind(E, g[m - 1]) BY <2>1, <2>2
    <2>6. CASE Behind(E, g[m - 1]) \subseteq g[m - 1]
      <3>1. g[m] = g[m - 1] BY <2>5, <2>6
      <3> QED BY <2>1, <2>6, <3>1
    <2>7. CASE ~(Behind(E, g[m - 1]) \subseteq g[m - 1])
      <3>1. Cardinality(g[m - 1]) >= m - 1 BY <2>4, <2>7
      <3>2. g[m - 1] \in SUBSET g[m] /\ g[m - 1] # g[m] BY <2>5, <2>7
      <3>3. Cardinality(g[m - 1]) <= Cardinality(g[m]) /\ Cardinality(g[m]) # Cardinality(g[m - 1])
        BY <1>4, <2>3, <3>2, FS_Subset
      <3>4. Cardinality(g[m]) \in Nat /\ Cardinality(g[m - 1]) \in Nat BY <1>4, <2>3
      <3>5. Cardinality(g[m]) >= m BY <2>3, <3>1, <3>3, <3>4
      <3> QED BY <2>1, <3>5
    <2> QED BY <2>6, <2>7
  <1>6. Behind(E, g[N]) \subseteq g[N]
    <2>1. CASE Cardinality(g[N]) >= N
      <3>1. Cardinality(U) \in Nat /\ Cardinality(g[N]) \in Nat BY <1>0, <1>4, FS_CardinalityType
      <3>2. g[N] \in SUBSET U BY <1>0, <1>3
      <3>3. Cardinality(g[N]) <= Cardinality(U) /\ (Cardinality(U) = Cardinality(g[N]) => U = g[N])
        BY <3>2, FS_Subset
      <3>4. U = g[N] BY <2>1, <3>1, <3>3
      <3> QED BY <1>2, <3>4
    <2> QED BY <1>0, <1>5, <2>1
  <1>7. \A S : S0 \subseteq S /\ Behind(E, S) \subseteq S => g[N] \subseteq S BY <1>0, <1>1
  <1> QED BY <1>0, <1>3, <1>6, <1>7

\* l has what FlattenSeq has put together after each of the first N parts of bs.
Laid(bs, N, l) == l = [i \in 1 .. N |-> IF i = 1 THEN bs[i] ELSE l[i - 1] \o bs[i]]

\* There is such an l.
LEMMA LaidExists ==
  ASSUME NEW bs, NEW N \in Nat
  PROVE  \E l : Laid(bs, N, l)
  <1> DEFINE T == {n \in Nat : ~ \E l : Laid(bs, n, l)}
  <1> SUFFICES ASSUME T # {} PROVE FALSE OBVIOUS
  <1>1. PICK m \in T : \A k \in T : m <= k
    <2>1. T \in SUBSET Nat OBVIOUS
    <2> QED BY <2>1, LeastNatural
  <1>2. CASE m = 0
    <2> DEFINE l == [i \in 1 .. 0 |-> bs[i]]
    <2>1. \A i \in 1 .. 0 : FALSE OBVIOUS
    <2>2. l = [i \in 1 .. 0 |-> IF i = 1 THEN bs[i] ELSE l[i - 1] \o bs[i]] BY <2>1
    <2>3. Laid(bs, 0, l) BY <2>2, Zenon DEF Laid
    <2> QED BY <1>1, <1>2, <2>3
  <1>3. CASE m # 0
    <2>1. m - 1 \in Nat /\ m \in Nat /\ ~(m <= m - 1) BY <1>1, <1>3
    <2>2. PICK q : Laid(bs, m - 1, q) BY <1>1, <2>1
    <2> DEFINE l == [i \in 1 .. m |-> IF i = 1 THEN bs[i] ELSE q[i - 1] \o bs[i]]
    <2>3. \A n \in 1 .. m - 1 : n \in 1 .. m /\ l[n] = q[n]
      <3> SUFFICES ASSUME NEW n \in 1 .. m - 1 PROVE n \in 1 .. m /\ l[n] = q[n] OBVIOUS
      <3>1. n \in 1 .. m BY <2>1
      <3> QED BY <2>2, <3>1, Zenon DEF Laid
    <2>4. \A n \in 1 .. m : n # 1 => n - 1 \in 1 .. m - 1 BY <2>1
    <2>5. \A n \in 1 .. m : l[n] = IF n = 1 THEN bs[n] ELSE l[n - 1] \o bs[n]
      <3> SUFFICES ASSUME NEW n \in 1 .. m
                   PROVE  l[n] = IF n = 1 THEN bs[n] ELSE l[n - 1] \o bs[n]
        OBVIOUS
      <3>1. l[n] = IF n = 1 THEN bs[n] ELSE q[n - 1] \o bs[n]
        BY Zenon
      <3> HIDE DEF l
      <3> QED BY <2>3, <2>4, <3>1
    <2>6. l = [n \in 1 .. m |-> l[n]] OBVIOUS
    <2> HIDE DEF l
    <2>7. Laid(bs, m, l) BY <2>5, <2>6, Zenon DEF Laid
    <2> QED BY <1>1, <2>7
  <1> QED BY <1>2, <1>3

\* The same, step by step.
LaysOut(bs, N, l) == l[1] = bs[1] /\ \A i \in 2 .. N : l[i] = l[i - 1] \o bs[i]

\* FlattenSeq is the last of them.
LEMMA FlattenIsLaid ==
  ASSUME NEW bs, NEW N \in Nat \ {0}, Len(bs) = N
  PROVE  \E l : FlattenSeq(bs) = l[N] /\ LaysOut(bs, N, l)
  <1>1. FlattenSeq(bs) = (CHOOSE l : Laid(bs, N, l))[N]
    <2>1. FlattenSeq(bs) = (CHOOSE l : Laid(bs, Len(bs), l))[Len(bs)]
      BY Zenon DEF FlattenSeq, Laid
    <2> QED BY <2>1
  <1>2. PICK l : l = CHOOSE q : Laid(bs, N, q) OBVIOUS
  <1>3. Laid(bs, N, l) BY <1>2, LaidExists
  <1>4. 1 \in 1 .. N /\ \A i \in 2 .. N : i \in 1 .. N /\ i # 1 OBVIOUS
  <1>5. l[1] = bs[1] BY <1>3, <1>4, Zenon DEF Laid
  <1>6. \A i \in 2 .. N : l[i] = l[i - 1] \o bs[i] BY <1>3, <1>4, Zenon DEF Laid
  <1> QED BY <1>1, <1>2, <1>5, <1>6 DEF LaysOut
=============================================================================
