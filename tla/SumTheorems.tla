---------------------------- MODULE SumTheorems ----------------------------
(***************************************************************************)
(* Sums over finite sets (SumFunctionOnSet of Functions) of natural        *)
(* numbers: what one more term, a subset, a union or larger terms make of  *)
(* them.  Proved by induction over the subsets of a finite set, and that   *)
(* from the least element of a set of numbers.                             *)
(***************************************************************************)
EXTENDS Integers, Functions, FiniteSetTheorems, WellFoundedInduction, TLAPS

\* A non-empty set of natural numbers has a least one.
LEMMA HasLeast == ASSUME NEW T, T \subseteq Nat, T # {} PROVE \E i \in T : \A j \in T : i <= j
<1>1. PICK R : R = {ss \in Nat \X Nat : ss[1] < ss[2]}
  OBVIOUS
<1>2. IsWellFoundedOn(R, Nat)
  BY <1>1, NatLessThanWellFounded, Zenon DEF OpToRel
<1>3. PICK x \in T : \A y \in T : ~(<<y, x>> \in R)
  BY <1>2, WFMin
<1>4. ASSUME NEW y \in T PROVE x <= y
  <2>1. x \in Nat /\ y \in Nat
    OBVIOUS
  <2>2. y < x => <<y, x>> \in R
    BY <1>1, <2>1
  <2>3. QED
    BY <1>3, <2>1, <2>2
<1>5. QED
  BY <1>4

\* Induction over the subsets of a finite set: what is true of a set whenever it
\* is true of its proper subsets is true of all.
LEMMA SubsetInduction ==
  ASSUME NEW S, IsFiniteSet(S), NEW Good,
         \A T \in SUBSET S : (\A U \in SUBSET T : U # T => U \in Good) => T \in Good
  PROVE  \A T \in SUBSET S : T \in Good
<1>1. PICK bad : bad = {T \in SUBSET S : T \notin Good}
  OBVIOUS
<1>2. SUFFICES ASSUME bad # {} PROVE FALSE
  BY <1>1
<1>3. \A T \in SUBSET S : IsFiniteSet(T) /\ Cardinality(T) \in Nat
  BY FS_Subset, FS_CardinalityType
<1>4. PICK sizes : sizes = {Cardinality(T) : T \in bad}
  OBVIOUS
<1>5. sizes \subseteq Nat /\ sizes # {}
  BY <1>1, <1>2, <1>3, <1>4
<1>6. PICK n \in sizes : \A m \in sizes : n <= m
  BY <1>5, HasLeast
<1>7. PICK T \in bad : Cardinality(T) = n
  BY <1>4
<1>8. ASSUME NEW U \in SUBSET T, U # T PROVE U \in Good
  <2>1. T \in SUBSET S /\ IsFiniteSet(T) /\ U \in SUBSET S
    BY <1>1, <1>3
  <2>2. Cardinality(U) < Cardinality(T) /\ Cardinality(U) \in Nat /\ Cardinality(T) \in Nat
    BY <1>3, <1>8, <2>1, FS_Subset
  <2>3. Cardinality(U) \notin sizes
    BY <1>6, <1>7, <2>2
  <2>4. QED
    BY <1>1, <1>4, <2>1, <2>3
<1>9. QED
  BY <1>1, <1>7, <1>8

\* The element that the fold over a set takes next.
Pick(s) == CHOOSE x \in s : TRUE

\* A function on the subsets that folds the values of w.
Iterates(f, w, S) ==
    f = [s \in SUBSET S |-> IF s = {} THEN 0 ELSE w[Pick(s)] + f[s \ {Pick(s)}]]

\* The one that the sum chooses.
Iter(w, S) == CHOOSE f : Iterates(f, w, S)

\* The sum in terms of it.
LEMMA SumIsIter == ASSUME NEW w, NEW S PROVE SumFunctionOnSet(w, S) = Iter(w, S)[S]
  BY DEF SumFunctionOnSet, FoldFunctionOnSet, MapThenFoldSet, Iter, Iterates, Pick

\* A non-empty set has an element to take.
LEMMA PickIn == ASSUME NEW s, s # {} PROVE Pick(s) \in s
  BY DEF Pick

\* The fold of nothing,
LEMMA IteratesEmpty ==
  ASSUME NEW f, NEW w, NEW S, Iterates(f, w, S)
  PROVE  f[{}] = 0
  BY DEF Iterates

\* and of one element more.
LEMMA IteratesAt ==
  ASSUME NEW f, NEW w, NEW S, Iterates(f, w, S), NEW s \in SUBSET S, s # {},
         NEW p, p = Pick(s)
  PROVE  f[s] = w[p] + f[s \ {p}]
<1>1. f[s] = IF s = {} THEN 0 ELSE w[Pick(s)] + f[s \ {Pick(s)}]
  BY Zenon DEF Iterates
<1>2. QED
  BY <1>1, Zenon

\* There is at most one such function.
LEMMA IteratesOnce ==
  ASSUME NEW S, IsFiniteSet(S), NEW w, NEW f, NEW g, Iterates(f, w, S), Iterates(g, w, S)
  PROVE  f = g
<1>1. PICK Good : Good = {T \in SUBSET S : f[T] = g[T]}
  OBVIOUS
<1>2. ASSUME NEW T \in SUBSET S, \A U \in SUBSET T : U # T => U \in Good
      PROVE  T \in Good
  <2>1. CASE T = {}
    BY <1>1, <2>1, IteratesEmpty
  <2>2. CASE T # {}
    <3>1. PICK p : p = Pick(T)
      OBVIOUS
    <3>2. p \in T
      BY <2>2, <3>1, PickIn
    <3>3. f[T \ {p}] = g[T \ {p}]
      BY <1>1, <1>2, <3>2
    <3>4. f[T] = w[p] + f[T \ {p}] /\ g[T] = w[p] + g[T \ {p}]
      BY <2>2, <3>1, IteratesAt
    <3>5. QED
      BY <1>1, <3>3, <3>4
  <2>3. QED
    BY <2>1, <2>2
<1>3. \A T \in SUBSET S : T \in Good
  BY <1>2, SubsetInduction
<1>4. \A T \in SUBSET S : f[T] = g[T]
  BY <1>1, <1>3
<1>5. f = [T \in SUBSET S |-> f[T]] /\ g = [T \in SUBSET S |-> g[T]]
  BY DEF Iterates
<1>6. QED
  BY <1>4, <1>5

\* On a subset it is the one of that subset.
LEMMA IteratesWithin ==
  ASSUME NEW f, NEW w, NEW T, Iterates(f, w, T), NEW U, U \subseteq T,
         NEW g, g = [s \in SUBSET U |-> f[s]]
  PROVE  Iterates(g, w, U)
<1>1. ASSUME NEW s \in SUBSET U
      PROVE  g[s] = IF s = {} THEN 0 ELSE w[Pick(s)] + g[s \ {Pick(s)}]
  <2>1. s \in SUBSET T /\ g[s] = f[s]
    OBVIOUS
  <2>2. CASE s = {}
    BY <2>1, <2>2, IteratesEmpty
  <2>3. CASE s # {}
    <3>1. PICK p : p = Pick(s)
      OBVIOUS
    <3>2. f[s] = w[p] + f[s \ {p}]
      BY <2>1, <2>3, <3>1, IteratesAt
    <3>3. g[s \ {p}] = f[s \ {p}]
      OBVIOUS
    <3>4. QED
      BY <2>1, <2>3, <3>1, <3>2, <3>3
  <2>4. QED
    BY <2>2, <2>3
<1>2. g = [s \in SUBSET U |-> g[s]]
  OBVIOUS
<1>3. QED
  BY <1>1, <1>2 DEF Iterates

\* A finite set of terms has a sum.
LEMMA IterExists ==
  ASSUME NEW S, IsFiniteSet(S), NEW w
  PROVE  \A T \in SUBSET S : Iterates(Iter(w, T), w, T)
<1>1. PICK Good : Good = {T \in SUBSET S : \E f : Iterates(f, w, T)}
  OBVIOUS
<1>2. \A T \in SUBSET S : T \in Good => Iterates(Iter(w, T), w, T)
  BY <1>1 DEF Iter
<1>3. \A T \in SUBSET S : IsFiniteSet(T)
  BY FS_Subset
\* An iteration over a set holds the sums of its subsets.
<1>4. ASSUME NEW T \in Good, NEW U \in Good, U \subseteq T
      PROVE  Iter(w, T)[U] = Iter(w, U)[U]
  <2>1. PICK f : f = Iter(w, T)
    OBVIOUS
  <2>2. PICK g : g = [s \in SUBSET U |-> f[s]]
    OBVIOUS
  <2>3. Iterates(f, w, T) /\ IsFiniteSet(U) /\ Iterates(Iter(w, U), w, U)
    BY <1>1, <1>2, <1>3, <2>1
  <2>4. Iterates(g, w, U)
    BY <1>4, <2>2, <2>3, IteratesWithin
  <2>5. g = Iter(w, U)
    BY <2>3, <2>4, IteratesOnce
  <2>6. QED
    BY <2>1, <2>2, <2>5
<1>5. ASSUME NEW T \in SUBSET S, \A U \in SUBSET T : U # T => U \in Good
      PROVE  T \in Good
  <2>1. PICK f : f = [s \in SUBSET T |->
                        IF s = {} THEN 0
                        ELSE w[Pick(s)] + Iter(w, s \ {Pick(s)})[s \ {Pick(s)}]]
    OBVIOUS
  <2>2. ASSUME NEW s \in SUBSET T
        PROVE  f[s] = IF s = {} THEN 0 ELSE w[Pick(s)] + f[s \ {Pick(s)}]
    <3>1. CASE s = {}
      BY <2>1, <3>1
    <3>2. CASE s # {}
      <4>1. PICK p : p = Pick(s)
        OBVIOUS
      <4>2. PICK t : t = s \ {p}
        OBVIOUS
      <4>3. p \in s /\ t \in SUBSET T /\ t # T
        BY <3>2, <4>1, <4>2, PickIn
      <4>4. f[s] = w[p] + Iter(w, t)[t]
        BY <2>1, <3>2, <4>1, <4>2
      <4>5. f[t] = Iter(w, t)[t]
        <5>1. t \in Good
          BY <1>5, <4>3
        <5>2. Iterates(Iter(w, t), w, t)
          BY <1>1, <1>2, <5>1
        <5>3. CASE t = {}
          <6>1. Iter(w, t)[{}] = 0
            BY <5>2, IteratesEmpty
          <6>2. f[{}] = 0
            BY <2>1, <5>3
          <6>3. QED
            BY <5>3, <6>1, <6>2
        <5>4. CASE t # {}
          <6>1. PICK q : q = Pick(t)
            OBVIOUS
          <6>2. PICK u : u = t \ {q}
            OBVIOUS
          <6>3. q \in t
            BY <5>4, <6>1, PickIn
          <6>4. u \in SUBSET T /\ u # T /\ u \subseteq t /\ u \in Good
            BY <1>5, <4>3, <6>2, <6>3
          <6>5. f[t] = w[q] + Iter(w, u)[u]
            BY <2>1, <4>3, <5>4, <6>1, <6>2
          <6>6. Iter(w, t)[t] = w[q] + Iter(w, t)[u]
            BY <5>2, <5>4, <6>1, <6>2, IteratesAt
          <6>7. Iter(w, t)[u] = Iter(w, u)[u]
            BY <1>4, <5>1, <6>4
          <6>8. QED
            BY <6>5, <6>6, <6>7
        <5>5. QED
          BY <5>3, <5>4
      <4>6. QED
        BY <3>2, <4>1, <4>2, <4>4, <4>5
    <3>3. QED
      BY <3>1, <3>2
  <2>3. Iterates(f, w, T)
    <3>1. f = [s \in SUBSET T |-> f[s]]
      BY <2>1
    <3>2. QED
      BY <2>2, <3>1 DEF Iterates
  <2>4. QED
    BY <1>1, <2>3
<1>6. \A T \in SUBSET S : T \in Good
  BY <1>5, SubsetInduction
<1>7. QED
  BY <1>2, <1>6

\* The empty sum.
LEMMA SumOfNone == ASSUME NEW w PROVE SumFunctionOnSet(w, {}) = 0
<1>1. Iterates(Iter(w, {}), w, {})
  BY FS_EmptySet, IterExists
<1>2. QED
  BY <1>1, IteratesEmpty, SumIsIter

\* The sum takes out the element it picks.
LEMMA SumUnfolds ==
  ASSUME NEW S, IsFiniteSet(S), S # {}, NEW w
  PROVE  SumFunctionOnSet(w, S) = w[Pick(S)] + SumFunctionOnSet(w, S \ {Pick(S)})
<1>1. PICK p : p = Pick(S)
  OBVIOUS
<1>2. PICK T : T = S \ {p}
  OBVIOUS
<1>3. PICK f : f = Iter(w, S)
  OBVIOUS
<1>4. IsFiniteSet(T) /\ T \in SUBSET S
  BY <1>2, FS_RemoveElement
<1>5. Iterates(f, w, S) /\ Iterates(Iter(w, T), w, T)
  BY <1>3, <1>4, IterExists
<1>6. f[S] = w[p] + f[T]
  BY <1>1, <1>2, <1>5, IteratesAt
<1>7. PICK g : g = [s \in SUBSET T |-> f[s]]
  OBVIOUS
<1>8. Iterates(g, w, T)
  BY <1>4, <1>5, <1>7, IteratesWithin
<1>9. g = Iter(w, T)
  BY <1>4, <1>5, <1>8, IteratesOnce
<1>10. f[T] = Iter(w, T)[T]
  BY <1>7, <1>9
<1>11. QED
  BY <1>1, <1>2, <1>3, <1>6, <1>10, SumIsIter

\* A sum of natural numbers is one, and does not depend on the order.
LEMMA SumTakesOut ==
  ASSUME NEW S, IsFiniteSet(S), NEW w, \A x \in S : w[x] \in Nat
  PROVE  /\ SumFunctionOnSet(w, S) \in Nat
         /\ \A x \in S : SumFunctionOnSet(w, S) = w[x] + SumFunctionOnSet(w, S \ {x})
<1> DEFINE Total(T) == SumFunctionOnSet(w, T)
<1> HIDE DEF Total
<1>1. PICK Good : Good = {T \in SUBSET S :
          Total(T) \in Nat /\ \A x \in T : Total(T) = w[x] + Total(T \ {x})}
  OBVIOUS
<1>2. ASSUME NEW T \in SUBSET S, \A U \in SUBSET T : U # T => U \in Good
      PROVE  T \in Good
  <2>1. CASE T = {}
    BY <1>1, <2>1, SumOfNone DEF Total
  <2>2. CASE T # {}
    <3>1. PICK p : p = Pick(T)
      OBVIOUS
    <3>2. p \in T /\ w[p] \in Nat
      BY <2>2, <3>1, PickIn
    <3>3. Total(T) = w[p] + Total(T \ {p})
      <4>1. IsFiniteSet(T)
        BY FS_Subset
      <4>2. QED
        BY <2>2, <3>1, <4>1, SumUnfolds DEF Total
    <3>4. T \ {p} \in Good
      BY <1>2, <3>2
    <3>5. Total(T \ {p}) \in Nat
      BY <1>1, <3>4
    <3>6. ASSUME NEW x \in T PROVE Total(T) = w[x] + Total(T \ {x})
      <4>1. CASE x = p
        BY <3>3, <4>1
      <4>2. CASE x # p
        <5>1. T \ {x} \in Good /\ x \in T \ {p} /\ p \in T \ {x}
          BY <1>2, <3>2, <4>2
        <5>2. PICK U : U = (T \ {p}) \ {x}
          OBVIOUS
        <5>3. (T \ {x}) \ {p} = U
          BY <5>2
        <5>4. Total(T \ {p}) = w[x] + Total(U)
          BY <1>1, <3>4, <5>1, <5>2
        <5>5. Total(T \ {x}) = w[p] + Total(U)
          BY <1>1, <5>1, <5>3
        <5>6. Total(U) \in Nat /\ w[x] \in Nat
          <6>1. U \in Good
            BY <1>2, <3>2, <5>2
          <6>2. QED
            BY <1>1, <6>1
        <5>7. QED
          BY <3>2, <3>3, <5>4, <5>5, <5>6
      <4>3. QED
        BY <4>1, <4>2
    <3>7. Total(T) \in Nat
      BY <3>2, <3>3, <3>5
    <3>8. \A x \in T : Total(T) = w[x] + Total(T \ {x})
      BY <3>6
    <3>9. QED
      BY <1>1, <3>7, <3>8
  <2>3. QED
    BY <2>1, <2>2
<1>3. S \in Good
  BY <1>2, SubsetInduction
<1>4. QED
  BY <1>1, <1>3 DEF Total

\* A sum with one more term.
LEMMA SumAdds ==
  ASSUME NEW S, IsFiniteSet(S), NEW x, x \notin S, NEW w, \A y \in S \cup {x} : w[y] \in Nat
  PROVE  SumFunctionOnSet(w, S \cup {x}) = SumFunctionOnSet(w, S) + w[x]
<1>1. PICK T : T = S \cup {x}
  OBVIOUS
<1>2. IsFiniteSet(T) /\ T \ {x} = S /\ x \in T
  BY <1>1, FS_AddElement
<1>3. SumFunctionOnSet(w, T) = w[x] + SumFunctionOnSet(w, T \ {x})
  BY <1>1, <1>2, SumTakesOut
<1>4. SumFunctionOnSet(w, S) \in Nat /\ w[x] \in Nat
  BY SumTakesOut
<1>5. QED
  BY <1>1, <1>2, <1>3, <1>4

\* A single term is its own sum.
LEMMA SumOfOne == ASSUME NEW w, NEW x, w[x] \in Nat PROVE SumFunctionOnSet(w, {x}) = w[x]
<1>1. PICK T : T = {x} \ {x}
  OBVIOUS
<1>2. T = {}
  BY <1>1
<1>3. IsFiniteSet({x})
  BY FS_Singleton
<1>4. SumFunctionOnSet(w, {x}) = w[x] + SumFunctionOnSet(w, T)
  BY <1>1, <1>3, SumTakesOut
<1>5. SumFunctionOnSet(w, T) = 0
  BY <1>2, SumOfNone
<1>6. QED
  BY <1>4, <1>5

\* Equal terms make equal sums.
LEMMA SumAgrees ==
  ASSUME NEW S, IsFiniteSet(S), NEW w, NEW v, \A x \in S : w[x] = v[x]
  PROVE  SumFunctionOnSet(w, S) = SumFunctionOnSet(v, S)
<1>1. PICK Good : Good = {T \in SUBSET S : SumFunctionOnSet(w, T) = SumFunctionOnSet(v, T)}
  OBVIOUS
<1>2. ASSUME NEW T \in SUBSET S, \A U \in SUBSET T : U # T => U \in Good
      PROVE  T \in Good
  <2>1. CASE T = {}
    BY <1>1, <2>1, SumOfNone
  <2>2. CASE T # {}
    <3>1. PICK p : p = Pick(T)
      OBVIOUS
    <3>2. p \in T /\ IsFiniteSet(T) /\ w[p] = v[p]
      BY <2>2, <3>1, PickIn, FS_Subset
    <3>3. /\ SumFunctionOnSet(w, T) = w[p] + SumFunctionOnSet(w, T \ {p})
          /\ SumFunctionOnSet(v, T) = v[p] + SumFunctionOnSet(v, T \ {p})
      BY <2>2, <3>1, <3>2, SumUnfolds
    <3>4. T \ {p} \in Good
      BY <1>2, <3>2
    <3>5. QED
      BY <1>1, <3>2, <3>3, <3>4
  <2>3. QED
    BY <2>1, <2>2
<1>3. S \in Good
  BY <1>2, SubsetInduction
<1>4. QED
  BY <1>1, <1>3

\* More terms make no smaller sum.
LEMMA SumGrows ==
  ASSUME NEW S, IsFiniteSet(S), NEW R \in SUBSET S, NEW w, \A x \in S : w[x] \in Nat
  PROVE  SumFunctionOnSet(w, R) <= SumFunctionOnSet(w, S)
<1> DEFINE Total(T) == SumFunctionOnSet(w, T)
<1>1. \A T \in SUBSET S : Total(T) \in Nat /\ \A x \in T : Total(T) = w[x] + Total(T \ {x})
  <2>1. \A T \in SUBSET S : IsFiniteSet(T)
    BY FS_Subset
  <2>2. QED
    BY <2>1, SumTakesOut
<1> HIDE DEF Total
<1>2. PICK Good : Good = {T \in SUBSET S : R \subseteq T => Total(R) <= Total(T)}
  OBVIOUS
<1>3. ASSUME NEW T \in SUBSET S, \A U \in SUBSET T : U # T => U \in Good
      PROVE  T \in Good
  <2>1. SUFFICES ASSUME R \subseteq T PROVE Total(R) <= Total(T)
    BY <1>2
  <2>2. CASE R = T
    BY <1>1, <2>2
  <2>3. CASE R # T
    <3>1. PICK x \in T : x \notin R
      BY <2>1, <2>3
    <3>2. T \ {x} \in Good /\ R \subseteq T \ {x}
      BY <1>3, <2>1, <3>1
    <3>3. Total(R) <= Total(T \ {x})
      BY <1>2, <3>2
    <3>4. Total(T) = w[x] + Total(T \ {x}) /\ w[x] \in Nat /\ Total(R) \in Nat
      BY <1>1, <3>1
    <3>5. Total(T \ {x}) \in Nat
      BY <1>1
    <3>6. QED
      BY <3>3, <3>4, <3>5
  <2>4. QED
    BY <2>2, <2>3
<1>4. S \in Good
  BY <1>3, SubsetInduction
<1>5. QED
  BY <1>2, <1>4 DEF Total

\* A union costs no more than its parts.
LEMMA SumOfUnion ==
  ASSUME NEW S, IsFiniteSet(S), NEW R, IsFiniteSet(R), NEW w, \A x \in S \cup R : w[x] \in Nat
  PROVE  SumFunctionOnSet(w, S \cup R) <= SumFunctionOnSet(w, S) + SumFunctionOnSet(w, R)
<1> DEFINE Total(T) == SumFunctionOnSet(w, T)
<1>1. \A T \in SUBSET (S \cup R) :
        Total(T) \in Nat /\ \A x \in T : Total(T) = w[x] + Total(T \ {x})
  <2>1. IsFiniteSet(S \cup R)
    BY FS_Union
  <2>2. \A T \in SUBSET (S \cup R) : IsFiniteSet(T)
    BY <2>1, FS_Subset
  <2>3. QED
    BY <2>2, SumTakesOut
<1> HIDE DEF Total
<1>2. PICK Good : Good = {T \in SUBSET R : Total(S \cup T) <= Total(S) + Total(T)}
  OBVIOUS
<1>3. ASSUME NEW T \in SUBSET R, \A U \in SUBSET T : U # T => U \in Good
      PROVE  T \in Good
  <2>1. T \in SUBSET (S \cup R) /\ S \cup T \in SUBSET (S \cup R) /\ S \in SUBSET (S \cup R)
    OBVIOUS
  <2>2. Total(T) \in Nat /\ Total(S \cup T) \in Nat /\ Total(S) \in Nat
    BY <1>1, <2>1
  <2>3. CASE T \subseteq S
    <3>1. S \cup T = S
      BY <2>3
    <3>2. QED
      BY <1>2, <2>2, <3>1
  <2>4. CASE ~(T \subseteq S)
    <3>1. PICK x \in T : x \notin S
      BY <2>4
    <3>2. PICK U : U = T \ {x}
      OBVIOUS
    <3>3. U \in Good /\ U \in SUBSET (S \cup R) /\ S \cup U \in SUBSET (S \cup R)
      BY <1>3, <3>1, <3>2
    <3>4. Total(S \cup U) <= Total(S) + Total(U)
      BY <1>2, <3>3
    <3>5. Total(T) = w[x] + Total(U) /\ w[x] \in Nat /\ Total(U) \in Nat
      BY <1>1, <2>1, <3>1, <3>2, <3>3
    <3>6. (S \cup T) \ {x} = S \cup U /\ x \in S \cup T
      BY <3>1, <3>2
    <3>7. Total(S \cup T) = w[x] + Total(S \cup U) /\ Total(S \cup U) \in Nat
      BY <1>1, <2>1, <3>3, <3>6
    <3>8. QED
      BY <1>2, <2>2, <3>4, <3>5, <3>7
  <2>5. QED
    BY <2>3, <2>4
<1>4. R \in Good
  BY <1>3, SubsetInduction
<1>5. QED
  BY <1>2, <1>4 DEF Total

\* Larger terms make no smaller sum.
LEMMA SumDominates ==
  ASSUME NEW S, IsFiniteSet(S), NEW w, NEW v, \A x \in S : w[x] \in Nat /\ v[x] \in Nat /\ w[x] <= v[x]
  PROVE  SumFunctionOnSet(w, S) <= SumFunctionOnSet(v, S)
<1> DEFINE Low(T) == SumFunctionOnSet(w, T)
           High(T) == SumFunctionOnSet(v, T)
<1>1. \A T \in SUBSET S : /\ Low(T) \in Nat /\ \A x \in T : Low(T) = w[x] + Low(T \ {x})
                          /\ High(T) \in Nat /\ \A x \in T : High(T) = v[x] + High(T \ {x})
  <2>1. \A T \in SUBSET S : IsFiniteSet(T)
    BY FS_Subset
  <2>2. QED
    BY <2>1, SumTakesOut
<1>2. Low({}) = High({})
  BY SumOfNone
<1> HIDE DEF Low, High
<1>3. PICK Good : Good = {T \in SUBSET S : Low(T) <= High(T)}
  OBVIOUS
<1>4. ASSUME NEW T \in SUBSET S, \A U \in SUBSET T : U # T => U \in Good
      PROVE  T \in Good
  <2>1. CASE T = {}
    BY <1>1, <1>2, <1>3, <2>1
  <2>2. CASE T # {}
    <3>1. PICK x \in T : TRUE
      BY <2>2
    <3>2. T \ {x} \in Good
      BY <1>4, <3>1
    <3>3. Low(T \ {x}) <= High(T \ {x})
      BY <1>3, <3>2
    <3>4. /\ Low(T) = w[x] + Low(T \ {x}) /\ High(T) = v[x] + High(T \ {x})
          /\ Low(T \ {x}) \in Nat /\ High(T \ {x}) \in Nat /\ w[x] \in Nat /\ v[x] \in Nat /\ w[x] <= v[x]
      BY <1>1, <3>1
    <3>5. Low(T) <= High(T)
      BY <3>3, <3>4
    <3>6. QED
      BY <1>3, <3>5
  <2>3. QED
    BY <2>1, <2>2
<1>5. S \in Good
  BY <1>4, SubsetInduction
<1>6. QED
  BY <1>3, <1>5 DEF Low, High
=============================================================================
