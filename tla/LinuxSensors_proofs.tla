------------------------- MODULE LinuxSensors_proofs ------------------------
(***************************************************************************)
(* What holds of the polling workers, of the hardware monitor that one of  *)
(* them calls, and of the connections that are monitored: for any devices, *)
(* chips, files, ticks, connections and monitors.                          *)
(***************************************************************************)
EXTENDS PolledSensors, ConnectionMonitor, FiniteSetTheorems, SequenceTheorems,
        WellFoundedInduction, TLAPS

-----------------------------------------------------------------------------
(* Sums.  What the fold of a set computes is shown for every finite set by *)
(* way of a smallest subset for which it would not hold.                   *)

\* The element of s the fold takes first.
Pick(s) == CHOOSE x \in s : TRUE

\* g has what the fold computes of v for each subset of T; it is a sum if these are
\* integers.
Sums(g, v, T) ==
  \A s \in SUBSET T : g[s] = IF s = {} THEN 0 ELSE v[Pick(s)] + g[s \ {Pick(s)}]
IsSum(g, v, T) == g \in [SUBSET T -> Int] /\ Sums(g, v, T)

\* Some set of a family of subsets of a finite set contains no other.
LEMMA Smallest ==
  ASSUME NEW S, IsFiniteSet(S), NEW Q \in SUBSET SUBSET S, Q # {}
  PROVE  \E T \in Q : \A U \in Q : U \subseteq T => U = T
<1>1. Q \subseteq FiniteSubsetsOf(S)
  BY FS_Subset DEF FiniteSubsetsOf
<1>2. PICK T \in Q : \A U \in Q : <<U, T>> \notin StrictSubsetOrdering(S)
  BY <1>1, FS_StrictSubsetOrderingWellFounded, WFMin
<1> QED  BY <1>2 DEF StrictSubsetOrdering

\* It is an element.
LEMMA Picked == ASSUME NEW s, s # {} PROVE Pick(s) \in s
BY DEF Pick

\* The fold has one value only for a set.
LEMMA SumsAgree ==
  ASSUME NEW S, IsFiniteSet(S), NEW v, NEW A \in SUBSET S, NEW B \in SUBSET S,
         NEW g, Sums(g, v, A), NEW h, Sums(h, v, B)
  PROVE  \A s \in SUBSET (A \cap B) : g[s] = h[s]
<1> DEFINE Q == {s \in SUBSET (A \cap B) : g[s] # h[s]}
<1> SUFFICES ASSUME Q # {} PROVE FALSE
  OBVIOUS
<1>1. PICK T \in Q : \A U \in Q : U \subseteq T => U = T
  <2>1. Q \in SUBSET SUBSET S
    OBVIOUS
  <2> HIDE DEF Q
  <2> QED  BY <2>1, Smallest
<1>2. T # {}
  BY <1>1 DEF Sums
<1>3. Pick(T) \in T
  BY <1>2, Picked
<1>4. T \ {Pick(T)} \in SUBSET (A \cap B) /\ T \ {Pick(T)} \notin Q
  BY <1>1, <1>3
<1>5. g[T \ {Pick(T)}] = h[T \ {Pick(T)}]
  BY <1>4
<1>6. g[T] = h[T]
  BY <1>1, <1>2, <1>5 DEF Sums
<1> QED  BY <1>1, <1>6

\* There is a function with what the fold computes.
LEMMA SumExists ==
  ASSUME NEW S, IsFiniteSet(S), NEW v, \A x \in S : v[x] \in Int
  PROVE  \E g : IsSum(g, v, S)
<1> DEFINE Q == {s \in SUBSET S : ~ \E g : IsSum(g, v, s)}
           G(s) == CHOOSE g : IsSum(g, v, s)
<1>1. SUFFICES ASSUME Q # {} PROVE FALSE
  BY <1>1
<1>2. PICK T \in Q : \A U \in Q : U \subseteq T => U = T
  <2>1. Q \in SUBSET SUBSET S
    OBVIOUS
  <2> HIDE DEF Q
  <2> QED  BY <1>1, <2>1, Smallest
<1>3. \A s \in SUBSET T : s # T => IsSum(G(s), v, s)
  BY <1>2
<1>4. T \in SUBSET S /\ ~ \E g : IsSum(g, v, T)
  BY <1>2
<1> HIDE DEF G, Q
<1>5. T # {}
  <2>1. IsSum([s \in SUBSET {} |-> 0], v, {})
    BY DEF IsSum, Sums
  <2> QED  BY <1>4, <2>1
<1> DEFINE p == Pick(T)
           all == v[p] + G(T \ {p})[T \ {p}]
           g == [s \in SUBSET T |-> IF s = T THEN all ELSE G(s)[s]]
<1>6. p \in T /\ T \ {p} # T /\ v[p] \in Int
  BY <1>4, <1>5, Picked
<1>7. \A s \in SUBSET T : s # T => G(s)[s] \in Int
  BY <1>3 DEF IsSum, Sums
<1>8. g \in [SUBSET T -> Int]
  BY <1>6, <1>7
<1>9. ASSUME NEW s \in SUBSET T
      PROVE  g[s] = IF s = {} THEN 0 ELSE v[Pick(s)] + g[s \ {Pick(s)}]
  <2>1. CASE s = T
    BY <1>5, <1>6, <2>1
  <2>2. CASE s # T
    <3>1. IsSum(G(s), v, s)
      BY <1>3, <2>2
    <3>2. CASE s = {}
      BY <2>2, <3>1, <3>2 DEF IsSum, Sums
    <3>3. CASE s # {}
      <4> DEFINE r == s \ {Pick(s)}
      <4>1. r \in SUBSET s /\ r \in SUBSET T /\ r # T /\ r \in SUBSET (s \cap r)
        BY <2>2, <3>3, Picked
      <4>2. IsSum(G(r), v, r)
        BY <1>3, <4>1
      <4>3. G(s)[r] = G(r)[r]
        <5>1. s \in SUBSET S /\ r \in SUBSET S
          BY <1>4, <4>1
        <5> HIDE DEF r
        <5> QED  BY <3>1, <4>1, <4>2, <5>1, SumsAgree DEF IsSum
      <4>4. G(s)[s] = v[Pick(s)] + G(s)[r]
        BY <3>1, <3>3 DEF IsSum, Sums
      <4>5. g[s] = G(s)[s] /\ g[r] = G(r)[r]
        BY <2>2, <4>1
      <4> QED  BY <3>3, <4>3, <4>4, <4>5
    <3> QED  BY <3>2, <3>3
  <2> QED  BY <2>1, <2>2
<1>10. IsSum(g, v, T)
  BY <1>8, <1>9 DEF IsSum, Sums
<1> QED  BY <1>4, <1>10

\* So the fold, which is one such function, computes the sum.
LEMMA SumIs ==
  ASSUME NEW S, IsFiniteSet(S), NEW v, \A x \in S : v[x] \in Int
  PROVE  \E g : IsSum(g, v, S) /\ Sum(v, S) = g[S]
<1> DEFINE body(f) == [s \in SUBSET S |->
                         IF s = {} THEN 0
                         ELSE v[CHOOSE x \in s : TRUE] + f[s \ {CHOOSE x \in s : TRUE}]]
           iter == CHOOSE f : f = body(f)
<1>1. PICK g : IsSum(g, v, S)
  BY SumExists
<1>2. g = body(g)
  BY <1>1 DEF IsSum, Sums, Pick
<1>3. iter = body(iter)
  BY <1>2
<1>4. Sum(v, S) = iter[S]
  BY DEF Sum, MapThenSumSet, MapThenFoldSet
<1> HIDE DEF iter
<1>5. Sums(iter, v, S)
  BY <1>3 DEF Sums, Pick
<1>6. iter[S] = g[S]
  BY <1>1, <1>5, SumsAgree DEF IsSum
<1> QED  BY <1>1, <1>4, <1>6

\* The sum over a set is that over the rest and one element.
Summed(v, T) ==
  /\ Sum(v, T) \in Int
  /\ T = {} => Sum(v, T) = 0
  /\ T # {} => Sum(v, T) = v[Pick(T)] + Sum(v, T \ {Pick(T)})

\* It is, as far as the values are integers.
LEMMA SumRule ==
  ASSUME NEW S, IsFiniteSet(S), NEW v, \A x \in S : v[x] \in Int, NEW T \in SUBSET S
  PROVE  Summed(v, T)
<1>1. IsFiniteSet(T)
  BY FS_Subset
<1>2. PICK g : IsSum(g, v, T) /\ Sum(v, T) = g[T]
  BY <1>1, SumIs
<1>3. Sum(v, T) \in Int /\ (T = {} => Sum(v, T) = 0)
  <2>1. T \in SUBSET T
    OBVIOUS
  <2>2. g[T] \in Int /\ (T = {} => g[T] = 0)
    BY <1>2, <2>1 DEF IsSum, Sums
  <2> QED  BY <1>2, <2>2
<1>4. ASSUME T # {} PROVE Sum(v, T) = v[Pick(T)] + Sum(v, T \ {Pick(T)})
  <2> DEFINE r == T \ {Pick(T)}
  <2>1. r \in SUBSET S /\ IsFiniteSet(r)
    BY FS_Subset
  <2>2. PICK h : IsSum(h, v, r) /\ Sum(v, r) = h[r]
    BY <2>1, SumIs
  <2>3. g[r] = h[r]
    BY <1>2, <2>1, <2>2, SumsAgree DEF IsSum
  <2>4. g[T] = v[Pick(T)] + g[r]
    BY <1>2, <1>4 DEF IsSum, Sums
  <2> QED  BY <1>2, <2>2, <2>3, <2>4
<1> QED  BY <1>3, <1>4 DEF Summed

\* What holds of the empty set, and of a set if it does of the rest, holds of all: P is
\* the set of the sets it holds of.
LEMMA ByPicking ==
  ASSUME NEW S, IsFiniteSet(S), NEW P \in SUBSET SUBSET S, {} \in P,
         \A T \in SUBSET S : (T # {} /\ T \ {Pick(T)} \in P) => T \in P
  PROVE  S \in P
<1> DEFINE Q == (SUBSET S) \ P
<1>1. SUFFICES ASSUME Q # {} PROVE FALSE
  BY <1>1
<1>2. PICK T \in Q : \A U \in Q : U \subseteq T => U = T
  <2>1. Q \in SUBSET SUBSET S
    OBVIOUS
  <2> HIDE DEF Q
  <2> QED  BY <1>1, <2>1, Smallest
<1>3. T # {} /\ Pick(T) \in T
  BY <1>2, Picked
<1>4. T \ {Pick(T)} \in P
  BY <1>2, <1>3
<1> QED  BY <1>2, <1>3, <1>4

\* Only the values of its elements matter to the sum over a set.
LEMMA SumSame ==
  ASSUME NEW S, IsFiniteSet(S), NEW v, NEW w,
         \A x \in S : v[x] \in Int /\ w[x] = v[x]
  PROVE  Sum(v, S) = Sum(w, S)
<1>1. (\A x \in S : v[x] \in Int) /\ (\A x \in S : w[x] \in Int)
  OBVIOUS
<1> DEFINE P == {T \in SUBSET S : Sum(v, T) = Sum(w, T)}
<1>2. ASSUME NEW T \in SUBSET S PROVE Summed(v, T) /\ Summed(w, T)
  <2>1. Summed(v, T)
    BY <1>1, SumRule
  <2>2. Summed(w, T)
    BY <1>1, SumRule
  <2> QED  BY <2>1, <2>2
<1>3. {} \in P
  BY <1>2 DEF Summed
<1>4. ASSUME NEW T \in SUBSET S, T # {}, T \ {Pick(T)} \in P PROVE T \in P
  BY <1>2, <1>4, Picked DEF Summed
<1>5. P \in SUBSET SUBSET S
  OBVIOUS
<1>6. S \in P
  <2> HIDE DEF P
  <2> QED  BY <1>3, <1>4, <1>5, ByPicking
<1> QED  BY <1>6

\* Sums keep an order of the values.
LEMMA SumWithin ==
  ASSUME NEW S, IsFiniteSet(S), NEW v, NEW w,
         \A x \in S : v[x] \in Int /\ w[x] \in Int /\ v[x] <= w[x]
  PROVE  Sum(v, S) <= Sum(w, S)
<1>1. (\A x \in S : v[x] \in Int) /\ (\A x \in S : w[x] \in Int)
  OBVIOUS
<1> DEFINE P == {T \in SUBSET S : Sum(v, T) <= Sum(w, T)}
<1>2. ASSUME NEW T \in SUBSET S PROVE Summed(v, T) /\ Summed(w, T)
  <2>1. Summed(v, T)
    BY <1>1, SumRule
  <2>2. Summed(w, T)
    BY <1>1, SumRule
  <2> QED  BY <2>1, <2>2
<1>3. {} \in P
  BY <1>2 DEF Summed
<1>4. ASSUME NEW T \in SUBSET S, T # {}, T \ {Pick(T)} \in P PROVE T \in P
  <2> DEFINE p == Pick(T)
             r == T \ {p}
  <2>1. v[p] \in Int /\ w[p] \in Int /\ v[p] <= w[p]
    BY <1>4, Picked
  <2>2. Sum(v, r) <= Sum(w, r) /\ r \in SUBSET S
    BY <1>4
  <2>3. Sum(v, T) = v[p] + Sum(v, r) /\ Sum(w, T) = w[p] + Sum(w, r)
    BY <1>2, <1>4 DEF Summed
  <2> HIDE DEF p, r
  <2>4. Sum(v, r) \in Int /\ Sum(w, r) \in Int
    BY <1>2, <2>2 DEF Summed
  <2> QED  BY <2>1, <2>2, <2>3, <2>4
<1>5. P \in SUBSET SUBSET S
  OBVIOUS
<1>6. S \in P
  <2> HIDE DEF P
  <2> QED  BY <1>3, <1>4, <1>5, ByPicking
<1> QED  BY <1>6

\* Any element can be taken out of a sum.
LEMMA SumWithout ==
  ASSUME NEW S, IsFiniteSet(S), NEW v, \A x \in S : v[x] \in Int,
         NEW U \in SUBSET S, NEW y \in U
  PROVE  Sum(v, U) = v[y] + Sum(v, U \ {y})
<1> DEFINE Q == {T \in SUBSET S : \E x \in T : Sum(v, T) # v[x] + Sum(v, T \ {x})}
<1>1. ASSUME Q # {} PROVE FALSE
  <2>1. PICK T \in Q : \A R \in Q : R \subseteq T => R = T
    <3>1. Q \in SUBSET SUBSET S
      OBVIOUS
    <3> HIDE DEF Q
    <3> QED  BY <1>1, <3>1, Smallest
  <2>2. PICK x \in T : Sum(v, T) # v[x] + Sum(v, T \ {x})
    BY <2>1
  <2> DEFINE p == Pick(T)
             rest == T \ {p, x}
  <2>3. T \in SUBSET S /\ p \in T /\ v[p] \in Int /\ v[x] \in Int
    BY <2>1, <2>2, Picked
  <2>4. \A R \in SUBSET T : R # T => \A z \in R : Sum(v, R) = v[z] + Sum(v, R \ {z})
    BY <2>1, <2>3
  <2> HIDE DEF p, Q
  <2>5. Sum(v, T) = v[p] + Sum(v, T \ {p})
    <3>1. Summed(v, T)
      BY <2>3, SumRule
    <3> QED  BY <2>2, <3>1 DEF Summed, p
  <2>6. x # p
    BY <2>2, <2>5
  <2>7. Sum(v, T \ {p}) = v[x] + Sum(v, rest)
    <3>1. (T \ {p}) \ {x} = rest
      OBVIOUS
    <3>2. T \ {p} \in SUBSET T /\ T \ {p} # T /\ x \in T \ {p}
      BY <2>2, <2>3, <2>6
    <3> QED  BY <2>4, <3>1, <3>2
  <2>8. Sum(v, T \ {x}) = v[p] + Sum(v, rest)
    <3>1. (T \ {x}) \ {p} = rest
      OBVIOUS
    <3>2. T \ {x} \in SUBSET T /\ T \ {x} # T /\ p \in T \ {x}
      BY <2>2, <2>3, <2>6
    <3> QED  BY <2>4, <3>1, <3>2
  <2>9. Sum(v, rest) \in Int
    <3>1. Summed(v, rest)
      BY <2>3, SumRule
    <3> QED  BY <3>1 DEF Summed
  <2> HIDE DEF rest
  <2> QED  BY <2>2, <2>3, <2>5, <2>7, <2>8, <2>9
<1>2. U \notin Q
  BY <1>1
<1> QED  BY <1>2

\* What is 0 does not count.
LEMMA SumOfRest ==
  ASSUME NEW S, IsFiniteSet(S), NEW v, \A x \in S : v[x] \in Int,
         NEW R \in SUBSET S, \A x \in S \ R : v[x] = 0
  PROVE  Sum(v, S) = Sum(v, R)
<1> DEFINE Q == {T \in SUBSET S : Sum(v, T) # Sum(v, T \cap R)}
<1>1. ASSUME Q # {} PROVE FALSE
  <2>1. PICK T \in Q : \A U \in Q : U \subseteq T => U = T
    <3>1. Q \in SUBSET SUBSET S
      OBVIOUS
    <3> HIDE DEF Q
    <3> QED  BY <1>1, <3>1, Smallest
  <2>2. T \in SUBSET S /\ Sum(v, T) # Sum(v, T \cap R)
    BY <2>1
  <2>3. T \cap R # T
    BY <2>2
  <2>4. PICK x \in T : x \notin R
    BY <2>3
  <2>5. T \ {x} \notin Q /\ T \ {x} \in SUBSET S
    BY <2>1, <2>2, <2>4
  <2>6. (T \ {x}) \cap R = T \cap R
    BY <2>4
  <2>7. Sum(v, T \ {x}) = Sum(v, T \cap R)
    BY <2>5, <2>6
  <2> HIDE DEF Q
  <2>8. Sum(v, T) = v[x] + Sum(v, T \ {x})
    BY <2>2, <2>4, SumWithout
  <2>9. v[x] = 0
    BY <2>2, <2>4
  <2>10. Sum(v, T \ {x}) \in Int
    <3>1. Summed(v, T \ {x})
      BY <2>5, SumRule
    <3> QED  BY <3>1 DEF Summed
  <2>11. Sum(v, T) = Sum(v, T \ {x})
    BY <2>8, <2>9, <2>10
  <2> QED  BY <2>2, <2>7, <2>11, Zenon
<1>2. S \notin Q /\ S \cap R = R
  BY <1>1
<1> QED  BY <1>2

\* A sum of values that are none of them negative is none.
LEMMA SumNat ==
  ASSUME NEW S, IsFiniteSet(S), NEW v, \A x \in S : v[x] \in Nat
  PROVE  Sum(v, S) \in Nat
<1> DEFINE P == {T \in SUBSET S : Sum(v, T) \in Nat}
<1>1. \A x \in S : v[x] \in Int
  OBVIOUS
<1>2. ASSUME NEW T \in SUBSET S PROVE Summed(v, T)
  BY <1>1, SumRule
<1>3. {} \in P
  <2>1. Summed(v, {})
    BY <1>2
  <2> QED  BY <2>1 DEF Summed
<1>4. ASSUME NEW T \in SUBSET S, T # {}, T \ {Pick(T)} \in P PROVE T \in P
  BY <1>2, <1>4, Picked DEF Summed
<1>5. P \in SUBSET SUBSET S
  OBVIOUS
<1>6. S \in P
  <2> HIDE DEF P
  <2> QED  BY <1>3, <1>4, <1>5, ByPicking
<1> QED  BY <1>6

\* A product of a sum is the sum of the products.
LEMMA Distributes ==
  ASSUME NEW k \in Int, NEW m \in Int, NEW n \in Int PROVE k * (m + n) = k * m + k * n
OBVIOUS

\* Quotients by k that were rounded down, summed up: at most k is lost with each.
Rounds(k, a, b, q, T) ==
  /\ k * Sum(q, T) <= Sum(b, T) - Sum(a, T)
  /\ Sum(b, T) - Sum(a, T) <= k * Sum(q, T) + k * Cardinality(T)

\* They are as large as the quotient of the sum, but for that.
LEMMA SumRounds ==
  ASSUME NEW S, IsFiniteSet(S), NEW a, NEW b, NEW q, NEW k \in Nat \ {0},
         \A x \in S : /\ a[x] \in Int /\ b[x] \in Int /\ q[x] \in Int
                      /\ k * q[x] <= b[x] - a[x] /\ b[x] - a[x] <= k * q[x] + k
  PROVE  Rounds(k, a, b, q, S)
<1>1. (\A x \in S : a[x] \in Int) /\ (\A x \in S : b[x] \in Int) /\ (\A x \in S : q[x] \in Int)
  OBVIOUS
<1> DEFINE P == {T \in SUBSET S : Rounds(k, a, b, q, T)}
<1>2. ASSUME NEW T \in SUBSET S PROVE Summed(a, T) /\ Summed(b, T) /\ Summed(q, T)
  <2>1. Summed(a, T)
    BY <1>1, SumRule
  <2>2. Summed(b, T)
    BY <1>1, SumRule
  <2>3. Summed(q, T)
    BY <1>1, SumRule
  <2> QED  BY <2>1, <2>2, <2>3
<1>3. {} \in P
  <2>1. Summed(a, {}) /\ Summed(b, {}) /\ Summed(q, {})
    BY <1>2
  <2>2. Sum(a, {}) = 0 /\ Sum(b, {}) = 0 /\ Sum(q, {}) = 0 /\ Cardinality({}) = 0
    BY <2>1, FS_EmptySet DEF Summed
  <2>3. Rounds(k, a, b, q, {})
    BY <2>2 DEF Rounds
  <2> QED  BY <2>3
<1>4. ASSUME NEW T \in SUBSET S, T # {}, T \ {Pick(T)} \in P PROVE T \in P
  <2> DEFINE p == Pick(T)
             r == T \ {p}
  <2>1. /\ a[p] \in Int /\ b[p] \in Int /\ q[p] \in Int
        /\ k * q[p] <= b[p] - a[p] /\ b[p] - a[p] <= k * q[p] + k
    BY <1>4, Picked
  <2>2. Rounds(k, a, b, q, r) /\ r \in SUBSET S
    BY <1>4
  <2>3. /\ Sum(a, T) = a[p] + Sum(a, r) /\ Sum(b, T) = b[p] + Sum(b, r)
        /\ Sum(q, T) = q[p] + Sum(q, r)
    BY <1>2, <1>4 DEF Summed
  <2>4. Cardinality(T) = Cardinality(r) + 1 /\ Cardinality(r) \in Nat
    <3>1. IsFiniteSet(T) /\ p \in T
      BY <1>4, FS_Subset, Picked
    <3> HIDE DEF p
    <3>2. IsFiniteSet(r) /\ Cardinality(r) = Cardinality(T) - 1
      BY <3>1, FS_RemoveElement
    <3> QED  BY <3>1, <3>2, FS_CardinalityType
  <2> HIDE DEF p, r
  <2>5. Sum(a, r) \in Int /\ Sum(b, r) \in Int /\ Sum(q, r) \in Int
    BY <1>2, <2>2 DEF Summed
  <2>6. k * Sum(q, T) = k * q[p] + k * Sum(q, r)
    BY <2>1, <2>3, <2>5, Distributes
  <2>7. k * Cardinality(T) = k * Cardinality(r) + k
    BY <2>4, Distributes
  <2>8. k * q[p] \in Int /\ k * Sum(q, r) \in Int /\ k * Cardinality(r) \in Int
    BY <2>1, <2>4, <2>5
  <2>9. Rounds(k, a, b, q, T)
    BY <2>1, <2>2, <2>3, <2>5, <2>6, <2>7, <2>8 DEF Rounds
  <2> QED  BY <2>9
<1>5. P \in SUBSET SUBSET S
  OBVIOUS
<1>6. S \in P
  <2> HIDE DEF P
  <2> QED  BY <1>3, <1>4, <1>5, ByPicking
<1> QED  BY <1>6

-----------------------------------------------------------------------------
(* The hardware monitor.                                                   *)

\* What the loop of the chip has taken of sensor i: the files that were numbers, and
\* those of them that give a value.
Numbers(c, i) == {f \in FilesOf(c) \cap taken : TrackerID(f) = i /\ content[f] = "number"}
Values(c, i) == {f \in Numbers(c, i) : f.attribute \in Alarm \cup {"input"}}
Limits(c, i) == {f \in Numbers(c, i) : f.attribute = "limit"}

\* The sensor is made of what was taken.
Made(c, i) ==
  /\ Values(c, i) = {} => built[c][i].value = NoFile
  /\ Values(c, i) # {} => built[c][i].value \in Values(c, i)
  /\ built[c][i].attributes = Limits(c, i)
  /\ ~i[2] => built[c][i].label \in Labels(c, i)

\* Before its files are read a chip has no sensors, while they are it has those of the
\* files that were taken, and then those that have a value.
Stages(c) ==
  /\ chips[c] = "opening" => built[c] = << >> /\ FilesOf(c) \cap taken = {}
  /\ chips[c] = "reading" => DOMAIN built[c] = {TrackerID(f) : f \in FilesOf(c) \cap taken}
  /\ chips[c] \in {"offering", "collected"} =>
       /\ \A f \in FilesOf(c) : FileDone(f)
       /\ DOMAIN built[c] = {i \in TrackerIDs(c) : Values(c, i) # {}}

CollectInv ==
  /\ HwTypeOK
  /\ \A f \in taken : content[f] \in {"number", "garbage"}
  /\ \A c \in Chip : Stages(c) /\ \A i \in DOMAIN built[c] : Made(c, i)

\* The sensors of one kind, alarms or others, have trackers of their own.
LEMMA Trackers == ASSUME NEW f \in File PROVE TrackerID(f)[2] = (f.attribute \in Alarm)
BY DEF TrackerID

\* What a file changes of its sensor.
LEMMA Informs ==
  ASSUME NEW s \in Sensor, NEW f \in File
  PROVE  LET r == updateInfo(s, f)
             parsed == content[f] = "number"
         IN  /\ r \in Sensor
             /\ r.value = IF parsed /\ f.attribute \in Alarm \cup {"input"} THEN f ELSE s.value
             /\ r.attributes = IF parsed /\ f.attribute = "limit"
                                 THEN s.attributes \cup {f} ELSE s.attributes
             /\ f.attribute \notin Alarm =>
                  r.label = IF f.attribute = "label" THEN f ELSE s.label
<1>0. f.attribute \in Attribute
  BY FileAssumption
<1> USE <1>0 DEF updateInfo, Sensor, Attribute, Alarm, LimitAlarm
<1>1. CASE f.attribute = "label"
  BY <1>1
<1>2. CASE f.attribute \in Alarm
  BY <1>2
<1>3. CASE f.attribute = "input"
  BY <1>3
<1>4. CASE f.attribute = "limit"
  BY <1>4
<1> QED  BY <1>1, <1>2, <1>3, <1>4

\* A sensor that starts is made of nothing.
LEMMA NewSensor == newSensor \in Sensor
BY DEF newSensor, Sensor

\* What is not of the chip or the sensor of the file that is taken stays as it is.
LEMMA TakenElsewhere ==
  ASSUME CollectInv, NEW f \in File, TakeFile(f), NEW c \in Chip, NEW i \in TrackerIDs(c),
         c # f.chip \/ i # TrackerID(f)
  PROVE  Numbers(c, i)' = Numbers(c, i) /\ Labels(c, i)' = Labels(c, i)
BY DEF TakeFile, Numbers, Labels, FilesOf

\* What was taken of the sensor of the file.
LEMMA TakenHere ==
  ASSUME CollectInv, NEW f \in File, TakeFile(f)
  PROVE  LET c == f.chip
             i == TrackerID(f)
         IN  /\ Numbers(c, i)' =
                  IF content[f] = "number" THEN Numbers(c, i) \cup {f} ELSE Numbers(c, i)
             /\ f.attribute \notin Alarm => Labels(c, i)' =
                  IF f.attribute = "label"
                    THEN (Labels(c, i) \ {NoFile}) \cup {f} ELSE Labels(c, i)
<1> DEFINE c == f.chip
           i == TrackerID(f)
<1>1. taken' = taken \cup {f} /\ content' = content /\ f \in FilesOf(c)
  BY DEF TakeFile, FilesOf
<1>2. Numbers(c, i)' = IF content[f] = "number" THEN Numbers(c, i) \cup {f} ELSE Numbers(c, i)
  BY <1>1 DEF Numbers
<1> DEFINE L == {g \in FilesOf(c) \cap taken : TrackerID(g) = i /\ g.attribute = "label"}
           M == {g \in FilesOf(c) \cap taken' : TrackerID(g) = i /\ g.attribute = "label"}
<1>3. Labels(c, i) = (IF L = {} THEN {NoFile} ELSE L) /\ Labels(c, i)' = (IF M = {} THEN {NoFile} ELSE M)
  BY DEF Labels, FilesOf
<1>4. M = IF f.attribute = "label" THEN L \cup {f} ELSE L
  BY <1>1
<1>5. NoFile \notin L
  BY FileAssumption DEF FilesOf
<1> HIDE DEF L, M
<1> QED  BY <1>2, <1>3, <1>4, <1>5

\* The loop takes a file: the sensor it is of is made of one more.
LEMMA TakeCollects ==
  ASSUME CollectInv, NEW f \in File, TakeFile(f) PROVE CollectInv'
<1> DEFINE c == f.chip
           id == TrackerID(f)
           s == IF id \in DOMAIN built[c] THEN built[c][id] ELSE newSensor
<1>0. c \in Chip /\ f \in FilesOf(c) /\ id \in TrackerIDs(c)
  BY FileAssumption DEF FilesOf, TrackerIDs
<1>1. s \in Sensor
  BY <1>0, NewSensor DEF CollectInv, HwTypeOK
<1>2. /\ chips[c] = "reading" /\ content[f] \in {"number", "garbage"} /\ f \notin taken
      /\ taken' = taken \cup {f} /\ UNCHANGED <<phase, chips, content>>
      /\ built' = [built EXCEPT ![c] =
           [i \in DOMAIN built[c] \cup {id} |-> IF i = id THEN updateInfo(s, f) ELSE built[c][i]]]
  BY DEF TakeFile
<1> DEFINE r == updateInfo(s, f)
<1>3. /\ r \in Sensor
      /\ r.value = IF content[f] = "number" /\ f.attribute \in Alarm \cup {"input"} THEN f ELSE s.value
      /\ r.attributes = IF content[f] = "number" /\ f.attribute = "limit"
                          THEN s.attributes \cup {f} ELSE s.attributes
      /\ f.attribute \notin Alarm => r.label = IF f.attribute = "label" THEN f ELSE s.label
  <2> HIDE DEF s
  <2> QED  BY <1>1, Informs
<1>4. /\ DOMAIN built' = Chip
      /\ \A d \in Chip : d # c => built'[d] = built[d]
      /\ DOMAIN built'[c] = DOMAIN built[c] \cup {id}
      /\ built'[c][id] = r
      /\ \A i \in DOMAIN built[c] : i # id => built'[c][i] = built[c][i]
  <2>1. built' = [built EXCEPT ![c] =
           [i \in DOMAIN built[c] \cup {id} |-> IF i = id THEN r ELSE built[c][i]]]
    BY <1>2
  <2>2. DOMAIN built = Chip
    BY DEF CollectInv, HwTypeOK
  <2> HIDE DEF r, s, id, c
  <2> QED  BY <1>0, <2>1, <2>2
<1>5. HwTypeOK'
  <2>1. \A d \in Chip : DOMAIN built'[d] \subseteq TrackerIDs(d)
    BY <1>0, <1>4 DEF CollectInv, HwTypeOK
  <2>2. built'[c] \in [DOMAIN built'[c] -> Sensor]
    <3>1. built'[c] = [i \in DOMAIN built[c] \cup {id} |-> IF i = id THEN r ELSE built[c][i]]
      <4> HIDE DEF r, s, id
      <4> QED  BY <1>0, <1>2 DEF CollectInv, HwTypeOK, r
    <3>2. \A i \in DOMAIN built[c] : built[c][i] \in Sensor
      BY <1>0 DEF CollectInv, HwTypeOK
    <3> HIDE DEF r, s, id
    <3> QED  BY <1>3, <1>4, <3>1, <3>2
  <2>3. \A d \in Chip : d # c => built'[d] \in [DOMAIN built'[d] -> Sensor]
    BY <1>4 DEF CollectInv, HwTypeOK
  <2> HIDE DEF r, s, id, c
  <2> QED  BY <1>2, <1>4, <2>1, <2>2, <2>3 DEF CollectInv, HwTypeOK
<1>6. \A g \in taken' : content'[g] \in {"number", "garbage"}
  BY <1>2 DEF CollectInv
<1>7. ASSUME NEW d \in Chip PROVE Stages(d)'
  <2>1. CASE d = c
    <3>1. {TrackerID(g) : g \in FilesOf(c) \cap taken'}
            = {TrackerID(g) : g \in FilesOf(c) \cap taken} \cup {id}
      BY <1>0, <1>2
    <3>2. DOMAIN built[c] = {TrackerID(g) : g \in FilesOf(c) \cap taken}
      BY <1>0, <1>2 DEF CollectInv, Stages
    <3> HIDE DEF id
    <3>3. DOMAIN built'[c] = {TrackerID(g) : g \in FilesOf(c) \cap taken'} /\ chips'[c] = "reading"
      BY <1>2, <1>4, <3>1, <3>2
    <3> QED  BY <2>1, <3>3 DEF Stages, FilesOf
  <2>2. CASE d # c
    <3>1. chips'[d] = chips[d] /\ built'[d] = built[d] /\ Stages(d)
      BY <1>2, <1>4, <2>2 DEF CollectInv
    <3>2. FilesOf(d) \cap taken' = FilesOf(d) \cap taken
      BY <1>2, <2>2 DEF FilesOf
    <3>3. \A i \in TrackerIDs(d) : Values(d, i)' = Values(d, i)
      BY <2>2, TakenElsewhere DEF Values
    <3>4. \A g \in FilesOf(d) : FileDone(g) => FileDone(g)'
      BY <1>2 DEF FileDone
    <3>5. TrackerIDs(d)' = TrackerIDs(d) /\ FilesOf(d)' = FilesOf(d)
      BY DEF TrackerIDs, FilesOf
    <3>6. {i \in TrackerIDs(d) : Values(d, i)' # {}} = {i \in TrackerIDs(d) : Values(d, i) # {}}
      BY <3>3
    <3> QED  BY <3>1, <3>2, <3>4, <3>5, <3>6 DEF Stages
  <2> QED  BY <2>1, <2>2
<1>8. ASSUME NEW d \in Chip, NEW i \in DOMAIN built'[d] PROVE Made(d, i)'
  <2>0. i \in TrackerIDs(d)
    BY <1>5 DEF HwTypeOK, TrackerIDs, FilesOf
  <2>1. CASE d # c \/ i # id
    <3>1. Numbers(d, i)' = Numbers(d, i) /\ Labels(d, i)' = Labels(d, i)
      BY <2>0, <2>1, TakenElsewhere
    <3>2. i \in DOMAIN built[d] /\ built'[d][i] = built[d][i]
      BY <1>4, <1>8, <2>1
    <3>3. Made(d, i)
      BY <3>2 DEF CollectInv
    <3> QED  BY <3>1, <3>2, <3>3 DEF Made, Values, Limits
  <2>2. CASE d = c /\ i = id
    <3>1. Numbers(c, id)' = IF content[f] = "number" THEN Numbers(c, id) \cup {f} ELSE Numbers(c, id)
      BY TakenHere
    <3>2. f.attribute \notin Alarm => Labels(c, id)' =
            IF f.attribute = "label" THEN (Labels(c, id) \ {NoFile}) \cup {f} ELSE Labels(c, id)
      BY TakenHere
    <3>3. /\ Values(c, id) = {} => s.value = NoFile
          /\ Values(c, id) # {} => s.value \in Values(c, id)
          /\ s.attributes = Limits(c, id)
          /\ ~id[2] => s.label \in Labels(c, id)
      <4>1. CASE id \in DOMAIN built[c]
        BY <1>0, <4>1 DEF CollectInv, Made
      <4>2. CASE id \notin DOMAIN built[c]
        <5>1. \A g \in FilesOf(c) \cap taken : TrackerID(g) # id
          BY <1>0, <1>2, <4>2 DEF CollectInv, Stages
        <5>2. Numbers(c, id) = {} /\ Labels(c, id) = {NoFile}
          BY <5>1 DEF Numbers, Labels
        <5>3. s = newSensor
          BY <4>2
        <5> QED  BY <5>2, <5>3 DEF newSensor, Values, Limits
      <4> QED  BY <4>1, <4>2
    <3>4. ~id[2] => f.attribute \notin Alarm
      BY Trackers
    <3>5. Values(c, id)' = IF content[f] = "number" /\ f.attribute \in Alarm \cup {"input"}
                             THEN Values(c, id) \cup {f} ELSE Values(c, id)
      <4> HIDE DEF id, c
      <4> QED  BY <3>1 DEF Values
    <3>6. Limits(c, id)' = IF content[f] = "number" /\ f.attribute = "limit"
                             THEN Limits(c, id) \cup {f} ELSE Limits(c, id)
      <4> HIDE DEF id, c
      <4> QED  BY <3>1 DEF Limits
    <3> HIDE DEF c, id, r, s
    <3> QED  BY <1>3, <1>4, <2>2, <3>2, <3>3, <3>4, <3>5, <3>6 DEF Made
  <2> QED  BY <2>1, <2>2
<1> QED  BY <1>5, <1>6, <1>7, <1>8 DEF CollectInv

\* A collection starts with nothing.
LEMMA FreshCollects ==
  ASSUME Fresh(chips, content, taken, built), phase \in {"idle", "collecting", "failed"}
  PROVE  CollectInv
<1>1. HwTypeOK
  BY DEF Fresh, HwTypeOK
<1>2. \A c \in Chip : Stages(c)
  BY DEF Fresh, Stages
<1>3. \A c \in Chip : DOMAIN built[c] = {}
  BY DEF Fresh
<1> QED  BY <1>1, <1>2, <1>3 DEF CollectInv, Fresh

\* What was taken of a chip is the same if nothing of it was read or taken.
LEMMA SameTaken ==
  ASSUME NEW c \in Chip, taken' = taken, \A f \in taken : content'[f] = content[f]
  PROVE  /\ \A i : Numbers(c, i)' = Numbers(c, i) /\ Labels(c, i)' = Labels(c, i)
         /\ \A i : Values(c, i)' = Values(c, i) /\ Limits(c, i)' = Limits(c, i)
BY DEF Numbers, Labels, Values, Limits, FilesOf

\* All files are read: the sensors without a value go.
LEMMA DoneCollects ==
  ASSUME CollectInv, NEW c \in Chip, FilesDone(c) PROVE CollectInv'
<1> DEFINE kept == {i \in DOMAIN built[c] : built[c][i].value # NoFile}
<1>1. /\ chips[c] = "reading" /\ \A f \in FilesOf(c) : FileDone(f)
      /\ chips' = [chips EXCEPT ![c] = "offering"] /\ UNCHANGED <<phase, content, taken>>
      /\ built' = [built EXCEPT ![c] = [i \in kept |-> built[c][i]]]
  BY DEF FilesDone
<1>2. /\ DOMAIN built' = Chip
      /\ built'[c] = [i \in kept |-> built[c][i]]
      /\ \A d \in Chip : d # c => built'[d] = built[d]
  <2> HIDE DEF kept
  <2> QED  BY <1>1 DEF CollectInv, HwTypeOK
<1>3. HwTypeOK'
  BY <1>1, <1>2 DEF CollectInv, HwTypeOK
<1>4. \A f \in taken' : content'[f] \in {"number", "garbage"}
  BY <1>1 DEF CollectInv
<1>5. \A d \in Chip : \A i :
        /\ Numbers(d, i)' = Numbers(d, i) /\ Labels(d, i)' = Labels(d, i)
        /\ Values(d, i)' = Values(d, i) /\ Limits(d, i)' = Limits(d, i)
  BY <1>1, SameTaken
<1>6. kept = {i \in TrackerIDs(c) : Values(c, i) # {}}
  <2>1. ASSUME NEW i \in kept PROVE i \in TrackerIDs(c) /\ Values(c, i) # {}
    BY <2>1 DEF CollectInv, HwTypeOK, Made
  <2>2. ASSUME NEW i \in TrackerIDs(c), Values(c, i) # {} PROVE i \in kept
    <3>1. PICK f \in FilesOf(c) \cap taken : TrackerID(f) = i
      BY <2>2 DEF Values, Numbers
    <3>2. i \in DOMAIN built[c]
      BY <1>1, <3>1 DEF CollectInv, Stages
    <3>3. built[c][i].value \in File
      BY <2>2, <3>2 DEF CollectInv, Made, Values, Numbers, FilesOf
    <3> QED  BY <3>2, <3>3, FileAssumption
  <2> QED  BY <2>1, <2>2
<1>7. ASSUME NEW d \in Chip PROVE Stages(d)'
  <2>1. FilesOf(d)' = FilesOf(d) /\ TrackerIDs(d)' = TrackerIDs(d)
        /\ {i \in TrackerIDs(d) : Values(d, i)' # {}} = {i \in TrackerIDs(d) : Values(d, i) # {}}
    BY <1>5 DEF FilesOf, TrackerIDs
  <2>2. \A f \in FilesOf(d) : FileDone(f)' = FileDone(f)
    BY <1>1 DEF FileDone
  <2>3. CASE d = c
    <3>1. chips'[c] = "offering"
      BY <1>1 DEF CollectInv, HwTypeOK
    <3> HIDE DEF kept
    <3> QED  BY <1>1, <1>2, <1>6, <2>1, <2>2, <2>3, <3>1 DEF Stages
  <2>4. CASE d # c
    <3>1. chips'[d] = chips[d] /\ built'[d] = built[d] /\ taken' = taken
      BY <1>1, <1>2, <2>4 DEF CollectInv, HwTypeOK
    <3>2. Stages(d)
      BY DEF CollectInv
    <3> QED  BY <2>1, <2>2, <3>1, <3>2 DEF Stages
  <2> QED  BY <2>3, <2>4
<1>8. ASSUME NEW d \in Chip, NEW i \in DOMAIN built'[d] PROVE Made(d, i)'
  <2>1. i \in DOMAIN built[d] /\ built'[d][i] = built[d][i]
    BY <1>2, <1>8
  <2>2. Made(d, i)
    BY <2>1 DEF CollectInv
  <2> QED  BY <1>5, <2>1, <2>2 DEF Made
<1> QED  BY <1>3, <1>4, <1>7, <1>8 DEF CollectInv

\* The other steps of a collection take nothing and make nothing.
LEMMA OthersCollect ==
  ASSUME CollectInv, HwTypeOK', taken' = taken, built' = built,
         \A f \in taken : content'[f] = content[f],
         \A f \in File : FileDone(f) => FileDone(f)',
         \A c \in Chip : \/ chips'[c] = chips[c]
                         \/ chips[c] = "opening" /\ chips'[c] \in {"reading", "failed"}
                         \/ chips[c] = "offering" /\ chips'[c] = "collected"
  PROVE  CollectInv'
<1>1. \A c \in Chip : \A i : Numbers(c, i)' = Numbers(c, i) /\ Labels(c, i)' = Labels(c, i)
                         /\ Values(c, i)' = Values(c, i) /\ Limits(c, i)' = Limits(c, i)
  BY SameTaken
<1>2. ASSUME NEW c \in Chip PROVE Stages(c)'
  <2>1. FilesOf(c)' = FilesOf(c) /\ TrackerIDs(c)' = TrackerIDs(c) /\ FilesOf(c) \subseteq File
        /\ {i \in TrackerIDs(c) : Values(c, i)' # {}} = {i \in TrackerIDs(c) : Values(c, i) # {}}
    BY <1>1 DEF FilesOf, TrackerIDs
  <2>2. Stages(c)
    BY DEF CollectInv
  <2>3. CASE chips'[c] = chips[c]
    BY <2>1, <2>2, <2>3 DEF Stages
  <2>4. CASE chips[c] = "opening" /\ chips'[c] \in {"reading", "failed"}
    <3>1. DOMAIN built'[c] = {} /\ FilesOf(c) \cap taken' = {}
      BY <2>2, <2>4 DEF Stages
    <3> QED  BY <2>1, <2>4, <3>1 DEF Stages
  <2>5. CASE chips[c] = "offering" /\ chips'[c] = "collected"
    BY <2>1, <2>2, <2>5 DEF Stages
  <2> QED  BY <2>3, <2>4, <2>5
<1>3. \A c \in Chip : \A i \in DOMAIN built'[c] : Made(c, i)'
  BY <1>1 DEF CollectInv, Made
<1> QED  BY <1>2, <1>3 DEF CollectInv

\* Every step of a collection keeps the invariant.
LEMMA HwStep == CollectInv /\ HwNext => CollectInv'
<1> SUFFICES ASSUME CollectInv, HwNext PROVE CollectInv'
  OBVIOUS
<1> USE DEF CollectInv
<1>1. ASSUME NEW c \in Chip, newChip(c) PROVE CollectInv'
  <2>1. /\ HwTypeOK' /\ UNCHANGED <<taken, built, content>>
        /\ \A d \in Chip : \/ chips'[d] = chips[d]
                           \/ chips[d] = "opening" /\ chips'[d] \in {"reading", "failed"}
    BY <1>1 DEF newChip, HwTypeOK
  <2>2. \A f \in File : FileDone(f) => FileDone(f)'
    BY <2>1 DEF FileDone
  <2> QED  BY <2>1, <2>2, OthersCollect
<1>2. ASSUME NEW c \in Chip, TakeChip(c) PROVE CollectInv'
  <2>1. /\ HwTypeOK' /\ UNCHANGED <<taken, built, content>>
        /\ \A d \in Chip : \/ chips'[d] = chips[d]
                           \/ chips[d] = "offering" /\ chips'[d] = "collected"
    BY <1>2 DEF TakeChip, HwTypeOK
  <2>2. \A f \in File : FileDone(f) => FileDone(f)'
    BY <2>1 DEF FileDone
  <2> QED  BY <2>1, <2>2, OthersCollect
<1>3. ASSUME NEW f \in File, getFileContents(f) PROVE CollectInv'
  <2>1. /\ HwTypeOK' /\ UNCHANGED <<taken, built, chips>> /\ content[f] = "unread"
        /\ \A g \in File : g # f => content'[g] = content[g]
    BY <1>3 DEF getFileContents, HwTypeOK
  <2>2. \A g \in File : FileDone(g) => FileDone(g)'
    BY <2>1 DEF FileDone
  <2>3. \A g \in taken : content'[g] = content[g]
    BY <2>1 DEF HwTypeOK
  <2> QED  BY <2>1, <2>2, <2>3, OthersCollect
<1>4. ASSUME ChipsDone PROVE CollectInv'
  <2>1. HwTypeOK' /\ UNCHANGED <<taken, built, chips, content>>
    BY <1>4 DEF ChipsDone, HwTypeOK
  <2>2. \A f \in File : FileDone(f) => FileDone(f)'
    BY <2>1 DEF FileDone
  <2> QED  BY <2>1, <2>2, OthersCollect
<1> QED
  BY <1>1, <1>2, <1>3, <1>4, TakeCollects, DoneCollects DEF HwNext

\* What was collected is complete.
LEMMA Complete == CollectInv => CollectsAll
<1> SUFFICES ASSUME CollectInv, NEW c \in Chip, chips[c] = "collected"
             PROVE  LET values(i) == OfKind(c, i, Alarm \cup {"input"})
                    IN  /\ DOMAIN built[c] = {i \in TrackerIDs(c) : values(i) # {}}
                        /\ \A i \in DOMAIN built[c] :
                             /\ built[c][i].value \in values(i)
                             /\ built[c][i].attributes = OfKind(c, i, {"limit"})
                             /\ ~i[2] => built[c][i].label \in Labels(c, i)
  BY DEF CollectsAll
<1>1. Stages(c) /\ \A i \in DOMAIN built[c] : Made(c, i)
  BY DEF CollectInv
<1>2. \A i : Numbers(c, i) = Parsed(c, i)
  BY <1>1 DEF Stages, FileDone, Numbers, Parsed
<1>3. \A i : Values(c, i) = OfKind(c, i, Alarm \cup {"input"}) /\ Limits(c, i) = OfKind(c, i, {"limit"})
  BY <1>2 DEF Values, Limits, OfKind
<1>4. DOMAIN built[c] = {i \in TrackerIDs(c) : Values(c, i) # {}}
  BY <1>1 DEF Stages
<1> QED  BY <1>1, <1>3, <1>4 DEF Made

-----------------------------------------------------------------------------
(* Arithmetic.                                                             *)

\* What a quotient is.
LEMMA Quotient ==
  ASSUME NEW n \in Nat, NEW s \in Nat \ {0}
  PROVE  n \div s \in Nat /\ s * (n \div s) <= n /\ n <= s * (n \div s) + s - 1
OBVIOUS

\* A rate, multiplied with the time it is for, is the difference but for the rounding.
LEMMA RateRounds ==
  ASSUME NEW n \in Nat, NEW s \in Nat \ {0}, NEW u \in {1, 2}
  PROVE  /\ (n \div s) \div u \in Nat
         /\ (u * s) * ((n \div s) \div u) <= n
         /\ n <= (u * s) * ((n \div s) \div u) + u * s - 1
<1> DEFINE q == n \div s
           r == q \div u
<1>1. q \in Nat /\ s * q <= n /\ n <= s * q + s - 1
  BY Quotient
<1> HIDE DEF q
<1>2. r \in Nat /\ u * r <= q /\ q <= u * r + u - 1
  BY <1>1
<1> HIDE DEF r
<1>3. CASE u = 1
  <2>1. r = q /\ u * s = s
    BY <1>1, <1>2, <1>3
  <2> QED  BY <1>1, <1>3, <2>1 DEF q, r
<1>4. CASE u = 2
  <2>1. (u * s) * r = s * (2 * r)
    BY <1>2, <1>4
  <2>2. q = 2 * r \/ q = 2 * r + 1
    BY <1>1, <1>2, <1>4
  <2>3. s * (2 * r + 1) = s * (2 * r) + s * 1
    BY <1>2, Distributes
  <2>4. s * (2 * r) \in Int /\ u * s = s + s
    BY <1>2, <1>4
  <2>5. /\ r \in Nat
        /\ (u * s) * r <= n /\ n <= (u * s) * r + u * s - 1
    BY <1>1, <1>2, <2>1, <2>2, <2>3, <2>4
  <2> QED  BY <2>5 DEF q, r
<1> QED  BY <1>3, <1>4

-----------------------------------------------------------------------------
(* Rates.                                                                  *)

Value == 0 .. Width - 1

\* What was read before is a value.
LEMMA PrevIs == ASSUME PollTypeOK, NEW t PROVE Prev(t) \in Value
BY NumberAssumption DEF PollTypeOK, Prev, Value

\* Remainders are values.
LEMMA Wraps == ASSUME NEW n \in Int PROVE n % Width \in Value
BY NumberAssumption DEF Value

\* A value that is not smaller than another one is the sum of it and the difference.
LEMMA Differs ==
  ASSUME NEW a \in Value, NEW b \in Value
  PROVE  Diff(a, b) \in Value /\ (b <= a => Diff(a, b) = a - b)
<1>1. a - b \in Int /\ (b <= a => a - b \in Value)
  BY NumberAssumption DEF Value
<1>2. \A n \in Value : n % Width = n
  BY NumberAssumption DEF Value
<1> QED  BY <1>1, <1>2, Wraps DEF Diff

\* Half of a duration in half seconds.
LEMMA SecondsIs == ASSUME NEW d \in {0} \cup Interval PROVE Seconds(d) \in Nat
BY NumberAssumption DEF Seconds

\* The rate of a value that is not smaller than before, multiplied with the time, is the
\* difference but for the rounding; any rate is a value.
LEMMA RateIs ==
  ASSUME PollTypeOK, NEW d \in {0} \cup Interval, NEW t, NEW curr \in Value
  PROVE  LET r == Rate(t, curr, d)
             k == Unit * Seconds(d)
             more == curr - Prev(t)
         IN  /\ r \in Value
             /\ k \in Nat
             /\ Seconds(d) = 0 => r = 0
             /\ Seconds(d) # 0 => k \in Nat \ {0}
             /\ Seconds(d) # 0 /\ ~Unrated(t) /\ Prev(t) <= curr =>
                  k * r <= more /\ more <= k * r + k - 1
<1> DEFINE s == Seconds(d)
           u == Unit
           n == Diff(curr, Prev(t))
<1>1. s \in Nat /\ u \in {1, 2} /\ Prev(t) \in Value
  BY SecondsIs, PrevIs DEF Unit
<1>2. n \in Value /\ (Prev(t) <= curr => n = curr - Prev(t))
  BY <1>1, Differs
<1>3. n \in Nat /\ curr \in Int /\ Prev(t) \in Int
  BY <1>1, <1>2 DEF Value
<1>4. Rate(t, curr, d) = IF s = 0 \/ Unrated(t) THEN 0 ELSE (n \div s) \div u
  BY DEF Rate
<1>5. u * s \in Nat /\ (s # 0 => u * s \in Nat \ {0})
  BY <1>1
<1>6. 0 \in Value
  BY NumberAssumption DEF Value
<1>7. CASE s = 0 \/ Unrated(t)
  BY <1>4, <1>5, <1>6, <1>7
<1>8. CASE ~(s = 0 \/ Unrated(t))
  <2> DEFINE r == (n \div s) \div u
  <2>1. s \in Nat \ {0}
    BY <1>1, <1>8
  <2> HIDE DEF s, u, n
  <2>2. r \in Nat /\ (u * s) * r <= n /\ n <= (u * s) * r + u * s - 1
    BY <1>1, <1>3, <2>1, RateRounds
  <2>3. r = Rate(t, curr, d)
    BY <1>4, <1>8
  <2>4. r <= n
    <3>1. n \div s \in Nat /\ n \div s <= n
      <4>1. n \div s \in Nat /\ s * (n \div s) <= n
        BY <1>3, <2>1, Quotient
      <4>2. s * (n \div s) = (n \div s) + (s - 1) * (n \div s) /\ (s - 1) * (n \div s) \in Nat
        BY <2>1, <4>1
      <4> HIDE DEF r
      <4> QED  BY <1>3, <4>1, <4>2
    <3> DEFINE q == n \div s
    <3> HIDE DEF q
    <3>2. q \div u <= q
      BY <1>1, <3>1 DEF q
    <3> QED  BY <1>1, <1>3, <2>2, <3>1, <3>2 DEF q
  <2> HIDE DEF r
  <2>5. r \in Value
    BY <1>2, <2>2, <2>4, NumberAssumption DEF Value
  <2> QED  BY <1>2, <1>3, <1>5, <1>8, <2>2, <2>3, <2>5 DEF s, u
<1> QED  BY <1>7, <1>8

\* What was read: values, of devices or their total.
Reading(new) == DOMAIN new \subseteq Tracked /\ new \in [DOMAIN new -> Value]

\* An account.
Account == [base : Int, billed : Int, slack : Int]

\* What the account of a device is after a poll: a bill that is no more than what the
\* counter gained, and less by no more than what is lost.
LEMMA EntryIs ==
  ASSUME PollTypeOK, NEW d \in {0} \cup Interval, NEW t, NEW new \in Value
  PROVE  LET e == Entry(t, new, Rate(t, new, d), d)
             was == IF t \in DOMAIN account THEN account[t]
                                            ELSE [base |-> 0, billed |-> 0, slack |-> 0]
         IN  /\ e \in Account
             /\ \/ e.base = new /\ e.billed = 0 /\ e.slack = 0
                \/ \E lost, bill \in Int :
                     /\ e.base = was.base
                     /\ e.billed = was.billed + bill
                     /\ e.slack = was.slack + lost
                     /\ new - Prev(t) - lost <= bill /\ bill <= new - Prev(t)
<1> DEFINE was == IF t \in DOMAIN account THEN account[t]
                                          ELSE [base |-> 0, billed |-> 0, slack |-> 0]
           time == Unit * Seconds(d)
           lost == IF Seconds(d) = 0 THEN new - Prev(t) ELSE time - 1
           r == Rate(t, new, d)
           bill == time * r
           e == Entry(t, new, r, d)
<1>1. was \in Account
  BY DEF PollTypeOK, Account
<1>2. new \in Int /\ Prev(t) \in Int /\ time \in Nat /\ r \in Int
  BY PrevIs, RateIs DEF Value
<1>3. lost \in Int /\ bill \in Int
  BY <1>2
<1>4. e = IF Unrated(t) \/ new < Prev(t)
          THEN [base |-> new, billed |-> 0, slack |-> 0]
          ELSE [base |-> was.base, billed |-> was.billed + bill, slack |-> was.slack + lost]
  BY DEF Entry
<1>5. ASSUME ~(Unrated(t) \/ new < Prev(t))
      PROVE  new - Prev(t) - lost <= bill /\ bill <= new - Prev(t)
  <2>1. Prev(t) <= new /\ ~Unrated(t)
    BY <1>2, <1>5
  <2>2. CASE Seconds(d) = 0
    <3>1. r = 0 /\ time = 0
      BY <2>2, RateIs DEF Unit
    <3>2. bill = 0 /\ lost = new - Prev(t)
      BY <2>2, <3>1
    <3> HIDE DEF bill, lost
    <3> QED  BY <1>2, <2>1, <3>2
  <2>3. CASE Seconds(d) # 0
    <3>1. time * r <= new - Prev(t) /\ new - Prev(t) <= time * r + time - 1
      BY <2>1, <2>3, RateIs
    <3>2. bill = time * r /\ lost = time - 1
      BY <2>3
    <3> HIDE DEF bill, lost, time, r
    <3> QED  BY <1>2, <1>3, <3>1, <3>2
  <2> QED  BY <2>2, <2>3
<1> HIDE DEF was, lost, bill, e
<1>6. was.base \in Int /\ was.billed \in Int /\ was.slack \in Int
  BY <1>1 DEF Account
<1>7. CASE Unrated(t) \/ new < Prev(t)
  <2>1. e = [base |-> new, billed |-> 0, slack |-> 0]
    BY <1>4, <1>7
  <2> QED  BY <1>2, <2>1 DEF Account, e
<1>8. CASE ~(Unrated(t) \/ new < Prev(t))
  <2>1. e = [base |-> was.base, billed |-> was.billed + bill, slack |-> was.slack + lost]
    BY <1>4, <1>8
  <2>2. e \in Account
    BY <1>3, <1>6, <2>1 DEF Account
  <2>3. /\ e.base = was.base /\ e.billed = was.billed + bill /\ e.slack = was.slack + lost
        /\ new - Prev(t) - lost <= bill /\ bill <= new - Prev(t)
    BY <1>5, <1>8, <2>1
  <2> QED  BY <1>3, <2>2, <2>3 DEF e, was
<1> QED  BY <1>7, <1>8

\* An update keeps what is typed.
LEMMA UpdateTypes ==
  ASSUME PollTypeOK, worker \in Rates, NEW d \in {0} \cup Interval, NEW new, Reading(new),
         NEW read \in SUBSET Item, Update(new, read, d)
  PROVE  /\ DOMAIN last' \subseteq Tracked /\ last' \in [DOMAIN last' -> Value]
         /\ sensors' \in [DOMAIN last' -> Value]
         /\ seen' \in SUBSET Item
         /\ account' \in [DOMAIN last' -> Account]
<1> DEFINE rate == [t \in DOMAIN new |-> Rate(t, new[t], d)]
           entries == [t \in DOMAIN new |-> Entry(t, new[t], rate[t], d)]
           D == DOMAIN last \cup DOMAIN new
<1>1. /\ sensors' = Over(rate, sensors) /\ last' = Over(new, last) /\ seen' = read
      /\ account' = Over(entries, account)
  BY DEF Update, KeepLast, Record
<1>2. rate \in [DOMAIN new -> Value]
  BY RateIs DEF Reading
<1>3. entries \in [DOMAIN new -> Account]
  BY EntryIs DEF Reading
<1>4. /\ DOMAIN last \subseteq Tracked /\ last \in [DOMAIN last -> Value]
      /\ sensors \in [DOMAIN last -> Value] /\ account \in [DOMAIN last -> Account]
  BY DEF PollTypeOK, Value, Account
<1> HIDE DEF rate, entries
<1>5. DOMAIN last' = D /\ D \subseteq Tracked /\ last' \in [D -> Value]
  BY <1>1, <1>4 DEF Over, Reading
<1>6. sensors' \in [D -> Value]
  BY <1>1, <1>2, <1>4 DEF Over
<1>7. account' \in [D -> Account]
  BY <1>1, <1>3, <1>4 DEF Over
<1> QED  BY <1>1, <1>5, <1>6, <1>7

\* An update bills what the counters gained, but for what the time does not show.
LEMMA UpdateBills ==
  ASSUME PollTypeOK, BilledOnce, NEW d \in {0} \cup Interval, NEW new, Reading(new),
         NEW read, Update(new, read, d)
  PROVE  BilledOnce'
<1> DEFINE rate == [t \in DOMAIN new |-> Rate(t, new[t], d)]
           entries == [t \in DOMAIN new |-> Entry(t, new[t], rate[t], d)]
           was(t) == IF t \in DOMAIN account THEN account[t]
                     ELSE [base |-> 0, billed |-> 0, slack |-> 0]
<1>1. last' = Over(new, last) /\ account' = Over(entries, account)
  BY DEF Update, KeepLast, Record
<1>2. account \in [DOMAIN last -> Account]
  BY DEF PollTypeOK, Account
<1>3. SUFFICES ASSUME NEW t \in DOMAIN account'
               PROVE  LET gained == last'[t] - account'[t].base
                      IN  /\ gained - account'[t].slack <= account'[t].billed
                          /\ account'[t].billed <= gained
  BY DEF BilledOnce
<1>4. CASE t \notin DOMAIN new
  <2>1. t \in DOMAIN account /\ t \in DOMAIN last /\ account'[t] = account[t] /\ last'[t] = last[t]
    BY <1>1, <1>2, <1>3, <1>4 DEF Over
  <2> QED  BY <2>1 DEF BilledOnce
<1>5. CASE t \in DOMAIN new
  <2>1. last'[t] = new[t]
    BY <1>1, <1>5 DEF Over
  <2>2. account'[t] = Entry(t, new[t], Rate(t, new[t], d), d)
    BY <1>1, <1>5 DEF Over
  <2>3. new[t] \in Value /\ new[t] \in Int /\ Prev(t) \in Int
    BY <1>5, PrevIs DEF Reading, Value
  <2>4. was(t) \in Account
    BY <1>2 DEF Account
  <2>5. Prev(t) - was(t).base - was(t).slack <= was(t).billed /\ was(t).billed <= Prev(t) - was(t).base
    BY <1>2 DEF BilledOnce, Prev
  <2> DEFINE e == account'[t]
             w == was(t)
  <2>6. \/ e.base = new[t] /\ e.billed = 0 /\ e.slack = 0
        \/ \E lost, bill \in Int :
             /\ e.base = w.base /\ e.billed = w.billed + bill /\ e.slack = w.slack + lost
             /\ new[t] - Prev(t) - lost <= bill /\ bill <= new[t] - Prev(t)
    BY <2>2, <2>3, EntryIs
  <2>7. w.base \in Int /\ w.billed \in Int /\ w.slack \in Int
    BY <2>4 DEF Account
  <2>8. Prev(t) - w.base - w.slack <= w.billed /\ w.billed <= Prev(t) - w.base
    BY <2>5
  <2> HIDE DEF w
  <2>9. new[t] - e.base - e.slack <= e.billed /\ e.billed <= new[t] - e.base
    <3> HIDE DEF e
    <3> QED  BY <2>3, <2>6, <2>7, <2>8
  <2> QED  BY <2>1, <2>9
<1> QED  BY <1>4, <1>5

-----------------------------------------------------------------------------
(* Totals.                                                                 *)

\* What the total of the disks was made of.
Totals ==
  worker = "disk" =>
    /\ seen \subseteq DOMAIN last
    /\ last # << >> => Total \in DOMAIN last /\ last[Total] = SumOf(last, seen)

\* What a poll reads of the disks.
LEMMA DiskReading ==
  ASSUME counter' \in [Item -> Value], NEW read \in SUBSET Item
  PROVE  /\ Reading(DiskStats(read)) /\ DOMAIN DiskStats(read) = read \cup {Total}
         /\ DiskStats(read)[Total] = SumOf(counter', read)
         /\ \A i \in read : DiskStats(read)[i] = counter'[i]
<1>1. Sum(counter', IF worker = "disk" THEN read \ virtual ELSE read) \in Int
  <2>1. \A S \in SUBSET Item : Sum(counter', S) \in Int
    <3> TAKE S \in SUBSET Item
    <3>1. IsFiniteSet(S) /\ \A x \in S : counter'[x] \in Int
      BY ItemAssumption, FS_Subset DEF Value
    <3>2. Summed(counter', S)
      BY <3>1, SumRule
    <3> QED  BY <3>2 DEF Summed
  <2> QED  BY <2>1
<1>2. SumOf(counter', read) \in Value
  BY <1>1, Wraps DEF SumOf
<1>3. Total \notin read
  BY ItemAssumption
<1> QED  BY <1>2, <1>3 DEF DiskStats, Reading, Tracked

\* An update of the disks makes the total of the devices that were read.
LEMMA UpdateTotals ==
  ASSUME PollTypeOK, worker = "disk", worker' = worker, virtual' = virtual,
         counter' \in [Item -> Value], NEW read \in SUBSET Item, NEW d,
         Update(DiskStats(read), read, d)
  PROVE  /\ Totals'
         /\ \A i \in read : last'[i] = counter'[i]
<1> DEFINE parts == read \ virtual
<1>1. last' = Over(DiskStats(read), last) /\ seen' = read
  BY DEF Update, KeepLast
<1>2. /\ DOMAIN last' = DOMAIN last \cup read \cup {Total}
      /\ last'[Total] = SumOf(counter', read)
      /\ \A i \in read : last'[i] = counter'[i]
  BY <1>1, DiskReading, ItemAssumption DEF Over
<1>3. Sum(counter', parts) = Sum(last', parts)
  <2>1. IsFiniteSet(parts)
    BY ItemAssumption, FS_Subset
  <2>2. \A i \in parts : counter'[i] \in Int /\ last'[i] = counter'[i]
    BY <1>2 DEF Value
  <2> HIDE DEF parts
  <2> QED  BY <2>1, <2>2, SumSame
<1>4. SumOf(counter', read) = SumOf(last, seen)'
  BY <1>1, <1>3 DEF SumOf
<1> QED  BY <1>1, <1>2, <1>4 DEF Totals

\* The rate of the total is that of the devices, but for the rounding.
LEMMA UpdateAgrees ==
  ASSUME PollTypeOK, Totals, worker = "disk", worker' = worker, virtual' = virtual,
         counter' \in [Item -> Value],
         NEW read \in SUBSET Item, NEW d \in {0} \cup Interval,
         Update(DiskStats(read), read, d),
         seen \subseteq read, DOMAIN last \cap read \subseteq seen,
         \A t \in seen : last[t] <= last'[t],
         Sum(last', read \ virtual) < Width
  PROVE  LET parts == read \ virtual
             sum == Sum(sensors', parts)
         IN  sum <= sensors'[Total] /\ sensors'[Total] <= sum + Cardinality(parts)
<1> DEFINE parts == read \ virtual
           old == seen \ virtual
           new == DiskStats(read)
           rate == [t \in DOMAIN new |-> Rate(t, new[t], d)]
           k == Unit * Seconds(d)
           q == sensors'[Total]
           was == [i \in Item |-> Prev(i)]
<1>1. sensors' = Over(rate, sensors)
  BY DEF Update
<1>2. /\ Reading(new) /\ DOMAIN new = read \cup {Total}
      /\ new[Total] = SumOf(counter', read)
      /\ \A i \in read : new[i] = counter'[i]
  BY DiskReading
<1>3. /\ \A i \in read : last'[i] = counter'[i]
      /\ Total \in DOMAIN last' /\ last'[Total] = SumOf(last', read)
  <2>1. Totals' /\ \A i \in read : last'[i] = counter'[i]
    BY UpdateTotals
  <2>2. last' # << >> /\ seen' = read
    BY <1>2 DEF Update, KeepLast, Over
  <2> QED  BY <2>1, <2>2 DEF Totals, SumOf
<1>4. /\ IsFiniteSet(parts) /\ Cardinality(parts) \in Nat
      /\ IsFiniteSet(old) /\ old \in SUBSET parts
  BY ItemAssumption, FS_Subset, FS_CardinalityType DEF PollTypeOK
<1>5. /\ \A i \in parts : was[i] = Prev(i) /\ was[i] \in Nat
      /\ \A i \in old : i \in DOMAIN last /\ was[i] = last[i] /\ last[i] \in Int
      /\ \A i \in parts \ old : was[i] = 0
  <2>1. \A i \in parts : i \in Item /\ Prev(i) \in Value
    BY PrevIs
  <2>2. \A i \in old : i \in Item /\ i \in DOMAIN last /\ last[i] \in Value
    <3>1. seen \subseteq DOMAIN last
      BY DEF Totals
    <3> QED  BY <3>1 DEF PollTypeOK, Value
  <2>3. \A i \in parts \ old : i \notin DOMAIN last
    OBVIOUS
  <2> HIDE DEF parts, old
  <2> QED  BY <1>4, <2>1, <2>2, <2>3 DEF Prev, Value
<1>6. /\ \A i \in parts : sensors'[i] = Rate(i, last'[i], d) /\ last'[i] \in Value
      /\ q = Rate(Total, last'[Total], d)
  <2>1. rate = [t \in read \cup {Total} |-> Rate(t, new[t], d)]
    BY <1>2
  <2>2. last' = Over(new, last)
    BY DEF Update, KeepLast
  <2> HIDE DEF new, rate
  <2>3. \A t \in read \cup {Total} : sensors'[t] = Rate(t, new[t], d) /\ last'[t] = new[t]
    BY <1>1, <1>2, <2>1, <2>2 DEF Over
  <2>4. new \in [read \cup {Total} -> Value]
    BY <1>2 DEF Reading
  <2> QED  BY <2>3, <2>4
<1>7. ~ \E t : Unrated(t)
  BY DEF Unrated
<1>8. \A i \in parts : was[i] <= last'[i]
  <2>1. \A i \in parts \ old : was[i] = 0 /\ last'[i] \in Nat
    BY <1>5, <1>6 DEF Value
  <2>2. \A i \in old : was[i] <= last'[i]
    BY <1>5
  <2> HIDE DEF parts, old
  <2> QED  BY <2>1, <2>2
<1>9. Prev(Total) = Sum(last, old) % Width
  <2>1. CASE last = << >>
    <3>1. DOMAIN last = {}
      BY <2>1
    <3>2. old = {} /\ Total \notin DOMAIN last
      BY <1>5, <3>1
    <3>3. Summed(last, {})
      BY SumRule, FS_EmptySet
    <3> HIDE DEF old
    <3>4. Sum(last, old) = 0
      BY <3>2, <3>3 DEF Summed
    <3>5. 0 % Width = 0
      BY NumberAssumption
    <3> QED  BY <3>2, <3>4, <3>5 DEF Prev
  <2>2. CASE last # << >>
    BY <2>2 DEF Totals, Prev, SumOf
  <2> QED  BY <2>1, <2>2
<1> HIDE DEF parts, old, new, rate, q, was
<1>10. Sum(last, old) = Sum(was, parts)
  <2>1. Sum(was, parts) = Sum(was, old)
    <3>1. (\A i \in parts : was[i] \in Int) /\ \A i \in parts \ old : was[i] = 0
      BY <1>5
    <3> QED  BY <1>4, <3>1, SumOfRest
  <2>2. Sum(was, old) = Sum(last, old)
    <3>1. \A i \in old : was[i] \in Int /\ last[i] = was[i]
      BY <1>5
    <3> QED  BY <1>4, <3>1, SumSame
  <2> QED  BY <2>1, <2>2
<1>11. Sum(was, parts) \in Nat /\ Sum(last', parts) \in Nat /\ Sum(was, parts) <= Sum(last', parts)
  <2>1. \A i \in parts : was[i] \in Nat /\ last'[i] \in Nat
    BY <1>5, <1>6 DEF Value
  <2>2. Sum(was, parts) \in Nat
    BY <1>4, <2>1, SumNat
  <2>3. Sum(last', parts) \in Nat
    BY <1>4, <2>1, SumNat
  <2>4. \A i \in parts : was[i] \in Int /\ last'[i] \in Int /\ was[i] <= last'[i]
    BY <1>8, <2>1
  <2> QED  BY <1>4, <2>2, <2>3, <2>4, SumWithin
<1>12. /\ Prev(Total) = Sum(was, parts) /\ last'[Total] = Sum(last', parts)
       /\ last'[Total] \in Value
  <2>1. \A n \in Nat : n < Width => n % Width = n /\ n \in Value
    BY NumberAssumption DEF Value
  <2>2. Sum(last', parts) < Width
    BY DEF parts
  <2>3. last'[Total] = Sum(last', parts) % Width
    BY <1>3 DEF SumOf, parts
  <2>4. Sum(was, parts) < Width
    BY <1>11, <2>2, NumberAssumption
  <2> QED  BY <1>9, <1>10, <1>11, <2>1, <2>2, <2>3, <2>4
<1>13. \A i \in parts : sensors'[i] \in Nat
  <2> TAKE i \in parts
  <2>1. last'[i] \in Value /\ sensors'[i] = Rate(i, last'[i], d)
    BY <1>6
  <2>2. Rate(i, last'[i], d) \in Value
    BY <2>1, RateIs
  <2> QED  BY <2>1, <2>2, NumberAssumption DEF Value
<1>14. Sum(sensors', parts) \in Nat
  BY <1>4, <1>13, SumNat
<1>15. CASE Seconds(d) = 0
  <2>1. q = 0 /\ \A i \in parts : sensors'[i] = 0
    BY <1>6, <1>12, <1>15, RateIs
  <2>2. \A i \in parts : /\ was[i] \in Int /\ was[i] \in Int /\ sensors'[i] \in Int
                         /\ 1 * sensors'[i] <= was[i] - was[i]
                         /\ was[i] - was[i] <= 1 * sensors'[i] + 1
    BY <1>5, <2>1
  <2>3. Rounds(1, was, was, sensors', parts)
    BY <1>4, <2>2, SumRounds
  <2>4. Sum(sensors', parts) <= 0
    BY <1>11, <1>14, <2>3 DEF Rounds
  <2> QED  BY <1>4, <1>14, <2>1, <2>4 DEF q, parts
<1>16. CASE Seconds(d) # 0
  <2>1. k \in Nat \ {0} /\ q \in Nat
    BY <1>6, <1>12, <1>16, RateIs, NumberAssumption DEF Value
  <2>2. \A i \in parts : k * sensors'[i] <= last'[i] - was[i]
                         /\ last'[i] - was[i] <= k * sensors'[i] + k - 1
    BY <1>5, <1>6, <1>7, <1>8, <1>16, RateIs
  <2>3. k * q <= last'[Total] - Prev(Total) /\ last'[Total] - Prev(Total) <= k * q + k - 1
    BY <1>6, <1>7, <1>11, <1>12, <1>16, RateIs
  <2> HIDE DEF k
  <2>4. \A i \in parts : /\ was[i] \in Int /\ last'[i] \in Int /\ sensors'[i] \in Int
                         /\ k * sensors'[i] <= last'[i] - was[i]
                         /\ last'[i] - was[i] <= k * sensors'[i] + k
    <3> TAKE i \in parts
    <3> DEFINE m == k * sensors'[i]
    <3>1. m \in Int /\ was[i] \in Int /\ last'[i] \in Int /\ sensors'[i] \in Int /\ k \in Int
      BY <1>5, <1>6, <1>13, <2>1 DEF Value
    <3>2. m <= last'[i] - was[i] /\ last'[i] - was[i] <= m + k - 1
      BY <2>2
    <3>3. m <= last'[i] - was[i] /\ last'[i] - was[i] <= m + k
      <4> HIDE DEF m
      <4> QED  BY <3>1, <3>2
    <3> QED  BY <3>1, <3>3
  <2>5. Rounds(k, was, last', sensors', parts)
    BY <1>4, <2>1, <2>4, SumRounds
  <2> DEFINE sum == Sum(sensors', parts)
             more == Sum(last', parts) - Sum(was, parts)
             n == Cardinality(parts)
  <2>6. /\ k * sum <= more /\ more <= k * sum + k * n
        /\ k * q <= more /\ more <= k * q + k - 1
        /\ sum \in Nat /\ more \in Int /\ n \in Nat
    BY <1>4, <1>11, <1>12, <1>14, <2>3, <2>5 DEF Rounds
  <2> HIDE DEF sum, more, n
  <2>7. sum <= q
    <3>1. ASSUME sum >= q + 1 PROVE FALSE
      <4>1. k * sum = k * (q + 1) + k * (sum - (q + 1)) /\ k * (q + 1) = k * q + k * 1
        BY <2>1, <2>6, <3>1, Distributes
      <4>2. k * (sum - (q + 1)) \in Nat /\ k * q \in Int
        BY <2>1, <2>6, <3>1
      <4> QED  BY <2>1, <2>6, <4>1, <4>2
    <3> QED  BY <2>1, <2>6, <3>1
  <2>8. q <= sum + n
    <3>1. ASSUME q >= sum + n + 1 PROVE FALSE
      <4>1. k * q = k * (sum + n) + k * (q - (sum + n)) /\ k * (sum + n) = k * sum + k * n
        BY <2>1, <2>6, <3>1, Distributes
      <4>2. k * (q - (sum + n)) >= k /\ k * (q - (sum + n)) \in Int
        BY <2>1, <2>6, <3>1
      <4>3. k * sum \in Int /\ k * n \in Int
        BY <2>1, <2>6
      <4> QED  BY <2>1, <2>6, <4>1, <4>2, <4>3
    <3> QED  BY <2>1, <2>6, <3>1
  <2> QED  BY <2>7, <2>8 DEF sum, n, q, parts
<1> QED  BY <1>15, <1>16

-----------------------------------------------------------------------------
(* The workers.                                                            *)

\* Only the hardware monitor's worker collects.
Asleep == worker # "hwmon" => phase = "idle" /\ \A c \in Chip : chips[c] = "opening"

PollInv == PollTypeOK /\ CollectInv /\ Asleep /\ Totals /\ BilledOnce

\* A poll counts.
LEMMA Counts ==
  ASSUME PollTypeOK, NEW d, PollSensors(d), worker' = worker
  PROVE  polls' \in 0..MaxPolls[worker']
BY NumberAssumption DEF PollTypeOK, PollSensors

\* Counters stay values.
LEMMA CountersStay == ASSUME PollTypeOK, CountersChange PROVE counter' \in [Item -> Value]
<1>1. PICK gain \in [Item -> Traffic], reset \in SUBSET Item :
        counter' = [i \in Item |-> IF i \in reset THEN 0 ELSE (counter[i] + gain[i]) % Width]
  BY DEF CountersChange
<1>2. \A i \in Item : counter[i] + gain[i] \in Int
  BY NumberAssumption DEF PollTypeOK
<1>3. \A i \in Item : (counter[i] + gain[i]) % Width \in Value
  BY <1>2, Wraps
<1>4. 0 \in Value
  BY NumberAssumption DEF Value
<1> QED  BY <1>1, <1>3, <1>4

\* A worker that does not collect leaves the collection alone.
LEMMA HwRests ==
  ASSUME CollectInv, Asleep, worker' = worker, UNCHANGED hwVars
  PROVE  CollectInv' /\ Asleep'
<1>1. UNCHANGED <<phase, chips, content, taken, built>>
  BY DEF hwVars
<1>2. HwTypeOK'
  BY <1>1 DEF CollectInv, HwTypeOK
<1>3. \A f \in File : FileDone(f) => FileDone(f)'
  BY <1>1 DEF FileDone
<1>4. CollectInv'
  BY <1>1, <1>2, <1>3, OthersCollect
<1> QED  BY <1>1, <1>4 DEF Asleep

\* A worker with no rates leaves these alone.
LEMMA RatesRest ==
  ASSUME PollTypeOK, Totals, BilledOnce, UNCHANGED <<worker, virtual, rateVars>>
  PROVE  Totals' /\ BilledOnce'
BY DEF Totals, BilledOnce, rateVars, SumOf

\* The types of what a poll leaves alone.
LEMMA TypesRest ==
  ASSUME PollTypeOK, UNCHANGED <<worker, virtual, rateVars>>, HwTypeOK',
         polls' \in 0..MaxPolls[worker'], worker \in Rates => sensors' = sensors
  PROVE  PollTypeOK'
BY DEF PollTypeOK, rateVars

\* An update by one of the workers with rates.
LEMMA UpdateStep ==
  ASSUME PollInv, worker \in Rates, NEW d \in {0} \cup Interval, PollSensors(d),
         CountersChange, NEW new, Reading(new), NEW read \in SUBSET Item,
         worker = "disk" => new = DiskStats(read), Update(new, read, d),
         UNCHANGED <<worker, virtual, hwVars>>
  PROVE  PollInv'
<1>1. CollectInv' /\ Asleep'
  BY HwRests DEF PollInv
<1>2. counter' \in [Item -> Value]
  BY CountersStay DEF PollInv
<1>3. PollTypeOK'
  <2>1. /\ DOMAIN last' \subseteq Tracked /\ last' \in [DOMAIN last' -> Value]
        /\ sensors' \in [DOMAIN last' -> Value]
        /\ seen' \in SUBSET Item
        /\ account' \in [DOMAIN last' -> Account]
    BY UpdateTypes DEF PollInv
  <2>2. polls' \in 0..MaxPolls[worker'] /\ worker' \in Worker /\ virtual' \in SUBSET Item
    BY Counts DEF PollInv, PollTypeOK
  <2>3. HwTypeOK'
    BY <1>1 DEF CollectInv
  <2> QED  BY <1>2, <2>1, <2>2, <2>3 DEF PollTypeOK, Value, Account
<1>4. BilledOnce'
  BY UpdateBills DEF PollInv
<1>5. Totals'
  <2>1. CASE worker = "disk"
    BY <1>2, <2>1, UpdateTotals DEF PollInv
  <2>2. CASE worker # "disk"
    BY <2>2 DEF Totals
  <2> QED  BY <2>1, <2>2
<1> QED  BY <1>1, <1>3, <1>4, <1>5 DEF PollInv

\* A poll that fails.
LEMMA FailStep ==
  ASSUME PollInv, NEW d, PollSensors(d), Fails, counter' \in [Item -> Value],
         UNCHANGED <<worker, virtual, hwVars>>
  PROVE  PollInv'
<1>1. CollectInv' /\ Asleep'
  BY HwRests DEF PollInv
<1>2. polls' \in 0..MaxPolls[worker']
  BY Counts DEF PollInv
<1>3. PollTypeOK'
  BY <1>1, <1>2 DEF PollInv, PollTypeOK, Fails, CollectInv, Value
<1>4. Totals' /\ BilledOnce'
  BY DEF PollInv, Totals, BilledOnce, SumOf, Fails
<1> QED  BY <1>1, <1>3, <1>4 DEF PollInv

\* A poll of a worker that keeps nothing.
LEMMA PollStep ==
  ASSUME PollInv, NEW w \in Worker \ Rates, NEW d, Poll(w, d)
  PROVE  PollInv'
<1>1. worker = w /\ PollSensors(d) /\ UNCHANGED <<worker, virtual, rateVars, hwVars>>
  BY DEF Poll
<1>2. CollectInv' /\ Asleep'
  BY <1>1, HwRests DEF PollInv
<1>3. PollTypeOK'
  BY <1>1, <1>2, Counts, TypesRest DEF PollInv, CollectInv
<1>4. Totals' /\ BilledOnce'
  BY <1>1, RatesRest DEF PollInv
<1> QED  BY <1>2, <1>3, <1>4 DEF PollInv

\* The steps of a collection.
LEMMA HwSteps ==
  ASSUME PollInv, HwNext, UNCHANGED <<worker, virtual, polls, sensors, rateVars>>
  PROVE  PollInv'
<1>1. CollectInv'
  BY HwStep DEF PollInv
<1>2. Asleep'
  <2>1. SUFFICES ASSUME worker # "hwmon" PROVE FALSE
    BY DEF Asleep
  <2>2. phase = "idle" /\ \A c \in Chip : chips[c] = "opening"
    BY <2>1 DEF PollInv, Asleep
  <2> QED  BY <2>2, FileAssumption DEF HwNext, newChip, FilesDone, TakeChip, getFileContents, TakeFile, ChipsDone
<1>3. PollTypeOK'
  <2>1. polls' \in 0..MaxPolls[worker']
    BY DEF PollInv, PollTypeOK
  <2> QED  BY <1>1, <2>1, TypesRest DEF PollInv, CollectInv
<1>4. Totals' /\ BilledOnce'
  BY RatesRest DEF PollInv
<1> QED  BY <1>1, <1>2, <1>3, <1>4 DEF PollInv

\* A collection begins with nothing, and its end changes no more than the sensors.
LEMMA HwEnds ==
  ASSUME PollInv, NEW d, BeginHWMon(d) \/ ReportHWMon
  PROVE  PollInv'
<1>1. worker = "hwmon" /\ UNCHANGED <<worker, virtual, rateVars>>
  BY DEF PollInv, Asleep, BeginHWMon, ReportHWMon
<1>2. CollectInv'
  <2>1. CASE BeginHWMon(d)
    <3>1. (Fresh(chips, content, taken, built) /\ phase \in {"idle", "collecting", "failed"})'
      BY <2>1 DEF BeginHWMon, GetAllChips
    <3> QED  BY <3>1, FreshCollects, PTL
  <2>2. CASE ReportHWMon
    <3>1. HwTypeOK' /\ UNCHANGED <<taken, built, chips, content>>
      BY <2>2 DEF ReportHWMon, HwTypeOK, PollInv, CollectInv
    <3>2. \A f \in File : FileDone(f) => FileDone(f)'
      BY <3>1 DEF FileDone
    <3> QED  BY <3>1, <3>2, OthersCollect DEF PollInv
  <2> QED  BY <2>1, <2>2
<1>3. PollTypeOK'
  <2>1. polls' \in 0..MaxPolls[worker']
    BY Counts DEF BeginHWMon, ReportHWMon, PollInv, PollTypeOK
  <2> QED  BY <1>1, <1>2, <2>1, TypesRest DEF PollInv, CollectInv, Rates
<1>4. Totals' /\ BilledOnce'
  BY <1>1, RatesRest DEF PollInv
<1>5. Asleep'
  BY <1>1 DEF Asleep
<1> QED  BY <1>2, <1>3, <1>4, <1>5 DEF PollInv

\* Every step of a worker preserves the invariant.
LEMMA PollSteps == PollInv /\ [PollNext]_pollVars => PollInv'
<1> SUFFICES ASSUME PollInv, [PollNext]_pollVars PROVE PollInv'
  OBVIOUS
<1>1. ASSUME NEW d \in {0} \cup Interval, PollNetwork(d) PROVE PollInv'
  <2>1. CASE Fails
    BY <1>1, <2>1, FailStep, CountersStay DEF PollNetwork, PollInv
  <2>2. ASSUME NEW read \in SUBSET Item, Update([t \in {Total} |-> SumOf(counter', read)], read, d)
        PROVE  PollInv'
    <3> DEFINE new == [t \in {Total} |-> SumOf(counter', read)]
    <3>1. Reading(new)
      <4>1. counter' \in [Item -> Value]
        BY <1>1, CountersStay DEF PollNetwork, PollInv
      <4>2. DiskStats(read)[Total] = SumOf(counter', read) /\ Reading(DiskStats(read))
            /\ DOMAIN DiskStats(read) = read \cup {Total}
        BY <4>1, DiskReading
      <4>3. SumOf(counter', read) \in Value
        BY <4>2 DEF Reading
      <4> QED  BY <4>3 DEF Reading, Tracked
    <3> HIDE DEF new
    <3> QED  BY <1>1, <2>2, <3>1, UpdateStep DEF PollNetwork, Rates, new
  <2> QED  BY <1>1, <2>1, <2>2 DEF PollNetwork
<1>2. ASSUME NEW d \in {0} \cup Interval, PollDisks(d) PROVE PollInv'
  <2>1. CASE Fails
    BY <1>2, <2>1, FailStep, CountersStay DEF PollDisks, PollInv
  <2>2. ASSUME NEW read \in SUBSET Item, Update(DiskStats(read), read, d)
        PROVE  PollInv'
    <3>1. Reading(DiskStats(read))
      BY <1>2, DiskReading, CountersStay DEF PollDisks, PollInv
    <3> QED  BY <1>2, <2>2, <3>1, UpdateStep DEF PollDisks, Rates
  <2> QED  BY <1>2, <2>1, <2>2 DEF PollDisks, getDevice, getDeviceNames
<1>3. ASSUME NEW d, \/ PollCPU(d) \/ PollMemory(d) \/ PollMounts(d)
                    \/ PollLoad(d) \/ PollProblems(d) \/ PollUptime(d)
      PROVE  PollInv'
  <2>1. PICK w \in {"cpu", "memory", "mounts", "load", "problems", "uptime"} : Poll(w, d)
    BY <1>3 DEF PollCPU, PollMemory, PollMounts, PollLoad, PollProblems, PollUptime
  <2>2. w \in Worker \ Rates
    BY <2>1 DEF Poll, PollInv, PollTypeOK, Rates
  <2> QED  BY <2>1, <2>2, PollStep
<1>4. CASE UNCHANGED pollVars
  <2>1. /\ UNCHANGED <<worker, virtual, polls, sensors, rateVars, hwVars>>
    BY <1>4 DEF pollVars
  <2>2. CollectInv' /\ Asleep'
    BY <2>1, HwRests DEF PollInv
  <2>3. Totals' /\ BilledOnce'
    BY <2>1, RatesRest DEF PollInv
  <2>4. polls' \in 0..MaxPolls[worker']
    BY <2>1 DEF PollInv, PollTypeOK
  <2>5. PollTypeOK'
    BY <2>1, <2>2, <2>4, TypesRest DEF PollInv, CollectInv
  <2> QED  BY <2>2, <2>3, <2>5 DEF PollInv
<1> QED
  BY <1>1, <1>2, <1>3, <1>4, HwSteps, HwEnds DEF PollNext, Collect

\* The invariant holds initially.
LEMMA PollStarts == PollInit => PollInv
<1> SUFFICES ASSUME PollInit PROVE PollInv
  OBVIOUS
<1>1. CollectInv /\ Asleep
  BY FreshCollects DEF PollInit, HwInit, Fresh, Asleep
<1>2. polls \in 0..MaxPolls[worker]
  BY NumberAssumption DEF PollInit
<1>3. DOMAIN last = {} /\ DOMAIN account = {} /\ DOMAIN sensors = {} /\ last = << >>
  BY DEF PollInit
<1>4. virtual \in SUBSET Item /\ seen = {} /\ counter \in [Item -> Value] /\ worker \in Worker
  BY NumberAssumption DEF PollInit, Value
<1>5. PollTypeOK
  BY <1>1, <1>2, <1>3, <1>4 DEF PollTypeOK, CollectInv, PollInit, Value
<1>6. Totals /\ BilledOnce
  <2>1. seen \subseteq DOMAIN last /\ ~(last # << >>)
    BY <1>3, <1>4
  <2> QED  BY <1>3, <2>1 DEF Totals, BilledOnce
<1> QED  BY <1>1, <1>5, <1>6 DEF PollInv

\* It holds always.
LEMMA PollAlways == PollSpec => []PollInv
BY PollStarts, PollSteps, PTL DEF PollSpec

\* The polling workers' state is always of its types.
THEOREM PollTypes == PollSpec => []PollTypeOK
<1>1. PollInv => PollTypeOK
  BY DEF PollInv
<1> QED  BY <1>1, PollAlways, PTL

\* Whatever ticks, failures and counters do, a device's rates amount to what its counter
\* gained, but for what the accounts say is lost.
THEOREM RatesBillOnce == PollSpec => []BilledOnce
<1>1. PollInv => BilledOnce
  BY DEF PollInv
<1> QED  BY <1>1, PollAlways, PTL

\* For any chips and files, in whatever order their goroutines are done, what was
\* collected is complete.
THEOREM CollectionsAreComplete == PollSpec => []CollectsAll
<1>1. PollInv => CollectsAll
  BY Complete DEF PollInv
<1> QED  BY <1>1, PollAlways, PTL

\* For any number of disks, also when new ones come, the rate of their total is the sum of
\* theirs, but for the rounding.
THEOREM TotalsFollow == PollSpec => TotalsAgree
<1> DEFINE parts == seen' \ virtual
           agree == /\ worker = "disk" /\ account' # account
                    /\ seen \subseteq seen' /\ DOMAIN last \cap seen' \subseteq seen
                    /\ \A t \in seen : last[t] <= last'[t]
                    /\ Sum(last', parts) < Width
                    => /\ Sum(sensors', parts) <= sensors'[Total]
                       /\ sensors'[Total] <= Sum(sensors', parts) + Cardinality(parts)
<1>1. PollInv /\ [PollNext]_pollVars => [agree]_pollVars
  <2> SUFFICES ASSUME PollInv, PollNext, worker = "disk", account' # account,
                      seen \subseteq seen', DOMAIN last \cap seen' \subseteq seen,
                      \A t \in seen : last[t] <= last'[t],
                      Sum(last', parts) < Width
               PROVE  /\ Sum(sensors', parts) <= sensors'[Total]
                      /\ sensors'[Total] <= Sum(sensors', parts) + Cardinality(parts)
    OBVIOUS
  <2>1. PICK d \in {0} \cup Interval : PollDisks(d)
    BY DEF PollNext, PollNetwork, PollCPU, PollMemory, PollMounts, PollLoad, PollProblems,
           PollUptime, Poll, BeginHWMon, Collect, ReportHWMon, rateVars, PollInv, Asleep
  <2>2. PICK read \in SUBSET Item : Update(DiskStats(read), read, d)
    BY <2>1 DEF PollDisks, Fails, getDevice, getDeviceNames
  <2>3. read = seen'
    BY <2>2 DEF Update
  <2>4. counter' \in [Item -> Value] /\ UNCHANGED <<worker, virtual>>
    BY <2>1, CountersStay DEF PollDisks, PollInv
  <2> QED  BY <2>2, <2>3, <2>4, UpdateAgrees DEF PollInv
<1> QED  BY <1>1, PollAlways, PTL DEF PollSpec, TotalsAgree

-----------------------------------------------------------------------------
(* Connections: the lemmas about single steps.                             *)

\* The states and their order.
LEMMA States ==
  /\ State = {"absent", "activating", "online", "offline"}
  /\ Rank["absent"] = 0 /\ Rank["activating"] = 1 /\ Rank["online"] = 2 /\ Rank["offline"] = 4
BY DEF State, Rank

\* The monitors get their connections in turn.
InTurn == \E n \in Nat : \A m \in Monitor : conn[m] # None <=> m <= n

\* Whoever is given a connection is a monitor that has none, the next one.
Given(c) ==
  \E k \in Monitor :
    /\ conn[k] = None /\ \A m \in Monitor : conn[m] # None <=> m <= k - 1
    /\ conn' = [conn EXCEPT ![k] = c] /\ entry' = [entry EXCEPT ![k] = "spawned"]

\* A goroutine that is started gets the next monitor.
LEMMA SpawnGives ==
  ASSUME TypeOK, InTurn, NEW c \in Conn, Spawn(c)
  PROVE  Given(c)
<1> DEFINE busy == {m \in Monitor : conn[m] # None}
           wifi == {m \in busy : conn[m] \in wireless}
           n == Cardinality(busy)
<1>1. IsFiniteSet(busy) /\ IsFiniteSet(wifi)
  <2>1. IsFiniteSet(1 .. MaxLoops)
    BY BoundsAssumption, FS_Interval
  <2>2. busy \subseteq 1 .. MaxLoops /\ wifi \subseteq busy
    BY DEF Monitor
  <2>3. IsFiniteSet(busy)
    BY <2>1, <2>2, FS_Subset
  <2> QED  BY <2>2, <2>3, FS_Subset
<1>2. n \in Nat /\ Cardinality(wifi) \in Nat
  BY <1>1, FS_CardinalityType
<1>3. n + Cardinality(wifi) + (IF c \in wireless THEN 2 ELSE 1) <= MaxLoops
  BY DEF Spawn, LoopsOf
<1>4. n + 1 \in Monitor
  <2> HIDE DEF n, wifi
  <2> QED  BY <1>2, <1>3, BoundsAssumption DEF Monitor
<1>5. \A m \in Monitor : conn[m] # None <=> m <= n
  <2>1. PICK b \in Nat : \A m \in Monitor : conn[m] # None <=> m <= b
    BY DEF InTurn
  <2>2. CASE b <= MaxLoops
    <3>1. busy = 1 .. b
      BY <2>1, <2>2, BoundsAssumption DEF Monitor
    <3>2. Cardinality(1 .. b) = b
      BY FS_Interval
    <3> QED  BY <2>1, <3>1, <3>2
  <2>3. CASE ~(b <= MaxLoops)
    <3>1. busy = 1 .. MaxLoops
      BY <2>1, <2>3, BoundsAssumption DEF Monitor
    <3>2. Cardinality(1 .. MaxLoops) = MaxLoops
      BY BoundsAssumption, FS_Interval
    <3>3. n = MaxLoops
      BY <3>1, <3>2
    <3> QED  BY <1>4, <3>3, BoundsAssumption DEF Monitor
  <2> QED  BY <2>2, <2>3
<1>6. conn' = [conn EXCEPT ![n + 1] = c] /\ entry' = [entry EXCEPT ![n + 1] = "spawned"]
  BY DEF Spawn
<1> HIDE DEF n
<1>7. conn[n + 1] = None /\ \A m \in Monitor : conn[m] # None <=> m <= (n + 1) - 1
  BY <1>2, <1>4, <1>5
<1> QED  BY <1>4, <1>6, <1>7 DEF Given

\* handleConnection changes neither the list nor what monitors do.
Handled(c) ==
  \/ /\ unread' = IF \E m \in Monitor : conn[m] = c THEN unread ELSE unread \cup {c}
     /\ UNCHANGED <<conn, entry>>
  \/ c \in list /\ UNCHANGED <<unread, conn, entry>>
  \/ Given(c) /\ UNCHANGED unread

\* That is what its three outcomes do.
LEMMA HandleIsHandled ==
  ASSUME TypeOK, InTurn, NEW c \in Conn, NEW err \in BOOLEAN, Handle(c, err)
  PROVE  Handled(c)
BY SpawnGives DEF Handle, Handled

\* A signal more, and what is under way keeps its type.
LEMMA StateSignalledIs ==
  ASSUME NEW p \in Signals, NEW s \in State
  PROVE  /\ StateSignalled(p, s) \in Signals
         /\ StateSignalled(p, s).state = p.state \cup {s} /\ StateSignalled(p, s).address = p.address
BY DEF StateSignalled, Signals

\* The same of the addresses.
LEMMA AddressSignalledIs ==
  ASSUME NEW p \in Signals, NEW n \in Nat
  PROVE  /\ AddressSignalled(p, n) \in Signals
         /\ AddressSignalled(p, n).address = p.address \cup {n} /\ AddressSignalled(p, n).state = p.state
BY DEF AddressSignalled, Signals

\* Whoever does not watch the strength when it changes is late.
Signalled(a, b, n) ==
  /\ b.init = a.init /\ b.read = a.read /\ b.loop = a.loop /\ b.next = a.next /\ b.watch = a.watch
  /\ b.first = a.first /\ b.fwd = a.fwd /\ b.signal = a.signal
  /\ ~b.late => ~a.late /\ a.init = "done" /\ a.fwd = "receives" /\ a.pending = {} /\ b.pending = {n}
  /\ a.fwd = None => b.pending = a.pending

\* That is what a signal does to its record.
LEMMA StrengthSignalledIs ==
  ASSUME NEW a \in ApState, NEW n \in Nat
  PROVE  StrengthSignalled(a, n) \in ApState /\ Signalled(a, StrengthSignalled(a, n), n)
<1> DEFINE p == IF a.fwd \in {"receives", "sends"} THEN a.pending \cup {n} ELSE a.pending
           l == a.late \/ a.init # "done" \/ a.fwd # "receives" \/ a.pending # {}
           b == StrengthSignalled(a, n)
<1>1. p \in SUBSET Nat /\ l \in BOOLEAN
  BY DEF ApState
<1>2. ~l => ~a.late /\ a.init = "done" /\ a.fwd = "receives" /\ a.pending = {} /\ p = {n}
  OBVIOUS
<1>6. a.fwd = None => p = a.pending
  BY DEF None
<1>3. b = [a EXCEPT !.pending = p, !.late = l]
  BY Zenon DEF StrengthSignalled
<1> HIDE DEF p, l, b
<1>4. /\ b \in ApState /\ b.pending = p /\ b.late = l
      /\ b.init = a.init /\ b.read = a.read /\ b.loop = a.loop /\ b.next = a.next /\ b.watch = a.watch
      /\ b.first = a.first /\ b.fwd = a.fwd /\ b.signal = a.signal
  BY <1>1, <1>3 DEF ApState
<1>5. b \in ApState /\ Signalled(a, b, n)
  BY <1>2, <1>4, <1>6 DEF Signalled
<1> QED  BY <1>5 DEF b

\* The goroutines of an access point, as they are started.
LEMMA ApStartsIs ==
  /\ ApIdle \in ApState /\ ApStarts \in ApState
  /\ ApStarts.init = "reads" /\ ApStarts.loop = "selects" /\ ApStarts.watch = "starts"
  /\ ApStarts.first = None /\ ApStarts.fwd = None /\ ApStarts.pending = {} /\ ~ApStarts.late
BY DEF ApStarts, ApIdle, ApState, None

\* The goroutines of an access point, each with its type.
LEMMA ApTypes ==
  ASSUME TypeOK, NEW m \in Monitor, NEW new \in ApState, Ap(m, new)
  PROVE  ap' \in [Monitor -> ApState] /\ ap'[m] = new /\ \A k \in Monitor \ {m} : ap'[k] = ap[k]
BY DEF Ap, TypeOK

\* What is received is a report.
LEMMA ReceiveTypes ==
  ASSUME TypeOK, NEW m \in Monitor, conn[m] \in Conn, NEW new \in Reports, Receive(m, new)
  PROVE  reported' \in [Conn -> Reports] /\ reported'[conn[m]] = new
         /\ \A c \in Conn \ {conn[m]} : reported'[c] = reported[c]
BY DEF Receive, TypeOK

-----------------------------------------------------------------------------
(* What is true of a monitor.                                              *)

\* None of an access point's goroutines was started.
Unstarted(a) ==
  a.init = None /\ a.loop = None /\ a.watch = None /\ a.first = None /\ a.fwd = None /\ a.pending = {}

\* A monitor that has not begun to monitor its connection has no goroutines yet.
Begun(m) ==
  /\ entry[m] = None <=> conn[m] = None
  /\ wired[m] = None <=> entry[m] # "ranges"
  /\ entry[m] # "ranges" => Unstarted(ap[m]) /\ toSend[m] = "nothing" /\ pending[m].state = {}

\* monitorConnection's loop has not ended.
Live == {"sampled", "selects", "state", "address"}

\* While nothing went wrong and no signal of them is under way the addresses that were
\* read are those of the connection.
AddressRead(m) ==
  wired[m] \in Live /\ ~spoiled[m] /\ pending[m].address = {} => value[m].address = address[conn[m]]

\* So is the state, and what is under way is its last change.
StateRead(m) ==
  wired[m] \in Live /\ ~spoiled[m] /\ ~raced[m] =>
    IF pending[m].state = {} THEN value[m].state = link[conn[m]]
                             ELSE pending[m].state = {link[conn[m]]}

\* A strength is known if it did not change too early: it is where it is on its way to
\* the worker.
StrengthKnown(a, now) ==
  ~a.late =>
    /\ a.first # "done" => a.fwd = None
    /\ a.watch \in {None, "starts"} => a.first = None
    /\ a.init = "sends" => a.read = now
    /\ a.pending # {} => a.pending = {now}
    /\ a.fwd = "sends" => a.signal = now /\ a.pending = {}
    /\ a.loop = "sends" /\ a.fwd # "sends" /\ a.pending = {} => a.next = now

\* Nothing is left of a monitor that would change what was reported of the addresses, of
\* the state, or of the strength.
AddressCalm(m) ==
  wired[m] \in {"sampled", "selects", "state"} /\ pending[m].address = {} /\ toSend[m] = "nothing" /\ ~spoiled[m]
StateCalm(m) ==
  /\ wired[m] \in {"sampled", "selects", "address"} /\ pending[m].state = {} /\ toSend[m] # "both"
  /\ ~spoiled[m] /\ ~raced[m]
StrengthCalm(a) == ~a.late /\ a.init = "done" /\ a.pending = {} /\ a.fwd # "sends" /\ a.loop # "sends"

\* A monitor was started for the connection.
Monitored(c) == \E m \in Monitor : conn[m] = c

\* Once all of a connection's monitors are calm what was reported last is true.
AddressTold(c) ==
  Monitored(c) /\ (\A m \in Monitor : conn[m] = c => AddressCalm(m)) => reported[c].address = address[c]
StateTold(c) ==
  Monitored(c) /\ (\A m \in Monitor : conn[m] = c => StateCalm(m)) => reported[c].state = link[c]
StrengthTold(c) ==
  Monitored(c) /\ (\A m \in Monitor : conn[m] = c => StrengthCalm(ap[m])) => reported[c].strength = strength[c]

\* What is true of each value in every state, and of how the monitors began.
AddressInv == (\A m \in Monitor : AddressRead(m)) /\ (\A c \in Conn : AddressTold(c))
StateInv   == (\A m \in Monitor : StateRead(m)) /\ (\A c \in Conn : StateTold(c))
StrengthInv ==
  /\ \A m \in Monitor : entry[m] = "ranges" => StrengthKnown(ap[m], strength[conn[m]])
  /\ \A c \in Conn : StrengthTold(c)
BegunInv == InTurn /\ \A m \in Monitor : Begun(m)

\* The goroutines that belong to a monitor, by what they change.
WiredStep(m) == WiredLoop(m) \/ SendFirst(m)
ApStep(m) ==
  \/ ReadFirstStrength(m) \/ StartApWatch(m) \/ WatchAp(m) \/ TakeSignal(m)
  \/ StrengthSignal(m) \/ StopWifi(m) \/ StopApWatch(m) \/ StopForwarding(m)
ApReport(m) == SendFirstStrength(m) \/ SendStrength(m)

\* The steps by what they belong to.
LEMMA WhichStep ==
  ASSUME [Next]_vars
  PROVE  \/ UNCHANGED vars
         \/ ~crashed /\ ~closed /\
              \/ Cancel \/ Begin \/ ReadActive \/ TestErr \/ OtherSignal \/ LoopEnds
              \/ \E c \in Conn : \/ LinkChanges(c) \/ AddressChanges(c) \/ StrengthChanges(c)
                                \/ HandleActive(c) \/ HandleSignal(c)
              \/ \E m \in Monitor : Track(m) \/ WiredStep(m) \/ ApStep(m) \/ ApReport(m)
BY Zenon DEF Next, Step, WiredStep, ApStep, ApReport, WifiLoop, ApWatch

\* A monitor whose goroutines take a step monitors a connection.
LEMMA WhoRuns ==
  ASSUME TypeOK, NEW m \in Monitor, Begun(m), WiredStep(m) \/ ApStep(m) \/ ApReport(m)
  PROVE  entry[m] = "ranges" /\ conn[m] \in Conn
<1>1. wired[m] # None \/ toSend[m] # "nothing" \/ ~Unstarted(ap[m])
  <2>1. CASE WiredStep(m)
    BY <2>1 DEF WiredStep, WiredLoop, StartWatch, StateSignal, AddressSignal, SendChanged, StopMonitor,
                SendFirst, None
  <2>2. CASE ApStep(m)
    <3>1. CASE ReadFirstStrength(m)
      BY <3>1 DEF ReadFirstStrength, Unstarted, None
    <3>2. CASE StartApWatch(m)
      BY <3>2 DEF StartApWatch, Unstarted, None
    <3>3. CASE WatchAp(m)
      BY <3>3 DEF WatchAp, Unstarted, None
    <3>4. CASE TakeSignal(m)
      BY <3>4 DEF TakeSignal, Unstarted, None
    <3>5. CASE StrengthSignal(m)
      BY <3>5 DEF StrengthSignal, Unstarted, None
    <3>6. CASE StopWifi(m)
      BY <3>6 DEF StopWifi, Unstarted, None
    <3>7. CASE StopApWatch(m)
      BY <3>7 DEF StopApWatch, Unstarted, None
    <3>8. CASE StopForwarding(m)
      BY <3>8 DEF StopForwarding, Unstarted, None
    <3> QED
      BY <2>2, <3>1, <3>2, <3>3, <3>4, <3>5, <3>6, <3>7, <3>8 DEF ApStep
  <2>3. CASE ApReport(m)
    BY <2>3 DEF ApReport, SendFirstStrength, SendStrength, Unstarted, None
  <2> QED  BY <2>1, <2>2, <2>3
<1>2. entry[m] = "ranges"
  BY <1>1 DEF Begun
<1>3. conn[m] # None
  BY <1>2 DEF Begun, None
<1> QED  BY <1>2, <1>3 DEF TypeOK

\* What the goroutines of an access point do leaves a strength that is known known, and
\* makes none of them calm that was not.
Kept(a, b, now) ==
  StrengthKnown(a, now) => StrengthKnown(b, now) /\ (StrengthCalm(b) => StrengthCalm(a))

\* Each of them does so.
LEMMA ApStepKeeps ==
  ASSUME TypeOK, NEW m \in Monitor, conn[m] \in Conn, ApStep(m)
  PROVE  /\ (UNCHANGED ap) \/ \E b \in ApState : Ap(m, b) /\ Kept(ap[m], b, strength[conn[m]])
         /\ UNCHANGED <<envVars, cancelled, trackVars, wiredVars, reported>>
         /\ crashed' \in BOOLEAN
<1> USE DEF envVars, endVars, trackVars, wiredVars
<1> DEFINE a == ap[m]
           now == strength[conn[m]]
<1>0. a \in ApState /\ now \in Nat
  BY DEF TypeOK
<1> HIDE DEF a, now
<1>20. ASSUME NEW b \in ApState, Ap(m, b), Kept(a, b, now)
       PROVE  \E x \in ApState : Ap(m, x) /\ Kept(ap[m], x, strength[conn[m]])
  BY <1>20 DEF a, now
<1>1. CASE ReadFirstStrength(m)
  <2>1. ASSUME Ap(m, [a EXCEPT !.init = "sends", !.read = now])
       PROVE  \E x \in ApState : Ap(m, x) /\ Kept(ap[m], x, strength[conn[m]])
    <3> DEFINE b == [a EXCEPT !.init = "sends", !.read = now]
    <3>1. b \in ApState /\ Kept(a, b, now)
      BY <1>0, <1>1 DEF ApState, Kept, StrengthKnown, StrengthCalm, ReadFirstStrength, a, now, None
    <3> HIDE DEF b
    <3>2. Ap(m, b)
      BY <2>1 DEF b
    <3> QED  BY <1>20, <3>1, <3>2
  <2>2. ASSUME Ap(m, [a EXCEPT !.init = "done", !.late = TRUE])
       PROVE  \E x \in ApState : Ap(m, x) /\ Kept(ap[m], x, strength[conn[m]])
    <3> DEFINE b == [a EXCEPT !.init = "done", !.late = TRUE]
    <3>1. b \in ApState /\ Kept(a, b, now)
      BY <1>0, <1>1 DEF ApState, Kept, StrengthKnown, StrengthCalm, ReadFirstStrength, a, now, None
    <3> HIDE DEF b
    <3>2. Ap(m, b)
      BY <2>2 DEF b
    <3> QED  BY <1>20, <3>1, <3>2
  <2>3. /\ UNCHANGED <<envVars, cancelled, trackVars, wiredVars, reported>>
        /\ crashed' \in BOOLEAN
    BY <1>1 DEF ReadFirstStrength, TypeOK
  <2>4. \/ Ap(m, [a EXCEPT !.init = "sends", !.read = now]) \/ Ap(m, [a EXCEPT !.init = "done", !.late = TRUE])
    BY <1>1 DEF ReadFirstStrength, a, now
  <2> QED  BY <2>1, <2>2, <2>3, <2>4
<1>2. CASE StartApWatch(m)
  <2>1. ASSUME Ap(m, [a EXCEPT !.watch = "selects", !.first = "sends"])
       PROVE  \E x \in ApState : Ap(m, x) /\ Kept(ap[m], x, strength[conn[m]])
    <3> DEFINE b == [a EXCEPT !.watch = "selects", !.first = "sends"]
    <3>1. b \in ApState /\ Kept(a, b, now)
      BY <1>0, <1>2 DEF ApState, Kept, StrengthKnown, StrengthCalm, StartApWatch, a, now, None
    <3> HIDE DEF b
    <3>2. Ap(m, b)
      BY <2>1 DEF b
    <3> QED  BY <1>20, <3>1, <3>2
  <2>2. ASSUME Ap(m, [a EXCEPT !.watch = "selects", !.first = "done", !.late = TRUE])
       PROVE  \E x \in ApState : Ap(m, x) /\ Kept(ap[m], x, strength[conn[m]])
    <3> DEFINE b == [a EXCEPT !.watch = "selects", !.first = "done", !.late = TRUE]
    <3>1. b \in ApState /\ Kept(a, b, now)
      BY <1>0, <1>2 DEF ApState, Kept, StrengthKnown, StrengthCalm, StartApWatch, a, now, None
    <3> HIDE DEF b
    <3>2. Ap(m, b)
      BY <2>2 DEF b
    <3> QED  BY <1>20, <3>1, <3>2
  <2>3. ASSUME Ap(m, [a EXCEPT !.watch = "returned", !.late = TRUE])
       PROVE  \E x \in ApState : Ap(m, x) /\ Kept(ap[m], x, strength[conn[m]])
    <3> DEFINE b == [a EXCEPT !.watch = "returned", !.late = TRUE]
    <3>1. b \in ApState /\ Kept(a, b, now)
      BY <1>0, <1>2 DEF ApState, Kept, StrengthKnown, StrengthCalm, StartApWatch, a, now, None
    <3> HIDE DEF b
    <3>2. Ap(m, b)
      BY <2>3 DEF b
    <3> QED  BY <1>20, <3>1, <3>2
  <2>4. /\ UNCHANGED <<envVars, cancelled, trackVars, wiredVars, reported>>
        /\ crashed' \in BOOLEAN
    BY <1>2 DEF StartApWatch, TypeOK
  <2>5. \/ Ap(m, [a EXCEPT !.watch = "selects", !.first = "sends"]) \/ Ap(m, [a EXCEPT !.watch = "selects", !.first = "done", !.late = TRUE]) \/ Ap(m, [a EXCEPT !.watch = "returned", !.late = TRUE])
    BY <1>2 DEF StartApWatch, a, now
  <2> QED  BY <2>1, <2>2, <2>3, <2>4, <2>5
<1>3. CASE WatchAp(m)
  <2>1. ASSUME Ap(m, [a EXCEPT !.first = "done", !.fwd = "receives"])
       PROVE  \E x \in ApState : Ap(m, x) /\ Kept(ap[m], x, strength[conn[m]])
    <3> DEFINE b == [a EXCEPT !.first = "done", !.fwd = "receives"]
    <3>1. b \in ApState /\ Kept(a, b, now)
      BY <1>0, <1>3 DEF ApState, Kept, StrengthKnown, StrengthCalm, WatchAp, a, now, None
    <3> HIDE DEF b
    <3>2. Ap(m, b)
      BY <2>1 DEF b
    <3> QED  BY <1>20, <3>1, <3>2
  <2>2. ASSUME Ap(m, [a EXCEPT !.first = "done", !.late = TRUE])
       PROVE  \E x \in ApState : Ap(m, x) /\ Kept(ap[m], x, strength[conn[m]])
    <3> DEFINE b == [a EXCEPT !.first = "done", !.late = TRUE]
    <3>1. b \in ApState /\ Kept(a, b, now)
      BY <1>0, <1>3 DEF ApState, Kept, StrengthKnown, StrengthCalm, WatchAp, a, now, None
    <3> HIDE DEF b
    <3>2. Ap(m, b)
      BY <2>2 DEF b
    <3> QED  BY <1>20, <3>1, <3>2
  <2>3. /\ UNCHANGED <<envVars, cancelled, trackVars, wiredVars, reported>>
        /\ crashed' \in BOOLEAN
    BY <1>3 DEF WatchAp, TypeOK
  <2>4. \/ Ap(m, [a EXCEPT !.first = "done", !.fwd = "receives"]) \/ Ap(m, [a EXCEPT !.first = "done", !.late = TRUE]) \/ UNCHANGED ap
    BY <1>3 DEF WatchAp, a, now
  <2> QED  BY <2>1, <2>2, <2>3, <2>4
<1>4. CASE TakeSignal(m)
  <2>0. PICK n \in a.pending : Ap(m, [a EXCEPT !.fwd = "sends", !.signal = n, !.pending = @ \ {n}])
    BY <1>4, Zenon DEF TakeSignal, a
  <2> DEFINE b == [a EXCEPT !.fwd = "sends", !.signal = n, !.pending = @ \ {n}]
  <2>1. b \in ApState /\ Kept(a, b, now)
    BY <1>0, <1>4 DEF ApState, Kept, StrengthKnown, StrengthCalm, TakeSignal, a, now, None
  <2>2. Ap(m, b)
    BY <2>0 DEF TakeSignal, a
  <2>3. /\ UNCHANGED <<envVars, cancelled, trackVars, wiredVars, reported>>
        /\ crashed' \in BOOLEAN
    BY <1>4 DEF TakeSignal, TypeOK
  <2> HIDE DEF b
  <2> QED  BY <1>20, <2>1, <2>2, <2>3
<1>5. CASE StrengthSignal(m)
  <2> DEFINE b == [a EXCEPT !.loop = "sends", !.next = a.signal, !.fwd = "receives"]
  <2>1. b \in ApState /\ Kept(a, b, now)
    BY <1>0, <1>5 DEF ApState, Kept, StrengthKnown, StrengthCalm, StrengthSignal, a, now, None
  <2>2. Ap(m, b)
    BY <1>5 DEF StrengthSignal, a
  <2>3. /\ UNCHANGED <<envVars, cancelled, trackVars, wiredVars, reported>>
        /\ crashed' \in BOOLEAN
    BY <1>5 DEF StrengthSignal, TypeOK
  <2> HIDE DEF b
  <2> QED  BY <1>20, <2>1, <2>2, <2>3
<1>6. CASE StopWifi(m)
  <2> DEFINE b == [a EXCEPT !.loop = "closed"]
  <2>1. b \in ApState /\ Kept(a, b, now)
    BY <1>0, <1>6 DEF ApState, Kept, StrengthKnown, StrengthCalm, StopWifi, a, now, None
  <2>2. Ap(m, b)
    BY <1>6 DEF StopWifi, a
  <2>3. /\ UNCHANGED <<envVars, cancelled, trackVars, wiredVars, reported>>
        /\ crashed' \in BOOLEAN
    BY <1>6 DEF StopWifi, TypeOK
  <2> HIDE DEF b
  <2> QED  BY <1>20, <2>1, <2>2, <2>3
<1>7. CASE StopApWatch(m)
  <2> DEFINE b == [a EXCEPT !.watch = "returned"]
  <2>1. b \in ApState /\ Kept(a, b, now)
    BY <1>0, <1>7 DEF ApState, Kept, StrengthKnown, StrengthCalm, StopApWatch, a, now, None
  <2>2. Ap(m, b)
    BY <1>7 DEF StopApWatch, a
  <2>3. /\ UNCHANGED <<envVars, cancelled, trackVars, wiredVars, reported>>
        /\ crashed' \in BOOLEAN
    BY <1>7 DEF StopApWatch, TypeOK
  <2> HIDE DEF b
  <2> QED  BY <1>20, <2>1, <2>2, <2>3
<1>8. CASE StopForwarding(m)
  <2> DEFINE b == [a EXCEPT !.fwd = "returned"]
  <2>1. b \in ApState /\ Kept(a, b, now)
    BY <1>0, <1>8 DEF ApState, Kept, StrengthKnown, StrengthCalm, StopForwarding, a, now, None
  <2>2. Ap(m, b)
    BY <1>8 DEF StopForwarding, a
  <2>3. /\ UNCHANGED <<envVars, cancelled, trackVars, wiredVars, reported>>
        /\ crashed' \in BOOLEAN
    BY <1>8 DEF StopForwarding, TypeOK
  <2> HIDE DEF b
  <2> QED  BY <1>20, <2>1, <2>2, <2>3
<1> QED  BY <1>1, <1>2, <1>3, <1>4, <1>5, <1>6, <1>7, <1>8 DEF ApStep

\* When a strength is received it is the present one, if it is known and no other follows.
LEMMA ApReportKeeps ==
  ASSUME TypeOK, NEW m \in Monitor, conn[m] \in Conn, ApReport(m)
  PROVE  /\ \/ UNCHANGED <<ap, reported>>
            \/ \E b \in ApState, x \in Nat :
                 /\ Ap(m, b) /\ Receive(m, [reported[conn[m]] EXCEPT !.strength = x])
                 /\ StrengthKnown(ap[m], strength[conn[m]]) =>
                      StrengthKnown(b, strength[conn[m]]) /\ (StrengthCalm(b) => x = strength[conn[m]])
         /\ UNCHANGED <<envVars, cancelled, trackVars, wiredVars>>
         /\ crashed' \in BOOLEAN
<1> USE DEF envVars, endVars, trackVars, wiredVars
<1> DEFINE a == ap[m]
           now == strength[conn[m]]
<1>0. a \in ApState /\ now \in Nat
  BY DEF TypeOK
<1> HIDE DEF a, now
<1>1. ASSUME NEW b \in ApState, NEW x \in Nat, Ap(m, b), Receive(m, [reported[conn[m]] EXCEPT !.strength = x]),
             StrengthKnown(a, now) => StrengthKnown(b, now) /\ (StrengthCalm(b) => x = now)
      PROVE  \E c \in ApState, y \in Nat :
               /\ Ap(m, c) /\ Receive(m, [reported[conn[m]] EXCEPT !.strength = y])
               /\ StrengthKnown(ap[m], strength[conn[m]]) =>
                    StrengthKnown(c, strength[conn[m]]) /\ (StrengthCalm(c) => y = strength[conn[m]])
  BY <1>1 DEF a, now
<1>2. CASE SendFirstStrength(m)
  <2> DEFINE b == [a EXCEPT !.init = "done"]
             x == a.read
  <2>1. b \in ApState /\ x \in Nat /\ (StrengthKnown(a, now) => StrengthKnown(b, now) /\ (StrengthCalm(b) => x = now))
    BY <1>0, <1>2 DEF ApState, StrengthKnown, StrengthCalm, SendFirstStrength, a, None
  <2>2. (UNCHANGED <<ap, reported>>) \/ (Ap(m, b) /\ Receive(m, [reported[conn[m]] EXCEPT !.strength = x]))
    BY <1>2 DEF SendFirstStrength, a
  <2>3. UNCHANGED <<envVars, cancelled, trackVars, wiredVars>> /\ crashed' \in BOOLEAN
    BY <1>2 DEF SendFirstStrength, TypeOK
  <2> HIDE DEF b, x
  <2> QED  BY <1>1, <2>1, <2>2, <2>3
<1>3. CASE SendStrength(m)
  <2> DEFINE b == [a EXCEPT !.loop = "selects"]
             x == a.next
  <2>1. b \in ApState /\ x \in Nat /\ (StrengthKnown(a, now) => StrengthKnown(b, now) /\ (StrengthCalm(b) => x = now))
    BY <1>0, <1>3 DEF ApState, StrengthKnown, StrengthCalm, SendStrength, a, None
  <2>2. Ap(m, b) /\ Receive(m, [reported[conn[m]] EXCEPT !.strength = x])
    BY <1>3 DEF SendStrength, a
  <2>3. UNCHANGED <<envVars, cancelled, trackVars, wiredVars>> /\ crashed' \in BOOLEAN
    BY <1>3 DEF SendStrength, TypeOK
  <2> HIDE DEF b, x
  <2> QED  BY <1>1, <2>1, <2>2, <2>3
<1> QED  BY <1>2, <1>3 DEF ApReport

\* What a step of monitorConnection, or of the goroutine that sends the first values,
\* leaves alone,
WiredFrame(m) ==
  /\ UNCHANGED <<envVars, cancelled, trackVars, raced, ap>>
  /\ crashed' \in BOOLEAN
  /\ wired' \in [Monitor -> {None, "sampled", "selects", "state", "address", "closed", "failed"}]
  /\ value' \in [Monitor -> Sensors] /\ toSend' \in [Monitor -> {"nothing", "both", "address"}]
  /\ pending' \in [Monitor -> Signals] /\ spoiled' \in [Monitor -> BOOLEAN]
  /\ reported' \in [Conn -> Reports]
  /\ \A k \in Monitor \ {m} :
       /\ wired'[k] = wired[k] /\ value'[k] = value[k] /\ toSend'[k] = toSend[k]
       /\ pending'[k] = pending[k] /\ spoiled'[k] = spoiled[k]
  /\ \A c \in Conn \ {conn[m]} : reported'[c] = reported[c]
  /\ reported'[conn[m]].strength = reported[conn[m]].strength
  /\ (wired'[m] = None <=> wired[m] = None) /\ (toSend[m] = "nothing" => toSend'[m] = "nothing")

\* and what it keeps: addresses that were read stay read, and if nothing of the monitor is
\* left that would change what was reported that is true, or it was so before.
AddressKept(m) ==
  AddressRead(m) =>
    /\ AddressRead(m)'
    /\ AddressCalm(m)' =>
         \/ reported'[conn[m]].address = address[conn[m]]
         \/ AddressCalm(m) /\ reported'[conn[m]].address = reported[conn[m]].address
StateKept(m) ==
  StateRead(m) =>
    /\ StateRead(m)'
    /\ StateCalm(m)' =>
         \/ reported'[conn[m]].state = link[conn[m]]
         \/ StateCalm(m) /\ reported'[conn[m]].state = reported[conn[m]].state

\* What is received of a sensor of the connection.
LEMMA ReportIs ==
  ASSUME TypeOK, NEW m \in Monitor, conn[m] \in Conn, NEW kind \in {"state", "address"}, Report(m, kind)
  PROVE  /\ reported' \in [Conn -> Reports]
         /\ \A c \in Conn \ {conn[m]} : reported'[c] = reported[c]
         /\ reported'[conn[m]].strength = reported[conn[m]].strength
         /\ kind = "state" => /\ reported'[conn[m]].state = value[m].state
                              /\ reported'[conn[m]].address = reported[conn[m]].address
         /\ kind = "address" => /\ reported'[conn[m]].address = value[m].address
                                /\ reported'[conn[m]].state = reported[conn[m]].state
<1> DEFINE c == conn[m]
<1>1. /\ reported \in [Conn -> Reports] /\ reported[c] \in Reports /\ value[m] \in Sensors
  BY DEF TypeOK
<1> DEFINE s == [reported[c] EXCEPT !.state = value[m].state]
           a == [reported[c] EXCEPT !.address = value[m].address]
<1>2. /\ s \in Reports /\ s.state = value[m].state /\ s.address = reported[c].address
      /\ s.strength = reported[c].strength
      /\ a \in Reports /\ a.address = value[m].address /\ a.state = reported[c].state
      /\ a.strength = reported[c].strength
  BY <1>1 DEF Reports, Sensors
<1>3. reported' = [reported EXCEPT ![c] = IF kind = "state" THEN s ELSE a]
  BY DEF Report, Receive
<1> HIDE DEF s, a
<1>4. \A d \in Conn : reported'[d] = IF d = c THEN (IF kind = "state" THEN s ELSE a) ELSE reported[d]
  BY <1>1, <1>3
<1>5. reported' \in [Conn -> Reports]
  BY <1>1, <1>2, <1>3
<1> QED  BY <1>2, <1>4, <1>5

\* The loop goes on or ends.
LEMMA GoOnIs ==
  ASSUME TypeOK, NEW m \in Monitor, wired[m] # None, GoOn(m)
  PROVE  /\ wired' \in [Monitor -> {None, "sampled", "selects", "state", "address", "closed", "failed"}]
         /\ wired'[m] \in {"closed", "selects"} /\ \A k \in Monitor \ {m} : wired'[k] = wired[k]
         /\ crashed' \in BOOLEAN
BY DEF GoOn, TypeOK

\* Each step of the loop over a connection's signals keeps what was read, and what was
\* reported of it.
LEMMA WiredStepKeeps ==
  ASSUME TypeOK, NEW m \in Monitor, conn[m] \in Conn, WiredStep(m)
  PROVE  WiredFrame(m) /\ AddressKept(m) /\ StateKept(m)
<1> USE DEF envVars, endVars, trackVars
<1>0. /\ wired \in [Monitor -> {None, "sampled", "selects", "state", "address", "closed", "failed"}]
      /\ value \in [Monitor -> Sensors] /\ toSend \in [Monitor -> {"nothing", "both", "address"}]
      /\ pending \in [Monitor -> Signals] /\ spoiled \in [Monitor -> BOOLEAN]
      /\ reported \in [Conn -> Reports] /\ crashed \in BOOLEAN
      /\ address[conn[m]] \in Nat /\ link[conn[m]] \in State
  BY DEF TypeOK
<1>1. CASE StartWatch(m)
  <2>1. WiredFrame(m)
    BY <1>0, <1>1 DEF StartWatch, WiredFrame, None
  <2>2. AddressKept(m) /\ StateKept(m)
    BY <1>0, <1>1 DEF StartWatch, AddressKept, StateKept, AddressRead, AddressCalm, StateRead, StateCalm, Live
  <2> QED  BY <2>1, <2>2
<1>2. CASE SendFirst(m)
  <2>1. PICK kind \in {"state", "address"} : kind = (IF toSend[m] = "both" THEN "state" ELSE "address")
    OBVIOUS
  <2>2. Report(m, kind)
    BY <1>2, <2>1 DEF SendFirst
  <2>3. /\ reported' \in [Conn -> Reports]
        /\ \A c \in Conn \ {conn[m]} : reported'[c] = reported[c]
        /\ reported'[conn[m]].strength = reported[conn[m]].strength
        /\ kind = "state" => /\ reported'[conn[m]].state = value[m].state
                             /\ reported'[conn[m]].address = reported[conn[m]].address
        /\ kind = "address" => /\ reported'[conn[m]].address = value[m].address
                               /\ reported'[conn[m]].state = reported[conn[m]].state
    BY <2>2, ReportIs
  <2>4. /\ toSend' \in [Monitor -> {"nothing", "both", "address"}]
        /\ toSend'[m] = (IF kind = "state" THEN "address" ELSE "nothing")
        /\ \A k \in Monitor \ {m} : toSend'[k] = toSend[k]
        /\ toSend[m] # "nothing" /\ (toSend[m] = "both" <=> kind = "state")
    BY <1>0, <1>2, <2>1 DEF SendFirst
  <2>5. UNCHANGED <<envVars, endVars, trackVars, wired, value, pending, spoiled, raced, ap>>
    BY <1>2 DEF SendFirst
  <2>6. WiredFrame(m)
    BY <1>0, <2>3, <2>4, <2>5 DEF WiredFrame
  <2>7. AddressKept(m)
    BY <2>1, <2>3, <2>4, <2>5 DEF AddressKept, AddressRead, AddressCalm, Live
  <2>8. StateKept(m)
    BY <2>1, <2>3, <2>4, <2>5 DEF StateKept, StateRead, StateCalm, Live
  <2> QED  BY <2>6, <2>7, <2>8
<1>3. CASE StateSignal(m)
  <2>1. PICK s \in pending[m].state :
          /\ pending' = [pending EXCEPT ![m].state = @ \ {s}]
          /\ value' = [value EXCEPT ![m].state = s]
    BY <1>3 DEF StateSignal
  <2>2. s \in State
    BY <1>0, <2>1 DEF Signals
  <2>3. /\ pending' \in [Monitor -> Signals] /\ pending'[m].state = pending[m].state \ {s}
        /\ pending'[m].address = pending[m].address
        /\ \A k \in Monitor \ {m} : pending'[k] = pending[k]
    BY <1>0, <2>1 DEF Signals
  <2>4. /\ value' \in [Monitor -> Sensors] /\ value'[m].state = s
        /\ value'[m].address = value[m].address
        /\ \A k \in Monitor \ {m} : value'[k] = value[k]
    BY <1>0, <2>1, <2>2 DEF Sensors
  <2>5. /\ wired' = [wired EXCEPT ![m] = "state"] /\ wired[m] = "selects"
        /\ UNCHANGED <<envVars, endVars, trackVars, toSend, spoiled, raced, ap, reported>>
    BY <1>3 DEF StateSignal
  <2>6. WiredFrame(m)
    BY <1>0, <2>3, <2>4, <2>5 DEF WiredFrame, None
  <2>7. AddressKept(m)
    BY <1>0, <2>3, <2>4, <2>5 DEF AddressKept, AddressRead, AddressCalm, Live
  <2>8. StateKept(m)
    BY <1>0, <2>1, <2>3, <2>4, <2>5 DEF StateKept, StateRead, StateCalm, Live
  <2> QED  BY <2>6, <2>7, <2>8
<1>4. CASE AddressSignal(m)
  <2>1. PICK n \in pending[m].address : pending' = [pending EXCEPT ![m].address = @ \ {n}]
    BY <1>4 DEF AddressSignal
  <2>2. /\ pending' \in [Monitor -> Signals] /\ pending'[m].address = pending[m].address \ {n}
        /\ pending'[m].state = pending[m].state
        /\ \A k \in Monitor \ {m} : pending'[k] = pending[k]
    BY <1>0, <2>1 DEF Signals
  <2>3. UNCHANGED <<envVars, cancelled, trackVars, toSend, raced, ap, reported>> /\ wired[m] = "selects"
    BY <1>4 DEF AddressSignal
  <2>4. ASSUME value' = [value EXCEPT ![m].address = address[conn[m]]],
               wired' = [wired EXCEPT ![m] = "address"], UNCHANGED <<crashed, spoiled>>
        PROVE  WiredFrame(m) /\ AddressKept(m) /\ StateKept(m)
    <3>1. /\ value' \in [Monitor -> Sensors] /\ value'[m].address = address[conn[m]]
          /\ value'[m].state = value[m].state
          /\ \A k \in Monitor \ {m} : value'[k] = value[k]
      BY <1>0, <2>4 DEF Sensors
    <3>2. WiredFrame(m)
      BY <1>0, <2>2, <2>3, <2>4, <3>1 DEF WiredFrame, None
    <3>3. AddressKept(m)
      BY <1>0, <2>2, <2>3, <2>4, <3>1 DEF AddressKept, AddressRead, AddressCalm, Live
    <3>4. StateKept(m)
      BY <1>0, <2>2, <2>3, <2>4, <3>1 DEF StateKept, StateRead, StateCalm, Live
    <3> QED  BY <3>2, <3>3, <3>4
  <2>5. ASSUME spoiled' = [spoiled EXCEPT ![m] = TRUE], GoOn(m), UNCHANGED value
        PROVE  WiredFrame(m) /\ AddressKept(m) /\ StateKept(m)
    <3>1. /\ wired' \in [Monitor -> {None, "sampled", "selects", "state", "address", "closed", "failed"}]
          /\ wired'[m] \in {"closed", "selects"} /\ \A k \in Monitor \ {m} : wired'[k] = wired[k]
          /\ crashed' \in BOOLEAN
      BY <2>3, <2>5, GoOnIs DEF None
    <3>2. WiredFrame(m)
      BY <1>0, <2>2, <2>3, <2>5, <3>1 DEF WiredFrame, None
    <3>3. AddressKept(m) /\ StateKept(m)
      BY <1>0, <2>5 DEF AddressKept, AddressRead, AddressCalm, StateKept, StateRead, StateCalm
    <3> QED  BY <3>2, <3>3
  <2> QED  BY <1>4, <2>4, <2>5 DEF AddressSignal
<1>5. CASE SendChanged(m)
  <2>1. PICK kind \in {"state", "address"} : kind = wired[m]
    BY <1>5 DEF SendChanged
  <2>2. Report(m, kind) /\ GoOn(m) /\ wired[m] # None
    BY <1>5, <2>1 DEF SendChanged, None
  <2>3. /\ reported' \in [Conn -> Reports]
        /\ \A c \in Conn \ {conn[m]} : reported'[c] = reported[c]
        /\ reported'[conn[m]].strength = reported[conn[m]].strength
        /\ kind = "state" => /\ reported'[conn[m]].state = value[m].state
                             /\ reported'[conn[m]].address = reported[conn[m]].address
        /\ kind = "address" => /\ reported'[conn[m]].address = value[m].address
                               /\ reported'[conn[m]].state = reported[conn[m]].state
    BY <2>2, ReportIs
  <2>4. /\ wired' \in [Monitor -> {None, "sampled", "selects", "state", "address", "closed", "failed"}]
        /\ wired'[m] \in {"closed", "selects"} /\ \A k \in Monitor \ {m} : wired'[k] = wired[k]
        /\ crashed' \in BOOLEAN
    BY <2>2, GoOnIs
  <2>5. UNCHANGED <<envVars, cancelled, trackVars, value, toSend, pending, spoiled, raced, ap>>
    BY <1>5 DEF SendChanged
  <2>6. WiredFrame(m)
    BY <1>0, <2>2, <2>3, <2>4, <2>5 DEF WiredFrame, None
  <2>7. AddressKept(m)
    BY <2>1, <2>3, <2>4, <2>5 DEF AddressKept, AddressRead, AddressCalm, Live
  <2>8. StateKept(m)
    BY <2>1, <2>3, <2>4, <2>5 DEF StateKept, StateRead, StateCalm, Live
  <2> QED  BY <2>6, <2>7, <2>8
<1>6. CASE StopMonitor(m)
  <2>1. WiredFrame(m)
    BY <1>0, <1>6 DEF StopMonitor, WiredFrame, None
  <2>2. AddressKept(m) /\ StateKept(m)
    BY <1>0, <1>6 DEF StopMonitor, AddressKept, StateKept, AddressRead, AddressCalm, StateRead, StateCalm, Live
  <2> QED  BY <2>1, <2>2
<1> QED  BY <1>1, <1>2, <1>3, <1>4, <1>5, <1>6 DEF WiredStep, WiredLoop

\* Each step keeps the types.
LEMMA TypesStay ==
  ASSUME TypeOK, BegunInv, [Next]_vars
  PROVE  TypeOK'
<1> USE DEF envVars, endVars, trackVars, wiredVars
<1>0. TypeOK /\ InTurn /\ \A m \in Monitor : Begun(m)
  BY DEF BegunInv
<1>1. CASE Cancel \/ Begin \/ ReadActive \/ TestErr \/ OtherSignal \/ LoopEnds \/ UNCHANGED vars
  <2>1. CASE Cancel
    BY <1>0, <2>1 DEF Cancel, TypeOK
  <2>2. CASE Begin
    BY <1>0, <2>2 DEF Begin, TypeOK
  <2>3. CASE ReadActive
    BY <1>0, <2>3 DEF ReadActive, Active, TypeOK
  <2>4. CASE LoopEnds
    BY <1>0, <2>4 DEF LoopEnds, TypeOK
  <2>5. CASE UNCHANGED vars
    BY <1>0, <2>5 DEF vars, TypeOK
  <2>6. CASE TestErr
    BY <1>0, <2>6 DEF TestErr, TypeOK
  <2>7. CASE OtherSignal
    <3>1. failed' \in BOOLEAN
      BY <2>7 DEF OtherSignal, SetErr
    <3> QED  BY <1>0, <2>7, <3>1 DEF OtherSignal, TypeOK
  <2> QED  BY <1>1, <2>1, <2>2, <2>3, <2>4, <2>5, <2>6, <2>7
<1>2. ASSUME NEW c \in Conn, LinkChanges(c) PROVE TypeOK'
  <2>1. PICK s \in State :
          /\ link' = [link EXCEPT ![c] = s]
          /\ news' = IF events \in {"watching", "tests", "read"} /\ c \notin list THEN news \cup {<<c, s>>} ELSE news
          /\ pending' = [m \in Monitor |->
               IF Watches(m, c) THEN StateSignalled(pending[m], s) ELSE pending[m]]
    BY <1>2 DEF LinkChanges
  <2>2. link' \in [Conn -> State] /\ news' \subseteq Conn \X State
    BY <1>0, <2>1 DEF TypeOK
  <2>3. pending' \in [Monitor -> Signals]
    <3>1. \A m \in Monitor : StateSignalled(pending[m], s) \in Signals /\ pending[m] \in Signals
      BY <1>0, StateSignalledIs DEF TypeOK
    <3> QED  BY <2>1, <3>1
  <2>4. spoiled' \in [Monitor -> BOOLEAN] /\ raced' \in [Monitor -> BOOLEAN]
    BY <1>0, <1>2 DEF LinkChanges, Missed, Watches, TypeOK
  <2> QED  BY <1>0, <1>2, <2>2, <2>3, <2>4 DEF LinkChanges, TypeOK
<1>3. ASSUME NEW c \in Conn, AddressChanges(c) PROVE TypeOK'
  <2>1. address' \in [Conn -> Nat] /\ address[c] + 1 \in Nat
    BY <1>0, <1>3 DEF AddressChanges, TypeOK
  <2>2. pending' \in [Monitor -> Signals]
    <3>1. \A m \in Monitor : AddressSignalled(pending[m], address[c] + 1) \in Signals /\ pending[m] \in Signals
      BY <1>0, <2>1, AddressSignalledIs DEF TypeOK
    <3> QED  BY <1>3, <3>1 DEF AddressChanges
  <2>3. spoiled' \in [Monitor -> BOOLEAN]
    BY <1>0, <1>3 DEF AddressChanges, Missed, TypeOK
  <2> QED  BY <1>0, <1>3, <2>1, <2>2, <2>3 DEF AddressChanges, TypeOK
<1>4. ASSUME NEW c \in Conn, StrengthChanges(c) PROVE TypeOK'
  <2>1. strength' \in [Conn -> Nat] /\ strength[c] + 1 \in Nat
    BY <1>0, <1>4 DEF StrengthChanges, TypeOK
  <2>2. ap' \in [Monitor -> ApState]
    <3>1. \A m \in Monitor : StrengthSignalled(ap[m], strength[c] + 1) \in ApState /\ ap[m] \in ApState
      BY <1>0, <2>1, StrengthSignalledIs DEF TypeOK
    <3> QED  BY <1>4, <3>1 DEF StrengthChanges
  <2> QED  BY <1>0, <1>4, <2>1, <2>2 DEF StrengthChanges, TypeOK
<1>5. ASSUME NEW c \in Conn, Handled(c) PROVE unread' \subseteq Conn /\ conn' \in [Monitor -> Conn \cup {None}]
                                          /\ entry' \in [Monitor -> {None, "spawned", "ranges"}]
  BY <1>0, <1>5 DEF Handled, Given, TypeOK
<1>6. ASSUME NEW c \in Conn, HandleActive(c) PROVE TypeOK'
  <2>1. Handled(c)
    BY <1>0, <1>6, HandleIsHandled DEF HandleActive
  <2> QED  BY <1>0, <1>5, <1>6, <2>1 DEF HandleActive, TypeOK
<1>7. ASSUME NEW c \in Conn, HandleSignal(c) PROVE TypeOK'
  <2>1. unread' \subseteq Conn /\ conn' \in [Monitor -> Conn \cup {None}] /\ entry' \in [Monitor -> {None, "spawned", "ranges"}]
    <3>1. (\E err \in BOOLEAN : Handle(c, err)) \/ UNCHANGED <<unread, conn, entry>>
      BY <1>7 DEF HandleSignal
    <3>2. CASE \E err \in BOOLEAN : Handle(c, err)
      BY <1>0, <1>5, <3>2, HandleIsHandled
    <3>3. CASE UNCHANGED <<unread, conn, entry>>
      BY <1>0, <3>3 DEF TypeOK
    <3> QED  BY <3>1, <3>2, <3>3
  <2>2. failed' \in BOOLEAN
    BY <1>0, <1>7 DEF HandleSignal, SetErr, TypeOK
  <2> QED  BY <1>0, <1>7, <2>1, <2>2 DEF HandleSignal, TypeOK
<1>8. ASSUME NEW m \in Monitor, Track(m) PROVE TypeOK'
  <2>0. conn[m] \in Conn
    BY <1>0, <1>8 DEF Track, Begun, TypeOK, None
  <2>1. value' \in [Monitor -> Sensors]
    BY <1>0, <1>8, <2>0 DEF Track, TypeOK, Sensors
  <2>2. ap' \in [Monitor -> ApState]
    BY <1>0, <1>8, ApStartsIs DEF Track, TypeOK
  <2>3. spoiled' \in [Monitor -> BOOLEAN]
    BY <1>0, <1>8 DEF Track, TypeOK
  <2> QED  BY <1>0, <1>8, <2>0, <2>1, <2>2, <2>3 DEF Track, TypeOK
<1>9. ASSUME NEW m \in Monitor, WiredStep(m) PROVE TypeOK'
  <2>1. conn[m] \in Conn
    BY <1>0, <1>9, WhoRuns
  <2>2. WiredFrame(m)
    BY <1>9, <2>1, WiredStepKeeps
  <2> QED  BY <1>0, <2>2 DEF WiredFrame, TypeOK
<1>10. ASSUME NEW m \in Monitor, ApStep(m) PROVE TypeOK'
  <2>1. conn[m] \in Conn
    BY <1>0, <1>10, WhoRuns
  <2>2. /\ (UNCHANGED ap) \/ \E b \in ApState : Ap(m, b)
        /\ UNCHANGED <<envVars, cancelled, trackVars, wiredVars, reported>>
        /\ crashed' \in BOOLEAN
    BY <1>10, <2>1, ApStepKeeps
  <2>3. ap' \in [Monitor -> ApState]
    BY <1>0, <2>2, ApTypes DEF TypeOK
  <2> QED  BY <1>0, <2>2, <2>3 DEF TypeOK
<1>11. ASSUME NEW m \in Monitor, ApReport(m) PROVE TypeOK'
  <2>1. conn[m] \in Conn
    BY <1>0, <1>11, WhoRuns
  <2>2. /\ \/ UNCHANGED <<ap, reported>>
           \/ \E b \in ApState, x \in Nat : Ap(m, b) /\ Receive(m, [reported[conn[m]] EXCEPT !.strength = x])
        /\ UNCHANGED <<envVars, cancelled, trackVars, wiredVars>>
        /\ crashed' \in BOOLEAN
    BY <1>11, <2>1, ApReportKeeps
  <2>3. ap' \in [Monitor -> ApState] /\ reported' \in [Conn -> Reports]
    <3>1. CASE UNCHANGED <<ap, reported>>
      BY <1>0, <3>1 DEF TypeOK
    <3>2. ASSUME NEW b \in ApState, NEW x \in Nat, Ap(m, b), Receive(m, [reported[conn[m]] EXCEPT !.strength = x])
          PROVE  ap' \in [Monitor -> ApState] /\ reported' \in [Conn -> Reports]
      <4>1. ap' \in [Monitor -> ApState]
        BY <1>0, <3>2, ApTypes
      <4>2. [reported[conn[m]] EXCEPT !.strength = x] \in Reports
        BY <1>0, <2>1 DEF Reports, TypeOK
      <4> QED  BY <1>0, <2>1, <3>2, <4>1, <4>2, ReceiveTypes
    <3> QED  BY <2>2, <3>1, <3>2
  <2> QED  BY <1>0, <2>2, <2>3 DEF TypeOK
<1> QED
  BY <1>1, <1>2, <1>3, <1>4, <1>6, <1>7, <1>8, <1>9, <1>10, <1>11, WhichStep

\* A monitor that is asleep stays so until its connection is in the list.
LEMMA BegunRests ==
  ASSUME BegunInv, UNCHANGED <<conn, entry>>,
         \A m \in Monitor : entry[m] # "ranges" /\ Unstarted(ap[m]) => Unstarted(ap'[m]),
         \A m \in Monitor : entry[m] # "ranges" => pending'[m].state = pending[m].state,
         \A m \in Monitor : (wired'[m] = None <=> wired[m] = None) /\ (toSend[m] = "nothing" => toSend'[m] = "nothing")
  PROVE  BegunInv'
BY DEF BegunInv, InTurn, Begun

\* A monitor that is given a connection has not begun, and one that tracks it has.
LEMMA BegunStays ==
  ASSUME TypeOK, BegunInv, [Next]_vars
  PROVE  BegunInv'
<1> USE DEF envVars, endVars, trackVars, wiredVars
<1>0. TypeOK /\ InTurn /\ BegunInv /\ \A m \in Monitor : Begun(m)
  BY DEF BegunInv
<1>1. CASE Cancel \/ Begin \/ ReadActive \/ TestErr \/ OtherSignal \/ LoopEnds \/ UNCHANGED vars
  <2>1. UNCHANGED <<conn, entry, ap, wired, toSend, pending>>
    BY <1>1 DEF Cancel, Begin, ReadActive, TestErr, OtherSignal, LoopEnds, vars
  <2> QED  BY <1>0, <2>1, BegunRests
<1>2. ASSUME NEW c \in Conn, LinkChanges(c) \/ AddressChanges(c) PROVE BegunInv'
  <2>1. UNCHANGED <<conn, entry, ap, wired, toSend>>
    BY <1>2 DEF LinkChanges, AddressChanges
  <2>2. ASSUME NEW m \in Monitor, entry[m] # "ranges" PROVE pending'[m] = pending[m]
    <3>1. ~Watches(m, c)
      BY <1>0, <2>2 DEF Begun, Watches, None
    <3> QED  BY <1>2, <3>1 DEF LinkChanges, AddressChanges
  <2> QED  BY <1>0, <2>1, <2>2, BegunRests
<1>3. ASSUME NEW c \in Conn, StrengthChanges(c) PROVE BegunInv'
  <2>1. UNCHANGED <<conn, entry, wired, toSend, pending>>
    BY <1>3 DEF StrengthChanges
  <2>2. ASSUME NEW m \in Monitor, Unstarted(ap[m]) PROVE Unstarted(ap'[m])
    <3>1. ap'[m] = IF conn[m] = c THEN StrengthSignalled(ap[m], strength[c] + 1) ELSE ap[m]
      BY <1>3 DEF StrengthChanges
    <3>2. Signalled(ap[m], StrengthSignalled(ap[m], strength[c] + 1), strength[c] + 1)
      BY <1>0, StrengthSignalledIs DEF TypeOK
    <3> QED  BY <2>2, <3>1, <3>2 DEF Unstarted, Signalled
  <2> QED  BY <1>0, <2>1, <2>2, BegunRests
<1>4. ASSUME NEW c \in Conn, Handled(c), UNCHANGED <<ap, wired, toSend, pending>> PROVE BegunInv'
  <2>1. CASE UNCHANGED <<conn, entry>>
    BY <1>0, <1>4, <2>1, BegunRests
  <2>2. CASE Given(c)
    <3>1. PICK k \in Monitor :
            /\ conn[k] = None /\ \A m \in Monitor : conn[m] # None <=> m <= k - 1
            /\ conn' = [conn EXCEPT ![k] = c] /\ entry' = [entry EXCEPT ![k] = "spawned"]
      BY <2>2 DEF Given
    <3>2. /\ conn'[k] = c /\ entry'[k] = "spawned" /\ c # None
          /\ \A m \in Monitor \ {k} : conn'[m] = conn[m] /\ entry'[m] = entry[m]
      BY <1>0, <3>1, ConnAssumption DEF TypeOK
    <3>3. Begun(k)'
      BY <1>0, <1>4, <3>1, <3>2 DEF Begun, None
    <3>4. \A m \in Monitor \ {k} : Begun(m)'
      BY <1>0, <1>4, <3>2 DEF Begun
    <3>5. \A m \in Monitor : conn'[m] # None <=> m <= k
      BY <3>1, <3>2 DEF Monitor
    <3>6. InTurn'
      BY <3>5 DEF InTurn, Monitor
    <3> QED  BY <3>3, <3>4, <3>6 DEF BegunInv
  <2> QED  BY <1>4, <2>1, <2>2 DEF Handled
<1>5. ASSUME NEW c \in Conn, HandleActive(c) \/ HandleSignal(c) PROVE BegunInv'
  <2>1. /\ UNCHANGED <<ap, wired, toSend, pending>>
        /\ (\E err \in BOOLEAN : Handle(c, err)) \/ UNCHANGED <<conn, entry>>
    BY <1>5 DEF HandleActive, HandleSignal
  <2>2. CASE \E err \in BOOLEAN : Handle(c, err)
    BY <1>0, <1>4, <2>1, <2>2, HandleIsHandled
  <2>3. CASE UNCHANGED <<conn, entry>>
    BY <1>0, <2>1, <2>3, BegunRests
  <2> QED  BY <2>1, <2>2, <2>3
<1>6. ASSUME NEW m \in Monitor, Track(m) PROVE BegunInv'
  <2>1. /\ entry[m] = "spawned" /\ entry'[m] = "ranges" /\ wired'[m] = "sampled"
        /\ UNCHANGED <<conn, pending>>
        /\ \A k \in Monitor \ {m} : /\ entry'[k] = entry[k] /\ wired'[k] = wired[k] /\ toSend'[k] = toSend[k]
                                    /\ ap'[k] = ap[k]
    BY <1>0, <1>6 DEF Track, TypeOK
  <2>2. Begun(m)'
    BY <1>0, <2>1 DEF Begun, None
  <2>3. \A k \in Monitor \ {m} : Begun(k)'
    BY <1>0, <2>1 DEF Begun
  <2>4. InTurn'
    BY <1>0, <2>1 DEF InTurn
  <2> QED  BY <2>2, <2>3, <2>4 DEF BegunInv
<1>7. ASSUME NEW m \in Monitor, WiredStep(m) PROVE BegunInv'
  <2>1. WiredFrame(m) /\ entry[m] = "ranges"
    BY <1>0, <1>7, WhoRuns, WiredStepKeeps
  <2>2. \A k \in Monitor : entry[k] # "ranges" => pending'[k] = pending[k]
    BY <2>1 DEF WiredFrame
  <2> QED  BY <1>0, <2>1, <2>2, BegunRests DEF WiredFrame
<1>8. ASSUME NEW m \in Monitor, ApStep(m) \/ ApReport(m) PROVE BegunInv'
  <2>1. entry[m] = "ranges" /\ conn[m] \in Conn
    BY <1>0, <1>8, WhoRuns
  <2>2. /\ UNCHANGED <<conn, entry, wired, toSend, pending>>
        /\ (UNCHANGED ap) \/ \E b \in ApState : Ap(m, b)
    BY <1>0, <1>8, <2>1, ApStepKeeps, ApReportKeeps
  <2>3. \A k \in Monitor : entry[k] # "ranges" => ap'[k] = ap[k]
    BY <1>0, <2>1, <2>2, ApTypes
  <2> QED  BY <1>0, <2>2, <2>3, BegunRests
<1> QED  BY <1>1, <1>2, <1>3, <1>5, <1>6, <1>7, <1>8, WhichStep

-----------------------------------------------------------------------------
(* Every connection is monitored.                                          *)

\* What is in the list is monitored, and a signal is not ahead of its connection.
Known ==
  /\ \A c \in list : Monitored(c)
  /\ \A c \in Conn : \A s \in State : <<c, s>> \in news => Rank[s] <= Rank[link[c]]

\* EveryConnectionMonitored, of one connection and from when Events has the list.
Minded(c) ==
  link[c] \in {"activating", "online"} /\ events \in {"tests", "read"} /\ c \notin todo
      /\ (\A s \in State : <<c, s>> \notin news)
    => c \in unread \cup skipped \/ Monitored(c)

\* The property follows.
LEMMA MindedIsMonitored == (\A c \in Conn : Minded(c)) => EveryConnectionMonitored
BY DEF EveryConnectionMonitored, Minded, Monitored

\* Its strengthening.
MindedInv == Known /\ \A c \in Conn : Minded(c)

\* The steps that change nothing of what it speaks of.
LEMMA MindedRests ==
  ASSUME MindedInv, UNCHANGED <<link, events, todo, news, unread, skipped, list, conn>>
  PROVE  MindedInv'
BY DEF MindedInv, Known, Minded, Monitored

\* A connection that is handled is monitored, or could not be read; no other is disturbed.
LEMMA HandledMinds ==
  ASSUME TypeOK, MindedInv, NEW c \in Conn, Handled(c)
  PROVE  /\ \A d \in Conn : (Monitored(d) => Monitored(d)') /\ (d \in unread => d \in unread')
         /\ c \in unread' \/ Monitored(c)'
<1>1. CASE (unread' = IF Monitored(c) THEN unread ELSE unread \cup {c}) /\ UNCHANGED conn
  BY <1>1 DEF Monitored
<1>2. CASE c \in list /\ UNCHANGED <<unread, conn>>
  BY <1>2 DEF MindedInv, Known, Monitored
<1>3. CASE Given(c) /\ UNCHANGED unread
  <2>1. PICK k \in Monitor : conn[k] = None /\ conn' = [conn EXCEPT ![k] = c]
    BY <1>3 DEF Given
  <2>2. conn'[k] = c /\ \A m \in Monitor \ {k} : conn'[m] = conn[m]
    BY <2>1 DEF TypeOK
  <2> QED  BY <1>3, <2>1, <2>2, ConnAssumption DEF Monitored
<1> QED  BY <1>1, <1>2, <1>3 DEF Handled, Monitored

\* Whoever takes a signal, or a connection from those that were found active, handles it.
LEMMA MindedStays ==
  ASSUME TypeOK, BegunInv, MindedInv, [Next]_vars
  PROVE  MindedInv'
<1> USE DEF envVars, endVars, trackVars, wiredVars
<1>0. TypeOK /\ InTurn /\ MindedInv /\ \A m \in Monitor : Begun(m)
  BY DEF BegunInv
<1>1. CASE Cancel \/ OtherSignal \/ LoopEnds \/ UNCHANGED vars
  BY <1>0, <1>1, MindedRests DEF Cancel, OtherSignal, LoopEnds, vars
<1>2. CASE Begin
  BY <1>0, <1>2 DEF Begin, MindedInv, Known, Minded, Monitored
<1>3. CASE ReadActive
  <2>1. Active \subseteq todo' \cup skipped' /\ UNCHANGED <<link, news, unread, list, conn>>
    BY <1>3 DEF ReadActive
  <2>2. Known'
    BY <1>0, <2>1 DEF MindedInv, Known, Monitored
  <2>3. \A c \in Conn : Minded(c)'
    BY <2>1 DEF Active, Minded
  <2> QED  BY <2>2, <2>3 DEF MindedInv
<1>10. CASE TestErr
  <2>1. /\ events \in {"tests", "read"} /\ UNCHANGED <<link, news, unread, list, conn>>
        /\ todo \cup skipped \subseteq todo' \cup skipped' /\ skipped \subseteq skipped'
    BY <1>10 DEF TestErr
  <2>2. Known'
    BY <1>0, <2>1 DEF MindedInv, Known, Monitored
  <2>3. ASSUME NEW c \in Conn PROVE Minded(c)'
    BY <1>0, <2>1 DEF MindedInv, Minded, Monitored
  <2> QED  BY <2>2, <2>3 DEF MindedInv
<1>4. ASSUME NEW c \in Conn, LinkChanges(c) PROVE MindedInv'
  <2>1. PICK s \in State :
          /\ Rank[s] > Rank[link[c]] /\ link' = [link EXCEPT ![c] = s]
          /\ news' = IF events \in {"watching", "tests", "read"} /\ c \notin list THEN news \cup {<<c, s>>} ELSE news
    BY <1>4 DEF LinkChanges
  <2>2. UNCHANGED <<events, todo, unread, skipped, list, conn>>
    BY <1>4 DEF LinkChanges
  <2>3. link'[c] = s /\ \A d \in Conn \ {c} : link'[d] = link[d]
    BY <1>0, <2>1 DEF TypeOK
  <2>4. \A d \in Conn : \A t \in State : <<d, t>> \in news' => Rank[t] <= Rank[link'[d]]
    <3>1. \A t \in State : Rank[t] \in Nat
      BY States
    <3>2. \A d \in Conn : link[d] \in State
      BY <1>0 DEF TypeOK
    <3> TAKE d \in Conn
    <3> TAKE t \in State
    <3> SUFFICES ASSUME <<d, t>> \in news' PROVE Rank[t] <= Rank[link'[d]]
      OBVIOUS
    <3>3. <<d, t>> \in news \/ (d = c /\ t = s)
      BY <2>1
    <3>4. CASE <<d, t>> \in news
      <4>1. Rank[t] <= Rank[link[d]]
        BY <1>0, <3>4 DEF MindedInv, Known
      <4> QED  BY <2>1, <2>3, <3>1, <3>2, <4>1
    <3>5. CASE d = c /\ t = s
      BY <2>3, <3>1, <3>5
    <3> QED  BY <3>3, <3>4, <3>5
  <2>5. Known'
    BY <1>0, <2>2, <2>4 DEF MindedInv, Known, Monitored
  <2>6. ASSUME NEW d \in Conn PROVE Minded(d)'
    <3>1. CASE d = c
      BY <1>0, <2>1, <2>2, <2>3, <3>1 DEF MindedInv, Known, Minded, Monitored
    <3>2. CASE d # c
      <4>1. \A t \in State : <<d, t>> \in news' <=> <<d, t>> \in news
        BY <2>1, <3>2
      <4> QED  BY <1>0, <2>2, <2>3, <3>2, <4>1 DEF MindedInv, Minded, Monitored
    <3> QED  BY <3>1, <3>2
  <2> QED  BY <2>5, <2>6 DEF MindedInv
<1>5. ASSUME NEW c \in Conn, AddressChanges(c) \/ StrengthChanges(c) PROVE MindedInv'
  BY <1>0, <1>5, MindedRests DEF AddressChanges, StrengthChanges
<1>6. ASSUME NEW c \in Conn, HandleActive(c) PROVE MindedInv'
  <2>1. UNCHANGED <<link, events, news, skipped, list>> /\ todo' = todo \ {c} /\ Handled(c)
    BY <1>0, <1>6, HandleIsHandled DEF HandleActive
  <2>2. /\ \A d \in Conn : (Monitored(d) => Monitored(d)') /\ (d \in unread => d \in unread')
        /\ c \in unread' \/ Monitored(c)'
    BY <1>0, <2>1, HandledMinds
  <2>3. list \subseteq Conn
    BY <1>0 DEF TypeOK
  <2>4. Known'
    BY <1>0, <2>1, <2>2, <2>3 DEF MindedInv, Known
  <2>5. \A d \in Conn : Minded(d)'
    BY <1>0, <2>1, <2>2 DEF MindedInv, Minded
  <2> QED  BY <2>4, <2>5 DEF MindedInv
<1>7. ASSUME NEW c \in Conn, HandleSignal(c) PROVE MindedInv'
  <2>1. UNCHANGED <<link, events, todo, skipped, list>> /\ list \subseteq Conn
    BY <1>0, <1>7 DEF HandleSignal, TypeOK
  <2>2. PICK s \in State :
          /\ <<c, s>> \in news /\ news' = news \ {<<c, s>>}
          /\ IF Rank[s] > 2 THEN UNCHANGED <<unread, conn, entry>>
             ELSE \E err \in BOOLEAN : Handle(c, err)
    BY <1>7 DEF HandleSignal
  <2>3. CASE Rank[s] > 2
    <3>1. Rank[link[c]] > 2
      <4>1. Rank[s] <= Rank[link[c]] /\ link[c] \in State
        BY <1>0, <2>2 DEF MindedInv, Known, TypeOK
      <4> QED  BY <2>3, <4>1, States
    <3>2. link[c] \notin {"activating", "online"}
      BY <3>1, States
    <3>3. UNCHANGED <<unread, conn>>
      BY <2>2, <2>3
    <3>4. \A d \in Conn \ {c} : \A t \in State : <<d, t>> \in news' <=> <<d, t>> \in news
      BY <2>2
    <3>5. Known'
      BY <1>0, <2>1, <2>2, <3>3 DEF MindedInv, Known, Monitored
    <3>6. Minded(c)'
      BY <2>1, <3>2 DEF Minded
    <3>7. \A d \in Conn \ {c} : Minded(d)'
      BY <1>0, <2>1, <3>3, <3>4 DEF MindedInv, Minded, Monitored
    <3> QED  BY <3>5, <3>6, <3>7 DEF MindedInv
  <2>4. CASE ~(Rank[s] > 2)
    <3>1. /\ \A d \in Conn : (Monitored(d) => Monitored(d)') /\ (d \in unread => d \in unread')
          /\ c \in unread' \/ Monitored(c)'
      BY <1>0, <2>2, <2>4, HandleIsHandled, HandledMinds
    <3>2. \A d \in Conn \ {c} : \A t \in State : <<d, t>> \in news' <=> <<d, t>> \in news
      BY <2>2
    <3>3. Known'
      BY <1>0, <2>1, <2>2, <3>1 DEF MindedInv, Known
    <3>4. Minded(c)'
      BY <3>1 DEF Minded
    <3>5. \A d \in Conn \ {c} : Minded(d)'
      BY <1>0, <2>1, <3>1, <3>2 DEF MindedInv, Minded
    <3> QED  BY <3>3, <3>4, <3>5 DEF MindedInv
  <2> QED  BY <2>3, <2>4
<1>8. ASSUME NEW m \in Monitor, Track(m) PROVE MindedInv'
  <2>1. /\ list' = list \cup {conn[m]} /\ news' = {n \in news : n[1] # conn[m]} /\ unread' = unread \ {conn[m]}
        /\ skipped' = skipped \ {conn[m]} /\ UNCHANGED <<link, events, todo, conn>>
    BY <1>8 DEF Track
  <2>2. Monitored(conn[m])
    BY DEF Monitored
  <2>3. Known'
    BY <1>0, <2>1, <2>2 DEF MindedInv, Known, Monitored
  <2>4. ASSUME NEW d \in Conn PROVE Minded(d)'
    <3>1. CASE d = conn[m]
      BY <2>1, <2>2, <3>1 DEF Minded, Monitored
    <3>2. CASE d # conn[m]
      <4>1. \A t \in State : <<d, t>> \in news' <=> <<d, t>> \in news
        BY <2>1, <3>2
      <4> QED  BY <1>0, <2>1, <3>2, <4>1 DEF MindedInv, Minded, Monitored
    <3> QED  BY <3>1, <3>2
  <2> QED  BY <2>3, <2>4 DEF MindedInv
<1>9. ASSUME NEW m \in Monitor, WiredStep(m) \/ ApStep(m) \/ ApReport(m) PROVE MindedInv'
  <2>1. UNCHANGED <<envVars, trackVars>>
    BY <1>0, <1>9, WhoRuns, WiredStepKeeps, ApStepKeeps, ApReportKeeps DEF WiredFrame
  <2> QED  BY <1>0, <2>1, MindedRests
<1> QED  BY <1>1, <1>2, <1>3, <1>4, <1>5, <1>6, <1>7, <1>8, <1>9, <1>10, WhichStep

-----------------------------------------------------------------------------
(* What was reported last.                                                 *)

\* The steps that leave the addresses and what was reported of them alone: no monitor
\* gets calm, and what was read stays read.
LEMMA AddressRests ==
  ASSUME AddressInv, UNCHANGED <<conn, address>>,
         \A m \in Monitor : AddressRead(m) => AddressRead(m)',
         \A m \in Monitor : AddressCalm(m)' => AddressCalm(m),
         \A c \in Conn : reported'[c].address = reported[c].address
  PROVE  AddressInv'
BY DEF AddressInv, AddressTold, Monitored

\* The same of the state.
LEMMA StateRests ==
  ASSUME StateInv, UNCHANGED <<conn, link>>,
         \A m \in Monitor : StateRead(m) => StateRead(m)',
         \A m \in Monitor : StateCalm(m)' => StateCalm(m),
         \A c \in Conn : reported'[c].state = reported[c].state
  PROVE  StateInv'
BY DEF StateInv, StateTold, Monitored

\* The same of the strength.
LEMMA StrengthRests ==
  ASSUME StrengthInv, UNCHANGED <<conn, strength, entry, ap>>,
         \A c \in Conn : reported'[c].strength = reported[c].strength
  PROVE  StrengthInv'
BY DEF StrengthInv, StrengthTold, Monitored

\* The steps of one monitor.
LEMMA AddressMoves ==
  ASSUME TypeOK, AddressInv, NEW m \in Monitor, conn[m] \in Conn, WiredFrame(m), AddressKept(m)
  PROVE  AddressInv'
<1> USE DEF envVars, endVars, trackVars
<1>1. UNCHANGED <<conn, address>>
  BY DEF WiredFrame
<1>2. \A k \in Monitor \ {m} : (AddressRead(k)' <=> AddressRead(k)) /\ (AddressCalm(k)' <=> AddressCalm(k))
  BY <1>1 DEF WiredFrame, AddressRead, AddressCalm
<1>3. \A k \in Monitor : AddressRead(k)'
  BY <1>2 DEF AddressInv, AddressKept
<1>4. ASSUME NEW c \in Conn PROVE AddressTold(c)'
  <2>1. CASE c = conn[m]
    <3>1. AddressCalm(m)' => \/ reported'[c].address = address[c]
                             \/ AddressCalm(m) /\ reported'[c].address = reported[c].address
      BY <2>1 DEF AddressKept, AddressInv
    <3>2. AddressTold(c)
      BY DEF AddressInv
    <3> QED  BY <1>1, <1>2, <2>1, <3>1, <3>2 DEF AddressTold, Monitored
  <2>2. CASE c # conn[m]
    <3>1. AddressTold(c) /\ reported'[c] = reported[c]
      BY <2>2 DEF AddressInv, WiredFrame
    <3> QED  BY <1>1, <1>2, <2>2, <3>1 DEF AddressTold, Monitored
  <2> QED  BY <2>1, <2>2
<1> QED  BY <1>3, <1>4 DEF AddressInv

\* The same of the state.
LEMMA StateMoves ==
  ASSUME TypeOK, StateInv, NEW m \in Monitor, conn[m] \in Conn, WiredFrame(m), StateKept(m)
  PROVE  StateInv'
<1> USE DEF envVars, endVars, trackVars
<1>1. UNCHANGED <<conn, link>>
  BY DEF WiredFrame
<1>2. \A k \in Monitor \ {m} : (StateRead(k)' <=> StateRead(k)) /\ (StateCalm(k)' <=> StateCalm(k))
  BY <1>1 DEF WiredFrame, StateRead, StateCalm
<1>3. \A k \in Monitor : StateRead(k)'
  BY <1>2 DEF StateInv, StateKept
<1>4. ASSUME NEW c \in Conn PROVE StateTold(c)'
  <2>1. CASE c = conn[m]
    <3>1. StateCalm(m)' => \/ reported'[c].state = link[c]
                           \/ StateCalm(m) /\ reported'[c].state = reported[c].state
      BY <2>1 DEF StateKept, StateInv
    <3>2. StateTold(c)
      BY DEF StateInv
    <3> QED  BY <1>1, <1>2, <2>1, <3>1, <3>2 DEF StateTold, Monitored
  <2>2. CASE c # conn[m]
    <3>1. StateTold(c) /\ reported'[c] = reported[c]
      BY <2>2 DEF StateInv, WiredFrame
    <3> QED  BY <1>1, <1>2, <2>2, <3>1 DEF StateTold, Monitored
  <2> QED  BY <2>1, <2>2
<1> QED  BY <1>3, <1>4 DEF StateInv

\* The steps of one access point: what was received of it, if anything, is x.
LEMMA StrengthMoves ==
  ASSUME TypeOK, StrengthInv, NEW m \in Monitor, conn[m] \in Conn, entry[m] = "ranges", NEW b \in ApState,
         Ap(m, b), UNCHANGED <<conn, strength, entry>>, StrengthKnown(b, strength[conn[m]]),
         \A c \in Conn \ {conn[m]} : reported'[c].strength = reported[c].strength,
         StrengthCalm(b) => \/ reported'[conn[m]].strength = strength[conn[m]]
                            \/ StrengthCalm(ap[m]) /\ reported'[conn[m]].strength = reported[conn[m]].strength
  PROVE  StrengthInv'
<1>1. ap'[m] = b /\ \A k \in Monitor \ {m} : ap'[k] = ap[k]
  BY ApTypes
<1>2. \A k \in Monitor : entry'[k] = "ranges" => StrengthKnown(ap'[k], strength'[conn'[k]])
  BY <1>1 DEF StrengthInv
<1>3. ASSUME NEW c \in Conn PROVE StrengthTold(c)'
  <2>1. StrengthTold(c)
    BY DEF StrengthInv
  <2> QED  BY <1>1, <2>1 DEF StrengthTold, Monitored
<1> QED  BY <1>2, <1>3 DEF StrengthInv

\* Whatever the goroutines of an access point do the rest of what was reported stays.
LEMMA ApReportFrame ==
  ASSUME TypeOK, NEW m \in Monitor, conn[m] \in Conn, ApReport(m)
  PROVE  /\ \A c \in Conn : /\ reported'[c].address = reported[c].address
                            /\ reported'[c].state = reported[c].state
         /\ \A c \in Conn \ {conn[m]} : reported'[c].strength = reported[c].strength
<1>1. CASE UNCHANGED reported
  BY <1>1
<1>2. ASSUME NEW x \in Nat, Receive(m, [reported[conn[m]] EXCEPT !.strength = x])
      PROVE  /\ \A c \in Conn : /\ reported'[c].address = reported[c].address
                                /\ reported'[c].state = reported[c].state
             /\ \A c \in Conn \ {conn[m]} : reported'[c].strength = reported[c].strength
  <2>1. /\ [reported[conn[m]] EXCEPT !.strength = x] \in Reports
        /\ [reported[conn[m]] EXCEPT !.strength = x].address = reported[conn[m]].address
        /\ [reported[conn[m]] EXCEPT !.strength = x].state = reported[conn[m]].state
    BY DEF TypeOK, Reports
  <2>2. /\ reported'[conn[m]] = [reported[conn[m]] EXCEPT !.strength = x]
        /\ \A c \in Conn \ {conn[m]} : reported'[c] = reported[c]
    BY <1>2, <2>1, ReceiveTypes
  <2>3. ASSUME NEW c \in Conn
        PROVE  reported'[c].address = reported[c].address /\ reported'[c].state = reported[c].state
    <3>1. CASE c = conn[m]
      BY <2>1, <2>2, <3>1
    <3>2. CASE c # conn[m]
      BY <2>2, <3>2
    <3> QED  BY <3>1, <3>2
  <2> QED  BY <2>2, <2>3
<1> QED  BY <1>1, <1>2, ApReportKeeps

\* A monitor that gets a connection, or tracks it, is not calm, and has read nothing or
\* what is.
LEMMA AddressStays ==
  ASSUME TypeOK, BegunInv, AddressInv, [Next]_vars
  PROVE  AddressInv'
<1> USE DEF envVars, endVars, trackVars, wiredVars
<1>0. TypeOK /\ InTurn /\ AddressInv /\ \A m \in Monitor : Begun(m)
  BY DEF BegunInv
<1>1. ASSUME UNCHANGED <<conn, address, wired, value, toSend, pending, spoiled>>,
             \A c \in Conn : reported'[c].address = reported[c].address
      PROVE  AddressInv'
  BY <1>0, <1>1, AddressRests DEF AddressRead, AddressCalm
<1>2. CASE Cancel \/ Begin \/ ReadActive \/ TestErr \/ OtherSignal \/ LoopEnds
          \/ UNCHANGED vars
  BY <1>1, <1>2 DEF Cancel, Begin, ReadActive, TestErr, OtherSignal, LoopEnds, vars
<1>3. ASSUME NEW c \in Conn, LinkChanges(c) PROVE AddressInv'
  <2>1. PICK s \in State : pending' = [m \in Monitor |-> IF Watches(m, c) THEN StateSignalled(pending[m], s) ELSE pending[m]]
    BY <1>3 DEF LinkChanges
  <2>2. \A m \in Monitor : pending'[m].address = pending[m].address
    BY <1>0, <2>1, StateSignalledIs DEF TypeOK
  <2>3. UNCHANGED <<conn, address, wired, value, toSend, reported>>
    BY <1>3 DEF LinkChanges
  <2>4. \A m \in Monitor : spoiled[m] => spoiled'[m]
    BY <1>0, <1>3 DEF LinkChanges, Missed, TypeOK
  <2> QED  BY <1>0, <2>2, <2>3, <2>4, AddressRests DEF AddressRead, AddressCalm
<1>4. ASSUME NEW c \in Conn, AddressChanges(c) PROVE AddressInv'
  <2> DEFINE n == address[c] + 1
  <2>1. /\ UNCHANGED <<conn, wired, value, toSend, reported>> /\ n \in Nat
        /\ address'[c] = n /\ \A d \in Conn \ {c} : address'[d] = address[d]
    BY <1>0, <1>4 DEF AddressChanges, TypeOK
  <2>2. \A m \in Monitor :
          /\ pending'[m] = IF Watches(m, c) THEN AddressSignalled(pending[m], n) ELSE pending[m]
          /\ spoiled'[m] = (spoiled[m] \/ (conn[m] = c /\ wired[m] = "sampled"))
    <3>1. pending' = [m \in Monitor |-> IF Watches(m, c) THEN AddressSignalled(pending[m], n) ELSE pending[m]]
      BY <1>4 DEF AddressChanges
    <3>2. spoiled' = [m \in Monitor |-> spoiled[m] \/ (conn[m] = c /\ wired[m] = "sampled")]
      BY <1>4 DEF AddressChanges, Missed
    <3> QED  BY <3>1, <3>2
  <2> HIDE DEF n
  <2>3. ASSUME NEW m \in Monitor PROVE AddressSignalled(pending[m], n).address # {}
    <3>1. pending[m] \in Signals
      BY <1>0 DEF TypeOK
    <3> QED  BY <2>1, <3>1, AddressSignalledIs
  <2>4. ASSUME NEW m \in Monitor, conn[m] = c
        PROVE  ~AddressCalm(m)' /\ AddressRead(m)'
    <3>1. CASE Watches(m, c)
      BY <2>2, <2>3, <3>1 DEF AddressCalm, AddressRead
    <3>2. CASE wired[m] = "sampled"
      BY <2>2, <2>4, <3>2 DEF AddressCalm, AddressRead
    <3>3. CASE ~Watches(m, c) /\ wired[m] # "sampled"
      BY <2>1, <2>4, <3>3 DEF AddressCalm, AddressRead, Watches, Live
    <3> QED  BY <3>1, <3>2, <3>3
  <2>5. ASSUME NEW m \in Monitor, conn[m] # c
        PROVE  (AddressCalm(m)' <=> AddressCalm(m)) /\ AddressRead(m)'
    <3>1. AddressRead(m) /\ pending'[m] = pending[m] /\ spoiled'[m] = spoiled[m]
      BY <1>0, <2>2, <2>5 DEF AddressInv, Watches, TypeOK
    <3>2. wired[m] \in Live => conn[m] \in Conn
      BY <1>0 DEF Live, None, Begun, TypeOK
    <3> QED  BY <2>1, <2>5, <3>1, <3>2 DEF AddressCalm, AddressRead
  <2>6. ASSUME NEW d \in Conn PROVE AddressTold(d)'
    <3>1. CASE d = c
      BY <2>1, <2>4, <3>1 DEF AddressTold, Monitored
    <3>2. CASE d # c
      <4>1. AddressTold(d)
        BY <1>0 DEF AddressInv
      <4> QED  BY <2>1, <2>5, <3>2, <4>1 DEF AddressTold, Monitored
    <3> QED  BY <3>1, <3>2
  <2> QED  BY <2>4, <2>5, <2>6 DEF AddressInv
<1>5. ASSUME NEW c \in Conn, StrengthChanges(c) PROVE AddressInv'
  BY <1>1, <1>5 DEF StrengthChanges
<1>6. ASSUME NEW c \in Conn, Handled(c), UNCHANGED <<address, wired, value, toSend, pending, spoiled, reported>>
      PROVE  AddressInv'
  <2>1. CASE UNCHANGED conn
    BY <1>1, <1>6, <2>1
  <2>2. CASE Given(c)
    <3>1. PICK k \in Monitor : conn[k] = None /\ conn' = [conn EXCEPT ![k] = c]
      BY <2>2 DEF Given
    <3>2. conn'[k] = c /\ \A m \in Monitor \ {k} : conn'[m] = conn[m]
      BY <1>0, <3>1 DEF TypeOK
    <3>3. wired[k] = None
      BY <1>0, <3>1 DEF Begun, None
    <3>4. ~AddressCalm(k)' /\ AddressRead(k)'
      BY <1>6, <3>3 DEF AddressCalm, AddressRead, Live, None
    <3>5. \A m \in Monitor \ {k} : (AddressCalm(m)' <=> AddressCalm(m)) /\ (AddressRead(m)' <=> AddressRead(m))
      BY <1>6, <3>2 DEF AddressCalm, AddressRead
    <3>6. ASSUME NEW d \in Conn PROVE AddressTold(d)'
      <4>1. AddressTold(d) /\ (d # c => conn[k] # d)
        BY <1>0, <3>1, ConnAssumption DEF AddressInv
      <4>2. CASE d = c
        BY <3>2, <3>4, <4>2 DEF AddressTold
      <4>3. CASE d # c
        BY <1>6, <3>2, <3>5, <4>1, <4>3 DEF AddressTold, Monitored
      <4> QED  BY <4>2, <4>3
    <3> QED  BY <1>0, <3>4, <3>5, <3>6 DEF AddressInv
  <2> QED  BY <1>6, <2>1, <2>2 DEF Handled
<1>7. ASSUME NEW c \in Conn, HandleActive(c) \/ HandleSignal(c) PROVE AddressInv'
  <2>1. /\ UNCHANGED <<address, wired, value, toSend, pending, spoiled, reported>>
        /\ (\E err \in BOOLEAN : Handle(c, err)) \/ UNCHANGED conn
    BY <1>7 DEF HandleActive, HandleSignal
  <2>2. ASSUME NEW err \in BOOLEAN, Handle(c, err) PROVE AddressInv'
    BY <1>0, <1>6, <2>1, <2>2, HandleIsHandled
  <2>3. CASE UNCHANGED conn
    BY <1>1, <2>1, <2>3
  <2> QED  BY <2>1, <2>2, <2>3
<1>8. ASSUME NEW m \in Monitor, Track(m) PROVE AddressInv'
  <2>0. conn[m] \in Conn
    BY <1>0, <1>8 DEF Track, Begun, TypeOK, None
  <2>1. /\ UNCHANGED <<conn, address, pending, reported>> /\ wired'[m] = "sampled" /\ toSend'[m] = "both"
        /\ \A k \in Monitor \ {m} : /\ wired'[k] = wired[k] /\ value'[k] = value[k] /\ toSend'[k] = toSend[k]
                                    /\ spoiled'[k] = spoiled[k]
    BY <1>0, <1>8 DEF Track, TypeOK
  <2>2. spoiled'[m] \/ value'[m] = [state |-> link[conn[m]], address |-> address[conn[m]]]
    BY <1>0, <1>8 DEF Track, TypeOK
  <2>3. ~AddressCalm(m)' /\ AddressRead(m)'
    BY <2>1, <2>2 DEF AddressCalm, AddressRead
  <2>4. \A k \in Monitor \ {m} : (AddressCalm(k)' <=> AddressCalm(k)) /\ (AddressRead(k)' <=> AddressRead(k))
    BY <2>1 DEF AddressCalm, AddressRead
  <2> QED  BY <1>0, <2>1, <2>3, <2>4, AddressRests
<1>9. ASSUME NEW m \in Monitor, WiredStep(m) PROVE AddressInv'
  BY <1>0, <1>9, WhoRuns, WiredStepKeeps, AddressMoves
<1>10. ASSUME NEW m \in Monitor, ApStep(m) PROVE AddressInv'
  BY <1>0, <1>1, <1>10, WhoRuns, ApStepKeeps
<1>11. ASSUME NEW m \in Monitor, ApReport(m) PROVE AddressInv'
  <2>1. conn[m] \in Conn
    BY <1>0, <1>11, WhoRuns
  <2> QED  BY <1>0, <1>1, <1>11, <2>1, ApReportKeeps, ApReportFrame
<1> QED  BY <1>2, <1>3, <1>4, <1>5, <1>7, <1>8, <1>9, <1>10, <1>11, WhichStep

\* As for the addresses; but the state that a signal carries is the one that is taken.
LEMMA StateStays ==
  ASSUME TypeOK, BegunInv, StateInv, [Next]_vars
  PROVE  StateInv'
<1> USE DEF envVars, endVars, trackVars, wiredVars
<1>0. TypeOK /\ InTurn /\ StateInv /\ \A m \in Monitor : Begun(m)
  BY DEF BegunInv
<1>1. ASSUME UNCHANGED <<conn, link, wired, value, toSend, pending, spoiled, raced>>,
             \A c \in Conn : reported'[c].state = reported[c].state
      PROVE  StateInv'
  BY <1>0, <1>1, StateRests DEF StateRead, StateCalm
<1>2. CASE Cancel \/ Begin \/ ReadActive \/ TestErr \/ OtherSignal \/ LoopEnds
          \/ UNCHANGED vars
  BY <1>1, <1>2 DEF Cancel, Begin, ReadActive, TestErr, OtherSignal, LoopEnds, vars
<1>3. ASSUME NEW c \in Conn, LinkChanges(c) PROVE StateInv'
  <2>1. PICK s \in State :
          /\ link' = [link EXCEPT ![c] = s]
          /\ pending' = [m \in Monitor |-> IF Watches(m, c) THEN StateSignalled(pending[m], s) ELSE pending[m]]
    BY <1>3 DEF LinkChanges
  <2>2. \A m \in Monitor :
          /\ pending'[m] = IF Watches(m, c) THEN StateSignalled(pending[m], s) ELSE pending[m]
          /\ spoiled'[m] = (spoiled[m] \/ (conn[m] = c /\ wired[m] = "sampled"))
          /\ raced'[m] = (raced[m] \/ (Watches(m, c) /\ pending[m].state # {}))
    <3>1. spoiled' = [m \in Monitor |-> spoiled[m] \/ (conn[m] = c /\ wired[m] = "sampled")]
      BY <1>3 DEF LinkChanges, Missed
    <3>2. raced' = [m \in Monitor |-> raced[m] \/ (Watches(m, c) /\ pending[m].state # {})]
      BY <1>3 DEF LinkChanges
    <3> QED  BY <2>1, <3>1, <3>2
  <2>3. /\ UNCHANGED <<conn, wired, value, toSend, reported>>
        /\ link'[c] = s /\ \A d \in Conn \ {c} : link'[d] = link[d]
    BY <1>0, <1>3, <2>1 DEF LinkChanges, TypeOK
  <2>4. ASSUME NEW m \in Monitor PROVE StateSignalled(pending[m], s).state = pending[m].state \cup {s}
    <3>1. pending[m] \in Signals
      BY <1>0 DEF TypeOK
    <3> QED  BY <3>1, StateSignalledIs
  <2>5. ASSUME NEW m \in Monitor, conn[m] = c
        PROVE  ~StateCalm(m)' /\ StateRead(m)'
    <3>1. CASE Watches(m, c)
      <4>1. pending'[m].state = pending[m].state \cup {s}
        BY <2>2, <2>4, <3>1
      <4>2. ~raced'[m] => pending[m].state = {}
        BY <2>2, <3>1
      <4> QED  BY <2>3, <2>5, <4>1, <4>2 DEF StateCalm, StateRead
    <3>2. CASE wired[m] = "sampled"
      BY <2>2, <2>5, <3>2 DEF StateCalm, StateRead
    <3>3. CASE ~Watches(m, c) /\ wired[m] # "sampled"
      BY <2>3, <2>5, <3>3 DEF StateCalm, StateRead, Watches, Live
    <3> QED  BY <3>1, <3>2, <3>3
  <2>6. ASSUME NEW m \in Monitor, conn[m] # c
        PROVE  (StateCalm(m)' <=> StateCalm(m)) /\ StateRead(m)'
    <3>1. StateRead(m) /\ pending'[m] = pending[m] /\ spoiled'[m] = spoiled[m] /\ raced'[m] = raced[m]
      BY <1>0, <2>2, <2>6 DEF StateInv, Watches, TypeOK
    <3>2. wired[m] \in Live => conn[m] \in Conn
      BY <1>0 DEF Live, None, Begun, TypeOK
    <3> QED  BY <2>3, <2>6, <3>1, <3>2 DEF StateCalm, StateRead
  <2>7. ASSUME NEW d \in Conn PROVE StateTold(d)'
    <3>1. CASE d = c
      BY <2>3, <2>5, <3>1 DEF StateTold, Monitored
    <3>2. CASE d # c
      <4>1. StateTold(d)
        BY <1>0 DEF StateInv
      <4> QED  BY <2>3, <2>6, <3>2, <4>1 DEF StateTold, Monitored
    <3> QED  BY <3>1, <3>2
  <2> QED  BY <2>5, <2>6, <2>7 DEF StateInv
<1>4. ASSUME NEW c \in Conn, AddressChanges(c) PROVE StateInv'
  <2> DEFINE n == address[c] + 1
  <2>1. pending' = [m \in Monitor |-> IF Watches(m, c) THEN AddressSignalled(pending[m], n) ELSE pending[m]]
    BY <1>4 DEF AddressChanges
  <2>2. n \in Nat
    BY <1>0 DEF TypeOK
  <2> HIDE DEF n
  <2>3. ASSUME NEW m \in Monitor PROVE pending'[m].state = pending[m].state
    <3>1. pending[m] \in Signals
      BY <1>0 DEF TypeOK
    <3>2. AddressSignalled(pending[m], n).state = pending[m].state
      BY <2>2, <3>1, AddressSignalledIs
    <3> QED  BY <2>1, <3>2
  <2>4. UNCHANGED <<conn, link, wired, value, toSend, raced, reported>>
    BY <1>4 DEF AddressChanges
  <2>5. \A m \in Monitor : spoiled[m] => spoiled'[m]
    BY <1>0, <1>4 DEF AddressChanges, Missed, TypeOK
  <2> QED  BY <1>0, <2>3, <2>4, <2>5, StateRests DEF StateRead, StateCalm
<1>5. ASSUME NEW c \in Conn, StrengthChanges(c) PROVE StateInv'
  BY <1>1, <1>5 DEF StrengthChanges
<1>6. ASSUME NEW c \in Conn, Handled(c), UNCHANGED <<link, wired, value, toSend, pending, spoiled, raced, reported>>
      PROVE  StateInv'
  <2>1. CASE UNCHANGED conn
    BY <1>1, <1>6, <2>1
  <2>2. CASE Given(c)
    <3>1. PICK k \in Monitor : conn[k] = None /\ conn' = [conn EXCEPT ![k] = c]
      BY <2>2 DEF Given
    <3>2. conn'[k] = c /\ \A m \in Monitor \ {k} : conn'[m] = conn[m]
      BY <1>0, <3>1 DEF TypeOK
    <3>3. wired[k] = None
      BY <1>0, <3>1 DEF Begun, None
    <3>4. ~StateCalm(k)' /\ StateRead(k)'
      BY <1>6, <3>3 DEF StateCalm, StateRead, Live, None
    <3>5. \A m \in Monitor \ {k} : (StateCalm(m)' <=> StateCalm(m)) /\ (StateRead(m)' <=> StateRead(m))
      BY <1>6, <3>2 DEF StateCalm, StateRead
    <3>6. ASSUME NEW d \in Conn PROVE StateTold(d)'
      <4>1. StateTold(d) /\ (d # c => conn[k] # d)
        BY <1>0, <3>1, ConnAssumption DEF StateInv
      <4>2. CASE d = c
        BY <3>2, <3>4, <4>2 DEF StateTold
      <4>3. CASE d # c
        BY <1>6, <3>2, <3>5, <4>1, <4>3 DEF StateTold, Monitored
      <4> QED  BY <4>2, <4>3
    <3> QED  BY <1>0, <3>4, <3>5, <3>6 DEF StateInv
  <2> QED  BY <1>6, <2>1, <2>2 DEF Handled
<1>7. ASSUME NEW c \in Conn, HandleActive(c) \/ HandleSignal(c) PROVE StateInv'
  <2>1. /\ UNCHANGED <<link, wired, value, toSend, pending, spoiled, raced, reported>>
        /\ (\E err \in BOOLEAN : Handle(c, err)) \/ UNCHANGED conn
    BY <1>7 DEF HandleActive, HandleSignal
  <2>2. ASSUME NEW err \in BOOLEAN, Handle(c, err) PROVE StateInv'
    BY <1>0, <1>6, <2>1, <2>2, HandleIsHandled
  <2>3. CASE UNCHANGED conn
    BY <1>1, <2>1, <2>3
  <2> QED  BY <2>1, <2>2, <2>3
<1>8. ASSUME NEW m \in Monitor, Track(m) PROVE StateInv'
  <2>1. /\ UNCHANGED <<conn, link, pending, raced, reported>> /\ wired'[m] = "sampled" /\ toSend'[m] = "both"
        /\ \A k \in Monitor \ {m} : /\ wired'[k] = wired[k] /\ value'[k] = value[k] /\ toSend'[k] = toSend[k]
                                    /\ spoiled'[k] = spoiled[k]
    BY <1>0, <1>8 DEF Track, TypeOK
  <2>2. spoiled'[m] \/ value'[m] = [state |-> link[conn[m]], address |-> address[conn[m]]]
    BY <1>0, <1>8 DEF Track, TypeOK
  <2>3. pending[m].state = {}
    BY <1>0, <1>8 DEF Track, Begun, None
  <2>4. ~StateCalm(m)' /\ StateRead(m)'
    BY <2>1, <2>2, <2>3 DEF StateCalm, StateRead
  <2>5. \A k \in Monitor \ {m} : (StateCalm(k)' <=> StateCalm(k)) /\ (StateRead(k)' <=> StateRead(k))
    BY <2>1 DEF StateCalm, StateRead
  <2> QED  BY <1>0, <2>1, <2>4, <2>5, StateRests
<1>9. ASSUME NEW m \in Monitor, WiredStep(m) PROVE StateInv'
  BY <1>0, <1>9, WhoRuns, WiredStepKeeps, StateMoves
<1>10. ASSUME NEW m \in Monitor, ApStep(m) PROVE StateInv'
  BY <1>0, <1>1, <1>10, WhoRuns, ApStepKeeps
<1>11. ASSUME NEW m \in Monitor, ApReport(m) PROVE StateInv'
  <2>1. conn[m] \in Conn
    BY <1>0, <1>11, WhoRuns
  <2> QED  BY <1>0, <1>1, <1>11, <2>1, ApReportKeeps, ApReportFrame
<1> QED  BY <1>2, <1>3, <1>4, <1>5, <1>7, <1>8, <1>9, <1>10, <1>11, WhichStep

\* A monitor has no strength to send before its goroutines are started; a change that is
\* too early makes it late.
LEMMA StrengthStays ==
  ASSUME TypeOK, BegunInv, StrengthInv, [Next]_vars
  PROVE  StrengthInv'
<1> USE DEF envVars, endVars, trackVars, wiredVars
<1>0. TypeOK /\ InTurn /\ StrengthInv /\ \A m \in Monitor : Begun(m)
  BY DEF BegunInv
<1>1. CASE Cancel \/ Begin \/ ReadActive \/ TestErr \/ OtherSignal \/ LoopEnds
          \/ UNCHANGED vars
  BY <1>0, <1>1, StrengthRests DEF Cancel, Begin, ReadActive, TestErr, OtherSignal, LoopEnds, vars
<1>2. ASSUME NEW c \in Conn, LinkChanges(c) \/ AddressChanges(c) PROVE StrengthInv'
  BY <1>0, <1>2, StrengthRests DEF LinkChanges, AddressChanges
<1>3. ASSUME NEW c \in Conn, StrengthChanges(c) PROVE StrengthInv'
  <2> DEFINE n == strength[c] + 1
  <2>1. /\ UNCHANGED <<conn, entry, reported>> /\ n \in Nat
        /\ strength'[c] = n /\ \A d \in Conn \ {c} : strength'[d] = strength[d]
    BY <1>0, <1>3 DEF StrengthChanges, TypeOK
  <2>2. \A m \in Monitor : ap'[m] = IF conn[m] = c THEN StrengthSignalled(ap[m], n) ELSE ap[m]
    BY <1>3 DEF StrengthChanges
  <2> HIDE DEF n
  <2>3. ASSUME NEW m \in Monitor PROVE Signalled(ap[m], StrengthSignalled(ap[m], n), n)
    <3>1. ap[m] \in ApState
      BY <1>0 DEF TypeOK
    <3> QED  BY <2>1, <3>1, StrengthSignalledIs
  <2>4. ASSUME NEW m \in Monitor, conn[m] = c
        PROVE  ~StrengthCalm(ap'[m]) /\ (entry[m] = "ranges" => StrengthKnown(ap'[m], n))
    <3>1. entry[m] = "ranges" => StrengthKnown(ap[m], strength[conn[m]])
      BY <1>0 DEF StrengthInv
    <3>2. Signalled(ap[m], ap'[m], n)
      BY <2>2, <2>3, <2>4
    <3>3. ~StrengthCalm(ap'[m])
      BY <3>2 DEF Signalled, StrengthCalm
    <3>4. StrengthKnown(ap[m], strength[conn[m]]) => StrengthKnown(ap'[m], n)
      BY <3>2 DEF Signalled, StrengthKnown
    <3> QED  BY <3>1, <3>3, <3>4
  <2>5. ASSUME NEW m \in Monitor, entry'[m] = "ranges" PROVE StrengthKnown(ap'[m], strength'[conn'[m]])
    <3>1. CASE conn[m] = c
      BY <2>1, <2>4, <2>5, <3>1
    <3>2. CASE conn[m] # c
      <4>1. conn[m] \in Conn /\ StrengthKnown(ap[m], strength[conn[m]])
        BY <1>0, <2>1, <2>5 DEF StrengthInv, Begun, TypeOK, None
      <4> QED  BY <2>1, <2>2, <3>2, <4>1
    <3> QED  BY <3>1, <3>2
  <2>6. ASSUME NEW d \in Conn PROVE StrengthTold(d)'
    <3>1. CASE d = c
      BY <2>1, <2>4, <3>1 DEF StrengthTold, Monitored
    <3>2. CASE d # c
      <4>1. StrengthTold(d)
        BY <1>0 DEF StrengthInv
      <4> QED  BY <2>1, <2>2, <3>2, <4>1 DEF StrengthTold, Monitored
    <3> QED  BY <3>1, <3>2
  <2> QED  BY <2>5, <2>6 DEF StrengthInv
<1>4. ASSUME NEW c \in Conn, Handled(c), UNCHANGED <<strength, ap, reported>>
      PROVE  StrengthInv'
  <2>1. CASE UNCHANGED <<conn, entry>>
    BY <1>0, <1>4, <2>1, StrengthRests
  <2>2. CASE Given(c)
    <3>1. PICK k \in Monitor : /\ conn[k] = None /\ conn' = [conn EXCEPT ![k] = c]
                               /\ entry' = [entry EXCEPT ![k] = "spawned"]
      BY <2>2 DEF Given
    <3>2. /\ conn'[k] = c /\ entry'[k] = "spawned"
          /\ \A m \in Monitor \ {k} : conn'[m] = conn[m] /\ entry'[m] = entry[m]
      BY <1>0, <3>1 DEF TypeOK
    <3>3. ~StrengthCalm(ap[k])
      BY <1>0, <3>1 DEF Begun, Unstarted, StrengthCalm, None
    <3>4. ASSUME NEW d \in Conn PROVE StrengthTold(d)'
      <4>1. StrengthTold(d) /\ (d # c => conn[k] # d)
        BY <1>0, <3>1, ConnAssumption DEF StrengthInv
      <4>2. CASE d = c
        BY <1>4, <3>2, <3>3, <4>2 DEF StrengthTold
      <4>3. CASE d # c
        BY <1>4, <3>2, <4>1, <4>3 DEF StrengthTold, Monitored
      <4> QED  BY <4>2, <4>3
    <3>5. \A m \in Monitor : entry'[m] = "ranges" => StrengthKnown(ap'[m], strength'[conn'[m]])
      BY <1>0, <1>4, <3>2 DEF StrengthInv
    <3> QED  BY <3>4, <3>5 DEF StrengthInv
  <2> QED  BY <1>4, <2>1, <2>2 DEF Handled
<1>5. ASSUME NEW c \in Conn, HandleActive(c) \/ HandleSignal(c) PROVE StrengthInv'
  <2>1. /\ UNCHANGED <<strength, ap, reported>>
        /\ (\E err \in BOOLEAN : Handle(c, err)) \/ UNCHANGED <<conn, entry>>
    BY <1>5 DEF HandleActive, HandleSignal
  <2>2. ASSUME NEW err \in BOOLEAN, Handle(c, err) PROVE StrengthInv'
    BY <1>0, <1>4, <2>1, <2>2, HandleIsHandled
  <2>3. CASE UNCHANGED <<conn, entry>>
    BY <1>0, <2>1, <2>3, StrengthRests
  <2> QED  BY <2>1, <2>2, <2>3
<1>6. ASSUME NEW m \in Monitor, Track(m) PROVE StrengthInv'
  <2>1. /\ UNCHANGED <<conn, strength, reported>> /\ entry[m] = "spawned"
        /\ ap'[m] = IF conn[m] \in wireless THEN ApStarts ELSE ap[m]
        /\ \A k \in Monitor \ {m} : entry'[k] = entry[k] /\ ap'[k] = ap[k]
    BY <1>0, <1>6 DEF Track, TypeOK
  <2>2. Unstarted(ap[m])
    BY <1>0, <2>1 DEF Begun
  <2>3. \A now : StrengthKnown(ApStarts, now) /\ StrengthKnown(ap[m], now)
    BY <2>2, ApStartsIs DEF StrengthKnown, Unstarted, None
  <2>4. ~StrengthCalm(ApStarts) /\ ~StrengthCalm(ap[m])
    BY <2>2, ApStartsIs DEF StrengthCalm, Unstarted, None
  <2>5. \A k \in Monitor : entry'[k] = "ranges" => StrengthKnown(ap'[k], strength'[conn'[k]])
    BY <1>0, <2>1, <2>3 DEF StrengthInv
  <2>6. ASSUME NEW c \in Conn PROVE StrengthTold(c)'
    <3>1. StrengthTold(c)
      BY <1>0 DEF StrengthInv
    <3> QED  BY <2>1, <2>4, <3>1 DEF StrengthTold, Monitored
  <2> QED  BY <2>5, <2>6 DEF StrengthInv
<1>7. ASSUME NEW m \in Monitor, WiredStep(m) PROVE StrengthInv'
  <2>1. conn[m] \in Conn /\ WiredFrame(m)
    BY <1>0, <1>7, WhoRuns, WiredStepKeeps
  <2>2. UNCHANGED <<conn, strength, entry, ap>> /\ \A c \in Conn : reported'[c].strength = reported[c].strength
    BY <2>1 DEF WiredFrame
  <2> QED  BY <1>0, <2>2, StrengthRests
<1>8. ASSUME NEW m \in Monitor, ApStep(m) PROVE StrengthInv'
  <2>1. conn[m] \in Conn /\ entry[m] = "ranges" /\ StrengthKnown(ap[m], strength[conn[m]])
    BY <1>0, <1>8, WhoRuns DEF StrengthInv
  <2>2. /\ UNCHANGED <<conn, strength, entry, reported>>
        /\ (UNCHANGED ap) \/ \E b \in ApState : Ap(m, b) /\ Kept(ap[m], b, strength[conn[m]])
    BY <1>0, <1>8, <2>1, ApStepKeeps
  <2>3. CASE UNCHANGED ap
    BY <1>0, <2>2, <2>3, StrengthRests
  <2>4. ASSUME NEW b \in ApState, Ap(m, b), Kept(ap[m], b, strength[conn[m]]) PROVE StrengthInv'
    <3>1. StrengthKnown(b, strength[conn[m]]) /\ (StrengthCalm(b) => StrengthCalm(ap[m]))
      BY <2>1, <2>4 DEF Kept
    <3> QED  BY <1>0, <2>1, <2>2, <2>4, <3>1, StrengthMoves
  <2> QED  BY <2>2, <2>3, <2>4
<1>9. ASSUME NEW m \in Monitor, ApReport(m) PROVE StrengthInv'
  <2>1. conn[m] \in Conn /\ entry[m] = "ranges" /\ StrengthKnown(ap[m], strength[conn[m]])
    BY <1>0, <1>9, WhoRuns DEF StrengthInv
  <2>2. /\ UNCHANGED <<conn, strength, entry>>
        /\ \/ UNCHANGED <<ap, reported>>
           \/ \E b \in ApState, x \in Nat :
                /\ Ap(m, b) /\ Receive(m, [reported[conn[m]] EXCEPT !.strength = x])
                /\ StrengthKnown(ap[m], strength[conn[m]]) =>
                     StrengthKnown(b, strength[conn[m]]) /\ (StrengthCalm(b) => x = strength[conn[m]])
    BY <1>0, <1>9, <2>1, ApReportKeeps
  <2>3. CASE UNCHANGED <<ap, reported>>
    BY <1>0, <2>2, <2>3, StrengthRests
  <2>4. ASSUME NEW b \in ApState, NEW x \in Nat,
               Ap(m, b), Receive(m, [reported[conn[m]] EXCEPT !.strength = x]),
               StrengthKnown(b, strength[conn[m]]), StrengthCalm(b) => x = strength[conn[m]]
        PROVE  StrengthInv'
    <3>1. \A c \in Conn \ {conn[m]} : reported'[c].strength = reported[c].strength
      BY <1>0, <1>9, <2>1, ApReportFrame
    <3>2. reported'[conn[m]].strength = x
      <4>1. [reported[conn[m]] EXCEPT !.strength = x] \in Reports
            /\ [reported[conn[m]] EXCEPT !.strength = x].strength = x
        BY <1>0, <2>1 DEF Reports, TypeOK
      <4> QED  BY <1>0, <2>1, <2>4, <4>1, ReceiveTypes
    <3> QED  BY <1>0, <2>1, <2>2, <2>4, <3>1, <3>2, StrengthMoves
  <2> QED  BY <2>1, <2>2, <2>3, <2>4
<1> QED  BY <1>1, <1>2, <1>3, <1>5, <1>6, <1>7, <1>8, <1>9, WhichStep

-----------------------------------------------------------------------------
(* The theorems.                                                           *)

\* The inductive invariant,
MonitorInv == TypeOK /\ BegunInv /\ MindedInv /\ AddressInv /\ StateInv /\ StrengthInv

\* which holds in every state.
LEMMA MonitorAlways == Spec => []MonitorInv
<1>1. Init => MonitorInv
  <2> SUFFICES ASSUME Init PROVE MonitorInv
    OBVIOUS
  <2>1. TypeOK
    <3>1. ApIdle \in ApState
      BY ApStartsIs
    <3>2. /\ [state |-> "unknown", address |-> 0] \in Sensors /\ [state |-> {}, address |-> {}] \in Signals
          /\ [state |-> "unknown", address |-> 0, strength |-> 0] \in Reports
      BY DEF Sensors, Signals, Reports
    <3>3. link \in [Conn -> State]
      BY States DEF Init
    <3> QED  BY <3>1, <3>2, <3>3 DEF Init, TypeOK
  <2>2. \A m \in Monitor : /\ conn[m] = None /\ entry[m] = None /\ wired[m] = None /\ toSend[m] = "nothing"
                           /\ Unstarted(ap[m]) /\ pending[m].state = {}
    BY DEF Init, Unstarted, ApIdle
  <2>3. BegunInv
    <3>1. \A m \in Monitor : Begun(m)
      BY <2>2 DEF Begun, None
    <3>2. \A m \in Monitor : conn[m] # None <=> m <= 0
      BY <2>2 DEF Monitor
    <3>3. InTurn
      BY <3>2 DEF InTurn
    <3> QED  BY <3>1, <3>3 DEF BegunInv
  <2>4. MindedInv
    BY DEF Init, MindedInv, Known, Minded
  <2>5. \A c \in Conn : ~Monitored(c)
    BY <2>2, ConnAssumption DEF Monitored
  <2>6. AddressInv /\ StateInv
    BY <2>2, <2>5 DEF AddressInv, StateInv, AddressRead, StateRead, AddressTold, StateTold, Live, None
  <2>7. StrengthInv
    BY <2>2, <2>5 DEF StrengthInv, StrengthTold, None
  <2> QED  BY <2>1, <2>3, <2>4, <2>6, <2>7 DEF MonitorInv
<1>2. MonitorInv /\ [Next]_vars => MonitorInv'
  BY TypesStay, BegunStays, MindedStays, AddressStays, StateStays, StrengthStays DEF MonitorInv
<1> QED  BY <1>1, <1>2, PTL DEF Spec

\* The variables of the monitors have their types.
THEOREM ConnectionTypes == Spec => []TypeOK
<1>1. MonitorInv => TypeOK
  BY DEF MonitorInv
<1> QED  BY <1>1, MonitorAlways, PTL

\* No active connection is overlooked between the watch and the list of active ones, but
\* for one that could not be read, and for those of a list that could not be, or that
\* Events passed over because its loop had set err.
THEOREM NoneIsOverlooked == Spec => []EveryConnectionMonitored
<1>1. MonitorInv => EveryConnectionMonitored
  BY MindedIsMonitored DEF MonitorInv, MindedInv
<1> QED  BY <1>1, MonitorAlways, PTL

\* What was reported last of a connection is what is, once its monitors have nothing left
\* to send or to read and nothing went wrong.
THEOREM ReportsAreTrue == Spec => []LastWordIsTruth
<1>1. ASSUME MonitorInv, NEW c \in Conn, NEW k \in Monitor, conn[k] = c
      PROVE  LET mine == {m \in Monitor : conn[m] = c /\ entry[m] # None} IN
             /\ (\A m \in mine : Settled(m)) => reported[c].address = address[c]
             /\ (\A m \in mine : Settled(m) /\ ~raced[m]) => reported[c].state = link[c]
             /\ (\A m \in mine : SettledAp(m)) => reported[c].strength = strength[c]
  <2>1. Monitored(c) /\ AddressTold(c) /\ StateTold(c) /\ StrengthTold(c)
    BY <1>1 DEF Monitored, MonitorInv, AddressInv, StateInv, StrengthInv
  <2>2. \A m \in Monitor : conn[m] = c => entry[m] # None
    BY <1>1, ConnAssumption DEF MonitorInv, BegunInv, Begun
  <2>3. \A m \in Monitor : Settled(m) => AddressCalm(m)
    BY DEF Settled, AddressCalm
  <2>4. \A m \in Monitor : Settled(m) /\ ~raced[m] => StateCalm(m)
    BY DEF Settled, StateCalm
  <2>5. \A m \in Monitor : SettledAp(m) => StrengthCalm(ap[m])
    BY DEF SettledAp, StrengthCalm
  <2>6. (\A m \in Monitor : conn[m] = c => Settled(m)) => reported[c].address = address[c]
    BY <2>1, <2>3 DEF AddressTold
  <2>7. (\A m \in Monitor : conn[m] = c => Settled(m) /\ ~raced[m]) => reported[c].state = link[c]
    BY <2>1, <2>4 DEF StateTold
  <2>8. (\A m \in Monitor : conn[m] = c => SettledAp(m)) => reported[c].strength = strength[c]
    BY <2>1, <2>5 DEF StrengthTold
  <2> QED  BY <2>2, <2>6, <2>7, <2>8
<1>2. MonitorInv => LastWordIsTruth
  BY <1>1 DEF LastWordIsTruth
<1> QED  BY <1>2, MonitorAlways, PTL

\* A monitor of whose goroutines one is too late to send what was read first.
Hasty(m) ==
  \/ wired[m] \in {"closed", "failed"} /\ toSend[m] # "nothing"
  \/ ap[m].loop = "closed" /\ ap[m].init = "sends"
  \/ ap[m].watch = "returned" /\ ap[m].first = "sends"

\* A step that ends the program is the end of the context, or leaves its monitor hasty.
LEMMA PanicsInHaste ==
  ASSUME TypeOK, [Next]_vars, PanicOnlyInHaste
  PROVE  PanicOnlyInHaste'
<1>1. PanicOnlyInHaste <=> (crashed => cancelled \/ \E m \in Monitor : Hasty(m))
  BY Zenon DEF PanicOnlyInHaste, Hasty
<1>2. PanicOnlyInHaste' <=> (crashed' => cancelled' \/ \E m \in Monitor : Hasty(m)')
  BY Zenon DEF PanicOnlyInHaste, Hasty
<1>3. CASE UNCHANGED vars
  BY <1>1, <1>2, <1>3 DEF vars, endVars, wiredVars, Hasty
<1>4. ASSUME ~crashed, Cancel \/ Begin \/ ReadActive \/ TestErr \/ OtherSignal \/ LoopEnds PROVE PanicOnlyInHaste'
  <2>1. CASE Cancel \/ Begin \/ ReadActive \/ TestErr \/ OtherSignal
    <3>1. UNCHANGED crashed
      BY <2>1 DEF Cancel, Begin, ReadActive, TestErr, OtherSignal, endVars
    <3> QED  BY <1>2, <1>4, <3>1
  <2>2. CASE LoopEnds
    <3>1. cancelled'
      BY <2>2 DEF LoopEnds
    <3> QED  BY <1>2, <3>1
  <2> QED  BY <1>4, <2>1, <2>2
<1>5. ASSUME ~crashed, UNCHANGED crashed PROVE PanicOnlyInHaste'
  BY <1>2, <1>5
<1>6. ASSUME NEW m \in Monitor, Hasty(m)' \/ cancelled' PROVE PanicOnlyInHaste'
  BY <1>2, <1>6
<1>7. ASSUME NEW c \in Conn, ~crashed,
             \/ LinkChanges(c) \/ AddressChanges(c) \/ StrengthChanges(c)
             \/ HandleActive(c) \/ HandleSignal(c)
      PROVE  PanicOnlyInHaste'
  BY <1>5, <1>7 DEF LinkChanges, AddressChanges, StrengthChanges, HandleActive, HandleSignal, endVars
<1>8. ASSUME NEW m \in Monitor, ~crashed, Track(m) \/ WiredStep(m) PROVE PanicOnlyInHaste'
  <2>1. CASE Track(m)
    BY <1>5, <1>8, <2>1 DEF Track, endVars
  <2>2. CASE SendFirst(m) \/ StateSignal(m)
    BY <1>5, <1>8, <2>2 DEF SendFirst, StateSignal, endVars
  <2>3. ASSUME GoOn(m), UNCHANGED toSend PROVE PanicOnlyInHaste'
    BY <1>2, <1>6, <2>3 DEF GoOn, Hasty, TypeOK
  <2>4. CASE AddressSignal(m)
    BY <1>5, <1>8, <2>3, <2>4 DEF AddressSignal
  <2>5. CASE SendChanged(m)
    BY <2>3, <2>5 DEF SendChanged
  <2>6. CASE StopMonitor(m)
    BY <1>2, <2>6 DEF StopMonitor
  <2>7. CASE StartWatch(m)
    BY <1>2, <1>5, <1>6, <1>8, <2>7 DEF StartWatch, Hasty, TypeOK
  <2> QED  BY <1>8, <2>1, <2>2, <2>4, <2>5, <2>6, <2>7 DEF WiredStep, WiredLoop
<1>9. ASSUME NEW m \in Monitor, ~crashed, ApStep(m) \/ ApReport(m) PROVE PanicOnlyInHaste'
  <2>1. ap[m] \in ApState
    BY DEF TypeOK
  <2>2. CASE \/ ReadFirstStrength(m) \/ StartApWatch(m) \/ TakeSignal(m) \/ StrengthSignal(m)
             \/ StopForwarding(m) \/ SendStrength(m)
    <3>1. CASE ReadFirstStrength(m) \/ StartApWatch(m)
      BY <1>5, <1>9, <3>1 DEF ReadFirstStrength, StartApWatch, endVars
    <3>2. CASE TakeSignal(m) \/ StrengthSignal(m)
      <4>1. UNCHANGED endVars
        BY Zenon, <3>2 DEF TakeSignal, StrengthSignal
      <4> QED  BY <1>5, <1>9, <4>1 DEF endVars
    <3>3. CASE StopForwarding(m) \/ SendStrength(m)
      BY <1>5, <1>9, <3>3 DEF StopForwarding, SendStrength, endVars
    <3> QED  BY <2>2, <3>1, <3>2, <3>3
  <2>3. CASE SendFirstStrength(m)
    <3>1. UNCHANGED crashed \/ (UNCHANGED ap /\ ap[m].loop = "closed" /\ ap[m].init = "sends")
      BY <2>3 DEF SendFirstStrength
    <3> QED  BY <1>5, <1>6, <1>9, <3>1 DEF Hasty
  <2>4. CASE WatchAp(m)
    <3>1. UNCHANGED crashed \/ (UNCHANGED ap /\ ap[m].watch = "returned" /\ ap[m].first = "sends")
      BY <2>4 DEF WatchAp
    <3> QED  BY <1>5, <1>6, <1>9, <3>1 DEF Hasty
  <2>5. CASE StopWifi(m)
    <3>1. ap'[m] = [ap[m] EXCEPT !.loop = "closed"] /\ crashed' = (ap[m].init = "sends")
      BY <2>5 DEF StopWifi, Ap, TypeOK
    <3>2. ap'[m].loop = "closed" /\ ap'[m].init = ap[m].init
      BY <2>1, <3>1 DEF ApState
    <3> QED  BY <1>2, <1>6, <3>1, <3>2 DEF Hasty
  <2>6. CASE StopApWatch(m)
    <3>1. ap'[m] = [ap[m] EXCEPT !.watch = "returned"] /\ crashed' = (ap[m].first = "sends")
      BY <2>6 DEF StopApWatch, Ap, TypeOK
    <3>2. ap'[m].watch = "returned" /\ ap'[m].first = ap[m].first
      BY <2>1, <3>1 DEF ApState
    <3> QED  BY <1>2, <1>6, <3>1, <3>2 DEF Hasty
  <2> QED  BY <1>9, <2>2, <2>3, <2>4, <2>5, <2>6 DEF ApStep, ApReport
<1> QED  BY <1>3, <1>4, <1>7, <1>8, <1>9, WhichStep

\* The agent panics only when it stops, or for a connection that is gone before what was
\* read of it first was received.
THEOREM PanicsAreKnown == Spec => []PanicOnlyInHaste
<1>1. Init => PanicOnlyInHaste
  BY DEF Init, PanicOnlyInHaste
<1>2. TypeOK /\ PanicOnlyInHaste /\ [Next]_vars => PanicOnlyInHaste'
  BY PanicsInHaste
<1>3. MonitorInv => TypeOK
  BY DEF MonitorInv
<1> QED  BY <1>1, <1>2, <1>3, MonitorAlways, PTL DEF Spec
=============================================================================
