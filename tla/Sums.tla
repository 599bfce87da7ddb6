-------------------------------- MODULE Sums --------------------------------
(***************************************************************************)
(* Sums and maxima of natural numbers over finite sets, and sequences that *)
(* hold nothing twice, for the proofs about the components.  The folds of  *)
(* the community modules are recursive functions; that the recursion is    *)
(* well defined and what it yields is shown here once: a sum is the number *)
(* of points under its graph, and sets of points can be counted.           *)
(***************************************************************************)
EXTENDS Integers, FiniteSetsExt, SequencesExt, FiniteSetTheorems, SequenceTheorems, TLAPS

\* The points under w at x, and over the whole of S.
Column(w, x) == {x} \X (1 .. w[x])
Points(w, S) == UNION {Column(w, x) : x \in S}

Total(w, S) == Cardinality(Points(w, S))

\* What FiniteSetsExt's fold computes with +, one element after the other.
Sums(f, w, S) ==
    f = [s \in SUBSET S |-> IF s = {} THEN 0
                            ELSE w[CHOOSE x \in s : TRUE] + f[s \ {CHOOSE x \in s : TRUE}]]

-----------------------------------------------------------------------------
LEMMA ColumnCounts ==
    ASSUME NEW w, NEW x, w[x] \in Nat
    PROVE  IsFiniteSet(Column(w, x)) /\ Cardinality(Column(w, x)) = w[x]
<1>1. IsFiniteSet(1 .. w[x]) /\ Cardinality(1 .. w[x]) = w[x]
  BY FS_Interval, SMTT(30)
<1>2. IsFiniteSet({x}) /\ Cardinality({x}) = 1
  BY FS_Singleton
<1>3. /\ IsFiniteSet({x} \X (1 .. w[x]))
      /\ Cardinality({x} \X (1 .. w[x])) = Cardinality({x}) * Cardinality(1 .. w[x])
  BY <1>1, <1>2, FS_Product
<1> QED
  BY <1>1, <1>2, <1>3 DEF Column

LEMMA PointsAreFinite ==
    ASSUME NEW S, IsFiniteSet(S), NEW w, \A x \in S : w[x] \in Nat
    PROVE  IsFiniteSet(Points(w, S)) /\ Total(w, S) \in Nat
<1> DEFINE T == {Column(w, x) : x \in S}
           f == [x \in S |-> Column(w, x)]
<1>1. f \in Surjection(S, T)
  BY DEF Surjection
<1>2. IsFiniteSet(T)
  BY <1>1, FS_Surjection
<1>3. \A c \in T : IsFiniteSet(c)
  BY ColumnCounts
<1> HIDE DEF T
<1>4. IsFiniteSet(UNION T)
  BY <1>2, <1>3, FS_UNION
<1>5. Points(w, S) = UNION T
  BY DEF Points, T
<1> QED
  BY <1>4, <1>5, FS_CardinalityType DEF Total

LEMMA TotalOfNone == \A w : Total(w, {}) = 0
<1>1. \A w : Points(w, {}) = {}
  BY DEF Points
<1> QED
  BY <1>1, FS_EmptySet DEF Total

\* Disjoint parts add up.
LEMMA TotalOfUnion ==
    ASSUME NEW S, IsFiniteSet(S), NEW T, IsFiniteSet(T), S \cap T = {},
           NEW w, \A x \in S \cup T : w[x] \in Nat
    PROVE  Total(w, S \cup T) = Total(w, S) + Total(w, T)
<1>1. IsFiniteSet(Points(w, S)) /\ IsFiniteSet(Points(w, T))
  BY PointsAreFinite
<1>2. Points(w, S \cup T) = Points(w, S) \cup Points(w, T)
  BY DEF Points
<1>3. Points(w, S) \cap Points(w, T) = {}
  BY DEF Points, Column
<1>4. Cardinality(Points(w, S) \cap Points(w, T)) = 0
  BY <1>3, FS_EmptySet
<1>5. Cardinality(Points(w, S) \cup Points(w, T))
        = Cardinality(Points(w, S)) + Cardinality(Points(w, T)) - 0
  BY <1>1, <1>4, FS_Union
<1>6. Cardinality(Points(w, S)) \in Nat /\ Cardinality(Points(w, T)) \in Nat
  BY <1>1, FS_CardinalityType
<1>7. Total(w, S \cup T) = Total(w, S) + Total(w, T) - 0
  BY <1>2, <1>5 DEF Total
<1> QED
  BY <1>6, <1>7 DEF Total

LEMMA TotalOfOne ==
    ASSUME NEW w, NEW x, w[x] \in Nat
    PROVE  Total(w, {x}) = w[x]
<1>1. Points(w, {x}) = Column(w, x)
  BY DEF Points
<1> QED
  BY <1>1, ColumnCounts DEF Total

LEMMA TotalWith ==
    ASSUME NEW S, IsFiniteSet(S), NEW x, x \notin S, NEW w, \A y \in S \cup {x} : w[y] \in Nat
    PROVE  Total(w, S \cup {x}) = Total(w, S) + w[x]
<1>1. IsFiniteSet({x}) /\ S \cap {x} = {}
  BY FS_Singleton
<1>2. Total(w, S \cup {x}) = Total(w, S) + Total(w, {x})
  BY <1>1, TotalOfUnion
<1> QED
  BY <1>2, TotalOfOne

LEMMA TotalWithout ==
    ASSUME NEW S, IsFiniteSet(S), NEW T \in SUBSET S, NEW w, \A y \in S : w[y] \in Nat
    PROVE  Total(w, S) = Total(w, S \ T) + Total(w, T)
<1>1. IsFiniteSet(T) /\ IsFiniteSet(S \ T)
  BY FS_Subset
<1>2. (S \ T) \cup T = S /\ (S \ T) \cap T = {}
  OBVIOUS
<1>3. Total(w, (S \ T) \cup T) = Total(w, S \ T) + Total(w, T)
  BY <1>1, <1>2, TotalOfUnion
<1> QED
  BY <1>2, <1>3

\* Only the weights of the members count.
LEMMA TotalSame ==
    ASSUME NEW S, NEW w, NEW v, \A x \in S : w[x] = v[x]
    PROVE  Total(w, S) = Total(v, S)
<1>1. Points(w, S) = Points(v, S)
  BY DEF Points, Column
<1> QED
  BY <1>1 DEF Total

LEMMA TotalZero ==
    ASSUME NEW S, NEW w, \A x \in S : w[x] = 0
    PROVE  Total(w, S) = 0
<1>1. Points(w, S) = {}
  BY DEF Points, Column
<1> QED
  BY <1>1, FS_EmptySet DEF Total

\* A change of one weight.
LEMMA TotalChanged ==
    ASSUME NEW S, IsFiniteSet(S), NEW x \in S, NEW w \in [S -> Nat], NEW n \in Nat
    PROVE  Total([w EXCEPT ![x] = n], S) = Total(w, S) - w[x] + n
<1> DEFINE v == [w EXCEPT ![x] = n]
<1>1. IsFiniteSet(S \ {x}) /\ (S \ {x}) \cup {x} = S /\ x \notin S \ {x}
  BY FS_RemoveElement
<1>2. v \in [S -> Nat] /\ v[x] = n /\ \A y \in S \ {x} : v[y] = w[y]
  OBVIOUS
<1> HIDE DEF v
<1>3. Total(w, (S \ {x}) \cup {x}) = Total(w, S \ {x}) + w[x]
  BY <1>1, TotalWith
<1>4. Total(v, (S \ {x}) \cup {x}) = Total(v, S \ {x}) + v[x]
  BY <1>1, <1>2, TotalWith
<1>5. Total(v, S \ {x}) = Total(w, S \ {x})
  BY <1>2, TotalSame
<1>6. Total(w, S \ {x}) \in Nat
  BY <1>1, PointsAreFinite
<1> QED
  BY <1>1, <1>2, <1>3, <1>4, <1>5, <1>6 DEF v

\* Renaming the members, each to one of the same weight, changes nothing.
LEMMA TotalRenamed ==
    ASSUME NEW S, IsFiniteSet(S), NEW w, \A x \in S : w[x] \in Nat,
           NEW T, NEW f \in Bijection(S, T), NEW v, \A x \in S : v[f[x]] = w[x]
    PROVE  IsFiniteSet(T) /\ Total(v, T) = Total(w, S)
<1> DEFINE h == [p \in Points(w, S) |-> <<f[p[1]], p[2]>>]
<1>1. /\ f \in [S -> T] /\ \A x, y \in S : f[x] = f[y] => x = y
      /\ \A t \in T : \E x \in S : f[x] = t
  BY DEF Bijection, Injection, Surjection, IsInjective
<1>2. \A p : p \in Points(w, S) <=> \E x \in S : \E i \in 1 .. w[x] : p = <<x, i>>
  BY DEF Points, Column
<1>3. \A p : p \in Points(v, T) <=> \E x \in T : \E i \in 1 .. v[x] : p = <<x, i>>
  BY DEF Points, Column
<1>4. h \in [Points(w, S) -> Points(v, T)]
  BY <1>1, <1>2, <1>3
<1>5. \A p, q \in Points(w, S) : h[p] = h[q] => p = q
  BY <1>1, <1>2
<1>6. \A q \in Points(v, T) : \E p \in Points(w, S) : h[p] = q
  <2> SUFFICES ASSUME NEW q \in Points(v, T) PROVE \E p \in Points(w, S) : h[p] = q
    OBVIOUS
  <2>1. PICK y \in T : \E i \in 1 .. v[y] : q = <<y, i>>
    BY <1>3
  <2>0. PICK i \in 1 .. v[y] : q = <<y, i>>
    BY <2>1
  <2>2. PICK x \in S : f[x] = y
    BY <1>1
  <2>3. <<x, i>> \in Points(w, S)
    BY <1>2, <2>0, <2>2
  <2> QED
    BY <2>0, <2>2, <2>3
<1> HIDE DEF h
<1>7. ExistsBijection(Points(w, S), Points(v, T))
  <2>1. h \in Injection(Points(w, S), Points(v, T))
    BY <1>4, <1>5 DEF Injection, IsInjective
  <2>2. h \in Surjection(Points(w, S), Points(v, T))
    BY <1>4, <1>6 DEF Surjection
  <2> QED
    BY <2>1, <2>2 DEF ExistsBijection, Bijection
<1>8. IsFiniteSet(T)
  BY FS_Bijection DEF ExistsBijection
<1>9. IsFiniteSet(Points(w, S))
  BY PointsAreFinite
<1> QED
  BY <1>7, <1>8, <1>9, FS_Bijection DEF Total

-----------------------------------------------------------------------------
(* Maxima and minima. *)

\* A nonempty bounded set of numbers has a greatest one.
LEMMA MaxIsThere ==
    ASSUME NEW N \in Nat, NEW S \in SUBSET (0 .. N), S # {}
    PROVE  Max(S) \in S /\ \A y \in S : Max(S) >= y
<1> DEFINE D == {n \in Nat : N - n \in S}
<1>1. D \in SUBSET Nat /\ D # {}
  <2>1. PICK x \in S : TRUE
    OBVIOUS
  <2>2. N - x \in Nat /\ N - (N - x) = x
    BY <2>1
  <2> QED
    BY <2>1, <2>2
<1>2. PICK m \in D : \A y \in D : ~(<<y, m>> \in OpToRel(<, Nat))
  BY <1>1, NatLessThanWellFounded, WFMin
<1>3. \A y \in D : ~(y < m)
  BY <1>2 DEF OpToRel
<1>4. N - m \in S /\ \A y \in S : N - m >= y
  <2>1. ASSUME NEW y \in S PROVE N - m >= y
    <3>1. N - y \in D
      BY <2>1
    <3> QED
      BY <1>3, <3>1
  <2> QED
    BY <2>1
<1> QED
  BY <1>4 DEF Max

\* A nonempty set of numbers has a least one.
LEMMA MinIsThere ==
    ASSUME NEW S \in SUBSET Nat, S # {}
    PROVE  Min(S) \in S /\ \A y \in S : Min(S) <= y
<1>1. PICK m \in S : \A y \in S : ~(<<y, m>> \in OpToRel(<, Nat))
  BY NatLessThanWellFounded, WFMin
<1>2. \A y \in S : ~(y < m)
  BY <1>1 DEF OpToRel
<1>3. \A y \in S : m <= y
  BY <1>2
<1> QED
  BY <1>3 DEF Min

\* The lesser of two.
LEMMA MinOfTwo ==
    ASSUME NEW a \in Int, NEW b \in Int
    PROVE  Min({a, b}) = IF a <= b THEN a ELSE b
<1>1. \E x \in {a, b} : \A y \in {a, b} : x <= y
  OBVIOUS
<1>2. Min({a, b}) \in {a, b} /\ \A y \in {a, b} : Min({a, b}) <= y
  BY <1>1 DEF Min
<1> QED
  BY <1>2

-----------------------------------------------------------------------------
(* The recursion. *)

\* Counting the points solves it.
LEMMA SumExists ==
    ASSUME NEW S, IsFiniteSet(S), NEW w, \A x \in S : w[x] \in Nat
    PROVE  Sums([s \in SUBSET S |-> Total(w, s)], w, S)
<1> DEFINE f == [s \in SUBSET S |-> Total(w, s)]
<1>1. ASSUME NEW s \in SUBSET S, s # {}, NEW x \in s
      PROVE  f[s] = w[x] + f[s \ {x}]
  <2>1. IsFiniteSet(s \ {x}) /\ (s \ {x}) \cup {x} = s /\ x \notin s \ {x}
    BY FS_Subset
  <2>2. Total(w, (s \ {x}) \cup {x}) = Total(w, s \ {x}) + w[x]
    BY <2>1, TotalWith
  <2>3. Total(w, s \ {x}) \in Nat /\ w[x] \in Nat
    BY <2>1, PointsAreFinite
  <2>4. PICK a \in Nat, b \in Nat : a = Total(w, s \ {x}) /\ b = w[x]
    BY <2>3
  <2>5. Total(w, s) = a + b
    BY <2>1, <2>2, <2>4
  <2>6. a + b = b + a
    OBVIOUS
  <2> QED
    BY <2>4, <2>5, <2>6
<1>2. f[{}] = 0
  BY TotalOfNone
<1>3. ASSUME NEW s \in SUBSET S
      PROVE  f[s] = IF s = {} THEN 0 ELSE w[CHOOSE x \in s : TRUE] + f[s \ {CHOOSE x \in s : TRUE}]
  <2>1. s # {} => (CHOOSE x \in s : TRUE) \in s
    OBVIOUS
  <2> QED
    BY <1>1, <1>2, <2>1
<1>4. f = [s \in SUBSET S |-> f[s]]
  OBVIOUS
<1> HIDE DEF f
<1>5. f = [s \in SUBSET S |-> IF s = {} THEN 0
                              ELSE w[CHOOSE x \in s : TRUE] + f[s \ {CHOOSE x \in s : TRUE}]]
  BY <1>3, <1>4
<1> QED
  BY <1>5 DEF Sums, f

\* And nothing else does: a least set on which another solution differs would
\* differ without its first element too.
THEOREM SumIsTotal ==
    ASSUME NEW S, IsFiniteSet(S), NEW w, \A x \in S : w[x] \in Nat, NEW f, Sums(f, w, S)
    PROVE  f[S] = Total(w, S)
<1> DEFINE Bad == {n \in Nat : \E s \in SUBSET S : Cardinality(s) = n /\ f[s] # Total(w, s)}
<1>1. SUFFICES Bad = {}
  <2>1. IsFiniteSet(S) /\ Cardinality(S) \in Nat
    BY FS_CardinalityType
  <2> QED
    BY <1>1, <2>1
<1>2. SUFFICES ASSUME Bad # {} PROVE FALSE
  OBVIOUS
<1>3. PICK n \in Bad : \A m \in Bad : ~(<<m, n>> \in OpToRel(<, Nat))
  BY <1>2, NatLessThanWellFounded, WFMin
<1>4. \A m \in Bad : ~(m < n)
  BY <1>3 DEF OpToRel
<1>5. PICK s \in SUBSET S : Cardinality(s) = n /\ f[s] # Total(w, s)
  OBVIOUS
<1> DEFINE x == CHOOSE y \in s : TRUE
<1>6. f[s] = IF s = {} THEN 0 ELSE w[x] + f[s \ {x}]
  BY DEF Sums
<1>7. s # {}
  BY <1>5, <1>6, TotalOfNone
<1>8. x \in s
  BY <1>7
<1> HIDE DEF x
<1>9. IsFiniteSet(s) /\ n \in Nat
  BY <1>5, FS_Subset, FS_CardinalityType
<1>10. IsFiniteSet(s \ {x}) /\ Cardinality(s \ {x}) = n - 1 /\ Cardinality(s \ {x}) \in Nat
  BY <1>5, <1>8, <1>9, FS_RemoveElement, FS_CardinalityType
<1>11. f[s \ {x}] = Total(w, s \ {x})
  <2>1. n - 1 \notin Bad
    BY <1>4, <1>9
  <2>2. n - 1 \in Nat /\ s \ {x} \in SUBSET S
    BY <1>10
  <2> QED
    BY <1>10, <2>1, <2>2
<1>12. (s \ {x}) \cup {x} = s /\ x \notin s \ {x} /\ \A y \in s : w[y] \in Nat
  BY <1>8
<1>13. Total(w, (s \ {x}) \cup {x}) = Total(w, s \ {x}) + w[x]
  BY <1>10, <1>12, TotalWith
<1>14. Total(w, s \ {x}) \in Nat /\ w[x] \in Nat
  BY <1>8, <1>10, <1>12, PointsAreFinite
<1> QED
  BY <1>5, <1>6, <1>7, <1>11, <1>12, <1>13, <1>14
-----------------------------------------------------------------------------
(* Sequences without repetition, and their sets *)

LEMMA RangeCounts ==
    ASSUME NEW S, NEW s \in Seq(S)
    PROVE  /\ Range(s) \in SUBSET S /\ IsFiniteSet(Range(s))
           /\ IsInjective(s) => Cardinality(Range(s)) = Len(s)
<1>1. Len(s) \in Nat /\ DOMAIN s = 1 .. Len(s) /\ \A i \in 1 .. Len(s) : s[i] \in S
  OBVIOUS
<1>2. IsFiniteSet(1 .. Len(s)) /\ Cardinality(1 .. Len(s)) = Len(s)
  <2>1. PICK n \in Nat : n = Len(s)
    BY <1>1
  <2>2. IsFiniteSet(1 .. n) /\ Cardinality(1 .. n) = n
    BY FS_Interval
  <2> QED
    BY <2>1, <2>2
<1> DEFINE f == [i \in 1 .. Len(s) |-> s[i]]
<1>3. f \in Surjection(1 .. Len(s), Range(s))
  BY <1>1 DEF Surjection, Range
<1>4. IsInjective(s) => f \in Injection(1 .. Len(s), Range(s))
  BY <1>1, <1>3 DEF Injection, IsInjective, Surjection
<1>5. Range(s) \in SUBSET S
  BY <1>1 DEF Range
<1> HIDE DEF f
<1> QED
  BY <1>2, <1>3, <1>4, <1>5, FS_Surjection

LEMMA AppendedOnce ==
    ASSUME NEW S, NEW s \in Seq(S), NEW c \in S
    PROVE  /\ Append(s, c) \in Seq(S) /\ Range(Append(s, c)) = Range(s) \cup {c}
           /\ IsInjective(s) /\ c \notin Range(s) => IsInjective(Append(s, c))
<1> DEFINE t == Append(s, c)
<1>1. /\ t \in Seq(S) /\ Len(t) = Len(s) + 1 /\ Len(s) \in Nat /\ t[Len(s) + 1] = c
      /\ \A i \in 1 .. Len(s) : t[i] = s[i]
      /\ DOMAIN t = 1 .. Len(t) /\ DOMAIN s = 1 .. Len(s)
  OBVIOUS
<1> HIDE DEF t
<1>2. Range(t) = Range(s) \cup {c}
  <2>1. \A i \in 1 .. Len(t) : i \in 1 .. Len(s) \/ i = Len(s) + 1
    BY <1>1
  <2>2. 1 .. Len(s) \subseteq 1 .. Len(t) /\ Len(s) + 1 \in 1 .. Len(t)
    BY <1>1
  <2> QED
    BY <1>1, <2>1, <2>2 DEF Range
<1>3. IsInjective(s) /\ c \notin Range(s) => IsInjective(t)
  BY <1>1 DEF IsInjective, Range
<1> QED
  BY <1>1, <1>2, <1>3 DEF t

LEMMA JoinedOnce ==
    ASSUME NEW S, NEW s \in Seq(S), NEW t \in Seq(S)
    PROVE  /\ s \o t \in Seq(S) /\ Range(s \o t) = Range(s) \cup Range(t)
           /\ IsInjective(s) /\ IsInjective(t) /\ Range(s) \cap Range(t) = {} => IsInjective(s \o t)
<1> DEFINE u == s \o t
<1>1. /\ u \in Seq(S) /\ Len(u) = Len(s) + Len(t) /\ Len(s) \in Nat /\ Len(t) \in Nat
      /\ \A i \in 1 .. Len(s) : u[i] = s[i]
      /\ \A i \in 1 .. Len(t) : u[Len(s) + i] = t[i]
      /\ DOMAIN u = 1 .. Len(u) /\ DOMAIN s = 1 .. Len(s) /\ DOMAIN t = 1 .. Len(t)
  OBVIOUS
<1> HIDE DEF u
<1>2. \A i \in 1 .. Len(u) : (i \in 1 .. Len(s) /\ u[i] = s[i])
                               \/ (i - Len(s) \in 1 .. Len(t) /\ u[i] = t[i - Len(s)])
  <2> SUFFICES ASSUME NEW i \in 1 .. Len(u), i \notin 1 .. Len(s)
               PROVE  i - Len(s) \in 1 .. Len(t) /\ u[i] = t[i - Len(s)]
    BY <1>1
  <2>1. PICK j \in 1 .. Len(t) : i = Len(s) + j
    <3>1. i - Len(s) \in 1 .. Len(t) /\ i = Len(s) + (i - Len(s))
      BY <1>1
    <3> QED
      BY <3>1
  <2> QED
    BY <1>1, <2>1
<1>3. Range(u) = Range(s) \cup Range(t)
  <2>1. Range(u) \subseteq Range(s) \cup Range(t)
    BY <1>1, <1>2 DEF Range
  <2>2. Range(s) \subseteq Range(u)
    BY <1>1 DEF Range
  <2>3. Range(t) \subseteq Range(u)
    <3>1. \A i \in 1 .. Len(t) : Len(s) + i \in 1 .. Len(u)
      BY <1>1
    <3> QED
      BY <1>1, <3>1 DEF Range
  <2> QED
    BY <2>1, <2>2, <2>3
<1>4. IsInjective(s) /\ IsInjective(t) /\ Range(s) \cap Range(t) = {} => IsInjective(u)
  <2> SUFFICES ASSUME IsInjective(s), IsInjective(t), Range(s) \cap Range(t) = {},
                      NEW i \in 1 .. Len(u), NEW j \in 1 .. Len(u), u[i] = u[j]
               PROVE  i = j
    BY <1>1 DEF IsInjective
  <2>1. CASE i \in 1 .. Len(s) /\ u[i] = s[i]
    <3>1. CASE j \in 1 .. Len(s) /\ u[j] = s[j]
      BY <1>1, <2>1, <3>1 DEF IsInjective
    <3>2. CASE j - Len(s) \in 1 .. Len(t) /\ u[j] = t[j - Len(s)]
      BY <1>1, <2>1, <3>2 DEF Range
    <3> QED
      BY <1>2, <3>1, <3>2
  <2>2. CASE i - Len(s) \in 1 .. Len(t) /\ u[i] = t[i - Len(s)]
    <3>1. CASE j \in 1 .. Len(s) /\ u[j] = s[j]
      BY <1>1, <2>2, <3>1 DEF Range
    <3>2. CASE j - Len(s) \in 1 .. Len(t) /\ u[j] = t[j - Len(s)]
      <4>1. i - Len(s) = j - Len(s)
        BY <1>1, <2>2, <3>2 DEF IsInjective
      <4> QED
        BY <1>1, <4>1
    <3> QED
      BY <1>2, <3>1, <3>2
  <2> QED
    BY <1>2, <2>1, <2>2
<1> QED
  BY <1>1, <1>3, <1>4 DEF u

Slice(s, a, b) == {s[i] : i \in a .. b}

\* A sequence cut in two.
LEMMA CutOnce ==
    ASSUME NEW S, NEW s \in Seq(S), IsInjective(s), NEW n \in Nat, n = Len(s),
           NEW k \in 0 .. n, NEW m \in k .. n
    PROVE  /\ SubSeq(s, 1, k) \in Seq(S) /\ SubSeq(s, m + 1, n) \in Seq(S)
           /\ IsInjective(SubSeq(s, 1, k)) /\ IsInjective(SubSeq(s, m + 1, n))
           /\ Range(SubSeq(s, 1, k)) = Slice(s, 1, k) /\ Range(SubSeq(s, m + 1, n)) = Slice(s, m + 1, n)
           /\ Range(SubSeq(s, 1, k)) \cap Range(SubSeq(s, m + 1, n)) = {}
<1>0. PICK head, tail : head = SubSeq(s, 1, k) /\ tail = SubSeq(s, m + 1, n)
  OBVIOUS
<1>1. /\ k \in Nat /\ m \in Nat /\ k <= n /\ m <= n /\ k <= m
      /\ DOMAIN s = 1 .. n /\ \A i \in 1 .. n : s[i] \in S
  OBVIOUS
<1>2. /\ head \in Seq(S) /\ \A i \in 1 .. k : head[i] = s[i]
      /\ DOMAIN head = 1 .. k
  BY <1>0, <1>1
<1>3. PICK d \in Nat : d = n - m
  <2>1. n - m \in Nat
    BY <1>1
  <2> QED
    BY <2>1, Zenon
<1>5. tail \in Seq(S) /\ DOMAIN tail = 1 .. d /\ \A i \in 1 .. d : tail[i] = s[m + i]
  <2>1. Len(tail) = d
    BY <1>0, <1>1, <1>3
  <2>2. \A i \in 1 .. d : tail[i] = s[m + i]
    BY <1>0, <1>1, <1>3
  <2>3. tail \in Seq(S)
    BY <1>0, <1>1, <1>3
  <2> QED
    BY <2>1, <2>2, <2>3
<1>6. IsInjective(head) /\ Range(head) = Slice(s, 1, k)
  <2>1. \A i \in 1 .. k : i \in 1 .. n
    BY <1>1
  <2>2. IsInjective(head)
    BY <1>1, <1>2, <2>1 DEF IsInjective
  <2>3. Range(head) = {head[i] : i \in 1 .. k}
    BY <1>2 DEF Range
  <2> QED
    BY <1>2, <2>2, <2>3 DEF Slice
<1>7. \A i \in 1 .. d : m + i \in 1 .. n /\ m + i \in m + 1 .. n
  BY <1>1, <1>3
<1>8. IsInjective(tail)
  <2> SUFFICES ASSUME NEW a \in 1 .. d, NEW b \in 1 .. d, tail[a] = tail[b] PROVE a = b
    BY <1>5 DEF IsInjective
  <2>1. m + a = m + b
    BY <1>1, <1>5, <1>7 DEF IsInjective
  <2> QED
    BY <1>1, <2>1
<1>9. Range(tail) = Slice(s, m + 1, n)
  <2>1. ASSUME NEW i \in m + 1 .. n PROVE \E j \in 1 .. d : tail[j] = s[i]
    <3>1. PICK j \in 1 .. d : i = m + j
      <4>1. i - m \in 1 .. d /\ i = m + (i - m)
        BY <1>1, <1>3
      <4> QED
        BY <4>1
    <3> QED
      BY <1>5, <3>1
  <2>2. Range(tail) = {tail[j] : j \in 1 .. d}
    BY <1>5 DEF Range
  <2>3. \A x \in Range(tail) : \E i \in m + 1 .. n : x = s[i]
    BY <1>5, <1>7, <2>2
  <2>4. \A i \in m + 1 .. n : s[i] \in Range(tail)
    BY <2>1, <2>2
  <2> QED
    BY <2>3, <2>4 DEF Slice
<1>10. Range(head) \cap Range(tail) = {}
  <2>1. \A i \in 1 .. k, j \in m + 1 .. n : i \in 1 .. n /\ j \in 1 .. n /\ i # j
    BY <1>1
  <2> SUFFICES ASSUME NEW x \in Range(head) \cap Range(tail) PROVE FALSE
    OBVIOUS
  <2>2. PICK i \in 1 .. k : x = s[i]
    BY <1>6 DEF Slice
  <2>3. PICK j \in m + 1 .. n : x = s[j]
    BY <1>9 DEF Slice
  <2> QED
    BY <1>1, <2>1, <2>2, <2>3 DEF IsInjective
<1> QED
  BY <1>0, <1>2, <1>5, <1>6, <1>8, <1>9, <1>10

\* queue.remove(ticket)
LEMMA RemovedOnce ==
    ASSUME NEW S, NEW s \in Seq(S), IsInjective(s), NEW c \in Range(s)
    PROVE  /\ RemoveFirst(s, c) \in Seq(S) /\ IsInjective(RemoveFirst(s, c))
           /\ Range(RemoveFirst(s, c)) = Range(s) \ {c}
<1>1. Len(s) \in Nat /\ DOMAIN s = 1 .. Len(s) /\ \E i \in 1 .. Len(s) : s[i] = c
  BY DEF Range
<1>2. PICK I : I = {i \in 1 .. Len(s) : s[i] = c}
  OBVIOUS
<1>3. I \in SUBSET Nat /\ I # {}
  BY <1>1, <1>2
<1>4. PICK p \in 1 .. Len(s) : p = Min(I) /\ s[p] = c
  BY <1>2, <1>3, MinIsThere
<1>5. RemoveFirst(s, c) = SubSeq(s, 1, p - 1) \o SubSeq(s, p + 1, Len(s))
  <2>1. SelectInSeq(s, LAMBDA v : v = c) = p
    BY <1>2, <1>3, <1>4 DEF SelectInSeq
  <2> QED
    BY <1>1, <2>1 DEF RemoveFirst, RemoveAt
<1>6. PICK n \in Nat : n = Len(s)
  BY <1>1
<1>7. PICK k \in 0 .. n : k = p - 1 /\ p \in k .. n
  BY <1>1, <1>6
<1>8. PICK head, tail : head = SubSeq(s, 1, k) /\ tail = SubSeq(s, p + 1, n)
  OBVIOUS
<1>9. /\ head \in Seq(S) /\ tail \in Seq(S) /\ IsInjective(head) /\ IsInjective(tail)
      /\ Range(head) = Slice(s, 1, k) /\ Range(tail) = Slice(s, p + 1, n)
      /\ Range(head) \cap Range(tail) = {}
  <2>1. /\ SubSeq(s, 1, k) \in Seq(S) /\ SubSeq(s, p + 1, n) \in Seq(S)
        /\ IsInjective(SubSeq(s, 1, k)) /\ IsInjective(SubSeq(s, p + 1, n))
        /\ Range(SubSeq(s, 1, k)) = Slice(s, 1, k) /\ Range(SubSeq(s, p + 1, n)) = Slice(s, p + 1, n)
        /\ Range(SubSeq(s, 1, k)) \cap Range(SubSeq(s, p + 1, n)) = {}
    <3> HIDE <1>1, <1>2, <1>3, <1>4, <1>5, <1>8
    <3>1. IsInjective(s) /\ n = Len(s) /\ k \in 0 .. n /\ p \in k .. n /\ n \in Nat /\ s \in Seq(S)
      BY <1>6, <1>7
    <3> QED
      BY <3>1, CutOnce
  <2> QED
    BY <1>8, <2>1
<1>10. Range(s) \ {c} = Range(head) \cup Range(tail)
  <2>1. \A i \in 1 .. n : i = p \/ i \in 1 .. k \/ i \in p + 1 .. n
    BY <1>4, <1>6, <1>7
  <2>2. \A i \in 1 .. k : i \in 1 .. n /\ i # p
    BY <1>4, <1>6, <1>7
  <2>3. \A i \in p + 1 .. n : i \in 1 .. n /\ i # p
    BY <1>4, <1>6, <1>7
  <2>4. \A i \in 1 .. n : i # p => s[i] # c
    BY <1>1, <1>4, <1>6 DEF IsInjective
  <2>5. Range(s) = {s[i] : i \in 1 .. n}
    BY <1>1, <1>6 DEF Range
  <2> QED
    BY <1>4, <1>6, <1>9, <2>1, <2>2, <2>3, <2>4, <2>5 DEF Slice
<1>11. RemoveFirst(s, c) = head \o tail
  BY <1>5, <1>6, <1>7, <1>8
<1>12. head \o tail \in Seq(S) /\ IsInjective(head \o tail) /\ Range(head \o tail) = Range(head) \cup Range(tail)
  BY <1>9, JoinedOnce
<1> QED
  BY <1>10, <1>11, <1>12

\* The elements of a set, each once, as a sequence.
LEMMA ListsAll ==
    ASSUME NEW S, NEW T \in SUBSET S, IsFiniteSet(T), NEW t \in SetToSeqs(T)
    PROVE  t \in Seq(S) /\ IsInjective(t) /\ Range(t) = T
<1>1. PICK n \in Nat : n = Cardinality(T)
  BY FS_CardinalityType
<1>2. t \in [1 .. n -> T] /\ \A i, j \in 1 .. n : i # j => t[i] # t[j]
  BY <1>1 DEF SetToSeqs
<1>3. t \in Seq(T) /\ Len(t) = n
  BY <1>2
<1>4. IsInjective(t)
  BY <1>2 DEF IsInjective
<1>5. Range(t) \in SUBSET T /\ Cardinality(Range(t)) = n
  BY <1>3, <1>4, RangeCounts
<1>6. Range(t) = T
  BY <1>1, <1>5, FS_Subset
<1>7. t \in Seq(S)
  BY <1>2
<1> QED
  BY <1>4, <1>6, <1>7

-----------------------------------------------------------------------------
\* What FlattenSeq computes, one sequence after the other.
Joins(f, s, n) == \A i \in 1 .. n : f[i] = IF i = 1 THEN s[i] ELSE f[i - 1] \o s[i]

\* The recursion that joins sequences has a solution.
LEMMA JoinsExists ==
    ASSUME NEW s, NEW n \in Nat
    PROVE  \E f : f = [i \in 1 .. n |-> IF i = 1 THEN s[i] ELSE f[i - 1] \o s[i]]
<1> DEFINE Bad == {m \in Nat : \A f : ~(DOMAIN f = 1 .. m /\ f = [i \in 1 .. m |-> f[i]] /\ Joins(f, s, m))}
<1>1. Bad = {}
  <2>1. SUFFICES ASSUME Bad # {} PROVE FALSE
    OBVIOUS
  <2>2. PICK m \in Bad : \A k \in Bad : ~(<<k, m>> \in OpToRel(<, Nat))
    BY <2>1, NatLessThanWellFounded, WFMin
  <2>3. \A k \in Bad : ~(k < m)
    BY <2>2 DEF OpToRel
  <2>4. CASE m = 0
    <3> DEFINE f == [i \in 1 .. 0 |-> 0]
    <3>1. DOMAIN f = 1 .. 0 /\ f = [i \in 1 .. 0 |-> f[i]] /\ Joins(f, s, 0)
      BY DEF Joins
    <3> QED
      BY <2>2, <2>4, <3>1
  <2>5. CASE m # 0
    <3>0. m \in Nat
      BY <2>2
    <3>a. m - 1 \in Nat /\ m - 1 < m
      BY <2>5, <3>0
    <3>b. m - 1 \notin Bad
      BY <2>3, <3>a, Zenon
    <3>1. m \in Nat /\ m - 1 \in Nat /\ m - 1 \notin Bad
      BY <3>0, <3>a, <3>b
    <3>2. PICK f : DOMAIN f = 1 .. m - 1 /\ Joins(f, s, m - 1)
      BY <3>1
    <3> DEFINE v == IF m = 1 THEN s[m] ELSE f[m - 1] \o s[m]
               g == [i \in 1 .. m |-> IF i = m THEN v ELSE f[i]]
    <3>3. \A i \in 1 .. m - 1 : g[i] = f[i]
      BY <3>1
    <3>4. g[m] = v
      BY <3>1, <2>5
    <3>5. m # 1 => g[m - 1] = f[m - 1]
      BY <3>1, <3>3, <2>5
    <3>6. DOMAIN g = 1 .. m /\ g = [i \in 1 .. m |-> g[i]]
      OBVIOUS
    <3> HIDE DEF g
    <3>7. ASSUME NEW i \in 1 .. m PROVE g[i] = IF i = 1 THEN s[i] ELSE g[i - 1] \o s[i]
      <4>1. CASE i = m
        BY <3>4, <3>5, <4>1
      <4>2. CASE i # m
        <5>1. i \in 1 .. m - 1 /\ (i # 1 => i - 1 \in 1 .. m - 1)
          BY <3>1, <4>2
        <5> QED
          BY <3>2, <3>3, <5>1 DEF Joins
      <4> QED
        BY <4>1, <4>2
    <3>8. Joins(g, s, m)
      BY <3>7 DEF Joins
    <3> QED
      BY <2>2, <3>6, <3>8
  <2> QED
    BY <2>4, <2>5
<1>2. n \notin Bad
  BY <1>1
<1>3. PICK f : f = [i \in 1 .. n |-> f[i]] /\ Joins(f, s, n)
  BY <1>2
<1>4. f = [i \in 1 .. n |-> IF i = 1 THEN s[i] ELSE f[i - 1] \o s[i]]
  BY <1>3 DEF Joins
<1> QED
  BY <1>4

\* FlattenSeq computes it.
LEMMA JoinsHold ==
    ASSUME NEW E, NEW n \in Nat, NEW s, \A i \in 1 .. n : s[i] \in Seq(E), NEW f, Joins(f, s, n)
    PROVE  \A i \in 1 .. n : f[i] \in Seq(E) /\ \A j \in 1 .. i : Len(s[j]) <= Len(f[i])
<1> DEFINE Good(i) == f[i] \in Seq(E) /\ \A j \in 1 .. i : Len(s[j]) <= Len(f[i])
           Bad == {i \in 1 .. n : ~Good(i)}
<1>1. SUFFICES ASSUME Bad # {} PROVE FALSE
  OBVIOUS
<1>2. Bad \subseteq Nat
  OBVIOUS
<1>3. PICK m \in Bad : \A k \in Bad : ~(<<k, m>> \in OpToRel(<, Nat))
  BY <1>1, <1>2, NatLessThanWellFounded, WFMin
<1>4. \A k \in Bad : ~(k < m)
  BY <1>2, <1>3 DEF OpToRel
<1>5. m \in 1 .. n /\ ~Good(m)
  BY <1>3
<1> HIDE DEF Good
<1>6. CASE m = 1
  <2>1. f[m] = s[m] /\ s[m] \in Seq(E) /\ Len(s[m]) \in Nat
    BY <1>5, <1>6 DEF Joins
  <2>2. Good(m)
    BY <1>6, <2>1 DEF Good
  <2> QED
    BY <1>5, <2>2
<1>7. CASE m # 1
  <2>1. m - 1 \in 1 .. n /\ m - 1 < m /\ m - 1 \notin Bad
    BY <1>4, <1>5, <1>7
  <2>2. Good(m - 1)
    BY <2>1
  <2>3. PICK a \in Seq(E), b \in Seq(E) : a = f[m - 1] /\ b = s[m]
    BY <1>5, <2>2 DEF Good
  <2>4. f[m] = a \o b
    BY <1>5, <1>7, <2>3 DEF Joins
  <2>5. f[m] \in Seq(E) /\ Len(f[m]) = Len(a) + Len(b) /\ Len(a) \in Nat /\ Len(b) \in Nat
    BY <2>4
  <2>6. ASSUME NEW j \in 1 .. m PROVE Len(s[j]) <= Len(f[m])
    <3>1. CASE j = m
      <4>1. s[j] = b
        BY <2>3, <3>1
      <4> QED
        BY <2>5, <4>1
    <3>2. CASE j # m
      <4>1. j \in 1 .. m - 1
        BY <1>5, <3>2
      <4>2. j \in 1 .. n
        BY <1>5, <4>1
      <4>3. Len(s[j]) <= Len(a) /\ Len(s[j]) \in Nat
        BY <2>2, <2>3, <4>1, <4>2, LenProperties DEF Good
      <4> QED
        BY <2>5, <4>3
    <3> QED
      BY <3>1, <3>2
  <2>7. Good(m)
    BY <2>5, <2>6 DEF Good
  <2> QED
    BY <1>5, <2>7
<1> QED
  BY <1>6, <1>7

\* Flattened sequences hold what their parts hold, and are empty only if all are.
LEMMA Flattened ==
    ASSUME NEW E, NEW n \in Nat \ {0}, NEW s, s \in Seq(Seq(E)), Len(s) = n
    PROVE  FlattenSeq(s) \in Seq(E) /\ \A j \in 1 .. n : Len(s[j]) <= Len(FlattenSeq(s))
<1> DEFINE Solves(f) == f = [i \in 1 .. n |-> IF i = 1 THEN s[i] ELSE f[i - 1] \o s[i]]
           f == CHOOSE g : Solves(g)
<1>1. FlattenSeq(s) = f[n]
  BY Zenon DEF FlattenSeq
<1>2. \E g : Solves(g)
  BY JoinsExists
<1> HIDE DEF f, Solves
<1>3. Solves(f)
  BY <1>2 DEF f
<1>4. Joins(f, s, n)
  BY <1>3 DEF Joins, Solves
<1>5. \A i \in 1 .. n : s[i] \in Seq(E)
  BY LenProperties
<1>6. \A i \in 1 .. n : f[i] \in Seq(E) /\ \A j \in 1 .. i : Len(s[j]) <= Len(f[i])
  BY <1>4, <1>5, JoinsHold, Zenon
<1>7. n \in 1 .. n
  OBVIOUS
<1>8. f[n] \in Seq(E) /\ \A j \in 1 .. n : Len(s[j]) <= Len(f[n])
  BY <1>6, <1>7, Zenon
<1> QED
  BY <1>1, <1>8

\* Where one of the joined sequences lies, and that what lies elsewhere comes from others.
Foreign(v, s, n, k) == \E h \in 1 .. n : h # k /\ v \in Range(s[h])
Block(q, b, o, s, n, k) ==
    /\ o + Len(b) <= Len(q) /\ \A j \in 1 .. Len(b) : q[o + j] = b[j]
    /\ \A x \in 1 .. Len(q) : x \in (o + 1) .. (o + Len(b)) \/ Foreign(q[x], s, n, k)

\* One sequence more is joined.
LEMMA JoinsOne ==
    ASSUME NEW E, NEW n \in Nat, NEW s, \A i \in 1 .. n : s[i] \in Seq(E),
           NEW k \in 1 .. n, NEW i \in 1 .. n, NEW a \in Seq(E), NEW q, q = a \o s[i], NEW o \in Nat
    PROVE  /\ (\A x \in 1 .. Len(a) : Foreign(a[x], s, n, k)) /\ i # k =>
                 \A x \in 1 .. Len(q) : Foreign(q[x], s, n, k)
           /\ (\A x \in 1 .. Len(a) : Foreign(a[x], s, n, k)) /\ i = k /\ o = Len(a) =>
                 Block(q, s[k], o, s, n, k)
           /\ Block(a, s[k], o, s, n, k) /\ i # k => Block(q, s[k], o, s, n, k)
<1>1. PICK b \in Seq(E), la \in Nat, lb \in Nat, lk \in Nat :
         b = s[i] /\ la = Len(a) /\ lb = Len(b) /\ lk = Len(s[k])
  BY LenProperties
<1>2. /\ q \in Seq(E) /\ Len(q) = la + lb
      /\ \A x \in 1 .. la + lb : q[x] = IF x <= la THEN a[x] ELSE b[x - la]
  BY <1>1
<1>3. \A x \in 1 .. lb : b[x] \in Range(b)
  BY <1>1 DEF Range
<1>4. i # k => \A x \in 1 .. la + lb : x > la => Foreign(q[x], s, n, k)
  <2> SUFFICES ASSUME i # k, NEW x \in 1 .. la + lb, x > la PROVE Foreign(q[x], s, n, k)
    OBVIOUS
  <2>1. x - la \in 1 .. lb
    BY <1>1
  <2>2. q[x] \in Range(s[i])
    BY <1>1, <1>2, <1>3, <2>1
  <2> QED
    BY <2>2 DEF Foreign
<1>5. \A x \in 1 .. la : x \in 1 .. la + lb /\ q[x] = a[x]
  BY <1>1, <1>2
<1>6. ASSUME \A x \in 1 .. Len(a) : Foreign(a[x], s, n, k), i # k
      PROVE  \A x \in 1 .. Len(q) : Foreign(q[x], s, n, k)
  <2> TAKE x \in 1 .. Len(q)
  <2>1. x \in 1 .. la + lb
    BY <1>2
  <2>2. CASE x <= la
    <3>1. x \in 1 .. la
      BY <2>1, <2>2
    <3> QED
      BY <1>1, <1>5, <1>6, <3>1
  <2>3. CASE ~(x <= la)
    <3>1. x > la
      BY <1>1, <2>1, <2>3
    <3> QED
      BY <1>4, <1>6, <2>1, <3>1
  <2> QED
    BY <2>2, <2>3
<1>7. ASSUME \A x \in 1 .. Len(a) : Foreign(a[x], s, n, k), i = k, o = Len(a)
      PROVE  Block(q, s[k], o, s, n, k)
  <2>1. s[k] = b /\ o = la
    BY <1>1, <1>7
  <2>2. \A j \in 1 .. lb : o + j \in 1 .. la + lb /\ ~(o + j <= la) /\ (o + j) - la = j
    BY <1>1, <2>1
  <2>3. \A j \in 1 .. lb : q[o + j] = b[j]
    BY <1>2, <2>2
  <2>4. ASSUME NEW x \in 1 .. la + lb PROVE x \in (o + 1) .. (o + lb) \/ Foreign(q[x], s, n, k)
    <3>1. CASE x <= la
      <4>1. x \in 1 .. la
        BY <3>1
      <4> QED
        BY <1>1, <1>5, <1>7, <4>1
    <3>2. CASE ~(x <= la)
      BY <1>1, <2>1, <3>2
    <3> QED
      BY <3>1, <3>2
  <2> QED
    BY <1>1, <1>2, <2>1, <2>3, <2>4 DEF Block
<1>8. ASSUME Block(a, s[k], o, s, n, k), i # k PROVE Block(q, s[k], o, s, n, k)
  <2>1. /\ o + lk <= la /\ \A j \in 1 .. lk : a[o + j] = s[k][j]
        /\ \A x \in 1 .. la : x \in (o + 1) .. (o + lk) \/ Foreign(a[x], s, n, k)
    BY <1>1, <1>8 DEF Block
  <2>2. o + lk <= la + lb
    BY <1>1, <2>1
  <2>3. ASSUME NEW j \in 1 .. lk PROVE q[o + j] = s[k][j]
    <3>1. o + j \in 1 .. la
      BY <1>1, <2>1
    <3> QED
      BY <1>5, <2>1, <3>1
  <2>4. ASSUME NEW x \in 1 .. la + lb PROVE x \in (o + 1) .. (o + lk) \/ Foreign(q[x], s, n, k)
    <3>1. CASE x <= la
      <4>1. x \in 1 .. la
        BY <3>1
      <4> QED
        BY <1>5, <2>1, <4>1
    <3>2. CASE ~(x <= la)
      <4>1. x > la
        BY <1>1, <3>2
      <4> QED
        BY <1>4, <1>8, <4>1
    <3> QED
      BY <3>1, <3>2
  <2> QED
    BY <1>1, <1>2, <2>2, <2>3, <2>4 DEF Block
<1> QED
  BY <1>6, <1>7, <1>8

\* Every joined sequence has its place.
LEMMA JoinsBlock ==
    ASSUME NEW E, NEW n \in Nat, NEW s, \A i \in 1 .. n : s[i] \in Seq(E), NEW f, Joins(f, s, n),
           NEW k \in 1 .. n
    PROVE  \E o \in Nat : \A i \in 1 .. n :
              IF i < k THEN \A x \in 1 .. Len(f[i]) : Foreign(f[i][x], s, n, k)
                       ELSE Block(f[i], s[k], o, s, n, k)
<1>1. \A i \in 1 .. n : f[i] \in Seq(E)
  BY JoinsHold
<1> DEFINE before(i) == IF i = 1 THEN << >> ELSE f[i - 1]
<1>2. ASSUME NEW i \in 1 .. n PROVE before(i) \in Seq(E) /\ f[i] = before(i) \o s[i]
  <2>1. CASE i = 1
    <3>1. f[i] = s[i] /\ before(i) = << >> /\ s[i] \in Seq(E)
      BY <2>1 DEF Joins
    <3>2. << >> \o s[i] = s[i] /\ << >> \in Seq(E)
      BY <3>1, ConcatEmptySeq
    <3> QED
      BY <3>1, <3>2
  <2>2. CASE i # 1
    <3>1. i - 1 \in 1 .. n
      BY <2>2
    <3>2. f[i] = f[i - 1] \o s[i]
      BY <2>2, Zenon DEF Joins
    <3> QED
      BY <1>1, <2>2, <3>1, <3>2
  <2> QED
    BY <2>1, <2>2
<1>3. PICK o \in Nat : o = Len(before(k))
  BY <1>2, LenProperties
<1> DEFINE Alien(a) == \A x \in 1 .. Len(a) : Foreign(a[x], s, n, k)
           Here(i) == IF i < k THEN Alien(f[i]) ELSE Block(f[i], s[k], o, s, n, k)
           Bad == {i \in 1 .. n : ~Here(i)}
<1>4. SUFFICES ASSUME Bad # {} PROVE FALSE
  OBVIOUS
<1>5. Bad \subseteq Nat
  OBVIOUS
<1>6. PICK m \in Bad : \A j \in Bad : ~(<<j, m>> \in OpToRel(<, Nat))
  BY <1>4, <1>5, NatLessThanWellFounded, WFMin
<1>7. \A j \in Bad : ~(j < m)
  BY <1>5, <1>6 DEF OpToRel
<1>8. m \in 1 .. n /\ ~Here(m)
  BY <1>6
<1> HIDE DEF Here
<1>9. m # 1 => m - 1 \in 1 .. n /\ Here(m - 1)
  BY <1>7, <1>8
<1>10. before(m) \in Seq(E) /\ f[m] = before(m) \o s[m] /\ Len(<< >>) = 0
  BY <1>2, <1>8
<1>11. CASE m < k
  <2>1. Alien(before(m))
    <3>1. CASE m = 1
      BY <3>1, <1>10
    <3>2. CASE m # 1
      BY <1>8, <1>9, <1>11, <3>2 DEF Here
    <3> QED
      BY <3>1, <3>2
  <2>2. m # k
    BY <1>8, <1>11
  <2> HIDE DEF before
  <2>3. PICK a \in Seq(E) : a = before(m) /\ f[m] = a \o s[m]
    BY <1>10
  <2>4. (\A x \in 1 .. Len(a) : Foreign(a[x], s, n, k)) /\ m # k =>
            \A x \in 1 .. Len(f[m]) : Foreign(f[m][x], s, n, k)
    BY <1>3, <1>8, <2>3, JoinsOne
  <2>5. Alien(f[m])
    BY <2>1, <2>2, <2>3, <2>4
  <2> QED
    BY <1>8, <1>11, <2>5 DEF Here
<1>12. CASE m = k
  <2>1. Alien(before(m))
    <3>1. CASE m = 1
      BY <3>1, <1>10
    <3>2. CASE m # 1
      <4>1. m - 1 < k
        BY <1>8, <1>12
      <4> QED
        BY <1>9, <3>2, <4>1 DEF Here
    <3> QED
      BY <3>1, <3>2
  <2> HIDE DEF before
  <2>2. Block(f[m], s[k], o, s, n, k)
    BY <1>3, <1>8, <1>10, <1>12, <2>1, JoinsOne
  <2>3. ~(m < k)
    BY <1>8, <1>12
  <2> QED
    BY <1>8, <2>2, <2>3 DEF Here
<1>13. CASE k < m
  <2>1. m # 1 /\ m # k /\ ~(m - 1 < k) /\ ~(m < k)
    BY <1>8, <1>13
  <2>2. Block(before(m), s[k], o, s, n, k)
    BY <1>9, <2>1 DEF Here
  <2> HIDE DEF before
  <2>3. Block(f[m], s[k], o, s, n, k)
    BY <1>8, <1>10, <2>1, <2>2, JoinsOne
  <2> QED
    BY <1>8, <2>1, <2>3 DEF Here
<1> QED
  BY <1>8, <1>11, <1>12, <1>13

\* So do the parts of a flattened sequence.
LEMMA FlattenedBlock ==
    ASSUME NEW E, NEW n \in Nat \ {0}, NEW s, s \in Seq(Seq(E)), Len(s) = n, NEW k \in 1 .. n
    PROVE  \E o \in Nat : Block(FlattenSeq(s), s[k], o, s, n, k)
<1> DEFINE Solves(f) == f = [i \in 1 .. n |-> IF i = 1 THEN s[i] ELSE f[i - 1] \o s[i]]
           f == CHOOSE g : Solves(g)
<1>1. FlattenSeq(s) = f[n]
  BY Zenon DEF FlattenSeq
<1>2. \E g : Solves(g)
  BY JoinsExists
<1> HIDE DEF f, Solves
<1>3. Solves(f)
  BY <1>2 DEF f
<1>4. Joins(f, s, n)
  BY <1>3 DEF Joins, Solves
<1>5. \A i \in 1 .. n : s[i] \in Seq(E)
  BY LenProperties
<1>6. PICK o \in Nat : \A i \in 1 .. n :
              IF i < k THEN \A x \in 1 .. Len(f[i]) : Foreign(f[i][x], s, n, k)
                       ELSE Block(f[i], s[k], o, s, n, k)
  BY <1>4, <1>5, JoinsBlock
<1>7. n \in 1 .. n /\ ~(n < k)
  OBVIOUS
<1> QED
  BY <1>1, <1>6, <1>7
=============================================================================
