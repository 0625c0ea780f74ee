------------------------------- MODULE SumsProofs -------------------------------
(***************************************************************************)
(* Sums over finite sets.  MapThenSumSet of the community modules takes the *)
(* elements one by one in the order of CHOOSE; it is a function on subsets *)
(* that satisfies the equation Sums below.  The lemmas say what every such *)
(* function gives.  They go by a smallest counterexample among the subsets *)
(* of a finite set, which needs no induction scheme.                       *)
(***************************************************************************)
EXTENDS Integers, FiniteSets, FiniteSetTheorems, WellFoundedInduction, TLAPS

AnyOf(s) == CHOOSE x \in s : TRUE

\* it[s] is the sum of w[x] over x in s, for each subset s of S.
Sums(it, w, S) ==
    it = [s \in SUBSET S |-> IF s = {} THEN 0 ELSE w[AnyOf(s)] + it[s \ {AnyOf(s)}]]

\* Of any sets of elements of a finite set one has none of the others below it.
LEMMA Smallest ==
    ASSUME NEW S, IsFiniteSet(S), NEW T, T \subseteq SUBSET S, T # {}
    PROVE  \E x \in T : \A y \in T : y \subseteq x => y = x
<1>1. IsWellFoundedOn(StrictSubsetOrdering(S), SUBSET S)
  BY FS_StrictSubsetOrderingWellFounded, FS_FiniteSubsetsOfFinite
<1>2. \E x \in T : \A y \in T : ~ (<<y, x>> \in StrictSubsetOrdering(S))
  BY <1>1, WFMin
<1> QED
  BY <1>2 DEF StrictSubsetOrdering

\* The equation, subset by subset.
LEMMA SumsAt ==
    ASSUME NEW S, NEW w, NEW it, Sums(it, w, S), NEW s \in SUBSET S
    PROVE  /\ s = {} => it[s] = 0
           /\ s # {} => /\ AnyOf(s) \in s /\ s \ {AnyOf(s)} \in SUBSET S
                        /\ it[s] = w[AnyOf(s)] + it[s \ {AnyOf(s)}]
<1>1. s # {} => AnyOf(s) \in s
  BY DEF AnyOf
<1>2. it[s] = IF s = {} THEN 0 ELSE w[AnyOf(s)] + it[s \ {AnyOf(s)}]
  BY DEF Sums
<1> QED
  BY <1>1, <1>2

\* The sum of nothing.
LEMMA SumsEmpty ==
    ASSUME NEW S, NEW w, NEW it, Sums(it, w, S)
    PROVE  it[{}] = 0
<1>1. {} \in SUBSET S
  OBVIOUS
<1> QED
  BY <1>1, SumsAt

\* Two sums of terms that agree on a set agree on it.
LEMMA SumsAgree ==
    ASSUME NEW S, NEW R, NEW w, NEW v, NEW it, NEW jt, Sums(it, w, S), Sums(jt, v, R),
           NEW q, IsFiniteSet(q), q \subseteq S, q \subseteq R, \A x \in q : w[x] = v[x]
    PROVE  it[q] = jt[q]
<1> DEFINE T == {p \in SUBSET q : it[p] # jt[p]}
<1>1. ASSUME T # {} PROVE FALSE
  <2>1. PICK p \in T : \A r \in T : r \subseteq p => r = p
    <3>1. T \subseteq SUBSET q
      OBVIOUS
    <3> HIDE DEF T
    <3> QED
      BY <1>1, <3>1, Smallest
  <2>2. p \in SUBSET S /\ p \in SUBSET R /\ p \subseteq q /\ it[p] # jt[p]
    BY <2>1
  <2>3. p # {}
    <3>1. it[{}] = 0
      BY SumsEmpty
    <3>2. jt[{}] = 0
      BY SumsEmpty
    <3> QED
      BY <2>2, <3>1, <3>2
  <2>4. /\ AnyOf(p) \in p /\ it[p] = w[AnyOf(p)] + it[p \ {AnyOf(p)}]
        /\ jt[p] = v[AnyOf(p)] + jt[p \ {AnyOf(p)}]
    <3> HIDE DEF T
    <3>1. Sums(it, w, S) /\ p \in SUBSET S /\ p # {}
      BY <2>2, <2>3
    <3>2. Sums(jt, v, R) /\ p \in SUBSET R
      BY <2>2
    <3>3. AnyOf(p) \in p /\ it[p] = w[AnyOf(p)] + it[p \ {AnyOf(p)}]
      BY ONLY <3>1, SumsAt
    <3>4. jt[p] = v[AnyOf(p)] + jt[p \ {AnyOf(p)}]
      BY ONLY <3>1, <3>2, SumsAt
    <3> QED
      BY <3>3, <3>4
  <2>5. it[p \ {AnyOf(p)}] = jt[p \ {AnyOf(p)}]
    BY <2>1, <2>2, <2>4
  <2> QED
    BY <2>2, <2>4, <2>5
<1> QED
  BY <1>1

\* Every finite set has a function of its sums.
LEMMA SumsExist ==
    ASSUME NEW S, IsFiniteSet(S), NEW w
    PROVE  \E it : Sums(it, w, S)
<1> DEFINE T == {s \in SUBSET S : ~ \E it : Sums(it, w, s)}
<1>1. ASSUME T # {} PROVE FALSE
  <2>1. PICK s \in T : \A r \in T : r \subseteq s => r = s
    <3>1. T \subseteq SUBSET S
      OBVIOUS
    <3> HIDE DEF T
    <3> QED
      BY <1>1, <3>1, Smallest
  <2>2. \A r \in SUBSET s : r # s => \E it : Sums(it, w, r)
    BY <2>1
  <2>3. \A r \in SUBSET s : IsFiniteSet(r)
    BY FS_Subset
  <2> DEFINE of(r) == CHOOSE it : Sums(it, w, r)
             g(r) == of(r)[r]
             h == [r \in SUBSET s |-> IF r = {} THEN 0
                                      ELSE IF r = s THEN w[AnyOf(s)] + g(s \ {AnyOf(s)}) ELSE g(r)]
  <2>4. ASSUME NEW r \in SUBSET s, r # s PROVE Sums(of(r), w, r)
    BY <2>2, <2>4
  <2> HIDE DEF of
  <2>5. ASSUME NEW r \in SUBSET s, r # s, r # {}
        PROVE  g(r) = w[AnyOf(r)] + g(r \ {AnyOf(r)})
    <3>1. /\ AnyOf(r) \in r /\ of(r)[r] = w[AnyOf(r)] + of(r)[r \ {AnyOf(r)}]
      BY <2>4, <2>5, SumsAt
    <3> DEFINE q == r \ {AnyOf(r)}
    <3>2. q \in SUBSET s /\ q # s /\ IsFiniteSet(q) /\ q \subseteq r
      BY <2>3, <2>5
    <3> HIDE DEF q
    <3>3. of(r)[q] = of(q)[q]
      BY <2>4, <2>5, <3>2, SumsAgree
    <3> QED
      BY <3>1, <3>3 DEF q
  <2>6. g({}) = 0 \/ s = {}
    <3>1. s # {} => Sums(of({}), w, {})
      BY <2>4
    <3> QED
      BY <3>1, SumsAt
  <2>7. ASSUME NEW r \in SUBSET s, r # {}
        PROVE  h[r] = w[AnyOf(r)] + h[r \ {AnyOf(r)}]
    <3>1. AnyOf(r) \in r
      BY <2>7 DEF AnyOf
    <3> DEFINE q == r \ {AnyOf(r)}
    <3>2. q \in SUBSET s /\ q # s /\ q # r
      BY <3>1
    <3> HIDE DEF g
    <3>3. h[q] = g(q)
      <4>1. q = {} => g(q) = 0
        BY <2>6, <3>1, <2>7
      <4> QED
        BY <3>2, <4>1
    <3>4. h[r] = w[AnyOf(r)] + g(q)
      BY <2>5, <2>7
    <3> QED
      BY <3>3, <3>4
  <2>8. Sums(h, w, s)
    <3>1. h = [r \in SUBSET s |-> h[r]]
      OBVIOUS
    <3>2. \A r \in SUBSET s : h[r] = IF r = {} THEN 0 ELSE w[AnyOf(r)] + h[r \ {AnyOf(r)}]
      BY <2>7
    <3> HIDE DEF h
    <3> QED
      BY <3>1, <3>2 DEF Sums
  <2> QED
    BY <2>1, <2>8
<1> QED
  BY <1>1

\* A sum of numbers is a number.
LEMMA SumsTyped ==
    ASSUME NEW S, IsFiniteSet(S), NEW w \in [S -> Nat], NEW it, Sums(it, w, S),
           NEW s \in SUBSET S
    PROVE  it[s] \in Nat
<1> DEFINE T == {p \in SUBSET S : it[p] \notin Nat}
<1>1. ASSUME T # {} PROVE FALSE
  <2>1. PICK p \in T : \A r \in T : r \subseteq p => r = p
    <3>1. T \subseteq SUBSET S
      OBVIOUS
    <3> HIDE DEF T
    <3> QED
      BY <1>1, <3>1, Smallest
  <2>2. p \in SUBSET S /\ it[p] \notin Nat
    BY <2>1
  <2>3. p # {}
    <3>1. it[{}] = 0
      BY SumsEmpty
    <3> QED
      BY <2>2, <3>1
  <2>4. AnyOf(p) \in p /\ it[p] = w[AnyOf(p)] + it[p \ {AnyOf(p)}]
    <3> HIDE DEF T
    <3>1. Sums(it, w, S) /\ p \in SUBSET S /\ p # {}
      BY <2>2, <2>3
    <3> QED
      BY ONLY <3>1, SumsAt
  <2>5. it[p \ {AnyOf(p)}] \in Nat
    BY <2>1, <2>2, <2>4
  <2> QED
    BY <2>2, <2>4, <2>5
<1> QED
  BY <1>1

\* A sum is any of its terms and the sum of the others.
LEMMA SumsSplit ==
    ASSUME NEW S, IsFiniteSet(S), NEW w \in [S -> Nat], NEW it, Sums(it, w, S),
           NEW s \in SUBSET S, NEW x \in s
    PROVE  it[s] = w[x] + it[s \ {x}]
<1> DEFINE T == {p \in SUBSET S : \E y \in p : it[p] # w[y] + it[p \ {y}]}
<1>1. ASSUME T # {} PROVE FALSE
  <2>1. PICK p \in T : \A r \in T : r \subseteq p => r = p
    <3>1. T \subseteq SUBSET S
      OBVIOUS
    <3> HIDE DEF T
    <3> QED
      BY <1>1, <3>1, Smallest
  <2>2. p \in SUBSET S
    BY <2>1
  <2>3. PICK y \in p : it[p] # w[y] + it[p \ {y}]
    BY <2>1
  <2> DEFINE z == AnyOf(p)
  <2>4. z \in p /\ it[p] = w[z] + it[p \ {z}]
    BY <2>2, <2>3, SumsAt
  <2> HIDE DEF z
  <2>5. z # y
    BY <2>3, <2>4
  <2>6. it[p \ {z}] = w[y] + it[(p \ {z}) \ {y}]
    BY <2>1, <2>2, <2>3, <2>4, <2>5
  <2>7. it[p \ {y}] = w[z] + it[(p \ {y}) \ {z}]
    BY <2>1, <2>2, <2>3, <2>4, <2>5
  <2>8. (p \ {z}) \ {y} = (p \ {y}) \ {z}
    OBVIOUS
  <2>9. w[y] \in Nat /\ w[z] \in Nat /\ it[(p \ {y}) \ {z}] \in Nat
    BY <2>2, <2>3, <2>4, SumsTyped
  <2> DEFINE a == it[p \ {y}]
             b == it[(p \ {y}) \ {z}]
  <2>10. it[p] = w[z] + (w[y] + b) /\ a = w[z] + b /\ b \in Nat
    BY <2>4, <2>6, <2>7, <2>8, <2>9
  <2> HIDE DEF a, b
  <2>11. it[p] = w[y] + a
    BY <2>9, <2>10
  <2> QED
    BY <2>3, <2>11 DEF a
<1> QED
  BY <1>1

\* Larger terms, larger sum.
LEMMA SumsGrow ==
    ASSUME NEW S, IsFiniteSet(S), NEW w \in [S -> Nat], NEW v \in [S -> Nat],
           NEW it, NEW jt, Sums(it, w, S), Sums(jt, v, S), \A x \in S : w[x] <= v[x]
    PROVE  it[S] <= jt[S]
<1> DEFINE T == {p \in SUBSET S : ~ (it[p] <= jt[p])}
<1>1. ASSUME T # {} PROVE FALSE
  <2>1. PICK p \in T : \A r \in T : r \subseteq p => r = p
    <3>1. T \subseteq SUBSET S
      OBVIOUS
    <3> HIDE DEF T
    <3> QED
      BY <1>1, <3>1, Smallest
  <2>2. p \in SUBSET S /\ ~ (it[p] <= jt[p])
    BY <2>1
  <2>3. p # {}
    <3>1. it[{}] = 0
      BY SumsEmpty
    <3>2. jt[{}] = 0
      BY SumsEmpty
    <3> QED
      BY <2>2, <3>1, <3>2
  <2>4. /\ AnyOf(p) \in p /\ it[p] = w[AnyOf(p)] + it[p \ {AnyOf(p)}]
        /\ jt[p] = v[AnyOf(p)] + jt[p \ {AnyOf(p)}]
    <3> HIDE DEF T
    <3>1. Sums(it, w, S) /\ p \in SUBSET S /\ p # {}
      BY <2>2, <2>3
    <3>2. Sums(jt, v, S) /\ p \in SUBSET S
      BY <2>2
    <3>3. AnyOf(p) \in p /\ it[p] = w[AnyOf(p)] + it[p \ {AnyOf(p)}]
      BY ONLY <3>1, SumsAt
    <3>4. jt[p] = v[AnyOf(p)] + jt[p \ {AnyOf(p)}]
      BY ONLY <3>1, <3>2, SumsAt
    <3> QED
      BY <3>3, <3>4
  <2> DEFINE q == p \ {AnyOf(p)}
  <2>5. it[q] <= jt[q]
    BY <2>1, <2>2, <2>4
  <2>6. it[q] \in Nat /\ jt[q] \in Nat /\ w[AnyOf(p)] \in Nat /\ v[AnyOf(p)] \in Nat
    BY <2>2, <2>4, SumsTyped
  <2> HIDE DEF q
  <2>7. w[AnyOf(p)] <= v[AnyOf(p)]
    BY <2>2, <2>4
  <2>8. it[p] = w[AnyOf(p)] + it[q] /\ jt[p] = v[AnyOf(p)] + jt[q]
    BY <2>4 DEF q
  <2> QED
    BY <2>2, <2>5, <2>6, <2>7, <2>8
<1> QED
  BY <1>1

\* When one term changes, the sum changes by as much.
LEMMA SumsChange ==
    ASSUME NEW S, IsFiniteSet(S), NEW w \in [S -> Nat], NEW v \in [S -> Nat],
           NEW it, NEW jt, Sums(it, w, S), Sums(jt, v, S),
           NEW x \in S, \A y \in S \ {x} : v[y] = w[y]
    PROVE  jt[S] + w[x] = it[S] + v[x]
<1>0. ASSUME NEW f \in [S -> Nat], NEW ft, Sums(ft, f, S)
      PROVE  ft[S] = f[x] + ft[S \ {x}]
  BY <1>0, SumsSplit
<1>1. it[S] = w[x] + it[S \ {x}] /\ jt[S] = v[x] + jt[S \ {x}]
  BY <1>0
<1>2. IsFiniteSet(S \ {x})
  BY FS_Subset
<1>3. it[S \ {x}] = jt[S \ {x}]
  BY <1>2, SumsAgree
<1>4. it[S \ {x}] \in Nat /\ w[x] \in Nat /\ v[x] \in Nat
  BY SumsTyped
<1> QED
  BY <1>1, <1>3, <1>4

=============================================================================
