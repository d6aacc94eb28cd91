------------------------- MODULE ProvenanceStoreProofs -------------------------
(***************************************************************************)
(* What the provenance store promises, for any rows, calls, policies and   *)
(* number of connections, and whatever queries fail.                       *)
(*                                                                         *)
(* The builders.  A snapshot is the closure of its roots, and its          *)
(* diagnostics are its elementary cycles; the search of an analysis has    *)
(* the least witness of every version within reach; a comparison finds     *)
(* every two assertions that exclude each other.  The three searches of    *)
(* the code are recursive functions: each is shown to exist, as a least    *)
(* one, and what it returns follows from an invariant of its loop and a    *)
(* measure that goes down, or from the least path that would be a          *)
(* counterexample.                                                         *)
(*                                                                         *)
(* The store.  AnalysesRestOnStored speaks of what is committed, but a     *)
(* writer checks what its transaction sees, which is older: the invariant  *)
(* Inv says that a view is a past of the store, that an analysis about to  *)
(* be committed was checked against its view, and that the bindings it     *)
(* selected are among the keys of its snapshot since it was built, which   *)
(* are the members that the store has of a snapshot.  A comparison looks   *)
(* at the store itself, which has had its rows since, and the findings it  *)
(* did not insert.  MadeInv says that what is stored, and what the calls   *)
(* have in hand, was made by the builders: with it, what holds of the      *)
(* builders holds of the store.  RefInv says that the foreign keys of the  *)
(* rows hold, in the store and in what an analysis sees of it; the trigger *)
(* of the analyses needs them.                                             *)
(***************************************************************************)
EXTENDS ProvenanceStore, FiniteSetTheorems, SequenceTheorems, TLAPS

-----------------------------------------------------------------------------
(* Numbers, loops and orders, from which the operators are built           *)

\* Some numbers have a least one.
LEMMA LeastNumber ==
  ASSUME NEW S, S \subseteq Nat, S # {}
  PROVE  \E n \in S : \A m \in S : n <= m
  <1>. DEFINE Less == {ss \in Nat \X Nat : ss[1] < ss[2]}
  <1>1. IsWellFoundedOn(Less, Nat)
    BY NatLessThanWellFounded DEF OpToRel
  <1>2. PICK n \in S : \A m \in S : <<m, n>> \notin Less
    <2>. HIDE DEF Less
    <2>. QED BY <1>1, WFMin, Zenon
  <1>3. ASSUME NEW m \in S PROVE n <= m
    <2>1. ~ (m < n)
      BY <1>2
    <2>. QED BY <2>1
  <1>. QED BY <1>3

\* The least of a set by two measures, the first of which goes first.
LEMMA LeastState ==
  ASSUME NEW S, S # {}, NEW f, NEW g, \A x \in S : f[x] \in Nat /\ g[x] \in Nat
  PROVE  \E x \in S : \A y \in S : f[x] < f[y] \/ (f[x] = f[y] /\ g[x] <= g[y])
  <1>1. PICK m \in {f[x] : x \in S} : \A n \in {f[x] : x \in S} : m <= n
    BY LeastNumber
  <1>. DEFINE T == {x \in S : f[x] = m}
  <1>2. PICK k \in {g[x] : x \in T} : \A n \in {g[x] : x \in T} : k <= n
    <2>1. T # {} /\ {g[x] : x \in T} # {} /\ {g[x] : x \in T} \subseteq Nat
      BY <1>1
    <2>. QED BY <2>1, LeastNumber
  <1>3. PICK x \in T : g[x] = k
    BY <1>2
  <1>4. ASSUME NEW y \in S PROVE f[x] < f[y] \/ (f[x] = f[y] /\ g[x] <= g[y])
    <2>1. m <= f[y] /\ f[x] = m
      BY <1>1, <1>3
    <2>2. CASE f[y] = m
      BY <2>1, <2>2, <1>2, <1>3
    <2>3. CASE f[y] # m
      BY <2>1, <2>3, <1>3
    <2>. QED BY <2>2, <2>3
  <1>. QED BY <1>3, <1>4

-----------------------------------------------------------------------------
(* Loops: a function that calls itself once, with the next state, is what  *)
(* the loop gives for the state it ends with.                              *)

Loop(D, B, next, out, f) ==
  f = [x \in D |-> IF x \in B THEN out[x] ELSE f[next[x]]]

\* There is such a function even when some loops do not end.
LEMMA LoopExists ==
  ASSUME NEW D, NEW B, NEW next \in [D -> D], NEW out
  PROVE  \E f : Loop(D, B, next, out, f)
  <1>. DEFINE Closed(C) == C \subseteq D /\ \A z \in C \ B : next[z] \in C
              Ends(x) == {y \in D \cap B : \A C \in SUBSET D : x \in C /\ Closed(C) => y \in C}
              f == [x \in D |-> CHOOSE v : v \in {out[y] : y \in Ends(x)}]
  <1>1. ASSUME NEW x \in D, x \in B PROVE Ends(x) = {x}
    <2>1. {x} \in SUBSET D /\ Closed({x})
      BY <1>1
    <2>2. Ends(x) \subseteq {x}
      BY <2>1
    <2>3. x \in Ends(x)
      BY <1>1
    <2>. QED BY <2>2, <2>3
  <1>2. ASSUME NEW x \in D, x \notin B PROVE Ends(x) = Ends(next[x])
    <2>1. next[x] \in D
      OBVIOUS
    <2>2. ASSUME NEW y \in Ends(x) PROVE y \in Ends(next[x])
      <3>1. ASSUME NEW C \in SUBSET D, next[x] \in C, Closed(C) PROVE y \in C
        <4>1. C \cup {x} \in SUBSET D /\ Closed(C \cup {x})
          BY <3>1
        <4>2. y \in C \cup {x}
          BY <4>1
        <4>. QED BY <4>2, <1>2
      <3>. QED BY <3>1
    <2>3. ASSUME NEW y \in Ends(next[x]) PROVE y \in Ends(x)
      <3>1. ASSUME NEW C \in SUBSET D, x \in C, Closed(C) PROVE y \in C
        <4>1. next[x] \in C
          BY <3>1, <1>2
        <4>. QED BY <4>1, <3>1
      <3>. QED BY <3>1
    <2>. QED BY <2>2, <2>3
  <1>3. ASSUME NEW x \in D PROVE f[x] = IF x \in B THEN out[x] ELSE f[next[x]]
    <2>1. CASE x \in B
      <3>1. {out[y] : y \in Ends(x)} = {out[x]}
        BY <1>1, <2>1
      <3>2. f[x] = CHOOSE v : v \in {out[y] : y \in Ends(x)}
        OBVIOUS
      <3>3. f[x] = out[x]
        <4>. HIDE DEF f, Ends
        <4>. QED BY <3>1, <3>2
      <3>. QED BY <3>3, <2>1
    <2>2. CASE x \notin B
      <3>1. next[x] \in D
        OBVIOUS
      <3>2. f[x] = (CHOOSE v : v \in {out[y] : y \in Ends(x)})
        OBVIOUS
      <3>3. f[next[x]] = (CHOOSE v : v \in {out[y] : y \in Ends(next[x])})
        BY <3>1
      <3>4. Ends(x) = Ends(next[x])
        BY <1>2, <2>2
      <3>. HIDE DEF f, Ends
      <3>. QED BY <2>2, <3>2, <3>3, <3>4
    <2>. QED BY <2>1, <2>2
  <1>4. f = [x \in D |-> IF x \in B THEN out[x] ELSE f[next[x]]]
    <2>1. f = [x \in D |-> f[x]]
      OBVIOUS
    <2>. HIDE DEF f, Ends
    <2>. QED BY <2>1, <1>3
  <1>. HIDE DEF f
  <1>. QED BY <1>4 DEF Loop

\* A loop that keeps an invariant and makes a measure less ends in a state where
\* the invariant holds.
LEMMA LoopEnds ==
  ASSUME NEW D, NEW B, NEW next, NEW out, NEW f, Loop(D, B, next, out, f),
         NEW I \in SUBSET D, NEW m, NEW k,
         \A x \in I : m[x] \in Nat /\ k[x] \in Nat,
         \A x \in I \ B :
           /\ next[x] \in I
           /\ m[next[x]] < m[x] \/ (m[next[x]] = m[x] /\ k[next[x]] < k[x])
  PROVE  \A x \in I : \E y \in I \cap B : f[x] = out[y]
  <1>. DEFINE Bad == {x \in I : ~\E y \in I \cap B : f[x] = out[y]}
  <1>1. SUFFICES ASSUME Bad # {} PROVE FALSE
    OBVIOUS
  <1>2. PICK x \in Bad : \A y \in Bad : m[x] < m[y] \/ (m[x] = m[y] /\ k[x] <= k[y])
    <2>. HIDE DEF Bad
    <2>1. \A x \in Bad : m[x] \in Nat /\ k[x] \in Nat
      BY DEF Bad
    <2>. QED BY <1>1, <2>1, LeastState
  <1>3. f[x] = IF x \in B THEN out[x] ELSE f[next[x]]
    BY DEF Loop
  <1>4. x \notin B
    BY <1>3
  <1>5. next[x] \in I /\ next[x] \notin Bad
    BY <1>2, <1>4
  <1>. QED BY <1>3, <1>4, <1>5

-----------------------------------------------------------------------------
(* Finite sets in order                                                    *)

\* The pairs of R put S in an order, in which no element is before itself; all
\* of S, when two that differ are in some order.
StrictlyOrders(R, S) ==
  /\ \A x \in S : <<x, x>> \notin R
  /\ \A x, y, z \in S : <<x, y>> \in R /\ <<y, z>> \in R => <<x, z>> \in R

TotallyOrders(R, S) ==
  StrictlyOrders(R, S) /\ \A x, y \in S : x = y \/ <<x, y>> \in R \/ <<y, x>> \in R

\* How many elements are before another one: less for an earlier one.
LEMMA RanksGrow ==
  ASSUME NEW S, IsFiniteSet(S), NEW R, StrictlyOrders(R, S)
  PROVE  \E rank \in [S -> 0..(Cardinality(S) - 1)] :
           /\ \A x \in S : rank[x] = Cardinality({y \in S : <<y, x>> \in R})
           /\ \A x, z \in S : <<x, z>> \in R => rank[x] < rank[z]
  <1>. DEFINE B(x) == {y \in S : <<y, x>> \in R}
              rank == [x \in S |-> Cardinality(B(x))]
  <1>1. \A T \in SUBSET S : IsFiniteSet(T) /\ Cardinality(T) \in Nat
    BY FS_Subset, FS_CardinalityType
  <1>2. ASSUME NEW T \in SUBSET S, NEW U \in SUBSET T, U # T
        PROVE Cardinality(U) < Cardinality(T)
    <2>1. Cardinality(U) <= Cardinality(T) /\ Cardinality(U) # Cardinality(T)
      BY <1>1, <1>2, FS_Subset
    <2>. QED BY <1>1, <2>1
  <1>3. ASSUME NEW x \in S PROVE rank[x] \in 0..(Cardinality(S) - 1)
    <2>1. B(x) \in SUBSET S /\ B(x) # S
      BY DEF StrictlyOrders
    <2>2. rank[x] = Cardinality(B(x))
      OBVIOUS
    <2>. HIDE DEF B, rank
    <2>3. Cardinality(B(x)) < Cardinality(S)
      BY <2>1, <1>2
    <2>. QED BY <2>1, <2>2, <2>3, <1>1
  <1>4. ASSUME NEW x \in S, NEW z \in S, <<x, z>> \in R
        PROVE rank[x] < rank[z]
    <2>1. B(x) \subseteq B(z) /\ x \in B(z) /\ x \notin B(x) /\ B(z) \subseteq S
      BY <1>4 DEF StrictlyOrders
    <2>2. rank[x] = Cardinality(B(x)) /\ rank[z] = Cardinality(B(z))
      OBVIOUS
    <2>. HIDE DEF B, rank
    <2>. QED BY <2>1, <2>2, <1>2
  <1>5. rank = [x \in S |-> rank[x]] /\ \A x \in S : rank[x] = Cardinality({y \in S : <<y, x>> \in R})
    OBVIOUS
  <1>. HIDE DEF rank
  <1>6. rank \in [S -> 0..(Cardinality(S) - 1)]
    BY <1>3, <1>5
  <1>. QED BY <1>4, <1>5, <1>6

\* A finite set in some order has an element with none before it.
LEMMA FiniteHasLeast ==
  ASSUME NEW S, IsFiniteSet(S), S # {}, NEW R, StrictlyOrders(R, S)
  PROVE  \E x \in S : \A y \in S : <<y, x>> \notin R
  <1>1. PICK rank \in [S -> 0..(Cardinality(S) - 1)] :
          \A x, z \in S : <<x, z>> \in R => rank[x] < rank[z]
    BY RanksGrow
  <1>2. Cardinality(S) \in Nat
    BY FS_CardinalityType
  <1>3. PICK n \in {rank[x] : x \in S} : \A m \in {rank[x] : x \in S} : n <= m
    <2>1. {rank[x] : x \in S} # {} /\ {rank[x] : x \in S} \subseteq Nat
      BY <1>2
    <2>. QED BY <2>1, LeastNumber
  <1>4. PICK x \in S : rank[x] = n
    BY <1>3
  <1>5. ASSUME NEW y \in S PROVE <<y, x>> \notin R
    <2>1. rank[x] <= rank[y]
      BY <1>3, <1>4
    <2>2. rank[x] \in Int /\ rank[y] \in Int
      BY <1>2
    <2>. QED BY <1>1, <2>1, <2>2
  <1>. QED BY <1>5

\* Ordered is the sequence of the elements, each once and in their order: the
\* sorts of the builders, whatever their comparator.
LEMMA OrderedIsInOrder ==
  ASSUME NEW S, IsFiniteSet(S), NEW R, TotallyOrders(R, S)
  PROVE  LET o == Ordered(S, R)
         IN  /\ o \in Seq(S) /\ Len(o) = Cardinality(S) /\ Cardinality(S) \in Nat
             /\ o \in [1..Cardinality(S) -> S]
             /\ \A x \in S : \E i \in 1..Cardinality(S) : o[i] = x
             /\ \A i, j \in 1..Cardinality(S) : i < j <=> <<o[i], o[j]>> \in R
  <1>. DEFINE n == Cardinality(S)
              o == Ordered(S, R)
  <1>1. n \in Nat
    BY FS_CardinalityType
  <1>2. PICK rank \in [S -> 0..(n - 1)] :
          /\ \A x \in S : rank[x] = Cardinality({y \in S : <<y, x>> \in R})
          /\ \A x, z \in S : <<x, z>> \in R => rank[x] < rank[z]
    BY RanksGrow DEF TotallyOrders
  <1>3. o = [i \in 1..n |-> CHOOSE x \in S : rank[x] = i - 1]
    BY <1>2 DEF Ordered
  <1>. HIDE DEF n, o
  <1>4. \A x \in S : rank[x] \in 0..(n - 1)
    BY <1>2
  <1>5. ASSUME NEW x \in S, NEW z \in S, rank[x] = rank[z] PROVE x = z
    <2>1. ~(rank[x] < rank[z]) /\ ~(rank[z] < rank[x])
      BY <1>1, <1>4, <1>5
    <2>. QED BY <1>2, <2>1 DEF TotallyOrders
  <1>6. \A k \in 0..(n - 1) : \E x \in S : rank[x] = k
    <2>1. rank \in Injection(S, 0..(n - 1))
      BY <1>2, <1>5 DEF Injection, IsInjective
    <2>2. IsFiniteSet(0..(n - 1)) /\ Cardinality(0..(n - 1)) = n
      BY <1>1, FS_Interval
    <2>3. rank \in Surjection(S, 0..(n - 1))
      BY <2>1, <2>2, FS_Injection DEF n
    <2>. QED BY <2>3 DEF Surjection
  <1>7. \A i \in 1..n : o[i] \in S /\ rank[o[i]] = i - 1
    <2>1. \A i \in 1..n : i - 1 \in 0..(n - 1)
      BY <1>1
    <2>. QED BY <1>3, <1>6, <2>1
  <1>8. o \in [1..n -> S] /\ o \in Seq(S) /\ Len(o) = n
    <2>1. o \in [1..n -> S]
      BY <1>3, <1>7
    <2>. QED BY <1>1, <2>1
  <1>9. ASSUME NEW x \in S PROVE \E i \in 1..n : o[i] = x
    <2>1. rank[x] + 1 \in 1..n /\ (rank[x] + 1) - 1 = rank[x]
      BY <1>1, <1>4
    <2>. QED BY <1>5, <1>7, <2>1
  <1>10. ASSUME NEW i \in 1..n, NEW j \in 1..n PROVE i < j <=> <<o[i], o[j]>> \in R
    <2>1. /\ o[i] \in S /\ o[j] \in S /\ i \in Int /\ j \in Int
          /\ rank[o[i]] = i - 1 /\ rank[o[j]] = j - 1
      BY <1>1, <1>7
    <2>2. <<o[i], o[j]>> \in R => i < j
      BY <1>2, <2>1
    <2>3. <<o[j], o[i]>> \in R => j < i
      BY <1>2, <2>1
    <2>4. o[i] = o[j] => i = j
      BY <2>1
    <2>. QED BY <2>1, <2>2, <2>3, <2>4 DEF TotallyOrders
  <1>. QED BY <1>1, <1>8, <1>9, <1>10 DEF n, o

-----------------------------------------------------------------------------
(* What is compared: the findings of a comparison are those of its set of  *)
(* assertions, and a replay finds them again                               *)

\* A function on the first numbers is a sequence.
LEMMA FunctionIsSequence ==
  ASSUME NEW S, NEW n \in Nat, NEW s \in [1..n -> S]
  PROVE  s \in Seq(S) /\ Len(s) = n /\ DOMAIN s = 1..n
  OBVIOUS

\* All of a sequence is the sequence.
LEMMA WholeSubSeq ==
  ASSUME NEW S, NEW s \in Seq(S)
  PROVE  SubSeq(s, 1, Len(s)) = s
  <1>. DEFINE n == Len(s)
              a == SubSeq(s, 1, n)
  <1>1. n \in Int /\ n >= 0 /\ \A i \in 1..n : s[i] \in S
    BY LenProperties, ElementOfSeq
  <1>. HIDE DEF n
  <1>2. /\ a \in Seq(S) /\ Len(a) = IF 1 <= n THEN n - 1 + 1 ELSE 0
        /\ \A i \in 1..(n - 1 + 1) : a[i] = s[1 + i - 1]
    BY ONLY <1>1, SubSeqProperties
  <1>. HIDE DEF a
  <1>3. Len(a) = n /\ \A i \in 1..n : a[i] = s[i]
    BY ONLY <1>1, <1>2
  <1>. QED BY <1>2, <1>3, SeqEqual DEF a, n

\* A sequence has finitely many elements.
LEMMA SequencesAreFinite ==
  ASSUME NEW S, NEW s \in Seq(S)
  PROVE  IsFiniteSet(ToSet(s)) /\ ToSet(s) \subseteq S
  <1>1. Len(s) \in Nat /\ s \in [1..Len(s) -> S]
    OBVIOUS
  <1>2. s \in Surjection(1..Len(s), ToSet(s))
    BY <1>1 DEF Surjection, ToSet
  <1>3. IsFiniteSet(1..Len(s))
    BY <1>1, FS_Interval
  <1>4. IsFiniteSet(ToSet(s))
    BY <1>2, <1>3, FS_Surjection
  <1>. QED BY <1>1, <1>4 DEF ToSet

\* The assertions of a comparison, in the order of their ids, which differ.
LEMMA AssertionsAreInOrder ==
  ASSUME NEW q, IsFiniteSet(ToSet(q.assertions)),
         \A a \in ToSet(q.assertions) : a.id \in Nat,
         \A a, b \in ToSet(q.assertions) : a.id = b.id => a = b
  PROVE  LET o == InOrder(q)
             n == Cardinality(ToSet(q.assertions))
         IN  /\ n \in Nat /\ o \in [1..n -> ToSet(q.assertions)] /\ Len(o) = n
             /\ o \in Seq(ToSet(q.assertions))
             /\ \A x \in ToSet(q.assertions) : \E i \in 1..n : o[i] = x
             /\ \A i, j \in 1..n : i < j <=> o[i].id < o[j].id
  <1>. DEFINE S == ToSet(q.assertions)
              R == {p \in S \X S : p[1].id < p[2].id}
  <1>1. IsFiniteSet(S)
    OBVIOUS
  <1>2. \A a \in S : a.id \in Nat
    OBVIOUS
  <1>3. \A a, b \in S : <<a, b>> \in R <=> a.id < b.id
    OBVIOUS
  <1>4. InOrder(q) = Ordered(S, R)
    BY DEF InOrder
  <1>. HIDE DEF R
  <1>5. TotallyOrders(R, S)
    BY <1>2, <1>3 DEF TotallyOrders, StrictlyOrders
  <1>6. LET o == Ordered(S, R)
         IN  /\ o \in Seq(S) /\ Len(o) = Cardinality(S) /\ Cardinality(S) \in Nat
             /\ o \in [1..Cardinality(S) -> S]
             /\ \A x \in S : \E i \in 1..Cardinality(S) : o[i] = x
             /\ \A i, j \in 1..Cardinality(S) : i < j <=> <<o[i], o[j]>> \in R
    <2>. HIDE DEF S
    <2>. QED BY <1>1, <1>5, OrderedIsInOrder
  <1>. HIDE DEF S
  <1>7. \A i \in 1..Cardinality(S) : Ordered(S, R)[i] \in S
    BY <1>6
  <1>. QED BY <1>3, <1>4, <1>6, <1>7 DEF S

\* The assertions that the service accepts have ids of their own.
LEMMA IdsAreDistinct ==
  ASSUME NEW q, ComparisonHolds(q)
  PROVE  \A a, b \in ToSet(q.assertions) : a.id = b.id => a = b
  BY DEF ComparisonHolds, ToSet

\* A finding for every two assertions that exclude each other.
LEMMA FindingsOf ==
  ASSUME NEW q, ComparisonTyped(q),
         \A a, b \in ToSet(q.assertions) : a.id = b.id => a = b
  PROVE  Compare(q).findings =
           {Finding(p[1], p[2]) : p \in {r \in ToSet(q.assertions) \X ToSet(q.assertions) :
              r[1].id < r[2].id /\ Comparable(r[1], r[2]) /\ Incompatible(r[1], r[2])}}
  <1>. DEFINE S == ToSet(q.assertions)
              n == Cardinality(S)
              o == InOrder(q)
              Out(a, b) == IF ~Comparable(a, b) THEN "not comparable"
                           ELSE IF Incompatible(a, b) THEN "contradiction"
                           ELSE "comparable"
              E == Evaluations(q)
  <1>1. /\ n \in Nat /\ o \in [1..n -> S]
        /\ \A x \in S : \E i \in 1..n : o[i] = x
        /\ \A i, j \in 1..n : i < j <=> o[i].id < o[j].id
    <2>1. IsFiniteSet(S) /\ \A a \in S : a.id \in Nat
      BY SequencesAreFinite DEF ComparisonTyped, AssertionTyped
    <2>. QED BY <2>1, AssertionsAreInOrder
  <1>2. E = {[first |-> o[p[1]], second |-> o[p[2]], outcome |-> Out(o[p[1]], o[p[2]])] :
               p \in {r \in (DOMAIN o) \X (DOMAIN o) : r[1] < r[2]}}
    BY DEF Evaluations
  <1>3. Compare(q).findings = {Finding(e.first, e.second) : e \in {d \in E : d.outcome = "contradiction"}}
    BY DEF Compare
  <1>4. \A a, b : Out(a, b) = "contradiction" <=> Comparable(a, b) /\ Incompatible(a, b)
    OBVIOUS
  <1>. HIDE DEF S, n, o, E, Out
  <1>5. ASSUME NEW f \in Compare(q).findings
        PROVE \E a, b \in S : a.id < b.id /\ Comparable(a, b) /\ Incompatible(a, b) /\ f = Finding(a, b)
    <2>1. PICK e \in E : e.outcome = "contradiction" /\ f = Finding(e.first, e.second)
      BY <1>3
    <2>2. PICK i \in DOMAIN o, j \in DOMAIN o :
             i < j /\ e = [first |-> o[i], second |-> o[j], outcome |-> Out(o[i], o[j])]
      BY <1>2
    <2>3. e.first = o[i] /\ e.second = o[j] /\ e.outcome = Out(o[i], o[j])
      BY <2>2
    <2>4. i \in 1..n /\ j \in 1..n /\ o[i] \in S /\ o[j] \in S
      BY <1>1
    <2>. QED BY <1>1, <1>4, <2>1, <2>2, <2>3, <2>4
  <1>6. ASSUME NEW a \in S, NEW b \in S, a.id < b.id, Comparable(a, b), Incompatible(a, b)
        PROVE Finding(a, b) \in Compare(q).findings
    <2>1. PICK i \in 1..n, j \in 1..n : o[i] = a /\ o[j] = b
      BY <1>1
    <2>2. i < j /\ i \in DOMAIN o /\ j \in DOMAIN o
      BY <1>1, <1>6, <2>1
    <2>. DEFINE e == [first |-> o[i], second |-> o[j], outcome |-> Out(o[i], o[j])]
    <2>5. <<i, j>> \in {r \in (DOMAIN o) \X (DOMAIN o) : r[1] < r[2]}
      BY <2>2
    <2>3. e \in E
      BY <1>2, <2>5
    <2>4. e.outcome = "contradiction" /\ Finding(e.first, e.second) = Finding(a, b)
      BY <1>4, <1>6, <2>1
    <2>. HIDE DEF e
    <2>. QED BY <1>3, <2>3, <2>4
  <1>. DEFINE T == {r \in S \X S : r[1].id < r[2].id /\ Comparable(r[1], r[2]) /\ Incompatible(r[1], r[2])}
  <1>7. ASSUME NEW f \in Compare(q).findings PROVE \E p \in T : f = Finding(p[1], p[2])
    <2>1. PICK a \in S, b \in S : a.id < b.id /\ Comparable(a, b) /\ Incompatible(a, b) /\ f = Finding(a, b)
      BY <1>5
    <2>2. <<a, b>> \in T
      BY <2>1
    <2>. HIDE DEF T
    <2>. QED BY <2>1, <2>2
  <1>8. ASSUME NEW p \in T PROVE Finding(p[1], p[2]) \in Compare(q).findings
    BY <1>6
  <1>9. Compare(q).findings = {Finding(p[1], p[2]) : p \in T}
    <2>. HIDE DEF T
    <2>. QED BY <1>7, <1>8
  <1>. QED BY <1>9 DEF S

\* What is found of two assertions, and what should be.
LEMMA ContradictionsOf ==
  ASSUME NEW q, ComparisonTyped(q), ComparisonHolds(q)
  PROVE  ContradictionsAre(Compare(q).findings, ToSet(q.assertions))
  <1>. DEFINE S == ToSet(q.assertions)
              said == Compare(q).findings
              Excluded(a, b) == \E p \in a.domain.pairs : {p[1], p[2]} = {a.value, b.value}
  <1>1. \A a, b \in S : a.id = b.id => a = b
    BY IdsAreDistinct
  <1>2. said = {Finding(p[1], p[2]) : p \in {r \in S \X S :
              r[1].id < r[2].id /\ Comparable(r[1], r[2]) /\ Incompatible(r[1], r[2])}}
    BY <1>1, FindingsOf
  <1>3. \A a \in S : AssertionTyped(a) /\ AssertionHolds(a, q) /\ PairsAreOrdered(a.domain)
    BY DEF ComparisonTyped, ComparisonHolds, AssertionHolds
  <1>4. \A a \in S : a.id \in Nat /\ a.value \in Nat
    BY <1>3 DEF AssertionTyped
  <1>5. ASSUME NEW a \in S, NEW b \in S PROVE About(a) = About(b) <=> Comparable(a, b)
    <2>1. \A x \in S : About(x) = [family |-> "assertion", id |-> 0, subject |-> x.subject,
            property |-> x.property, domain |-> x.domain, value |-> 0, context |-> x.context,
            bindings |-> {}]
      <3>1. SUFFICES ASSUME NEW x \in S
                     PROVE  About(x) = [family |-> "assertion", id |-> 0, subject |-> x.subject,
                              property |-> x.property, domain |-> x.domain, value |-> 0,
                              context |-> x.context, bindings |-> {}]
        OBVIOUS
      <3>2. PICK i, s, p, d, v, c, bs :
              x = [family |-> "assertion", id |-> i, subject |-> s, property |-> p, domain |-> d,
                   value |-> v, context |-> c, bindings |-> bs]
        BY <1>3 DEF AssertionTyped
      <3>3. x.subject = s /\ x.property = p /\ x.domain = d /\ x.context = c
        BY <3>2
      <3>. DEFINE y == [x EXCEPT !.id = 0]
                  z == [y EXCEPT !.value = 0]
      <3>4. y = [family |-> "assertion", id |-> 0, subject |-> s, property |-> p, domain |-> d,
                 value |-> v, context |-> c, bindings |-> bs]
        BY <3>2
      <3>5. z = [family |-> "assertion", id |-> 0, subject |-> s, property |-> p, domain |-> d,
                 value |-> 0, context |-> c, bindings |-> bs]
        <4>. HIDE DEF y
        <4>. QED BY <3>4
      <3>6. About(x) = [z EXCEPT !.bindings = {}]
        BY DEF About
      <3>7. [z EXCEPT !.bindings = {}] = [family |-> "assertion", id |-> 0, subject |-> s,
              property |-> p, domain |-> d, value |-> 0, context |-> c, bindings |-> {}]
        <4>. HIDE DEF z
        <4>. QED BY <3>5
      <3>. HIDE DEF y, z
      <3>. QED BY <3>3, <3>6, <3>7
    <2>. QED BY <2>1 DEF Comparable
  <1>6. ASSUME NEW a \in S, NEW b \in S PROVE Excluded(a, b) <=> Incompatible(a, b)
    <2>1. \A p \in a.domain.pairs : p = <<p[1], p[2]>> /\ p[1] \in Nat /\ p[2] \in Nat /\ p[1] < p[2]
      BY <1>3 DEF AssertionTyped, PairsAreOrdered
    <2>2. Finding(a, b).values = IF a.value < b.value THEN <<a.value, b.value>> ELSE <<b.value, a.value>>
      BY DEF Finding
    <2>3. Excluded(a, b) => Incompatible(a, b)
      <3>1. SUFFICES ASSUME NEW p \in a.domain.pairs, {p[1], p[2]} = {a.value, b.value}
                     PROVE  Finding(a, b).values = p
        BY DEF Incompatible
      <3>. QED BY <1>4, <2>1, <2>2, <3>1
    <2>4. Incompatible(a, b) => Excluded(a, b)
      BY <2>2 DEF Incompatible
    <2>. QED BY <2>3, <2>4
  <1>7. \A a, b \in S : Finding(a, b).first = a /\ Finding(a, b).second = b
    BY DEF Finding
  <1>8. ASSUME NEW f \in said
        PROVE \E a, b \in S : /\ a.id < b.id /\ Comparable(a, b) /\ Incompatible(a, b)
                              /\ f = Finding(a, b) /\ f.first = a /\ f.second = b
    BY <1>2, <1>7
  <1>9. ASSUME NEW a \in S, NEW b \in S, a.id < b.id, Comparable(a, b), Incompatible(a, b)
        PROVE  Finding(a, b) \in said
    <2>1. <<a, b>> \in {r \in S \X S :
              r[1].id < r[2].id /\ Comparable(r[1], r[2]) /\ Incompatible(r[1], r[2])}
      BY <1>9
    <2>. QED BY <1>2, <2>1
  <1>. HIDE DEF said, S, Excluded
  <1>10. ASSUME NEW f \in said, NEW g \in said, {f.first, f.second} = {g.first, g.second}
         PROVE  f = g
    BY <1>4, <1>8, <1>10
  <1>11. ASSUME NEW a \in S, NEW b \in S, \E f \in said : {f.first, f.second} = {a, b}
         PROVE  About(a) = About(b) /\ Excluded(a, b)
    <2>1. PICK f \in said : {f.first, f.second} = {a, b}
      BY <1>11
    <2>2. PICK c \in S, d \in S : /\ c.id < d.id /\ Comparable(c, d) /\ Incompatible(c, d)
                                  /\ f.first = c /\ f.second = d
      BY <1>8
    <2>3. CASE a = c /\ b = d
      BY <2>2, <2>3, <1>5, <1>6
    <2>4. CASE a = d /\ b = c
      <3>1. About(a) = About(b) /\ Excluded(b, a)
        BY <2>2, <2>4, <1>5, <1>6
      <3>2. a.domain = b.domain
        BY <2>2, <2>4 DEF Comparable
      <3>. QED BY <3>1, <3>2 DEF Excluded
    <2>5. (a = c /\ b = d) \/ (a = d /\ b = c)
      BY <2>1, <2>2, <1>4
    <2>. QED BY <2>3, <2>4, <2>5
  <1>12. ASSUME NEW a \in S, NEW b \in S, About(a) = About(b), Excluded(a, b)
         PROVE  \E f \in said : {f.first, f.second} = {a, b}
    <2>1. Comparable(a, b) /\ Incompatible(a, b)
      BY <1>5, <1>6, <1>12
    <2>2. CASE a.id < b.id
      BY <2>1, <2>2, <1>7, <1>9
    <2>3. CASE b.id < a.id
      <3>1. Comparable(b, a) /\ Excluded(b, a)
        BY <2>1, <1>12 DEF Comparable, Excluded
      <3>2. Finding(b, a) \in said
        BY <2>3, <3>1, <1>6, <1>9
      <3>. QED BY <3>2, <1>7
    <2>4. CASE a.id = b.id
      <3>1. a = b
        BY <1>1, <2>4
      <3>2. PICK p \in a.domain.pairs : {p[1], p[2]} = {a.value}
        BY <3>1, <1>12 DEF Excluded
      <3>3. p[1] < p[2] /\ p[1] \in Nat /\ p[2] \in Nat
        BY <1>3 DEF AssertionTyped, PairsAreOrdered
      <3>. QED BY <3>2, <3>3
    <2>. QED BY <1>4, <2>2, <2>3, <2>4
  <1>. QED BY <1>10, <1>11, <1>12 DEF said, S, Excluded, ContradictionsAre

\* SetToSeq gives each element of a finite set once.
LEMMA ChosenSequence ==
  ASSUME NEW S, IsFiniteSet(S)
  PROVE  /\ SetToSeq(S) \in [1..Cardinality(S) -> S] /\ Cardinality(S) \in Nat
         /\ SetToSeq(S) \in Seq(S)
         /\ IsInjective(SetToSeq(S)) /\ ToSet(SetToSeq(S)) = S
  <1>. DEFINE n == Cardinality(S)
  <1>1. n \in Nat /\ ExistsBijection(1..n, S)
    BY FS_CardinalityType
  <1>2. \E f \in [1..n -> S] : IsInjective(f)
    BY <1>1 DEF ExistsBijection, Bijection, Injection
  <1>3. SetToSeq(S) \in [1..n -> S] /\ IsInjective(SetToSeq(S))
    BY <1>2 DEF SetToSeq
  <1>4. IsFiniteSet(1..n) /\ Cardinality(1..n) = n
    BY <1>1, FS_Interval
  <1>5. SetToSeq(S) \in Injection(1..n, S)
    BY <1>3 DEF Injection
  <1>6. SetToSeq(S) \in Surjection(1..n, S)
    BY <1>4, <1>5, FS_Injection
  <1>7. ToSet(SetToSeq(S)) = S
    <2>. HIDE DEF n
    <2>. QED BY <1>3, <1>6 DEF Surjection, ToSet
  <1>. QED BY <1>1, <1>3, <1>7

\* The findings that are left to insert are findings, each once.
LEMMA ToInsertIsOfFindings ==
  ASSUME NEW q, ComparisonTyped(q), ComparisonHolds(q), NEW existing
  PROVE  LET todo == ToInsert(Compare(q), existing)
         IN  todo \in Seq(Compare(q).findings \ existing)
  <1>. DEFINE S == ToSet(q.assertions)
              T == {r \in S \X S : r[1].id < r[2].id /\ Comparable(r[1], r[2]) /\ Incompatible(r[1], r[2])}
              said == Compare(q).findings
              new == said \ existing
              R == {p \in new \X new : FindingBefore(p[1], p[2])}
              m == [p \in T |-> Finding(p[1], p[2])]
  <1>1. \A a, b \in S : a.id = b.id => a = b
    BY IdsAreDistinct
  <1>2. said = {Finding(p[1], p[2]) : p \in T}
    BY <1>1, FindingsOf
  <1>3. IsFiniteSet(T)
    <2>1. IsFiniteSet(S)
      BY SequencesAreFinite DEF ComparisonTyped
    <2>2. IsFiniteSet(S \X S)
      BY <2>1, FS_Product
    <2>. QED BY <2>2, FS_Subset
  <1>4. IsFiniteSet(said)
    <2>1. m \in Surjection(T, said)
      <3>. HIDE DEF T, said
      <3>. QED BY <1>2 DEF Surjection
    <2>. QED BY <1>3, <2>1, FS_Surjection
  <1>5. IsFiniteSet(new)
    BY <1>4, FS_Subset
  <1>6. ASSUME NEW f \in new
        PROVE  f.first \in S /\ f.second \in S /\ f = Finding(f.first, f.second)
    <2>1. PICK p \in T : f = Finding(p[1], p[2])
      BY <1>2
    <2>. QED BY <2>1 DEF Finding
  <1>7. \A a \in S : a.id \in Nat
    BY DEF ComparisonTyped, AssertionTyped
  <1>8. \A f, g \in new : <<f, g>> \in R <=>
          f.first.id < g.first.id \/ (f.first.id = g.first.id /\ f.second.id < g.second.id)
    <2>. HIDE DEF new
    <2>. QED BY DEF FindingBefore
  <1>9. ToInsert(Compare(q), existing) = Ordered(new, R)
    BY DEF ToInsert
  <1>. HIDE DEF S, T, said, new, R
  <1>10. StrictlyOrders(R, new)
    <2>1. \A f \in new : f.first.id \in Nat /\ f.second.id \in Nat
      BY <1>6, <1>7
    <2>. QED BY <2>1, <1>8 DEF StrictlyOrders
  <1>11. ASSUME NEW f \in new, NEW g \in new PROVE f = g \/ <<f, g>> \in R \/ <<g, f>> \in R
    <2>1. f.first.id \in Nat /\ f.second.id \in Nat /\ g.first.id \in Nat /\ g.second.id \in Nat
      BY <1>6, <1>7
    <2>2. f.first.id = g.first.id /\ f.second.id = g.second.id => f = g
      BY <1>1, <1>6
    <2>. QED BY <2>1, <2>2, <1>8
  <1>12. TotallyOrders(R, new)
    BY <1>10, <1>11 DEF TotallyOrders
  <1>13. Ordered(new, R) \in Seq(new)
    BY <1>5, <1>12, OrderedIsInOrder
  <1>. QED BY <1>9, <1>13 DEF new, said

\* Only the set of the assertions matters.
LEMMA CompareOfSet ==
  ASSUME NEW p, NEW q, ToSet(p.assertions) = ToSet(q.assertions),
         p.domains = q.domains, p.values = q.values
  PROVE  Compare(p) = Compare(q)
  <1>1. InOrder(p) = InOrder(q)
    BY DEF InOrder
  <1>2. Evaluations(p) = Evaluations(q)
    BY <1>1 DEF Evaluations
  <1>. QED BY <1>1, <1>2 DEF Compare

\* The rows under the ids of some that are stored are these.
LEMMA ThoseAreGiven ==
  ASSUME NEW rows, UniqueIds(rows), NEW S, S \subseteq rows, NEW family,
         \A r \in S : r.family = family
  PROVE  Those(rows, family, {r.id : r \in S}) = S
  BY DEF Those, Of, UniqueIds

\* The assertions in their order are the assertions.
LEMMA OrderedSet ==
  ASSUME NEW q, IsFiniteSet(ToSet(q.assertions)),
         \A a \in ToSet(q.assertions) : a.id \in Nat,
         \A a, b \in ToSet(q.assertions) : a.id = b.id => a = b
  PROVE  ToSet(InOrder(q)) = ToSet(q.assertions)
  <1>. DEFINE S == ToSet(q.assertions)
              n == Cardinality(S)
              o == InOrder(q)
  <1>1. /\ n \in Nat /\ o \in [1..n -> S]
        /\ \A x \in S : \E i \in 1..n : o[i] = x
    BY AssertionsAreInOrder
  <1>. HIDE DEF S, n, o
  <1>2. ToSet(o) = S
    BY <1>1 DEF ToSet
  <1>. QED BY <1>2 DEF S, o

\* A comparison is made again of what is stored, when what is stored under its
\* ids is what was compared.
LEMMA ReplayOf ==
  ASSUME NEW q, ComparisonTyped(q), ComparisonHolds(q), NEW rows, IsFiniteSet(rows),
         UniqueIds(rows), \A r \in rows : r.id \in Nat
  PROVE  LET c == Compare(q)
         IN  Replayed(c, rows) <=>
               /\ ToSet(c.assertions) \cup c.domains \cup c.values \subseteq rows
               /\ \A a \in ToSet(c.assertions) : \A b \in a.bindings :
                    b[1] \in StatementFamilies =>
                      \E r \in Of(rows, "binding") : b = <<r.family, r.id>>
  <1>. DEFINE c == Compare(q)
              re == Reloaded(c, rows)
              S == ToSet(q.assertions)
              A == Those(rows, "assertion", AssertionIds(c))
              Bound(a) == \A b \in a.bindings : b[1] \in StatementFamilies =>
                            \E r \in Of(rows, "binding") : b = <<r.family, r.id>>
  <1>1. /\ IsFiniteSet(S) /\ \A a \in S : a.id \in Nat
        /\ \A a \in S : AssertionTyped(a)
    BY SequencesAreFinite DEF ComparisonTyped, AssertionTyped
  <1>2. \A a, b \in S : a.id = b.id => a = b
    BY IdsAreDistinct
  <1>3. ToSet(c.assertions) = S /\ c.domains = q.domains /\ c.values = q.values
    <2>1. ToSet(InOrder(q)) = S
      BY <1>1, <1>2, OrderedSet
    <2>. QED BY <2>1 DEF Compare
  <1>4. /\ q.domains = {a.domain : a \in S} /\ q.values = {d.values : d \in q.domains}
        /\ UniqueIds(q.domains) /\ UniqueIds(q.values)
        /\ \A d \in q.domains : PairsAreOrdered(d)
        /\ \A a \in S : AssertionHolds(a, q)
    BY DEF ComparisonHolds, EveryDomainIsUsed
  <1>5. A \subseteq rows /\ IsFiniteSet(A) /\ \A a \in A : a.id \in Nat /\ a.family = "assertion"
    <2>1. A \subseteq rows /\ \A a \in A : a.family = "assertion"
      BY DEF Those, Of
    <2>. HIDE DEF A
    <2>. QED BY <2>1, FS_Subset
  <1>6. \A a, b \in A : a.id = b.id => a = b
    BY <1>5 DEF UniqueIds
  <1>7. /\ re.assertions = SetToSeq(A)
        /\ re.domains = Those(rows, "comparisonDomain", {d.id : d \in c.domains})
        /\ re.values = Those(rows, "valueDomain", {d.id : d \in c.values})
    BY DEF Reloaded
  <1>8. re.domains \subseteq rows /\ re.values \subseteq rows
    BY <1>7 DEF Those, Of
  <1>9. ToSet(re.assertions) = A /\ IsInjective(re.assertions)
    BY <1>5, <1>7, ChosenSequence
  <1>10. Replayed(c, rows) <=> /\ \A a \in ToSet(re.assertions) : StatementsAreKnown(a, rows)
                               /\ ComparisonHolds(re) /\ Compare(re) = c
    BY DEF Replayed
  <1>11. \A a \in S : StatementsAreKnown(a, rows) <=> Bound(a)
    <2>1. SUFFICES ASSUME NEW a \in S, NEW b \in a.bindings, b[1] \in StatementFamilies
                   PROVE  (b[1] = "binding" /\ b[2] \in Ids(rows, "binding"))
                            <=> \E r \in Of(rows, "binding") : b = <<r.family, r.id>>
      BY DEF StatementsAreKnown
    <2>2. b = <<b[1], b[2]>>
      BY <1>1 DEF AssertionTyped
    <2>3. \A r \in Of(rows, "binding") : r.family = "binding"
      BY DEF Of
    <2>. QED BY <2>2, <2>3 DEF Ids
  <1>. HIDE DEF A, re, c, S, Bound
  <1>12. ASSUME Replayed(c, rows)
         PROVE  S \cup c.domains \cup c.values \subseteq rows /\ \A a \in S : Bound(a)
    <2>1. Compare(re) = c /\ \A a \in A : StatementsAreKnown(a, rows)
      BY <1>9, <1>10, <1>12
    <2>2. c.assertions = InOrder(re) /\ c.domains = re.domains /\ c.values = re.values
      BY <2>1 DEF Compare
    <2>3. ToSet(InOrder(re)) = A
      BY <1>5, <1>6, <1>9, OrderedSet
    <2>4. S = A
      BY <2>2, <2>3, <1>3
    <2>. QED BY <2>1, <2>2, <2>4, <1>5, <1>8, <1>11
  <1>13. ASSUME S \cup c.domains \cup c.values \subseteq rows, \A a \in S : Bound(a)
         PROVE  Replayed(c, rows)
    <2>1. A = S
      <3>1. AssertionIds(c) = {a.id : a \in S}
        BY <1>3 DEF AssertionIds
      <3>2. \A a \in S : a.family = "assertion"
        <4>1. SUFFICES ASSUME NEW a \in S PROVE a.family = "assertion"
          OBVIOUS
        <4>2. PICK i, s, p, d, v, k, bs :
                a = [family |-> "assertion", id |-> i, subject |-> s, property |-> p,
                     domain |-> d, value |-> v, context |-> k, bindings |-> bs]
          BY <1>1 DEF AssertionTyped
        <4>. QED BY <4>2
      <3>. QED BY <3>1, <3>2, <1>13, ThoseAreGiven DEF A
    <2>2. re.domains = q.domains
      <3>1. \A d \in q.domains : d.family = "comparisonDomain"
        BY <1>1, <1>4 DEF AssertionTyped
      <3>. QED BY <3>1, <1>3, <1>7, <1>13, ThoseAreGiven
    <2>3. re.values = q.values
      <3>1. \A d \in q.values : d.family = "valueDomain"
        BY <1>1, <1>4 DEF AssertionTyped
      <3>. QED BY <3>1, <1>3, <1>7, <1>13, ThoseAreGiven
    <2>4. Compare(re) = c
      <3>1. ToSet(re.assertions) = ToSet(q.assertions)
        BY <1>9, <2>1 DEF S
      <3>. QED BY <3>1, <2>2, <2>3, CompareOfSet DEF c
    <2>5. ComparisonHolds(re)
      <3>1. ToSet(re.assertions) = S
        BY <1>9, <2>1
      <3>2. ASSUME NEW i \in DOMAIN re.assertions, NEW j \in DOMAIN re.assertions,
                   re.assertions[i].id = re.assertions[j].id
            PROVE  i = j
        <4>1. re.assertions[i] \in S /\ re.assertions[j] \in S
          BY <3>1 DEF ToSet
        <4>2. re.assertions[i] = re.assertions[j]
          BY <4>1, <3>2, <1>2
        <4>. QED BY <4>2, <1>9 DEF IsInjective
      <3>3. \A a \in S : AssertionHolds(a, re)
        BY <1>4, <2>2, <2>3 DEF AssertionHolds
      <3>4. EveryDomainIsUsed(re)
        BY <3>1, <1>4, <2>2, <2>3 DEF EveryDomainIsUsed
      <3>. QED BY <3>1, <3>2, <3>3, <3>4, <1>4, <2>2, <2>3 DEF ComparisonHolds
    <2>. QED BY <2>1, <2>4, <2>5, <1>9, <1>10, <1>11, <1>13
  <1>. QED BY <1>3, <1>12, <1>13 DEF c, Bound

-----------------------------------------------------------------------------
(* The walk from the roots ends, with the closure of the roots             *)

Repeats(W, a, step) == W = [n \in Nat |-> IF n = 0 THEN a ELSE step[W[n - 1]]]

\* What is done n times.
LEMMA NatRecursion ==
  ASSUME NEW A, NEW step \in [A -> A], NEW a \in A
  PROVE  \E W \in [Nat -> A] : Repeats(W, a, step)
  <1>. DEFINE D == Nat \X A
              B == {x \in D : x[1] = 0}
              next == [x \in D |-> IF x \in B THEN x ELSE <<x[1] - 1, step[x[2]]>>]
              out == [x \in D |-> x[2]]
  <1>1. next \in [D -> D]
    OBVIOUS
  <1>2. PICK f : Loop(D, B, next, out, f)
    <2>. HIDE DEF next, out, B
    <2>. QED BY <1>1, LoopExists
  <1>3. \A n \in Nat, x \in A : f[<<n, x>>] = IF n = 0 THEN x ELSE f[<<n - 1, step[x]>>]
    BY <1>2 DEF Loop
  <1>4. \A n \in Nat : \A x \in A : f[<<n, x>>] \in A /\ f[<<n, step[x]>>] = step[f[<<n, x>>]]
    <2>. DEFINE Good(n) == \A x \in A : f[<<n, x>>] \in A /\ f[<<n, step[x]>>] = step[f[<<n, x>>]]
                Bad == {n \in Nat : ~Good(n)}
    <2>1. SUFFICES ASSUME Bad # {} PROVE FALSE
      OBVIOUS
    <2>2. PICK n \in Bad : \A m \in Bad : n <= m
      <3>. HIDE DEF Bad
      <3>1. Bad \subseteq Nat
        BY DEF Bad
      <3>. QED BY <2>1, <3>1, LeastNumber
    <2>3. \A x \in A : step[x] \in A
      OBVIOUS
    <2>4. CASE n = 0
      BY <1>3, <2>3, <2>4
    <2>5. CASE n # 0
      <3>1. n - 1 \in Nat /\ Good(n - 1)
        BY <2>2, <2>5
      <3>2. Good(n)
        <4>1. SUFFICES ASSUME NEW x \in A
                       PROVE f[<<n, x>>] \in A /\ f[<<n, step[x]>>] = step[f[<<n, x>>]]
          OBVIOUS
        <4>2. f[<<n, x>>] = f[<<n - 1, step[x]>>] /\ f[<<n, step[x]>>] = f[<<n - 1, step[step[x]]>>]
          BY <1>3, <2>3, <2>5
        <4>. QED BY <3>1, <4>2, <2>3
      <3>. QED BY <3>2
    <2>. QED BY <2>4, <2>5
  <1>. DEFINE W == [n \in Nat |-> f[<<n, a>>]]
  <1>5. W \in [Nat -> A]
    BY <1>4
  <1>6. ASSUME NEW n \in Nat PROVE W[n] = IF n = 0 THEN a ELSE step[W[n - 1]]
    <2>1. CASE n = 0
      BY <1>3, <2>1
    <2>2. CASE n # 0
      <3>1. n - 1 \in Nat
        BY <2>2
      <3>2. W[n] = f[<<n - 1, step[a]>>] /\ W[n - 1] = f[<<n - 1, a>>]
        BY <1>3, <2>2, <3>1
      <3>. QED BY <1>4, <2>2, <3>1, <3>2
    <2>. QED BY <2>1, <2>2
  <1>7. W = [n \in Nat |-> W[n]]
    OBVIOUS
  <1>. HIDE DEF W
  <1>8. W = [n \in Nat |-> IF n = 0 THEN a ELSE step[W[n - 1]]]
    BY <1>6, <1>7
  <1>. QED BY <1>5, <1>8 DEF Repeats

-----------------------------------------------------------------------------
(* The versions of the rows                                                *)

\* The versions that rows speak of are finitely many numbers.
LEMMA NodesOf ==
  ASSUME NEW rows, IsFiniteSet(rows),
         \A r \in rows : r.id \in Nat /\ (r.family = "provenance" => r.object \in Nat)
  PROVE  /\ IsFiniteSet(Nodes(rows)) /\ Nodes(rows) \subseteq Nat
         /\ Ids(rows, "artifactVersion") \subseteq Nodes(rows)
         /\ \A r \in Of(rows, "provenance") : r.object \in Nodes(rows)
  <1>. DEFINE V == Of(rows, "artifactVersion")
              P == Of(rows, "provenance")
  <1>1. IsFiniteSet(V) /\ IsFiniteSet(P)
    BY FS_Subset DEF Of
  <1>2. IsFiniteSet({r.id : r \in V})
    <2>. DEFINE f == [r \in V |-> r.id]
    <2>1. f \in Surjection(V, {r.id : r \in V})
      BY DEF Surjection
    <2>. QED BY <1>1, <2>1, FS_Surjection
  <1>3. IsFiniteSet({r.object : r \in P})
    <2>. DEFINE f == [r \in P |-> r.object]
    <2>1. f \in Surjection(P, {r.object : r \in P})
      BY DEF Surjection
    <2>. QED BY <1>1, <2>1, FS_Surjection
  <1>4. Nodes(rows) = {r.id : r \in V} \cup {r.object : r \in P}
    BY DEF Nodes, Ids
  <1>5. IsFiniteSet(Nodes(rows))
    BY <1>2, <1>3, <1>4, FS_Union
  <1>6. Nodes(rows) \subseteq Nat
    BY <1>4 DEF Of
  <1>. QED BY <1>4, <1>5, <1>6 DEF Ids

\* Ascending has the numbers of its set.
LEMMA AscendingIsOf ==
  ASSUME NEW S, IsFiniteSet(S), S \subseteq Nat
  PROVE  Ascending(S) \in Seq(S) /\ ToSet(Ascending(S)) = S
  <1>. DEFINE R == {p \in S \X S : p[1] < p[2]}
              n == Cardinality(S)
              o == Ordered(S, R)
  <1>1. Ascending(S) = o
    BY DEF Ascending
  <1>2. \A a, b \in S : <<a, b>> \in R <=> a < b
    OBVIOUS
  <1>. HIDE DEF R
  <1>3. TotallyOrders(R, S)
    BY <1>2 DEF TotallyOrders, StrictlyOrders
  <1>4. /\ o \in Seq(S) /\ o \in [1..n -> S]
        /\ \A x \in S : \E i \in 1..n : o[i] = x
    BY <1>3, OrderedIsInOrder
  <1>. HIDE DEF n, o
  <1>. QED BY <1>1, <1>4 DEF ToSet

\* Within is a distance, one statement at a time.
LEMMA WithinIs ==
  ASSUME NEW rows, NEW N, NEW roots \in SUBSET N,
         \A r \in Of(rows, "provenance") : r.object \in N
  PROVE  /\ Within(rows, roots, 0) = roots
         /\ \A d \in Nat : /\ Within(rows, roots, d) \subseteq N
                           /\ Within(rows, roots, d + 1) =
                                Within(rows, roots, d) \cup
                                  {r.object : r \in {s \in Of(rows, "provenance") :
                                                       s.subject \in Within(rows, roots, d)}}
  <1>. DEFINE on(T) == T \cup {r.object : r \in {s \in Of(rows, "provenance") : s.subject \in T}}
              step == [T \in SUBSET N |-> on(T)]
              W == CHOOSE V : V = [n \in Nat |-> IF n = 0 THEN roots
                     ELSE V[n - 1] \cup {r.object : r \in {s \in Of(rows, "provenance") :
                                                             s.subject \in V[n - 1]}}]
  <1>1. step \in [SUBSET N -> SUBSET N]
    OBVIOUS
  <1>2. PICK V \in [Nat -> SUBSET N] : V = [n \in Nat |-> IF n = 0 THEN roots ELSE step[V[n - 1]]]
    <2>. DEFINE A == SUBSET N
    <2>1. step \in [A -> A] /\ roots \in A
      BY <1>1
    <2>. HIDE DEF step, A
    <2>2. \E V \in [Nat -> A] : Repeats(V, roots, step)
      BY <2>1, NatRecursion
    <2>. QED BY <2>2 DEF A, Repeats
  <1>3. ASSUME NEW n \in Nat PROVE V[n] = IF n = 0 THEN roots ELSE on(V[n - 1])
    <2>1. CASE n = 0
      BY <1>2, <2>1
    <2>2. CASE n # 0
      <3>1. n - 1 \in Nat /\ V[n - 1] \in SUBSET N
        BY <2>2
      <3>2. V[n] = step[V[n - 1]]
        BY <1>2, <2>2
      <3>. QED BY <3>1, <3>2, <2>2
    <2>. QED BY <2>1, <2>2
  <1>4. V = [n \in Nat |-> IF n = 0 THEN roots ELSE on(V[n - 1])]
    <2>1. V = [n \in Nat |-> V[n]]
      OBVIOUS
    <2>. HIDE DEF on
    <2>. QED BY <2>1, <1>3
  <1>5. W = [n \in Nat |-> IF n = 0 THEN roots ELSE on(W[n - 1])]
    BY <1>4
  <1>6. \A d : Within(rows, roots, d) = W[d]
    BY DEF Within
  <1>. HIDE DEF W
  <1>7. \A n \in Nat : W[n] = IF n = 0 THEN roots ELSE on(W[n - 1])
    BY <1>5
  <1>8. W[0] = roots /\ \A d \in Nat : W[d + 1] = on(W[d])
    <2>. HIDE DEF on
    <2>1. \A d \in Nat : d + 1 \in Nat /\ d + 1 # 0 /\ (d + 1) - 1 = d
      OBVIOUS
    <2>. QED BY <1>7, <2>1
  <1>9. \A d \in Nat : W[d] \subseteq N
    <2>. DEFINE Bad == {n \in Nat : ~(W[n] \subseteq N)}
    <2>1. SUFFICES ASSUME Bad # {} PROVE FALSE
      OBVIOUS
    <2>2. PICK n \in Bad : \A m \in Bad : n <= m
      <3>1. Bad \subseteq Nat
        OBVIOUS
      <3>. HIDE DEF Bad
      <3>. QED BY <2>1, <3>1, LeastNumber
    <2>3. n # 0
      BY <1>8
    <2>4. n - 1 \in Nat /\ n - 1 \notin Bad /\ (n - 1) + 1 = n
      BY <2>2, <2>3
    <2>5. W[n] = on(W[n - 1]) /\ W[n - 1] \subseteq N
      BY <1>8, <2>4
    <2>. QED BY <2>5
  <1>. QED BY <1>6, <1>8, <1>9

\* A walk that starts at versions of its rows.
WalkTyped(input) ==
  InputTyped(input) /\ Roots(input) \subseteq Ids(input.rows, "artifactVersion")

\* Every depth was walked, and a version that is not to be looked at again has
\* handed on its depth.
WalkInv(input, w) ==
  /\ w \in WalkStates(input)
  /\ \A n \in Nodes(input.rows) :
       /\ w.depths[n] <= input.policy.maxDepth + 1
       /\ w.depths[n] <= input.policy.maxDepth =>
            n \in Within(input.rows, Roots(input), w.depths[n])
  /\ \A n \in Roots(input) : w.depths[n] = 0
  /\ \A n \in Nodes(input.rows) : w.depths[n] < input.policy.maxDepth /\ n \notin ToSet(w.queue) =>
       \A r \in From(input.rows, n) : w.depths[r.object] <= w.depths[n] + 1

\* What the proofs about the walk use of its rows, together.
LEMMA WalkFacts ==
  ASSUME NEW input, WalkTyped(input)
  PROVE  /\ IsFiniteSet(Nodes(input.rows)) /\ Nodes(input.rows) \subseteq Nat
         /\ Roots(input) \subseteq Nodes(input.rows)
         /\ input.policy.maxDepth \in Nat
         /\ \A n : \A r \in From(input.rows, n) : r.object \in Nodes(input.rows)
         /\ \A S \in SUBSET Nodes(input.rows) :
              Ascending(S) \in Seq(Nodes(input.rows)) /\ ToSet(Ascending(S)) = S
         /\ Within(input.rows, Roots(input), 0) = Roots(input)
         /\ \A d \in Nat : \A n : n \in Within(input.rows, Roots(input), d) =>
              /\ n \in Within(input.rows, Roots(input), d + 1)
              /\ \A r \in From(input.rows, n) : r.object \in Within(input.rows, Roots(input), d + 1)
         /\ \A d \in Nat : \A n : n \in Within(input.rows, Roots(input), d + 1) =>
              \/ n \in Within(input.rows, Roots(input), d)
              \/ \E m \in Within(input.rows, Roots(input), d) :
                   \E r \in From(input.rows, m) : r.object = n
         /\ \A d \in Nat : Within(input.rows, Roots(input), d) \subseteq Nodes(input.rows)
  <1>. DEFINE N == Nodes(input.rows)
              W(d) == Within(input.rows, Roots(input), d)
              P == Of(input.rows, "provenance")
  <1>1. /\ IsFiniteSet(N) /\ N \subseteq Nat /\ \A r \in P : r.object \in N
        /\ Ids(input.rows, "artifactVersion") \subseteq N
    BY NodesOf DEF WalkTyped, InputTyped, RowTyped
  <1>2. Roots(input) \subseteq N /\ input.policy.maxDepth \in Nat
    BY <1>1 DEF WalkTyped, InputTyped
  <1>3. \A n : \A r \in From(input.rows, n) : r.object \in N
    BY <1>1 DEF From
  <1>4. \A S \in SUBSET N : Ascending(S) \in Seq(N) /\ ToSet(Ascending(S)) = S
    <2>1. SUFFICES ASSUME NEW S \in SUBSET N
                   PROVE  Ascending(S) \in Seq(N) /\ ToSet(Ascending(S)) = S
      OBVIOUS
    <2>. HIDE DEF N
    <2>2. IsFiniteSet(S) /\ S \subseteq Nat
      BY <1>1, FS_Subset
    <2>3. Ascending(S) \in Seq(S) /\ ToSet(Ascending(S)) = S
      BY <2>2, AscendingIsOf
    <2>. QED BY <2>3, SeqMonotonic
  <1>5. /\ W(0) = Roots(input)
        /\ \A d \in Nat : /\ W(d) \subseteq N
                          /\ W(d + 1) = W(d) \cup {r.object : r \in {s \in P : s.subject \in W(d)}}
    <2>. HIDE DEF N
    <2>. QED BY <1>1, <1>2, WithinIs
  <1>6. \A m, r : r \in From(input.rows, m) <=> r \in P /\ r.subject = m
    BY DEF From
  <1>7. ASSUME NEW d \in Nat, NEW n \in W(d)
        PROVE  n \in W(d + 1) /\ \A r \in From(input.rows, n) : r.object \in W(d + 1)
    <2>. HIDE DEF P, W
    <2>. QED BY <1>5, <1>6
  <1>8. ASSUME NEW d \in Nat, NEW n \in W(d + 1)
        PROVE  n \in W(d) \/ \E m \in W(d) : \E r \in From(input.rows, m) : r.object = n
    <2>. HIDE DEF P, W
    <2>. QED BY <1>5, <1>6
  <1>. HIDE DEF W, N, P
  <1>. QED BY <1>1, <1>2, <1>3, <1>4, <1>5, <1>7, <1>8 DEF W, N

\* The walk starts with the roots at depth 0, in the queue.
LEMMA WalkStarts ==
  ASSUME NEW input, WalkTyped(input)
  PROVE  WalkInv(input, WalkStart(input))
  <1>. DEFINE N == Nodes(input.rows)
              max == input.policy.maxDepth
              w == WalkStart(input)
              q == Ascending(Roots(input))
  <1>1. /\ Roots(input) \subseteq N /\ max \in Nat
        /\ q \in Seq(N) /\ ToSet(q) = Roots(input)
        /\ Within(input.rows, Roots(input), 0) = Roots(input)
    BY WalkFacts
  <1>2. w = [queue |-> q, depths |-> [n \in N |-> IF n \in Roots(input) THEN 0 ELSE max + 1]]
    BY DEF WalkStart
  <1>. HIDE DEF N, max, q, w
  <1>3. /\ w.queue = q /\ w.depths \in [N -> Nat]
        /\ \A n \in N : w.depths[n] = IF n \in Roots(input) THEN 0 ELSE max + 1
        /\ w = [queue |-> w.queue, depths |-> w.depths]
    BY <1>1, <1>2
  <1>4. w \in WalkStates(input)
    BY <1>1, <1>3 DEF WalkStates, N
  <1>5. \A n \in N : w.depths[n] <= max => n \in Within(input.rows, Roots(input), w.depths[n])
    BY <1>1, <1>3
  <1>. QED BY <1>1, <1>3, <1>4, <1>5 DEF WalkInv, N, max, w

\* What is left to be improved.
Improvable(input, w) ==
  {p \in Nodes(input.rows) \X (0..(input.policy.maxDepth + 1)) : p[2] < w.depths[p[1]]}

\* A step of the walk keeps its invariant, and improves a depth or shortens the
\* queue.
LEMMA WalkGoesOn ==
  ASSUME NEW input, WalkTyped(input), NEW w, WalkInv(input, w), w.queue # <<>>
  PROVE  /\ WalkInv(input, WalkOn(input, w))
         /\ \/ Cardinality(Improvable(input, WalkOn(input, w))) < Cardinality(Improvable(input, w))
            \/ /\ Cardinality(Improvable(input, WalkOn(input, w))) = Cardinality(Improvable(input, w))
               /\ Len(WalkOn(input, w).queue) < Len(w.queue)
         /\ Cardinality(Improvable(input, w)) \in Nat /\ Len(w.queue) \in Nat
  <1>. DEFINE N == Nodes(input.rows)
              max == input.policy.maxDepth
              W(d) == Within(input.rows, Roots(input), d)
              v == WalkOn(input, w)
              node == Head(w.queue)
              depth == w.depths[node]
              found == {n \in {r.object : r \in From(input.rows, node)} : depth + 1 < w.depths[n]}
  <1>1. /\ IsFiniteSet(N) /\ Roots(input) \subseteq N /\ max \in Nat
        /\ \A n : \A r \in From(input.rows, n) : r.object \in N
        /\ \A S \in SUBSET N : Ascending(S) \in Seq(N) /\ ToSet(Ascending(S)) = S
        /\ \A d \in Nat : \A n : n \in W(d) => \A r \in From(input.rows, n) : r.object \in W(d + 1)
    BY WalkFacts
  <1>2. /\ w = [queue |-> w.queue, depths |-> w.depths]
        /\ w.queue \in Seq(N) /\ w.depths \in [N -> Nat]
    BY DEF WalkInv, WalkStates
  <1>3. /\ \A n \in N : w.depths[n] \in Nat /\ w.depths[n] <= max + 1
        /\ \A n \in N : w.depths[n] <= max => n \in W(w.depths[n])
        /\ \A n \in Roots(input) : w.depths[n] = 0
        /\ \A n \in N : w.depths[n] < max /\ n \notin ToSet(w.queue) =>
             \A r \in From(input.rows, n) : w.depths[r.object] <= w.depths[n] + 1
    BY <1>2 DEF WalkInv
  <1>4. /\ node \in N /\ Tail(w.queue) \in Seq(N) /\ Len(Tail(w.queue)) = Len(w.queue) - 1
        /\ Len(w.queue) \in Nat
    BY <1>2, HeadTailProperties, LenProperties
  <1>5. ToSet(w.queue) \subseteq {node} \cup ToSet(Tail(w.queue))
    <2>1. ASSUME NEW i \in DOMAIN w.queue PROVE w.queue[i] \in {node} \cup ToSet(Tail(w.queue))
      <3>1. i \in 1..Len(w.queue)
        BY <1>2
      <3>2. CASE i = 1
        BY <1>2, <3>2
      <3>3. CASE i # 1
        <4>1. i - 1 \in 1..Len(Tail(w.queue)) /\ i - 1 \in DOMAIN Tail(w.queue)
          BY <1>4, <3>1, <3>3
        <4>2. Tail(w.queue)[i - 1] = w.queue[i]
          BY <1>2, <3>1, <3>3, <4>1, HeadTailProperties
        <4>. QED BY <4>1, <4>2 DEF ToSet
      <3>. QED BY <3>2, <3>3
    <2>. QED BY <2>1 DEF ToSet
  <1>6. found \subseteq N /\ depth \in Nat
    BY <1>1, <1>3, <1>4
  <1>7. v = IF depth >= max THEN [w EXCEPT !.queue = Tail(@)]
            ELSE [queue |-> Tail(w.queue) \o Ascending(found),
                  depths |-> [n \in N |-> IF n \in found THEN depth + 1 ELSE w.depths[n]]]
    BY DEF WalkOn
  <1>8. IsFiniteSet(Improvable(input, w)) /\ Cardinality(Improvable(input, w)) \in Nat
    <2>1. IsFiniteSet(0..(max + 1))
      BY <1>1, FS_Interval
    <2>2. IsFiniteSet(N \X (0..(max + 1)))
      BY <1>1, <2>1, FS_Product
    <2>3. Improvable(input, w) \subseteq N \X (0..(max + 1))
      BY DEF Improvable
    <2>. QED BY <2>2, <2>3, FS_Subset, FS_CardinalityType
  <1>9. \A n \in found : \E r \in From(input.rows, node) : r.object = n /\ depth + 1 < w.depths[n]
    OBVIOUS
  <1>10. \A r \in From(input.rows, node) : r.object \in found \/ ~(depth + 1 < w.depths[r.object])
    OBVIOUS
  <1>. HIDE DEF N, max, W, v, node, depth, found
  <1>11. CASE depth >= max
    <2>1. v = [queue |-> Tail(w.queue), depths |-> w.depths]
      BY <1>2, <1>7, <1>11
    <2>2. v.queue = Tail(w.queue) /\ v.depths = w.depths
      BY <2>1
    <2>3. v \in WalkStates(input)
      BY <1>2, <1>4, <2>1 DEF WalkStates, N
    <2>4. ASSUME NEW n \in N, v.depths[n] < max, n \notin ToSet(v.queue)
          PROVE  \A r \in From(input.rows, n) : v.depths[r.object] <= v.depths[n] + 1
      <3>1. n # node
        BY <1>1, <1>3, <1>11, <2>2, <2>4 DEF depth
      <3>2. n \notin ToSet(w.queue)
        BY <1>5, <2>2, <2>4, <3>1
      <3>. QED BY <1>3, <2>2, <2>4, <3>2
    <2>5. WalkInv(input, v)
      BY <1>3, <2>2, <2>3, <2>4 DEF WalkInv, N, max, W
    <2>6. Improvable(input, v) = Improvable(input, w)
      BY <2>2 DEF Improvable
    <2>. QED BY <1>4, <1>8, <2>2, <2>5, <2>6 DEF v
  <1>12. CASE ~(depth >= max)
    <2>1. /\ v.queue = Tail(w.queue) \o Ascending(found) /\ v.depths \in [N -> Nat]
          /\ v.depths = [n \in N |-> IF n \in found THEN depth + 1 ELSE w.depths[n]]
          /\ v = [queue |-> v.queue, depths |-> v.depths]
      BY <1>2, <1>6, <1>7, <1>12
    <2>2. /\ Ascending(found) \in Seq(N) /\ ToSet(Ascending(found)) = found
          /\ v.queue \in Seq(N)
      BY <1>1, <1>4, <1>6, <2>1, ConcatProperties
    <2>3. \A n : n \in ToSet(Tail(w.queue)) \/ n \in found => n \in ToSet(v.queue)
      <3>1. /\ Len(v.queue) = Len(Tail(w.queue)) + Len(Ascending(found))
            /\ \A i \in 1..Len(v.queue) : v.queue[i] = IF i <= Len(Tail(w.queue)) THEN Tail(w.queue)[i]
                 ELSE Ascending(found)[i - Len(Tail(w.queue))]
        BY <1>4, <2>1, <2>2, ConcatProperties
      <3>2. /\ Len(Tail(w.queue)) \in Nat /\ Len(Ascending(found)) \in Nat
            /\ DOMAIN v.queue = 1..Len(v.queue)
            /\ DOMAIN Tail(w.queue) = 1..Len(Tail(w.queue))
            /\ DOMAIN Ascending(found) = 1..Len(Ascending(found))
        BY <1>4, <2>2, LenProperties
      <3>3. ASSUME NEW i \in DOMAIN Tail(w.queue) PROVE Tail(w.queue)[i] \in ToSet(v.queue)
        <4>1. i \in 1..Len(v.queue) /\ i <= Len(Tail(w.queue))
          BY ONLY <3>1, <3>2, <3>3
        <4>2. v.queue[i] = Tail(w.queue)[i]
          BY ONLY <3>1, <4>1
        <4>3. i \in DOMAIN v.queue
          BY ONLY <3>2, <4>1
        <4>. QED BY <4>2, <4>3 DEF ToSet
      <3>4. ASSUME NEW i \in DOMAIN Ascending(found) PROVE Ascending(found)[i] \in ToSet(v.queue)
        <4>. DEFINE j == i + Len(Tail(w.queue))
        <4>1. j \in DOMAIN v.queue /\ ~(j <= Len(Tail(w.queue))) /\ j - Len(Tail(w.queue)) = i
          BY <3>1, <3>2
        <4>2. v.queue[j] = Ascending(found)[i]
          BY <3>1, <3>2, <4>1
        <4>. QED BY <4>1, <4>2 DEF ToSet
      <3>5. found \subseteq ToSet(v.queue)
        BY <2>2, <3>4 DEF ToSet
      <3>. QED BY <3>3, <3>5 DEF ToSet
    <2>4. v \in WalkStates(input)
      BY <2>1, <2>2 DEF WalkStates, N
    <2>5. \A n \in N : v.depths[n] = IF n \in found THEN depth + 1 ELSE w.depths[n]
      BY <2>1
    <2>6. ASSUME NEW n \in N
          PROVE  v.depths[n] \in Nat /\ v.depths[n] <= w.depths[n] /\ v.depths[n] <= max + 1
      <3>1. w.depths[n] \in Nat /\ w.depths[n] <= max + 1 /\ max \in Nat /\ depth \in Nat
        BY <1>1, <1>3, <1>6
      <3>2. CASE n \in found
        <4>1. depth + 1 < w.depths[n] /\ v.depths[n] = depth + 1
          BY <1>9, <2>5, <3>2
        <4>. QED BY <3>1, <4>1
      <3>3. CASE n \notin found
        BY <2>5, <3>1, <3>3
      <3>. QED BY <3>2, <3>3
    <2>7. ASSUME NEW n \in N, v.depths[n] <= max PROVE n \in W(v.depths[n])
      <3>1. CASE n \notin found
        BY <1>3, <2>5, <2>7, <3>1
      <3>2. CASE n \in found
        <4>1. node \in W(depth)
          BY <1>1, <1>3, <1>4, <1>6, <1>12 DEF depth
        <4>2. n \in W(depth + 1)
          BY <1>1, <1>6, <1>9, <3>2, <4>1
        <4>. QED BY <2>5, <3>2, <4>2
      <3>. QED BY <3>1, <3>2
    <2>8. \A n \in Roots(input) : v.depths[n] = 0
      BY <1>1, <1>3, <2>6
    <2>9. ASSUME NEW n \in N, v.depths[n] < max, n \notin ToSet(v.queue), NEW r \in From(input.rows, n)
          PROVE  v.depths[r.object] <= v.depths[n] + 1
      <3>1. n \notin found /\ v.depths[n] = w.depths[n]
        BY <2>3, <2>5, <2>9
      <3>2. r.object \in N
        BY <1>1
      <3>3. CASE n = node
        BY <1>3, <1>6, <1>10, <2>5, <3>1, <3>2, <3>3 DEF depth
      <3>4. CASE n # node
        <4>1. n \notin ToSet(w.queue)
          BY <1>5, <2>3, <2>9, <3>4
        <4>2. w.depths[r.object] <= w.depths[n] + 1
          BY <1>3, <2>9, <3>1, <4>1
        <4>. QED BY <1>3, <2>6, <3>1, <3>2, <4>2
      <3>. QED BY <3>3, <3>4
    <2>10. WalkInv(input, v)
      BY <2>4, <2>6, <2>7, <2>8, <2>9 DEF WalkInv, N, max, W
    <2>11. CASE found = {}
      <3>1. v.depths = w.depths
        BY <1>2, <2>1, <2>11
      <3>2. Improvable(input, v) = Improvable(input, w)
        BY <3>1 DEF Improvable
      <3>3. Len(Ascending(found)) = 0
        <4>1. ToSet(Ascending(found)) = {} /\ Ascending(found) \in Seq(N)
          BY <2>2, <2>11
        <4>2. /\ Len(Ascending(found)) \in Nat
              /\ DOMAIN Ascending(found) = 1..Len(Ascending(found))
          BY <4>1, LenProperties
        <4>3. \A i \in DOMAIN Ascending(found) : FALSE
          BY <4>1 DEF ToSet
        <4>. QED BY <4>2, <4>3
      <3>4. Len(v.queue) = Len(Tail(w.queue)) + Len(Ascending(found))
        BY <1>4, <2>1, <2>2, ConcatProperties
      <3>. QED BY <1>4, <1>8, <2>10, <3>2, <3>3, <3>4 DEF v
    <2>12. CASE found # {}
      <3>1. PICK n \in found : TRUE
        BY <2>12
      <3>2. n \in N /\ v.depths[n] = depth + 1 /\ depth + 1 < w.depths[n]
        BY <1>6, <1>9, <2>5, <3>1
      <3>3. Improvable(input, v) \subseteq Improvable(input, w)
        BY <1>3, <2>6 DEF Improvable, N
      <3>4. <<n, depth + 1>> \in Improvable(input, w) /\ <<n, depth + 1>> \notin Improvable(input, v)
        <4>1. w.depths[n] \in Nat /\ w.depths[n] <= max + 1 /\ max \in Nat /\ depth \in Nat
          BY <1>1, <1>3, <1>6, <3>2
        <4>2. depth + 1 \in 0..(max + 1) /\ ~(depth + 1 < v.depths[n])
          BY <3>2, <4>1
        <4>3. <<n, depth + 1>> \in N \X (0..(max + 1))
          BY <3>2, <4>2
        <4>. QED BY <3>2, <4>2, <4>3 DEF Improvable, N, max
      <3>5. /\ Cardinality(Improvable(input, v)) <= Cardinality(Improvable(input, w))
            /\ Cardinality(Improvable(input, v)) # Cardinality(Improvable(input, w))
            /\ IsFiniteSet(Improvable(input, v))
        BY <1>8, <3>3, <3>4, FS_Subset
      <3>6. Cardinality(Improvable(input, v)) < Cardinality(Improvable(input, w))
        BY <1>8, <3>5, FS_CardinalityType
      <3>. QED BY <1>4, <1>8, <2>10, <3>6 DEF v
    <2>. QED BY <2>11, <2>12
  <1>. QED BY <1>11, <1>12

\* A step of the walk makes a state of a walk.
LEMMA WalkStaysTyped ==
  ASSUME NEW input, WalkTyped(input), NEW w \in WalkStates(input), w.queue # <<>>
  PROVE  WalkOn(input, w) \in WalkStates(input)
  <1>. DEFINE N == Nodes(input.rows)
              depth == w.depths[Head(w.queue)]
              found == {n \in {r.object : r \in From(input.rows, Head(w.queue))} : depth + 1 < w.depths[n]}
              v == WalkOn(input, w)
  <1>1. /\ \A n : \A r \in From(input.rows, n) : r.object \in N
        /\ \A S \in SUBSET N : Ascending(S) \in Seq(N)
    BY WalkFacts
  <1>2. /\ w = [queue |-> w.queue, depths |-> w.depths]
        /\ w.queue \in Seq(N) /\ w.depths \in [N -> Nat]
    BY DEF WalkStates
  <1>3. Head(w.queue) \in N /\ Tail(w.queue) \in Seq(N) /\ depth \in Nat
    BY <1>2, HeadTailProperties
  <1>4. found \in SUBSET N
    BY <1>1
  <1>5. v = IF depth >= input.policy.maxDepth THEN [w EXCEPT !.queue = Tail(@)]
            ELSE [queue |-> Tail(w.queue) \o Ascending(found),
                  depths |-> [n \in N |-> IF n \in found THEN depth + 1 ELSE w.depths[n]]]
    BY DEF WalkOn
  <1>. HIDE DEF N, depth, found, v
  <1>6. CASE depth >= input.policy.maxDepth
    <2>1. v = [queue |-> Tail(w.queue), depths |-> w.depths]
      BY <1>2, <1>5, <1>6
    <2>. QED BY <1>2, <1>3, <2>1 DEF WalkStates, N, v
  <1>7. CASE ~(depth >= input.policy.maxDepth)
    <2>. DEFINE ds == [n \in N |-> IF n \in found THEN depth + 1 ELSE w.depths[n]]
    <2>1. v = [queue |-> Tail(w.queue) \o Ascending(found), depths |-> ds]
      BY <1>5, <1>7
    <2>2. ds \in [N -> Nat]
      BY <1>2, <1>3
    <2>3. Tail(w.queue) \o Ascending(found) \in Seq(N)
      BY <1>1, <1>3, <1>4, ConcatProperties
    <2>. HIDE DEF ds
    <2>. QED BY <2>1, <2>2, <2>3 DEF WalkStates, N, v
  <1>. QED BY <1>6, <1>7

\* The walk ends, and its depths are those of a walk with nothing left to do.
LEMMA WalkEnds ==
  ASSUME NEW input, WalkTyped(input)
  PROVE  \E w : WalkInv(input, w) /\ w.queue = <<>> /\ Depths(input) = w.depths
  <1>. DEFINE D == WalkStates(input)
              B == {w \in D : w.queue = <<>>}
              next == [w \in D |-> IF w \in B THEN w ELSE WalkOn(input, w)]
              out == [w \in D |-> w.depths]
              I == {w \in D : WalkInv(input, w)}
              left == [w \in D |-> Cardinality(Improvable(input, w))]
              k == [w \in D |-> Len(w.queue)]
              Is(f) == f = [w \in D |-> IF w.queue = <<>> THEN w.depths ELSE f[WalkOn(input, w)]]
              Walk == CHOOSE f : Is(f)
  <1>1. next \in [D -> D]
    BY WalkStaysTyped
  <1>2. ASSUME NEW f PROVE Is(f) <=> Loop(D, B, next, out, f)
    <2>1. \A w \in D : (IF w.queue = <<>> THEN w.depths ELSE f[WalkOn(input, w)])
                         = (IF w \in B THEN out[w] ELSE f[next[w]])
      OBVIOUS
    <2>. HIDE DEF D, B, out, next
    <2>2. [w \in D |-> IF w.queue = <<>> THEN w.depths ELSE f[WalkOn(input, w)]]
            = [w \in D |-> IF w \in B THEN out[w] ELSE f[next[w]]]
      BY <2>1
    <2>. QED BY <2>2 DEF Loop
  <1>3. Loop(D, B, next, out, Walk)
    <2>1. \E f : Loop(D, B, next, out, f)
      <3>. HIDE DEF D, B, next, out
      <3>. QED BY <1>1, LoopExists
    <2>2. \E f : Is(f)
      <3>. HIDE DEF D, B, next, out, Is
      <3>. QED BY <1>2, <2>1
    <2>3. Is(Walk)
      <3>. HIDE DEF Is
      <3>. QED BY <2>2
    <2>. HIDE DEF D, B, next, out, Walk, Is
    <2>. QED BY <1>2, <2>3
  <1>4. Depths(input) = Walk[WalkStart(input)]
    BY DEF Depths
  <1>. HIDE DEF Walk, Is
  <1>5. WalkInv(input, WalkStart(input)) /\ WalkStart(input) \in I
    <2>1. WalkInv(input, WalkStart(input))
      BY WalkStarts
    <2>. QED BY <2>1 DEF WalkInv
  <1>6. ASSUME NEW w \in I
        PROVE  left[w] \in Nat /\ k[w] \in Nat
    <2>1. IsFiniteSet(Improvable(input, w))
      <3>1. IsFiniteSet(Nodes(input.rows)) /\ input.policy.maxDepth \in Nat
        BY WalkFacts
      <3>2. IsFiniteSet(0..(input.policy.maxDepth + 1))
        BY <3>1, FS_Interval
      <3>3. IsFiniteSet(Nodes(input.rows) \X (0..(input.policy.maxDepth + 1)))
        BY <3>1, <3>2, FS_Product
      <3>4. Improvable(input, w) \subseteq Nodes(input.rows) \X (0..(input.policy.maxDepth + 1))
        BY DEF Improvable
      <3>. QED BY <3>3, <3>4, FS_Subset
    <2>2. left[w] \in Nat
      BY <2>1, FS_CardinalityType
    <2>3. w.queue \in Seq(Nodes(input.rows))
      BY DEF WalkStates
    <2>. QED BY <2>2, <2>3, LenProperties
  <1>7. ASSUME NEW w \in I \ B
        PROVE  /\ next[w] \in I
               /\ left[next[w]] < left[w] \/ (left[next[w]] = left[w] /\ k[next[w]] < k[w])
    <2>. DEFINE v == WalkOn(input, w)
    <2>1. next[w] = v /\ w.queue # <<>>
      OBVIOUS
    <2>2. /\ WalkInv(input, v)
          /\ \/ Cardinality(Improvable(input, v)) < Cardinality(Improvable(input, w))
             \/ /\ Cardinality(Improvable(input, v)) = Cardinality(Improvable(input, w))
                /\ Len(v.queue) < Len(w.queue)
      BY <2>1, WalkGoesOn
    <2>3. v \in D
      BY <2>2 DEF WalkInv
    <2>4. /\ left[v] = Cardinality(Improvable(input, v)) /\ left[w] = Cardinality(Improvable(input, w))
          /\ k[v] = Len(v.queue) /\ k[w] = Len(w.queue)
      BY <2>3
    <2>. HIDE DEF v, left, k, next
    <2>. QED BY <2>1, <2>2, <2>3, <2>4
  <1>8. \E w \in I \cap B : Walk[WalkStart(input)] = out[w]
    <2>1. I \in SUBSET D
      OBVIOUS
    <2>. HIDE DEF D, B, next, out, I, left, k
    <2>. QED BY <1>3, <1>5, <1>6, <1>7, <2>1, LoopEnds
  <1>. QED BY <1>4, <1>8

\* What is reached is what is near, and the statements of what is nearer still
\* are those that were walked.
LEMMA WalkIsClosure ==
  ASSUME NEW input, WalkTyped(input), input.policy.maxDepth > 0
  PROVE  LET near(d) == Within(input.rows, Roots(input), d)
         IN  /\ Reached(input) = near(input.policy.maxDepth)
             /\ Walked(input) = {r \in Of(input.rows, "provenance") :
                                   r.subject \in near(input.policy.maxDepth - 1)}
             /\ Roots(input) \subseteq Reached(input)
             /\ \A r \in Walked(input) : r.object \in Reached(input)
             /\ \A n \in Reached(input) : n \in Roots(input) \/ \E r \in Walked(input) : r.object = n
  <1>. DEFINE N == Nodes(input.rows)
              max == input.policy.maxDepth
              P == Of(input.rows, "provenance")
              W(d) == Within(input.rows, Roots(input), d)
  <1>1. PICK w : WalkInv(input, w) /\ w.queue = <<>> /\ Depths(input) = w.depths
    BY WalkEnds
  <1>. DEFINE ds == w.depths
  <1>2. /\ max \in Nat /\ max > 0 /\ W(0) = Roots(input) /\ Roots(input) \subseteq N
        /\ \A d \in Nat : \A n : n \in W(d) =>
             n \in W(d + 1) /\ \A r \in From(input.rows, n) : r.object \in W(d + 1)
        /\ \A d \in Nat : \A n : n \in W(d + 1) =>
             n \in W(d) \/ \E m \in W(d) : \E r \in From(input.rows, m) : r.object = n
        /\ \A d \in Nat : W(d) \subseteq N
        /\ \A n : \A r \in From(input.rows, n) : r.object \in N
    BY WalkFacts
  <1>3. /\ ds \in [N -> Nat] /\ \A n \in N : ds[n] \in Nat
        /\ \A n \in N : ds[n] <= max => n \in W(ds[n])
        /\ \A n \in Roots(input) : ds[n] = 0
        /\ \A n \in N : ds[n] < max => \A r \in From(input.rows, n) : ds[r.object] <= ds[n] + 1
    BY <1>1 DEF WalkInv, WalkStates, ToSet
  <1>4. \A m, r : r \in From(input.rows, m) <=> r \in P /\ r.subject = m
    BY DEF From
  <1>5. /\ Reached(input) = {n \in N : ds[n] <= max}
        /\ Walked(input) = {r \in P : r.subject \in N /\ ds[r.subject] < max}
    BY <1>1, <1>3 DEF Reached, Walked
  <1>. HIDE DEF N, max, P, W, ds
  <1>6. \A d \in Nat : \A n \in N : ds[n] <= d /\ d <= max => n \in W(d)
    <2>. DEFINE Bad == {d \in Nat : ~\A n \in N : ds[n] <= d /\ d <= max => n \in W(d)}
    <2>1. SUFFICES ASSUME Bad # {} PROVE FALSE
      OBVIOUS
    <2>2. PICK d \in Bad : \A e \in Bad : d <= e
      <3>1. Bad \subseteq Nat
        OBVIOUS
      <3>. HIDE DEF Bad
      <3>. QED BY <2>1, <3>1, LeastNumber
    <2>3. PICK n \in N : ds[n] <= d /\ d <= max /\ n \notin W(d)
      OBVIOUS
    <2>4. ds[n] < d
      <3>1. ds[n] # d
        BY <1>3, <2>3
      <3>. QED BY <1>3, <2>3, <3>1
    <2>5. d - 1 \in Nat /\ (d - 1) + 1 = d /\ ds[n] <= d - 1 /\ d - 1 <= max
      BY <1>2, <1>3, <2>3, <2>4
    <2>6. d - 1 \notin Bad
      BY <2>2, <2>5
    <2>7. n \in W(d - 1)
      BY <2>5, <2>6
    <2>. QED BY <1>2, <2>3, <2>5, <2>7
  <1>7. \A d \in Nat : \A n \in W(d) : d <= max => ds[n] <= d
    <2>. DEFINE Bad == {d \in Nat : ~\A n \in W(d) : d <= max => ds[n] <= d}
    <2>1. SUFFICES ASSUME Bad # {} PROVE FALSE
      OBVIOUS
    <2>2. PICK d \in Bad : \A e \in Bad : d <= e
      <3>1. Bad \subseteq Nat
        OBVIOUS
      <3>. HIDE DEF Bad
      <3>. QED BY <2>1, <3>1, LeastNumber
    <2>3. PICK n \in W(d) : d <= max /\ ~(ds[n] <= d)
      OBVIOUS
    <2>4. d # 0
      BY <1>2, <1>3, <2>3
    <2>5. d - 1 \in Nat /\ (d - 1) + 1 = d /\ d - 1 <= max /\ d - 1 < max /\ d - 1 \notin Bad
      BY <1>2, <2>2, <2>3, <2>4
    <2>6. \A m \in W(d - 1) : m \in N /\ ds[m] <= d - 1
      BY <1>2, <2>5
    <2>7. n \in N /\ ds[n] \in Nat
      BY <1>2, <1>3, <2>3
    <2>8. CASE n \in W(d - 1)
      BY <2>3, <2>5, <2>6, <2>7, <2>8
    <2>9. CASE \E m \in W(d - 1) : \E r \in From(input.rows, m) : r.object = n
      <3>1. PICK m \in W(d - 1) : \E r \in From(input.rows, m) : r.object = n
        BY <2>9
      <3>2. m \in N /\ ds[m] \in Nat /\ ds[m] <= d - 1
        BY <1>3, <2>6
      <3>3. ds[m] < max
        BY <1>2, <2>3, <2>5, <3>2
      <3>4. ds[n] <= ds[m] + 1
        BY <1>3, <3>1, <3>2, <3>3
      <3>. QED BY <2>3, <2>5, <2>7, <3>2, <3>4
    <2>. QED BY <1>2, <2>5, <2>8, <2>9
  <1>8. Reached(input) = W(max)
    BY <1>2, <1>5, <1>6, <1>7
  <1>9. max - 1 \in Nat /\ (max - 1) + 1 = max /\ max - 1 <= max
        /\ \A x \in Nat : x < max <=> x <= max - 1
    BY <1>2
  <1>10. \A n : n \in N /\ ds[n] < max <=> n \in W(max - 1)
    <2>1. ASSUME NEW n \in N, ds[n] < max PROVE n \in W(max - 1)
      BY <1>3, <1>6, <1>9, <2>1
    <2>2. ASSUME NEW n \in W(max - 1) PROVE n \in N /\ ds[n] < max
      BY <1>2, <1>3, <1>7, <1>9
    <2>. QED BY <2>1, <2>2
  <1>11. Walked(input) = {r \in P : r.subject \in W(max - 1)}
    BY <1>5, <1>10
  <1>12. Roots(input) \subseteq Reached(input)
    BY <1>2, <1>3, <1>5
  <1>13. \A r \in Walked(input) : r.object \in W(max)
    BY <1>2, <1>4, <1>9, <1>11
  <1>14. ASSUME NEW n \in W(max) PROVE n \in Roots(input) \/ \E r \in Walked(input) : r.object = n
    <2>1. \A d \in Nat : \A x \in W(d) : d <= max =>
            x \in Roots(input) \/ \E r \in Walked(input) : r.object = x
      <3>. DEFINE Fine(x) == x \in Roots(input) \/ \E r \in Walked(input) : r.object = x
                  Bad == {d \in Nat : ~\A x \in W(d) : d <= max => Fine(x)}
      <3>1. SUFFICES ASSUME Bad # {} PROVE FALSE
        OBVIOUS
      <3>2. PICK d \in Bad : \A e \in Bad : d <= e
        <4>1. Bad \subseteq Nat
          OBVIOUS
        <4>. HIDE DEF Bad
        <4>. QED BY <3>1, <4>1, LeastNumber
      <3>3. PICK x \in W(d) : d <= max /\ ~Fine(x)
        OBVIOUS
      <3>4. d # 0
        BY <1>2, <3>3
      <3>5. d - 1 \in Nat /\ (d - 1) + 1 = d /\ d - 1 <= max /\ d - 1 < max /\ d - 1 \notin Bad
        BY <1>2, <3>2, <3>3, <3>4
      <3>6. x \notin W(d - 1)
        BY <3>3, <3>5
      <3>7. PICK m \in W(d - 1) : \E r \in From(input.rows, m) : r.object = x
        BY <1>2, <3>3, <3>5, <3>6
      <3>8. m \in N /\ ds[m] \in Nat /\ ds[m] <= d - 1
        BY <1>2, <1>3, <1>7, <3>5
      <3>9. ds[m] < max
        BY <1>2, <3>5, <3>8
      <3>10. PICK r \in From(input.rows, m) : r.object = x
        BY <3>7
      <3>11. r \in Walked(input)
        BY <1>4, <1>5, <3>8, <3>9, <3>10
      <3>. QED BY <3>3, <3>10, <3>11
    <2>. QED BY <1>2, <2>1
  <1>. QED BY <1>8, <1>11, <1>12, <1>13, <1>14 DEF W, P, max

\* The rows of a snapshot, family by family.
LEMMA IncludedOf ==
  ASSUME NEW input, BuildHolds(input), InputTyped(input)
  PROVE  /\ Included(input) \subseteq input.rows
         /\ Ids(Included(input), "artifactVersion") = Reached(input)
         /\ Of(Included(input), "provenance") = Walked(input)
         /\ Of(Included(input), "knowledge") =
              {r \in Of(input.rows, "knowledge") : r.subject \in Reached(input)}
         /\ \A r \in Included(input) : r.family = "artifactVersion" => r.id \in Reached(input)
         /\ {k[3] : k \in {q \in Keys(input) : q[1] = "artifactVersion"}} = Reached(input)
  <1>. DEFINE I == Included(input)
              V == Of(input.rows, "artifactVersion")
              reached == Reached(input)
              K == Of(input.rows, "knowledge")
  <1>1. /\ Roots(input) \subseteq Ids(input.rows, "artifactVersion")
        /\ {r.object : r \in Walked(input)} \subseteq Ids(input.rows, "artifactVersion")
        /\ input.policy.maxDepth > 0
    BY DEF BuildHolds, InputHolds, Complete, Roots, TraversalPolicyHolds
  <1>2. /\ Roots(input) \subseteq reached
        /\ \A r \in Walked(input) : r.object \in reached
        /\ \A n \in reached : n \in Roots(input) \/ \E r \in Walked(input) : r.object = n
    BY <1>1, WalkIsClosure DEF WalkTyped
  <1>3. I = {r \in V : r.id \in reached}
              \cup Walked(input) \cup Attributions(input) \cup SourceVersions(input)
              \cup SourceRelations(input)
              \cup {r \in Of(input.rows, "binding") : r.object \in reached}
              \cup {r \in K : r.subject \in reached}
    BY DEF Included
  <1>4. /\ \A r \in Walked(input) : r \in input.rows /\ r.family = "provenance"
        /\ \A r \in Attributions(input) : r \in input.rows /\ r.family = "attribution"
        /\ \A r \in SourceVersions(input) : r \in input.rows /\ r.family = "sourceVersion"
        /\ \A r \in SourceRelations(input) : r \in input.rows /\ r.family = "sourceRelation"
        /\ \A r \in Of(input.rows, "binding") : r \in input.rows /\ r.family = "binding"
        /\ \A r \in K : r \in input.rows /\ r.family = "knowledge"
        /\ \A r \in V : r \in input.rows /\ r.family = "artifactVersion"
    BY DEF Walked, Attributions, SourceVersions, SourceRelations, Of
  <1>5. reached \subseteq {r.id : r \in V}
    BY <1>1, <1>2 DEF Ids
  <1>6. /\ {k \in Keys(input) : k[1] = "artifactVersion"} =
             {<<"artifactVersion", "root", n>> : n \in Roots(input)}
               \cup {<<"artifactVersion", "included", r.object>> : r \in Walked(input)}
    <2>. DEFINE A == {<<"artifactVersion", "root", n>> : n \in Roots(input)}
                B == {<<"artifactVersion", "included", r.object>> : r \in Walked(input)}
                C == {<<r.family, "included", r.id>> : r \in {s \in I : s.family # "artifactVersion"}}
    <2>1. Keys(input) = A \cup B \cup C
      BY DEF Keys
    <2>2. /\ \A k \in A : k[1] = "artifactVersion"
          /\ \A k \in B : k[1] = "artifactVersion"
          /\ \A k \in C : k[1] # "artifactVersion"
      OBVIOUS
    <2>3. {k \in Keys(input) : k[1] = "artifactVersion"} = A \cup B
      <3>. HIDE DEF A, B, C
      <3>. QED BY <2>1, <2>2
    <2>. QED BY <2>3
  <1>. HIDE DEF I, V, reached, K
  <1>7. I \subseteq input.rows
    BY <1>3, <1>4
  <1>8. Of(I, "artifactVersion") = {r \in V : r.id \in reached}
    BY <1>3, <1>4 DEF Of
  <1>9. Ids(I, "artifactVersion") = reached
    BY <1>5, <1>8 DEF Ids
  <1>10. Of(I, "provenance") = Walked(input)
    BY <1>3, <1>4 DEF Of
  <1>11. Of(I, "knowledge") = {r \in K : r.subject \in reached}
    BY <1>3, <1>4 DEF Of
  <1>12. \A r \in I : r.family = "artifactVersion" => r.id \in reached
    BY <1>3, <1>4
  <1>13. {k[3] : k \in {q \in Keys(input) : q[1] = "artifactVersion"}} = reached
    <2>1. ASSUME NEW k \in {q \in Keys(input) : q[1] = "artifactVersion"} PROVE k[3] \in reached
      BY <1>2, <1>6
    <2>2. ASSUME NEW n \in reached
          PROVE  \E k \in {q \in Keys(input) : q[1] = "artifactVersion"} : k[3] = n
      <3>1. CASE n \in Roots(input)
        <4>1. <<"artifactVersion", "root", n>> \in {q \in Keys(input) : q[1] = "artifactVersion"}
          BY <1>6, <3>1
        <4>. QED BY <4>1
      <3>2. CASE \E r \in Walked(input) : r.object = n
        <4>1. <<"artifactVersion", "included", n>> \in {q \in Keys(input) : q[1] = "artifactVersion"}
          BY <1>6, <3>2
        <4>. QED BY <4>1
      <3>. QED BY <1>2, <3>1, <3>2
    <2>. QED BY <2>1, <2>2
  <1>. QED BY <1>7, <1>9, <1>10, <1>11, <1>12, <1>13 DEF I, reached, K

\* A snapshot is the closure of its roots.
LEMMA SnapshotOf ==
  ASSUME NEW given, BuildHolds(given), InputTyped(given)
  PROVE  LET made == Build(given)
             near(d) == Within(given.rows, ToSet(given.roots), d)
         IN  /\ Ids(made.rows, "artifactVersion") = near(given.policy.maxDepth)
             /\ Of(made.rows, "provenance") =
                  {r \in Of(given.rows, "provenance") : r.subject \in near(given.policy.maxDepth - 1)}
             /\ made.unrecorded = {n \in near(given.policy.maxDepth) :
                  ~\E r \in Of(given.rows, "knowledge") : r.subject = n}
             /\ \A n \in near(given.policy.maxDepth) :
                  n \in ToSet(given.roots) \/ <<"artifactVersion", "included", n>> \in made.keys
  <1>. DEFINE made == Build(given)
              near(d) == Within(given.rows, ToSet(given.roots), d)
              max == given.policy.maxDepth
  <1>1. Roots(given) = ToSet(given.roots)
    BY DEF Roots
  <1>2. /\ Roots(given) \subseteq Ids(given.rows, "artifactVersion") /\ max > 0
    BY <1>1 DEF BuildHolds, InputHolds, TraversalPolicyHolds
  <1>3. /\ Reached(given) = near(max)
        /\ Walked(given) = {r \in Of(given.rows, "provenance") : r.subject \in near(max - 1)}
        /\ \A n \in Reached(given) : n \in Roots(given) \/ \E r \in Walked(given) : r.object = n
    BY <1>1, <1>2, WalkIsClosure DEF WalkTyped
  <1>4. /\ made.rows = Included(given) /\ made.keys = Keys(given)
        /\ made.unrecorded = Unrecorded(Keys(given), Included(given))
    BY DEF Build
  <1>. HIDE DEF made, near, max
  <1>5. Ids(made.rows, "artifactVersion") = near(max)
    BY <1>3, <1>4, IncludedOf
  <1>6. Of(made.rows, "provenance") =
          {r \in Of(given.rows, "provenance") : r.subject \in near(max - 1)}
    BY <1>3, <1>4, IncludedOf
  <1>7. made.unrecorded = {n \in near(max) : ~\E r \in Of(given.rows, "knowledge") : r.subject = n}
    <2>1. made.unrecorded = Reached(given) \
            {r.subject : r \in {s \in Of(given.rows, "knowledge") : s.subject \in Reached(given)}}
      BY <1>4, IncludedOf DEF Unrecorded
    <2>. QED BY <2>1, <1>3
  <1>8. ASSUME NEW n \in near(max), n \notin ToSet(given.roots)
        PROVE  <<"artifactVersion", "included", n>> \in made.keys
    <2>1. PICK r \in Walked(given) : r.object = n
      BY <1>1, <1>3, <1>8
    <2>. QED BY <2>1, <1>4 DEF Keys
  <1>. QED BY <1>5, <1>6, <1>7, <1>8 DEF made, near, max

\* What the reader of a stored snapshot finds.
LEMMA SnapshotAuthentic ==
  ASSUME NEW given, BuildHolds(given), InputTyped(given),
         NEW kept, kept.snapshot = Build(given), kept.members = Build(given).keys,
         NEW rows, UniqueIds(rows), NEW ids, NEW policies, given.policy \in policies,
         FoundationTargets(Build(given).rows) \subseteq Existing(rows, ids)
  PROVE  Verified(kept, rows, ids, policies) <=> Build(given).rows \subseteq rows
  <1>. DEFINE made == Build(given)
  <1>1. /\ made.rows = Included(given) /\ made.keys = Keys(given) /\ made.roots = Roots(given)
        /\ made.unrecorded = Unrecorded(made.keys, made.rows) /\ made.policy = given.policy
        /\ made.cycles = Cycles(Of(made.rows, "provenance"))
    BY DEF Build
  <1>2. /\ made.rows \subseteq given.rows
        /\ Ids(made.rows, "artifactVersion") = Reached(given)
        /\ \A r \in made.rows : r.family = "artifactVersion" => r.id \in Reached(given)
    BY <1>1, IncludedOf
  <1>3. /\ UniqueIds(given.rows) /\ \A r \in given.rows : RowHolds(r)
        /\ given.roots # <<>>
        /\ Roots(given) \subseteq Ids(given.rows, "artifactVersion") /\ given.policy.maxDepth > 0
    BY DEF BuildHolds, InputHolds, TraversalPolicyHolds, Roots
  <1>4. /\ Roots(given) \subseteq Reached(given)
        /\ \A r \in Walked(given) : r.object \in Reached(given)
        /\ \A n \in Reached(given) : n \in Roots(given) \/ \E r \in Walked(given) : r.object = n
    BY <1>3, WalkIsClosure DEF WalkTyped
  <1>5. Historical(rows, kept.members) \subseteq rows
    BY DEF Historical
  <1>6. \A k \in made.keys : \E r \in made.rows : k[1] = r.family /\ k[3] = r.id
    <2>1. SUFFICES ASSUME NEW k \in Keys(given) PROVE \E r \in made.rows : k[1] = r.family /\ k[3] = r.id
      BY <1>1
    <2>2. \A n \in Reached(given) : \E r \in made.rows : r.family = "artifactVersion" /\ r.id = n
      BY <1>2 DEF Ids, Of
    <2>3. CASE k \in {<<"artifactVersion", "root", n>> : n \in Roots(given)}
      BY <2>2, <2>3, <1>4
    <2>4. CASE k \in {<<"artifactVersion", "included", r.object>> : r \in Walked(given)}
      BY <2>2, <2>4, <1>4
    <2>5. CASE k \in {<<r.family, "included", r.id>> :
                        r \in {s \in Included(given) : s.family # "artifactVersion"}}
      BY <2>5, <1>1
    <2>. QED BY <2>3, <2>4, <2>5 DEF Keys
  <1>7. \A r \in made.rows : \E k \in made.keys : k[1] = r.family /\ k[3] = r.id
    <2>1. SUFFICES ASSUME NEW r \in made.rows PROVE \E k \in Keys(given) : k[1] = r.family /\ k[3] = r.id
      BY <1>1
    <2>2. CASE r.family # "artifactVersion"
      <3>1. <<r.family, "included", r.id>> \in Keys(given)
        BY <2>2, <1>1 DEF Keys
      <3>. QED BY <3>1
    <2>3. CASE r.family = "artifactVersion" /\ r.id \in Roots(given)
      <3>1. <<"artifactVersion", "root", r.id>> \in Keys(given)
        BY <2>3 DEF Keys
      <3>. QED BY <3>1, <2>3
    <2>4. CASE r.family = "artifactVersion" /\ r.id \notin Roots(given)
      <3>1. <<"artifactVersion", "included", r.id>> \in Keys(given)
        BY <2>4, <1>2, <1>4 DEF Keys
      <3>. QED BY <3>1, <2>4
    <2>. QED BY <2>2, <2>3, <2>4
  <1>. HIDE DEF made
  <1>8. ASSUME Verified(kept, rows, ids, policies) PROVE made.rows \subseteq rows
    BY <1>5, <1>8 DEF Verified, HistoryHolds, made
  <1>9. ASSUME made.rows \subseteq rows PROVE Verified(kept, rows, ids, policies)
    <2>1. Historical(rows, made.keys) = made.rows
      <3>1. ASSUME NEW r \in rows, NEW k \in made.keys, k[1] = r.family, k[3] = r.id
            PROVE  r \in made.rows
        BY <1>6, <1>9, <3>1 DEF UniqueIds
      <3>. QED BY <3>1, <1>7, <1>9 DEF Historical
    <2>2. SchemaHolds(made)
      <3>1. made.roots # {}
        <4>1. 1 \in DOMAIN given.roots
          BY <1>3 DEF InputTyped
        <4>. QED BY <1>1, <4>1 DEF Roots, ToSet
      <3>2. UniqueIds(made.rows)
        BY <1>2, <1>3 DEF UniqueIds
      <3>3. \A r \in made.rows : ShapeHolds(r)
        BY <1>2, <1>3 DEF RowHolds, ShapeHolds, StatementFamilies, ArtifactVersionHolds,
             SourceVersionHolds, ProvenanceHolds, AttributionHolds, SourceRelationHolds,
             BindingHolds, KnowledgeHolds, CommonHolds
      <3>. QED BY <3>1, <3>2, <3>3 DEF SchemaHolds
    <2>3. HistoryHolds(kept, rows) /\ FoundationsHold(kept, rows, ids)
      BY <2>1 DEF HistoryHolds, FoundationsHold, made
    <2>4. MembershipHolds(kept) /\ DerivedHolds(made) /\ DiagnosticsHold(made) /\ PolicyHolds(made, policies)
      BY <1>1 DEF MembershipHolds, DerivedHolds, DiagnosticsHold, PolicyHolds, made
    <2>. QED BY <2>2, <2>3, <2>4 DEF Verified, made
  <1>. QED BY <1>8, <1>9 DEF made

-----------------------------------------------------------------------------
(* The diagnostics of cycles                                               *)

\* A function that is the union of what it is for others: there is one,
\* even when that goes on for ever

UnionOf(D, leaf, next, f) == f = [x \in D |-> leaf[x] \cup UNION {f[y] : y \in next[x]}]

LEMMA UnionRecursion ==
  ASSUME NEW D, NEW V, NEW leaf \in [D -> SUBSET V], NEW next \in [D -> SUBSET D]
  PROVE  \E f : UnionOf(D, leaf, next, f)
  <1>. DEFINE Keeps(R) == \A x \in D : leaf[x] \subseteq R[x] /\ \A y \in next[x] : R[y] \subseteq R[x]
              f == [x \in D |-> {v \in V : \A R \in [D -> SUBSET V] : Keeps(R) => v \in R[x]}]
              g == [x \in D |-> leaf[x] \cup UNION {f[y] : y \in next[x]}]
  <1>1. \A x \in D : f[x] \subseteq V /\ \A R \in [D -> SUBSET V] : Keeps(R) => f[x] \subseteq R[x]
    <2>. HIDE DEF Keeps
    <2>. QED OBVIOUS
  <1>2. \A x \in D : leaf[x] \subseteq f[x]
    OBVIOUS
  <1>3. ASSUME NEW x \in D, NEW y \in next[x] PROVE f[y] \subseteq f[x]
    <2>. SUFFICES ASSUME NEW v \in f[y], NEW R \in [D -> SUBSET V], Keeps(R) PROVE v \in R[x]
      <3>1. y \in D
        OBVIOUS
      <3>. HIDE DEF Keeps
      <3>. QED BY <3>1
    <2>1. y \in D /\ R[y] \subseteq R[x]
      OBVIOUS
    <2>2. f[y] \subseteq R[y]
      BY <1>1, <2>1
    <2>. QED BY <2>1, <2>2
  <1>. HIDE DEF f
  <1>4. \A x \in D : g[x] \subseteq f[x]
    BY <1>2, <1>3
  <1>5. g \in [D -> SUBSET V]
    <2>1. \A x \in D : g[x] \subseteq V
      BY <1>1, <1>4
    <2>. QED BY <2>1
  <1>6. Keeps(g)
    <2>1. ASSUME NEW x \in D, NEW y \in next[x] PROVE g[y] \subseteq g[x]
      <3>1. y \in D
        OBVIOUS
      <3>2. g[y] \subseteq f[y]
        BY <1>4, <3>1
      <3>3. f[y] \subseteq g[x]
        OBVIOUS
      <3>. QED BY <3>2, <3>3
    <2>2. \A x \in D : leaf[x] \subseteq g[x]
      OBVIOUS
    <2>. HIDE DEF g
    <2>. QED BY <2>1, <2>2
  <1>7. \A x \in D : f[x] = g[x]
    <2>. HIDE DEF g, Keeps
    <2>. QED BY <1>1, <1>4, <1>5, <1>6
  <1>8. f = [x \in D |-> leaf[x] \cup UNION {f[y] : y \in next[x]}]
    <2>1. f = [x \in D |-> f[x]]
      BY DEF f
    <2>. QED BY <1>7, <2>1
  <1>. QED BY <1>8 DEF UnionOf

-----------------------------------------------------------------------------
(* The visit of the paths of statements                                    *)

StatementsTyped(T) ==
  /\ IsFiniteSet(T) /\ \A r \in T : r.id \in Nat /\ r.subject \in Nat /\ r.object \in Nat

NatPaths == [nodes : Seq(Nat), steps : Seq(Nat)]

\* What the statements after a path say, given what is said of longer ones.
SaidAfter(T, f, p) ==
  UNION {IF r.object \in ToSet(p.nodes) THEN {CycleOf(p, r)} ELSE f[Onward(p, r)] :
           r \in {s \in T : s.subject = Last(p.nodes)}}

OnwardStays ==
  \A p \in NatPaths : \A r : r.id \in Nat /\ r.object \in Nat => Onward(p, r) \in NatPaths

\* A path goes on with numbers to a path of numbers.
LEMMA OnwardIsTyped == OnwardStays
  BY DEF OnwardStays, NatPaths, Onward

\* There is a visit of all paths, of those without end too.
LEMMA VisitExists ==
  ASSUME NEW T, StatementsTyped(T)
  PROVE  \E f : f = [p \in NatPaths |-> SaidAfter(T, f, p)]
  <1>. DEFINE D == NatPaths
              after(p) == {s \in T : s.subject = Last(p.nodes)}
              back(p) == {s \in after(p) : s.object \in ToSet(p.nodes)}
              on(p) == {s \in after(p) : s.object \notin ToSet(p.nodes)}
              V == {CycleOf(p, r) : p \in D, r \in T}
              leaf == [p \in D |-> {CycleOf(p, r) : r \in back(p)}]
              next == [p \in D |-> {Onward(p, r) : r \in on(p)}]
  <1>1. leaf \in [D -> SUBSET V]
    <2>1. \A p \in D : \A r \in back(p) : CycleOf(p, r) \in V
      OBVIOUS
    <2>. HIDE DEF V, D, back
    <2>. QED BY <2>1
  <1>2. next \in [D -> SUBSET D]
    <2>1. \A p \in D : \A r \in on(p) : Onward(p, r) \in D
      BY OnwardIsTyped DEF StatementsTyped, OnwardStays
    <2>. HIDE DEF D, on
    <2>. QED BY <2>1
  <1>3. PICK f : UnionOf(D, leaf, next, f)
    <2>. HIDE DEF leaf, next, D, V
    <2>. QED BY <1>1, <1>2, UnionRecursion
  <1>4. ASSUME NEW p \in D PROVE leaf[p] \cup UNION {f[y] : y \in next[p]} = SaidAfter(T, f, p)
    <2>1. leaf[p] = {CycleOf(p, r) : r \in back(p)} /\ next[p] = {Onward(p, r) : r \in on(p)}
      OBVIOUS
    <2>2. \A v : v \in SaidAfter(T, f, p) <=>
            \E r \in after(p) : v \in IF r.object \in ToSet(p.nodes) THEN {CycleOf(p, r)} ELSE f[Onward(p, r)]
      BY DEF SaidAfter
    <2>3. \A v : v \in SaidAfter(T, f, p) <=>
            \/ \E r \in back(p) : v = CycleOf(p, r)
            \/ \E r \in on(p) : v \in f[Onward(p, r)]
      BY <2>2
    <2>. HIDE DEF back, on, leaf, next
    <2>. QED BY <2>1, <2>3
  <1>5. f = [p \in D |-> SaidAfter(T, f, p)]
    <2>. HIDE DEF leaf, next, D
    <2>. QED BY <1>3, <1>4 DEF UnionOf
  <1>. QED BY <1>5

\* Cycles is what the visit says of the paths that have just started.
LEMMA CyclesAre ==
  ASSUME NEW T, StatementsTyped(T)
  PROVE  \E f : /\ \A p \in NatPaths : f[p] = SaidAfter(T, f, p)
                /\ Cycles(T) = UNION {f[[nodes |-> <<r.subject>>, steps |-> <<>>]] : r \in T}
  <1>. DEFINE Is(f) == f = [p \in NatPaths |-> SaidAfter(T, f, p)]
              Visit == CHOOSE f : Is(f)
  <1>1. Is(Visit)
    <2>1. \E f : Is(f)
      BY VisitExists
    <2>. HIDE DEF Is
    <2>. QED BY <2>1
  <1>2. Cycles(T) = UNION {Visit[[nodes |-> <<r.subject>>, steps |-> <<>>]] : r \in T}
    BY DEF Cycles, SaidAfter, NatPaths
  <1>. HIDE DEF Visit
  <1>3. \A p \in NatPaths : Visit[p] = SaidAfter(T, Visit, p)
    BY <1>1
  <1>. QED BY <1>2, <1>3

-----------------------------------------------------------------------------
(* Cycles, and their rotations                                             *)

\* The element after the last is the first.
After(k, n) == IF k = n THEN 1 ELSE k + 1

\* The versions of a cycle and its statements, one from each version to the next.
IsRing(T, nodes, steps) ==
  /\ nodes \in Seq(Nat) /\ steps \in Seq(Nat) /\ Len(nodes) = Len(steps) /\ Len(nodes) >= 1
  /\ \A i, j \in 1..Len(nodes) : nodes[i] = nodes[j] => i = j
  /\ \A k \in 1..Len(nodes) : \E s \in T :
       s.id = steps[k] /\ s.subject = nodes[k] /\ s.object = nodes[After(k, Len(nodes))]

\* A rotation of a sequence.
Turned(s, first) == SubSeq(s, first, Len(s)) \o SubSeq(s, 1, first - 1)

\* Where the elements of a rotation come from.
Origin(k, first, n) == IF k <= n - first + 1 THEN k + first - 1 ELSE k - (n - first + 1)

\* A rotation has the elements of the sequence.
LEMMA TurnedIs ==
  ASSUME NEW S, NEW s \in Seq(S), NEW first \in 1..Len(s)
  PROVE  /\ Turned(s, first) \in Seq(S) /\ Len(Turned(s, first)) = Len(s)
         /\ \A k \in 1..Len(s) : Turned(s, first)[k] = s[Origin(k, first, Len(s))]
  <1>. DEFINE n == Len(s)
              a == SubSeq(s, first, n)
              b == SubSeq(s, 1, first - 1)
  <1>1. n \in Nat /\ first \in 1..n
    OBVIOUS
  <1>2. /\ a \in Seq(S) /\ Len(a) = n - first + 1
        /\ \A k \in 1..(n - first + 1) : a[k] = s[first + k - 1]
    <2>1. first \in 1..(n + 1) /\ n \in (first - 1)..n
      BY <1>1
    <2>. QED BY <1>1, <2>1, SubSeqProperties
  <1>3. /\ b \in Seq(S) /\ Len(b) = first - 1
        /\ \A k \in 1..(first - 1) : b[k] = s[k]
    <2>1. 1 \in 1..(n + 1) /\ first - 1 \in (1 - 1)..n
      BY <1>1
    <2>. QED BY <1>1, <2>1, SubSeqProperties
  <1>. HIDE DEF a, b
  <1>4. /\ a \o b \in Seq(S) /\ Len(a \o b) = n
        /\ \A k \in 1..n : (a \o b)[k] = IF k <= Len(a) THEN a[k] ELSE b[k - Len(a)]
    <2>1. Len(a) + Len(b) = n
      BY <1>1, <1>2, <1>3
    <2>2. /\ a \o b \in Seq(S) /\ Len(a \o b) = Len(a) + Len(b)
          /\ \A k \in 1..(Len(a) + Len(b)) :
               (a \o b)[k] = IF k <= Len(a) THEN a[k] ELSE b[k - Len(a)]
      BY ONLY <1>2, <1>3, ConcatProperties
    <2>. QED BY <2>1, <2>2
  <1>5. ASSUME NEW k \in 1..n PROVE (a \o b)[k] = s[Origin(k, first, n)]
    <2>1. CASE k <= n - first + 1
      <3>1. k \in 1..(n - first + 1) /\ first + k - 1 = k + first - 1
        BY <1>1, <2>1
      <3>. QED BY <1>2, <1>4, <2>1, <3>1 DEF Origin
    <2>2. CASE ~(k <= n - first + 1)
      <3>1. k - (n - first + 1) \in 1..(first - 1)
        BY <1>1, <2>2
      <3>. QED BY <1>2, <1>3, <1>4, <2>2, <3>1 DEF Origin
    <2>. QED BY <2>1, <2>2
  <1>. QED BY <1>4, <1>5 DEF Turned, a, b

\* They come from different places, and what follows in the rotation follows in
\* the cycle.
LEMMA OriginIs ==
  ASSUME NEW n \in Nat, NEW first \in 1..n
  PROVE  /\ \A k \in 1..n : Origin(k, first, n) \in 1..n
         /\ \A k, j \in 1..n : Origin(k, first, n) = Origin(j, first, n) => k = j
         /\ \A k \in 1..n : After(k, n) \in 1..n
         /\ \A k \in 1..n : Origin(After(k, n), first, n) = After(Origin(k, first, n), n)
         /\ Origin(1, first, n) = first
  BY DEF Origin, After

\* The normal rotation of a cycle is a cycle, from its least version.
LEMMA NormalIs ==
  ASSUME NEW T, NEW nodes, NEW steps, IsRing(T, nodes, steps)
  PROVE  LET v == Normal(nodes, steps)
         IN  /\ v = [nodes |-> v.nodes, steps |-> v.steps] /\ IsRing(T, v.nodes, v.steps)
             /\ \A i \in 1..Len(v.nodes) : v.nodes[1] <= v.nodes[i]
  <1>. DEFINE n == Len(nodes)
              first == CHOOSE i \in DOMAIN nodes : \A j \in DOMAIN nodes : nodes[i] <= nodes[j]
              c == Turned(nodes, first)
              d == Turned(steps, first)
  <1>. HIDE DEF first, c, d
  <1>1. /\ n \in Nat /\ n >= 1 /\ DOMAIN nodes = 1..n /\ n = Len(steps)
        /\ nodes \in Seq(Nat) /\ steps \in Seq(Nat) /\ \A i \in 1..n : nodes[i] \in Nat
        /\ \A i, j \in 1..n : nodes[i] = nodes[j] => i = j
    <2>1. /\ nodes \in Seq(Nat) /\ steps \in Seq(Nat) /\ Len(nodes) = Len(steps) /\ Len(nodes) >= 1
          /\ \A i, j \in 1..Len(nodes) : nodes[i] = nodes[j] => i = j
      BY DEF IsRing
    <2>2. DOMAIN nodes = 1..n /\ n \in Nat /\ \A i \in 1..n : nodes[i] \in Nat
      BY ONLY <2>1
    <2>. QED BY ONLY <2>1, <2>2
  <1>2. first \in 1..n /\ \A j \in 1..n : nodes[first] <= nodes[j]
    <2>. DEFINE M == {nodes[i] : i \in 1..n}
    <2>1. PICK m \in M : \A k \in M : m <= k
      <3>1. M \subseteq Nat /\ nodes[1] \in M
        BY <1>1
      <3>. HIDE DEF M
      <3>. QED BY <3>1, LeastNumber
    <2>2. PICK i \in 1..n : nodes[i] = m
      OBVIOUS
    <2>3. \A j \in 1..n : nodes[j] \in M
      OBVIOUS
    <2>4. \E k \in DOMAIN nodes : \A j \in DOMAIN nodes : nodes[k] <= nodes[j]
      <3>. HIDE DEF M, n
      <3>. QED BY <1>1, <2>1, <2>2, <2>3
    <2>5. first \in DOMAIN nodes /\ \A j \in DOMAIN nodes : nodes[first] <= nodes[j]
      BY <2>4 DEF first
    <2>. QED BY ONLY <1>1, <2>5
  <1>3. Normal(nodes, steps) = [nodes |-> c, steps |-> d]
    BY DEF Normal, Turned, first, c, d
  <1>4. /\ c \in Seq(Nat) /\ Len(c) = n /\ \A k \in 1..n : c[k] = nodes[Origin(k, first, n)]
        /\ d \in Seq(Nat) /\ Len(d) = n /\ \A k \in 1..n : d[k] = steps[Origin(k, first, n)]
    <2>1. first \in 1..Len(nodes) /\ first \in 1..Len(steps)
      BY <1>1, <1>2
    <2>2. /\ c \in Seq(Nat) /\ Len(c) = Len(nodes)
          /\ \A k \in 1..Len(nodes) : c[k] = nodes[Origin(k, first, Len(nodes))]
      BY <1>1, <2>1, TurnedIs DEF c
    <2>3. /\ d \in Seq(Nat) /\ Len(d) = Len(steps)
          /\ \A k \in 1..Len(steps) : d[k] = steps[Origin(k, first, Len(steps))]
      BY <1>1, <2>1, TurnedIs DEF d
    <2>. QED BY <1>1, <2>2, <2>3
  <1>5. /\ \A k \in 1..n : Origin(k, first, n) \in 1..n
        /\ \A k, j \in 1..n : Origin(k, first, n) = Origin(j, first, n) => k = j
        /\ \A k \in 1..n : After(k, n) \in 1..n
        /\ \A k \in 1..n : Origin(After(k, n), first, n) = After(Origin(k, first, n), n)
        /\ Origin(1, first, n) = first
    BY <1>1, <1>2, OriginIs
  <1>6. ASSUME NEW k \in 1..n
        PROVE  \E s \in T : s.id = d[k] /\ s.subject = c[k] /\ s.object = c[After(k, n)]
    <2>. DEFINE o == Origin(k, first, n)
    <2>1. PICK s \in T : s.id = steps[o] /\ s.subject = nodes[o] /\ s.object = nodes[After(o, n)]
      BY <1>5 DEF IsRing
    <2>2. c[After(k, n)] = nodes[After(o, n)]
      BY <1>4, <1>5
    <2>. QED BY <1>4, <2>1, <2>2
  <1>7. \A i, j \in 1..n : c[i] = c[j] => i = j
    <2>. SUFFICES ASSUME NEW i \in 1..n, NEW j \in 1..n, c[i] = c[j] PROVE i = j
      OBVIOUS
    <2>1. Origin(i, first, n) \in 1..n /\ Origin(j, first, n) \in 1..n
      BY <1>5
    <2>2. nodes[Origin(i, first, n)] = nodes[Origin(j, first, n)]
      BY <1>4
    <2>3. Origin(i, first, n) = Origin(j, first, n)
      BY <1>1, <2>1, <2>2
    <2>. QED BY <1>5, <2>3
  <1>8. IsRing(T, c, d)
    BY <1>1, <1>4, <1>6, <1>7 DEF IsRing
  <1>9. ASSUME NEW i \in 1..n PROVE c[1] <= c[i]
    <2>1. Origin(i, first, n) \in 1..n /\ 1 \in 1..n
      BY <1>1, <1>5
    <2>2. c[1] = nodes[first] /\ c[i] = nodes[Origin(i, first, n)]
      BY <1>4, <1>5, <2>1
    <2>. QED BY <1>2, <2>1, <2>2
  <1>. QED BY <1>3, <1>4, <1>8, <1>9

\* A cycle that starts at its least version is normal.
LEMMA NormalStays ==
  ASSUME NEW nodes \in Seq(Nat), NEW steps \in Seq(Nat), Len(nodes) = Len(steps), Len(nodes) >= 1,
         \A i, j \in 1..Len(nodes) : nodes[i] = nodes[j] => i = j,
         \A i \in 1..Len(nodes) : nodes[1] <= nodes[i]
  PROVE  Normal(nodes, steps) = [nodes |-> nodes, steps |-> steps]
  <1>. DEFINE n == Len(nodes)
              first == CHOOSE i \in DOMAIN nodes : \A j \in DOMAIN nodes : nodes[i] <= nodes[j]
  <1>1. n \in Nat /\ n >= 1 /\ DOMAIN nodes = 1..n /\ \A i \in 1..n : nodes[i] \in Nat
    OBVIOUS
  <1>2. \A i \in 1..n : (\A j \in 1..n : nodes[i] <= nodes[j]) => i = 1
    <2>. SUFFICES ASSUME NEW i \in 1..n, \A j \in 1..n : nodes[i] <= nodes[j] PROVE i = 1
      OBVIOUS
    <2>1. nodes[i] <= nodes[1] /\ nodes[1] <= nodes[i] /\ 1 \in 1..n
      BY <1>1
    <2>2. nodes[i] = nodes[1]
      BY <1>1, <2>1
    <2>. QED BY <1>1, <2>2
  <1>3. first = 1
    <2>1. 1 \in DOMAIN nodes /\ \A j \in DOMAIN nodes : nodes[1] <= nodes[j]
      BY <1>1
    <2>. QED BY <1>1, <1>2, <2>1
  <1>. HIDE DEF first
  <1>4. ASSUME NEW s \in Seq(Nat), Len(s) = n PROVE Turned(s, 1) = s
    <2>1. 1 \in 1..Len(s)
      BY <1>1, <1>4
    <2>2. /\ Turned(s, 1) \in Seq(Nat) /\ Len(Turned(s, 1)) = Len(s)
          /\ \A k \in 1..Len(s) : Turned(s, 1)[k] = s[Origin(k, 1, Len(s))]
      BY <2>1, TurnedIs
    <2>3. \A k \in 1..Len(s) : Origin(k, 1, Len(s)) = k
      BY DEF Origin
    <2>. QED BY <1>4, <2>2, <2>3, SeqEqual
  <1>5. Normal(nodes, steps) = [nodes |-> Turned(nodes, 1), steps |-> Turned(steps, 1)]
    BY <1>3 DEF Normal, Turned, first
  <1>. QED BY <1>4, <1>5

-----------------------------------------------------------------------------
(* The paths that the visit takes                                          *)

\* What a path can meet.
Vertices(T) == {r.subject : r \in T} \cup {r.object : r \in T}

\* The statements of T lead from each version of p to the next, none twice.
IsTrail(T, p) ==
  /\ p \in NatPaths /\ Len(p.nodes) = Len(p.steps) + 1
  /\ \A i \in 1..Len(p.nodes) : p.nodes[i] \in Vertices(T)
  /\ \A i, j \in 1..Len(p.nodes) : p.nodes[i] = p.nodes[j] => i = j
  /\ \A k \in 1..Len(p.steps) : \E s \in T :
       s.id = p.steps[k] /\ s.subject = p.nodes[k] /\ s.object = p.nodes[k + 1]

\* The visit starts with a path, at the subject of a statement.
LEMMA TrailStarts ==
  ASSUME NEW T, StatementsTyped(T), NEW r \in T
  PROVE  IsTrail(T, [nodes |-> <<r.subject>>, steps |-> <<>>])
  <1>. DEFINE p == [nodes |-> <<r.subject>>, steps |-> <<>>]
  <1>1. r.subject \in Nat /\ r.subject \in Vertices(T)
    BY DEF StatementsTyped, Vertices
  <1>2. p \in NatPaths /\ Len(p.nodes) = 1 /\ Len(p.steps) = 0 /\ p.nodes[1] = r.subject
    BY <1>1 DEF NatPaths
  <1>. HIDE DEF p
  <1>3. /\ \A i \in 1..Len(p.nodes) : i = 1
        /\ \A k \in 1..Len(p.steps) : FALSE
    BY ONLY <1>2
  <1>4. /\ Len(p.nodes) = Len(p.steps) + 1
        /\ \A i \in 1..Len(p.nodes) : p.nodes[i] \in Vertices(T)
        /\ \A i, j \in 1..Len(p.nodes) : p.nodes[i] = p.nodes[j] => i = j
        /\ \A k \in 1..Len(p.steps) : \E s \in T :
             s.id = p.steps[k] /\ s.subject = p.nodes[k] /\ s.object = p.nodes[k + 1]
    BY ONLY <1>1, <1>2, <1>3
  <1>. QED BY <1>2, <1>4 DEF IsTrail, p

\* A statement that leads out of a path makes a longer one.
LEMMA TrailGoesOn ==
  ASSUME NEW T, StatementsTyped(T), NEW p, IsTrail(T, p), NEW r \in T,
         r.subject = Last(p.nodes), r.object \notin ToSet(p.nodes)
  PROVE  IsTrail(T, Onward(p, r)) /\ Len(Onward(p, r).nodes) = Len(p.nodes) + 1
  <1>. DEFINE q == Onward(p, r)
              n == Len(p.nodes)
  <1>1. r.subject \in Nat /\ r.object \in Nat /\ r.id \in Nat /\ r.object \in Vertices(T)
    BY DEF StatementsTyped, Vertices
  <1>2. /\ p.nodes \in Seq(Nat) /\ p.steps \in Seq(Nat) /\ n = Len(p.steps) + 1 /\ n \in Nat
        /\ Len(p.steps) = n - 1 /\ n >= 1
    BY DEF IsTrail, NatPaths
  <1>3. p.nodes[n] = r.subject
    BY <1>2 DEF Last
  <1>4. \A i \in 1..n : p.nodes[i] # r.object
    BY <1>2 DEF ToSet
  <1>5. /\ q \in NatPaths /\ Len(q.nodes) = n + 1 /\ Len(q.steps) = n
        /\ \A i \in 1..n : q.nodes[i] = p.nodes[i]
        /\ q.nodes[n + 1] = r.object
        /\ \A k \in 1..(n - 1) : q.steps[k] = p.steps[k]
        /\ q.steps[n] = r.id
    <2>1. q = [nodes |-> Append(p.nodes, r.object), steps |-> Append(p.steps, r.id)]
      BY DEF Onward
    <2>2. q.nodes = Append(p.nodes, r.object) /\ q.steps = Append(p.steps, r.id)
      BY <2>1
    <2>3. /\ q.nodes \in Seq(Nat) /\ Len(q.nodes) = n + 1
          /\ \A i \in 1..n : q.nodes[i] = p.nodes[i]
          /\ q.nodes[n + 1] = r.object
      BY ONLY <1>1, <1>2, <2>2, AppendProperties
    <2>4. /\ q.steps \in Seq(Nat) /\ Len(q.steps) = n
          /\ \A k \in 1..(n - 1) : q.steps[k] = p.steps[k]
          /\ q.steps[n] = r.id
      BY ONLY <1>1, <1>2, <2>2, AppendProperties
    <2>5. q \in NatPaths
      BY ONLY <2>1, <2>2, <2>3, <2>4 DEF NatPaths
    <2>. QED BY <2>3, <2>4, <2>5
  <1>. HIDE DEF q, n
  <1>6. \A i \in 1..(n + 1) : q.nodes[i] \in Vertices(T)
    <2>1. \A i \in 1..n : p.nodes[i] \in Vertices(T)
      BY DEF IsTrail, n
    <2>2. \A i \in 1..(n + 1) : i \in 1..n \/ i = n + 1
      BY <1>2
    <2>. QED BY ONLY <1>1, <1>5, <2>1, <2>2
  <1>7. \A i, j \in 1..(n + 1) : q.nodes[i] = q.nodes[j] => i = j
    <2>1. \A i, j \in 1..n : p.nodes[i] = p.nodes[j] => i = j
      BY DEF IsTrail, n
    <2>2. \A i \in 1..(n + 1) : i \in 1..n \/ i = n + 1
      BY <1>2
    <2>. QED BY <1>4, <1>5, <2>1, <2>2
  <1>8. ASSUME NEW k \in 1..n
        PROVE  \E s \in T : s.id = q.steps[k] /\ s.subject = q.nodes[k] /\ s.object = q.nodes[k + 1]
    <2>1. CASE k = n
      BY <1>2, <1>3, <1>5, <2>1
    <2>2. CASE k # n
      <3>1. k \in 1..(n - 1) /\ k + 1 \in 1..n
        BY <1>2, <2>2
      <3>2. PICK s \in T : s.id = p.steps[k] /\ s.subject = p.nodes[k] /\ s.object = p.nodes[k + 1]
        BY <1>2, <3>1 DEF IsTrail
      <3>. QED BY <1>5, <3>1, <3>2
    <2>. QED BY <2>1, <2>2
  <1>9. IsTrail(T, q)
    BY <1>5, <1>6, <1>7, <1>8 DEF IsTrail
  <1>. QED BY <1>5, <1>9 DEF q, n

\* A statement that leads back into a path closes a cycle.
LEMMA TrailCloses ==
  ASSUME NEW T, StatementsTyped(T), NEW p, IsTrail(T, p), NEW r \in T,
         r.subject = Last(p.nodes), r.object \in ToSet(p.nodes)
  PROVE  \E nodes, steps : IsRing(T, nodes, steps) /\ CycleOf(p, r) = Normal(nodes, steps)
  <1>. DEFINE L == Len(p.nodes)
              at == CHOOSE i \in DOMAIN p.nodes : p.nodes[i] = r.object
              n == L - at + 1
              c == SubSeq(p.nodes, at, L)
              e == SubSeq(p.steps, at, Len(p.steps))
              d == Append(e, r.id)
  <1>1. r.subject \in Nat /\ r.object \in Nat /\ r.id \in Nat
    BY DEF StatementsTyped
  <1>2. /\ p.nodes \in Seq(Nat) /\ p.steps \in Seq(Nat) /\ L \in Nat
        /\ Len(p.steps) = L - 1 /\ L >= 1 /\ DOMAIN p.nodes = 1..L
    BY DEF IsTrail, NatPaths
  <1>3. at \in 1..L /\ p.nodes[at] = r.object
    <2>1. \E i \in DOMAIN p.nodes : p.nodes[i] = r.object
      BY DEF ToSet
    <2>. QED BY ONLY <1>2, <2>1
  <1>4. CycleOf(p, r) = Normal(c, d)
    BY DEF CycleOf
  <1>5. p.nodes[L] = r.subject
    BY <1>2 DEF Last
  <1>. HIDE DEF at
  <1>6. /\ c \in Seq(Nat) /\ Len(c) = n /\ \A k \in 1..n : c[k] = p.nodes[at + k - 1]
    <2>1. \A i \in at..L : p.nodes[i] \in Nat
      BY <1>2, <1>3
    <2>2. /\ SubSeq(p.nodes, at, L) \in Seq(Nat) /\ Len(SubSeq(p.nodes, at, L)) = n
          /\ \A k \in 1..n : SubSeq(p.nodes, at, L)[k] = p.nodes[at + k - 1]
      BY <1>2, <1>3, <2>1, SubSeqProperties
    <2>. QED BY <2>2
  <1>7. /\ e \in Seq(Nat) /\ Len(e) = n - 1 /\ \A k \in 1..(n - 1) : e[k] = p.steps[at + k - 1]
    <2>1. ASSUME NEW i \in at..(L - 1) PROVE p.steps[i] \in Nat
      <3>1. i \in 1..Len(p.steps)
        BY ONLY <1>2, <1>3, <2>1
      <3>. QED BY ONLY <1>2, <3>1, ElementOfSeq
    <2>2. /\ SubSeq(p.steps, at, L - 1) \in Seq(Nat) /\ Len(SubSeq(p.steps, at, L - 1)) = n - 1
          /\ \A k \in 1..(n - 1) : SubSeq(p.steps, at, L - 1)[k] = p.steps[at + k - 1]
      BY <1>2, <1>3, <2>1, SubSeqProperties
    <2>. QED BY <1>2, <2>2
  <1>. HIDE DEF c, e
  <1>8. /\ d \in Seq(Nat) /\ Len(d) = n /\ d[n] = r.id
        /\ \A k \in 1..(n - 1) : d[k] = p.steps[at + k - 1]
    BY <1>1, <1>2, <1>3, <1>7
  <1>. HIDE DEF d
  <1>9. n \in Nat /\ n >= 1
    BY <1>2, <1>3
  <1>10. ASSUME NEW k \in 1..n
         PROVE  \E s \in T : s.id = d[k] /\ s.subject = c[k] /\ s.object = c[After(k, n)]
    <2>1. CASE k = n
      <3>1. c[n] = r.subject /\ c[1] = r.object
        <4>1. at + n - 1 = L /\ at + 1 - 1 = at /\ 1 \in 1..n /\ n \in 1..n
          BY <1>2, <1>3, <1>9
        <4>. QED BY <1>3, <1>5, <1>6, <4>1
      <3>. QED BY <1>8, <2>1, <3>1 DEF After
    <2>2. CASE k # n
      <3>1. /\ k \in 1..(n - 1) /\ k + 1 \in 1..n /\ at + k - 1 \in 1..Len(p.steps)
            /\ at + (k + 1) - 1 = (at + k - 1) + 1
        <4>1. L \in Nat /\ at \in Nat /\ k \in Nat /\ at >= 1 /\ at <= L /\ k >= 1 /\ k < n
          BY <1>2, <1>3, <1>9, <2>2
        <4>2. Len(p.steps) = L - 1 /\ n = L - at + 1
          BY <1>2
        <4>. HIDE DEF L, n
        <4>. QED BY ONLY <4>1, <4>2
      <3>2. PICK s \in T : /\ s.id = p.steps[at + k - 1] /\ s.subject = p.nodes[at + k - 1]
                           /\ s.object = p.nodes[(at + k - 1) + 1]
        BY <3>1 DEF IsTrail
      <3>. QED BY <1>6, <1>8, <2>2, <3>1, <3>2 DEF After
    <2>. QED BY <2>1, <2>2
  <1>11. ASSUME NEW i \in 1..n, NEW j \in 1..n, c[i] = c[j] PROVE i = j
    <2>1. at + i - 1 \in 1..L /\ at + j - 1 \in 1..L
      <3>1. L \in Nat /\ at \in Nat /\ at >= 1 /\ at <= L /\ n = L - at + 1
        BY <1>2, <1>3
      <3>. HIDE DEF L, n
      <3>. QED BY ONLY <3>1, i \in 1..n, j \in 1..n
    <2>2. p.nodes[at + i - 1] = p.nodes[at + j - 1]
      BY <1>6, <1>11
    <2>3. at + i - 1 = at + j - 1
      BY <2>1, <2>2 DEF IsTrail
    <2>4. i \in Nat /\ j \in Nat /\ at \in Nat
      BY <1>3, <1>9
    <2>. QED BY ONLY <2>3, <2>4
  <1>. HIDE DEF n
  <1>12. IsRing(T, c, d)
    BY <1>6, <1>8, <1>9, <1>10, <1>11 DEF IsRing
  <1>. QED BY <1>4, <1>12

\* A sequence without repetition is no longer than the set of its elements.
LEMMA InjectiveIsShort ==
  ASSUME NEW S, IsFiniteSet(S), NEW n \in Nat, NEW s, \A i \in 1..n : s[i] \in S,
         \A i, j \in 1..n : s[i] = s[j] => i = j
  PROVE  n <= Cardinality(S) /\ Cardinality(S) \in Nat
  <1>. DEFINE f == [i \in 1..n |-> s[i]]
  <1>1. f \in Injection(1..n, S)
    BY DEF Injection, IsInjective
  <1>2. Cardinality(1..n) = n
    <2>1. Cardinality(1..n) = IF 1 > n THEN 0 ELSE n - 1 + 1
      BY FS_Interval
    <2>. QED BY <2>1
  <1>3. Cardinality(1..n) <= Cardinality(S)
    <2>. HIDE DEF f
    <2>. QED BY ONLY <1>1, IsFiniteSet(S), FS_Injection
  <1>. QED BY <1>2, <1>3, FS_CardinalityType

\* A finding of the visit is the normal rotation of some cycle.
Found(T, v) == \E nodes, steps : IsRing(T, nodes, steps) /\ v = Normal(nodes, steps)

\* Finitely many statements are of finitely many versions.
LEMMA VerticesAreFinite ==
  ASSUME NEW T, StatementsTyped(T)
  PROVE  IsFiniteSet(Vertices(T)) /\ IsFiniteSet({r.subject : r \in T})
  <1>1. IsFiniteSet(T)
    BY DEF StatementsTyped
  <1>2. IsFiniteSet({r.subject : r \in T})
    <2>. DEFINE f == [r \in T |-> r.subject]
    <2>1. f \in Surjection(T, {r.subject : r \in T})
      BY DEF Surjection
    <2>. HIDE DEF f
    <2>. QED BY <1>1, <2>1, FS_Surjection
  <1>3. IsFiniteSet({r.object : r \in T})
    <2>. DEFINE f == [r \in T |-> r.object]
    <2>1. f \in Surjection(T, {r.object : r \in T})
      BY DEF Surjection
    <2>. HIDE DEF f
    <2>. QED BY <1>1, <2>1, FS_Surjection
  <1>. QED BY <1>2, <1>3, FS_Union DEF Vertices

\* What is said of a path closes a cycle.
LEMMA VisitIsSound ==
  ASSUME NEW T, StatementsTyped(T), NEW f, \A p \in NatPaths : f[p] = SaidAfter(T, f, p),
         NEW p, IsTrail(T, p), NEW v \in f[p]
  PROVE  Found(T, v)
  <1>. SUFFICES ASSUME ~Found(T, v) PROVE FALSE
    OBVIOUS
  <1>. DEFINE N == Cardinality(Vertices(T))
              Bad == {q \in NatPaths : IsTrail(T, q) /\ \E w \in f[q] : ~Found(T, w)}
              M == {N - Len(q.nodes) : q \in Bad}
  <1>1. ASSUME NEW q \in NatPaths, IsTrail(T, q)
        PROVE  N \in Nat /\ Len(q.nodes) \in Nat /\ Len(q.nodes) <= N
    <2>. DEFINE V == Vertices(T)
                L == Len(q.nodes)
    <2>1. IsFiniteSet(V)
      BY VerticesAreFinite
    <2>2. /\ L \in Nat /\ \A i \in 1..L : q.nodes[i] \in V
          /\ \A i, j \in 1..L : q.nodes[i] = q.nodes[j] => i = j
      <3>1. IsTrail(T, q)
        BY <1>1
      <3>2. Len(q.nodes) \in Nat
        BY DEF NatPaths
      <3>3. /\ \A i \in 1..Len(q.nodes) : q.nodes[i] \in Vertices(T)
            /\ \A i, j \in 1..Len(q.nodes) : q.nodes[i] = q.nodes[j] => i = j
        BY ONLY <3>1 DEF IsTrail
      <3>. QED BY ONLY <3>2, <3>3
    <2>. HIDE DEF V, L
    <2>3. L <= Cardinality(V) /\ Cardinality(V) \in Nat
      BY ONLY <2>1, <2>2, InjectiveIsShort
    <2>. QED BY ONLY <2>2, <2>3 DEF V, L
  <1>2. p \in Bad
    BY DEF IsTrail
  <1>3. M \subseteq Nat /\ M # {}
    <2>1. \A q \in Bad : N - Len(q.nodes) \in Nat
      BY <1>1
    <2>2. N - Len(p.nodes) \in M
      BY <1>2
    <2>. HIDE DEF Bad, N
    <2>. QED BY <2>1, <2>2
  <1>4. PICK m \in M : \A k \in M : m <= k
    <2>. HIDE DEF M
    <2>. QED BY <1>3, LeastNumber
  <1>5. PICK q \in Bad : m = N - Len(q.nodes)
    OBVIOUS
  <1>6. PICK w \in f[q] : ~Found(T, w)
    OBVIOUS
  <1>7. q \in NatPaths /\ IsTrail(T, q)
    OBVIOUS
  <1>8. PICK r \in {s \in T : s.subject = Last(q.nodes)} :
          w \in IF r.object \in ToSet(q.nodes) THEN {CycleOf(q, r)} ELSE f[Onward(q, r)]
    BY <1>7, <1>6 DEF SaidAfter
  <1>9. CASE r.object \in ToSet(q.nodes)
    <2>1. \E nodes, steps : IsRing(T, nodes, steps) /\ CycleOf(q, r) = Normal(nodes, steps)
      BY <1>7, <1>9, TrailCloses
    <2>. QED BY <1>6, <1>8, <1>9, <2>1 DEF Found
  <1>10. CASE r.object \notin ToSet(q.nodes)
    <2>1. IsTrail(T, Onward(q, r)) /\ Len(Onward(q, r).nodes) = Len(q.nodes) + 1
      BY <1>7, <1>10, TrailGoesOn
    <2>2. Onward(q, r) \in NatPaths /\ w \in f[Onward(q, r)]
      BY <1>8, <1>10, <2>1 DEF IsTrail
    <2>3. Onward(q, r) \in Bad
      BY <1>6, <2>1, <2>2
    <2>4. N - Len(Onward(q, r).nodes) \in M
      BY <2>3
    <2>5. m <= N - Len(Onward(q, r).nodes)
      BY <1>4, <2>4
    <2>6. N \in Nat /\ Len(q.nodes) \in Nat
      BY <1>1, <1>7
    <2>. HIDE DEF N
    <2>. QED BY ONLY <1>5, <2>1, <2>5, <2>6
  <1>. QED BY <1>9, <1>10

\* Cycles has normal rotations of cycles only.
LEMMA CyclesAreFound ==
  ASSUME NEW T, StatementsTyped(T), NEW v \in Cycles(T)
  PROVE  Found(T, v)
  <1>1. PICK f : /\ \A p \in NatPaths : f[p] = SaidAfter(T, f, p)
                 /\ Cycles(T) = UNION {f[[nodes |-> <<r.subject>>, steps |-> <<>>]] : r \in T}
    BY CyclesAre
  <1>2. PICK r \in T : v \in f[[nodes |-> <<r.subject>>, steps |-> <<>>]]
    BY <1>1
  <1>3. IsTrail(T, [nodes |-> <<r.subject>>, steps |-> <<>>])
    BY TrailStarts
  <1>. QED BY <1>1, <1>2, <1>3, VisitIsSound

\* A cycle of statements as the diagnostics show it.
Shown(s) == [nodes |-> [i \in DOMAIN s |-> s[i].subject], steps |-> [i \in DOMAIN s |-> s[i].id]]

\* A cycle from its least version is an elementary cycle of the statements.
LEMMA RingIsElementary ==
  ASSUME NEW T, StatementsTyped(T), NEW nodes, NEW steps, IsRing(T, nodes, steps),
         \A i \in 1..Len(nodes) : nodes[1] <= nodes[i]
  PROVE  \E s \in ElementaryCycles(T) : [nodes |-> nodes, steps |-> steps] = Shown(s)
  <1>. DEFINE n == Len(nodes)
              fits(k, s) == s.id = steps[k] /\ s.subject = nodes[k] /\ s.object = nodes[After(k, n)]
              t == [k \in 1..n |-> CHOOSE s \in T : fits(k, s)]
              S == {r.subject : r \in T}
  <1>1. /\ nodes \in Seq(Nat) /\ steps \in Seq(Nat) /\ n = Len(steps) /\ n \in Nat /\ n >= 1
        /\ \A i, j \in 1..n : nodes[i] = nodes[j] => i = j
    <2>1. /\ nodes \in Seq(Nat) /\ steps \in Seq(Nat) /\ Len(nodes) = Len(steps) /\ Len(nodes) >= 1
          /\ \A i, j \in 1..Len(nodes) : nodes[i] = nodes[j] => i = j
      BY DEF IsRing
    <2>. QED BY ONLY <2>1
  <1>2. ASSUME NEW k \in 1..n PROVE t[k] \in T /\ fits(k, t[k])
    <2>1. \E s \in T : fits(k, s)
      BY DEF IsRing
    <2>2. t[k] = CHOOSE s \in T : fits(k, s)
      OBVIOUS
    <2>. HIDE DEF fits, t
    <2>. QED BY <2>1, <2>2
  <1>3. t \in [1..n -> T] /\ DOMAIN t = 1..n
    <2>. HIDE DEF fits
    <2>. QED BY <1>2
  <1>. HIDE DEF t
  <1>4. \A k \in 1..n : /\ t[k].id = steps[k] /\ t[k].subject = nodes[k]
                        /\ t[k].object = nodes[After(k, n)]
    BY <1>2
  <1>5. n \in 1..Cardinality(S)
    <2>1. \A k \in 1..n : nodes[k] \in S
      BY <1>2
    <2>2. IsFiniteSet(S)
      BY VerticesAreFinite
    <2>. HIDE DEF S, n
    <2>3. n <= Cardinality(S) /\ Cardinality(S) \in Nat
      BY <1>1, <2>1, <2>2, InjectiveIsShort
    <2>. QED BY <1>1, <2>3
  <1>. HIDE DEF S
  <1>6. Len(t) = n /\ t \in Seq(T)
    BY <1>1, <1>3
  <1>7. IsChain(t)
    <2>1. ASSUME NEW i \in 1..(n - 1) PROVE t[i].object = t[i + 1].subject
      <3>1. i \in 1..n /\ i + 1 \in 1..n /\ i # n
        BY <1>1
      <3>. QED BY <1>4, <3>1 DEF After
    <2>. QED BY <1>6, <2>1 DEF IsChain
  <1>8. Last(t).object = t[1].subject
    <2>1. n \in 1..n /\ 1 \in 1..n
      BY <1>1
    <2>. QED BY <1>4, <1>6, <2>1 DEF Last, After
  <1>9. \A i, j \in DOMAIN t : t[i].subject = t[j].subject => i = j
    BY <1>1, <1>3, <1>4
  <1>10. \A i \in DOMAIN t : t[1].subject <= t[i].subject
    <2>1. 1 \in 1..n
      BY <1>1
    <2>. QED BY <1>3, <1>4, <2>1
  <1>11. t \in UNION {[1..k -> T] : k \in 1..Cardinality({r.subject : r \in T})}
    <2>. HIDE DEF n
    <2>. QED BY <1>3, <1>5 DEF S
  <1>12. t \in ElementaryCycles(T)
    BY <1>7, <1>8, <1>9, <1>10, <1>11 DEF ElementaryCycles
  <1>13. nodes = [i \in DOMAIN t |-> t[i].subject] /\ steps = [i \in DOMAIN t |-> t[i].id]
    <2>1. nodes = [i \in 1..n |-> nodes[i]] /\ steps = [i \in 1..n |-> steps[i]]
      BY <1>1
    <2>. HIDE DEF n
    <2>. QED BY <1>3, <1>4, <2>1
  <1>. QED BY <1>12, <1>13 DEF Shown

\* Cycles has elementary cycles only.
LEMMA CyclesAreElementary ==
  ASSUME NEW T, StatementsTyped(T), NEW v \in Cycles(T)
  PROVE  \E s \in ElementaryCycles(T) : v = Shown(s)
  <1>1. PICK nodes, steps : IsRing(T, nodes, steps) /\ v = Normal(nodes, steps)
    BY CyclesAreFound DEF Found
  <1>2. /\ v = [nodes |-> v.nodes, steps |-> v.steps] /\ IsRing(T, v.nodes, v.steps)
        /\ \A i \in 1..Len(v.nodes) : v.nodes[1] <= v.nodes[i]
    BY <1>1, NormalIs
  <1>3. \E s \in ElementaryCycles(T) : [nodes |-> v.nodes, steps |-> v.steps] = Shown(s)
    BY <1>2, RingIsElementary
  <1>. QED BY <1>2, <1>3

\* The path of the first k versions of a sequence of statements.
PathTo(s, k) == [nodes |-> [i \in 1..k |-> s[i].subject], steps |-> [i \in 1..(k - 1) |-> s[i].id]]

\* What makes a cycle elementary, without the bound on its length.
LEMMA ElementaryIs ==
  ASSUME NEW T, StatementsTyped(T), NEW s \in ElementaryCycles(T)
  PROVE  \E n \in Nat \ {0} :
           /\ s \in [1..n -> T] /\ DOMAIN s = 1..n
           /\ \A i \in 1..n : s[i].id \in Nat /\ s[i].subject \in Nat /\ s[i].object \in Nat
           /\ \A i \in 1..(n - 1) : s[i].object = s[i + 1].subject
           /\ s[n].object = s[1].subject
           /\ \A i, j \in 1..n : s[i].subject = s[j].subject => i = j
           /\ \A i \in 1..n : s[1].subject <= s[i].subject
  <1>. DEFINE C == Cardinality({r.subject : r \in T})
  <1>1. /\ s \in UNION {[1..n -> T] : n \in 1..C}
        /\ IsChain(s) /\ Last(s).object = s[1].subject
        /\ \A i, j \in DOMAIN s : s[i].subject = s[j].subject => i = j
        /\ \A i \in DOMAIN s : s[1].subject <= s[i].subject
    BY DEF ElementaryCycles
  <1>2. C \in Nat
    BY VerticesAreFinite, FS_CardinalityType
  <1>. HIDE DEF C
  <1>3. PICK n \in 1..C : s \in [1..n -> T]
    BY <1>1
  <1>4. n \in Nat \ {0} /\ DOMAIN s = 1..n /\ s \in Seq(T) /\ Len(s) = n
    BY <1>2, <1>3
  <1>5. \A i \in 1..n : s[i].id \in Nat /\ s[i].subject \in Nat /\ s[i].object \in Nat
    BY <1>3 DEF StatementsTyped
  <1>6. \A i \in 1..(n - 1) : s[i].object = s[i + 1].subject
    BY <1>1, <1>4 DEF IsChain
  <1>7. s[n].object = s[1].subject
    BY <1>1, <1>4 DEF Last
  <1>. QED BY ONLY <1>1, <1>3, <1>4, <1>5, <1>6, <1>7

\* The visit finds an elementary cycle from its least version: what it says of a
\* path of the cycle it says of the shorter one.
LEMMA ElementaryIsFound ==
  ASSUME NEW T, StatementsTyped(T), NEW f, \A p \in NatPaths : f[p] = SaidAfter(T, f, p),
         NEW s \in ElementaryCycles(T)
  PROVE  \E r \in T : Shown(s) \in f[[nodes |-> <<r.subject>>, steps |-> <<>>]]
  <1>1. PICK n \in Nat \ {0} :
           /\ s \in [1..n -> T] /\ DOMAIN s = 1..n
           /\ \A i \in 1..n : s[i].id \in Nat /\ s[i].subject \in Nat /\ s[i].object \in Nat
           /\ \A i \in 1..(n - 1) : s[i].object = s[i + 1].subject
           /\ s[n].object = s[1].subject
           /\ \A i, j \in 1..n : s[i].subject = s[j].subject => i = j
           /\ \A i \in 1..n : s[1].subject <= s[i].subject
    BY ElementaryIs
  <1>2. ASSUME NEW k \in 1..n
        PROVE  /\ PathTo(s, k) \in NatPaths
               /\ PathTo(s, k).nodes \in Seq(Nat) /\ Len(PathTo(s, k).nodes) = k
               /\ DOMAIN PathTo(s, k).nodes = 1..k
               /\ \A i \in 1..k : PathTo(s, k).nodes[i] = s[i].subject
               /\ PathTo(s, k).steps \in Seq(Nat) /\ Len(PathTo(s, k).steps) = k - 1
               /\ \A i \in 1..(k - 1) : PathTo(s, k).steps[i] = s[i].id
               /\ Last(PathTo(s, k).nodes) = s[k].subject
    <2>. DEFINE c == [i \in 1..k |-> s[i].subject]
                d == [i \in 1..(k - 1) |-> s[i].id]
    <2>1. k \in Nat /\ k >= 1 /\ k \in 1..k /\ \A i \in 1..k : i \in 1..n
      BY ONLY <1>1, k \in 1..n
    <2>2. \A i \in 1..(k - 1) : i \in 1..n
      BY <2>1
    <2>3. c \in [1..k -> Nat] /\ \A i \in 1..k : c[i] = s[i].subject
      BY <1>1, <2>1
    <2>4. d \in [1..(k - 1) -> Nat] /\ \A i \in 1..(k - 1) : d[i] = s[i].id
      BY <1>1, <2>2
    <2>5. PathTo(s, k) = [nodes |-> c, steps |-> d]
      BY DEF PathTo
    <2>. HIDE DEF c, d
    <2>6. c \in Seq(Nat) /\ Len(c) = k /\ DOMAIN c = 1..k
      BY ONLY <2>1, <2>3
    <2>7. d \in Seq(Nat) /\ Len(d) = k - 1
      BY ONLY <2>1, <2>4
    <2>8. Last(c) = s[k].subject
      BY <2>1, <2>3, <2>6 DEF Last
    <2>9. PathTo(s, k).nodes = c /\ PathTo(s, k).steps = d /\ PathTo(s, k) \in NatPaths
      BY <2>5, <2>6, <2>7 DEF NatPaths
    <2>. QED BY ONLY <2>3, <2>4, <2>6, <2>7, <2>8, <2>9
  <1>3. ASSUME NEW k \in 1..(n - 1)
        PROVE  f[PathTo(s, k + 1)] \subseteq f[PathTo(s, k)]
    <2>1. k \in 1..n /\ k + 1 \in 1..n /\ k \in Nat
      BY <1>1
    <2>. DEFINE p == PathTo(s, k)
                q == PathTo(s, k + 1)
    <2>2. /\ p \in NatPaths /\ p.nodes \in Seq(Nat) /\ Len(p.nodes) = k
          /\ DOMAIN p.nodes = 1..k
          /\ \A i \in 1..k : p.nodes[i] = s[i].subject
          /\ p.steps \in Seq(Nat) /\ Len(p.steps) = k - 1
          /\ \A i \in 1..(k - 1) : p.steps[i] = s[i].id
          /\ Last(p.nodes) = s[k].subject
      BY <1>2, <2>1
    <2>3. /\ q.nodes \in Seq(Nat) /\ Len(q.nodes) = k + 1
          /\ \A i \in 1..(k + 1) : q.nodes[i] = s[i].subject
          /\ q.steps \in Seq(Nat) /\ Len(q.steps) = k
          /\ \A i \in 1..k : q.steps[i] = s[i].id
      <3>1. /\ q.nodes \in Seq(Nat) /\ Len(q.nodes) = k + 1
            /\ \A i \in 1..(k + 1) : q.nodes[i] = s[i].subject
            /\ q.steps \in Seq(Nat) /\ Len(q.steps) = (k + 1) - 1
            /\ \A i \in 1..((k + 1) - 1) : q.steps[i] = s[i].id
        BY <1>2, <2>1
      <3>2. (k + 1) - 1 = k
        BY <2>1
      <3>. QED BY ONLY <3>1, <3>2
    <2>4. q = [nodes |-> q.nodes, steps |-> q.steps]
      BY DEF PathTo
    <2>. HIDE DEF p, q
    <2>5. s[k].object = s[k + 1].subject /\ s[k] \in T /\ s[k].object \in Nat /\ s[k].id \in Nat
      BY <1>1, <2>1
    <2>6. s[k].object \notin ToSet(p.nodes)
      <3>1. \A i \in 1..k : i \in 1..n /\ i # k + 1
        BY <2>1
      <3>2. \A i \in 1..k : p.nodes[i] # s[k].object
        BY <1>1, <2>1, <2>2, <2>5, <3>1
      <3>. QED BY <2>2, <3>2 DEF ToSet
    <2>7. Onward(p, s[k]) = q
      <3>1. q.nodes = Append(p.nodes, s[k].object)
        <4>. DEFINE a == Append(p.nodes, s[k].object)
        <4>1. /\ a \in Seq(Nat) /\ Len(a) = k + 1 /\ a[k + 1] = s[k].object
              /\ \A i \in 1..k : a[i] = p.nodes[i]
          BY ONLY <2>2, <2>5, AppendProperties
        <4>. HIDE DEF a
        <4>2. \A i \in 1..(k + 1) : i \in 1..k \/ i = k + 1
          BY <2>1
        <4>3. \A i \in 1..(k + 1) : a[i] = q.nodes[i]
          BY ONLY <2>2, <2>3, <2>5, <4>1, <4>2
        <4>. QED BY ONLY <2>3, <4>1, <4>3, SeqEqual DEF a
      <3>2. q.steps = Append(p.steps, s[k].id)
        <4>. DEFINE a == Append(p.steps, s[k].id)
        <4>1. /\ a \in Seq(Nat) /\ Len(a) = k /\ a[k] = s[k].id
              /\ \A i \in 1..(k - 1) : a[i] = p.steps[i]
          BY ONLY <2>1, <2>2, <2>5, AppendProperties
        <4>. HIDE DEF a
        <4>2. \A i \in 1..k : i \in 1..(k - 1) \/ i = k
          BY <2>1
        <4>3. \A i \in 1..k : a[i] = q.steps[i]
          BY ONLY <2>2, <2>3, <4>1, <4>2
        <4>. QED BY ONLY <2>3, <4>1, <4>3, SeqEqual DEF a
      <3>. QED BY <2>4, <3>1, <3>2 DEF Onward
    <2>8. s[k] \in {r \in T : r.subject = Last(p.nodes)}
      BY <2>2, <2>5
    <2>9. f[p] = SaidAfter(T, f, p)
      BY <2>2
    <2>. QED BY <2>6, <2>7, <2>8, <2>9 DEF SaidAfter, p, q
  <1>4. Shown(s) \in f[PathTo(s, n)]
    <2>. DEFINE p == PathTo(s, n)
                at == CHOOSE i \in DOMAIN p.nodes : p.nodes[i] = s[n].object
                d == [i \in DOMAIN s |-> s[i].id]
    <2>1. n \in 1..n /\ 1 \in 1..n
      BY <1>1
    <2>2. /\ p \in NatPaths /\ p.nodes \in Seq(Nat) /\ Len(p.nodes) = n
          /\ DOMAIN p.nodes = 1..n
          /\ \A i \in 1..n : p.nodes[i] = s[i].subject
          /\ p.steps \in Seq(Nat) /\ Len(p.steps) = n - 1
          /\ \A i \in 1..(n - 1) : p.steps[i] = s[i].id
          /\ Last(p.nodes) = s[n].subject
      BY <1>2, <2>1
    <2>3. Shown(s) = [nodes |-> p.nodes, steps |-> d]
      BY <1>1 DEF Shown, PathTo
    <2>. HIDE DEF p
    <2>4. s[n].object = p.nodes[1] /\ s[n] \in T /\ s[n].id \in Nat
      BY <1>1, <2>1, <2>2
    <2>5. s[n].object \in ToSet(p.nodes)
      BY <2>1, <2>2, <2>4 DEF ToSet
    <2>6. at = 1
      <3>1. \A i \in 1..n : p.nodes[i] = s[n].object => i = 1
        BY <1>1, <2>1, <2>2, <2>4
      <3>. QED BY <2>1, <2>2, <2>4, <3>1
    <2>7. SubSeq(p.nodes, at, Len(p.nodes)) = p.nodes
      <3>1. SubSeq(p.nodes, 1, Len(p.nodes)) = p.nodes
        BY ONLY <2>2, WholeSubSeq
      <3>. QED BY ONLY <2>6, <3>1
    <2>8. SubSeq(p.steps, at, Len(p.steps)) = p.steps
      <3>1. SubSeq(p.steps, 1, Len(p.steps)) = p.steps
        BY ONLY <2>2, WholeSubSeq
      <3>. QED BY ONLY <2>6, <3>1
    <2>. HIDE DEF at
    <2>9. d \in [1..n -> Nat] /\ \A i \in 1..n : d[i] = s[i].id
      BY <1>1
    <2>. HIDE DEF d
    <2>10. d \in Seq(Nat) /\ Len(d) = n
      BY ONLY <1>1, <2>9
    <2>11. Append(p.steps, s[n].id) = d
      <3>. DEFINE a == Append(p.steps, s[n].id)
      <3>1. /\ a \in Seq(Nat) /\ Len(a) = n /\ a[n] = s[n].id
            /\ \A i \in 1..(n - 1) : a[i] = p.steps[i]
        BY ONLY <1>1, <2>2, <2>4, AppendProperties
      <3>. HIDE DEF a
      <3>2. \A i \in 1..n : i \in 1..(n - 1) \/ i = n
        BY <1>1
      <3>3. \A i \in 1..n : a[i] = d[i]
        BY ONLY <2>2, <2>9, <3>1, <3>2
      <3>. QED BY ONLY <2>10, <3>1, <3>3, SeqEqual DEF a
    <2>12. CycleOf(p, s[n]) = Normal(p.nodes, d)
      BY <2>7, <2>8, <2>11 DEF CycleOf, at
    <2>13. Normal(p.nodes, d) = [nodes |-> p.nodes, steps |-> d]
      <3>1. /\ p.nodes \in Seq(Nat) /\ d \in Seq(Nat) /\ Len(p.nodes) = Len(d) /\ Len(p.nodes) >= 1
            /\ \A i, j \in 1..Len(p.nodes) : p.nodes[i] = p.nodes[j] => i = j
            /\ \A i \in 1..Len(p.nodes) : p.nodes[1] <= p.nodes[i]
        BY <1>1, <2>1, <2>2, <2>10
      <3>. QED BY ONLY <3>1, NormalStays
    <2>14. s[n] \in {r \in T : r.subject = Last(p.nodes)}
      BY <2>2, <2>4
    <2>15. f[p] = SaidAfter(T, f, p)
      BY <2>2
    <2>. QED BY <2>3, <2>5, <2>12, <2>13, <2>14, <2>15 DEF SaidAfter, p
  <1>5. Shown(s) \in f[PathTo(s, 1)]
    <2>. DEFINE K == {k \in 1..n : Shown(s) \in f[PathTo(s, k)]}
    <2>1. K \subseteq Nat /\ n \in K /\ \A k \in K : k \in 1..n
      BY <1>1, <1>4
    <2>2. \A k \in 1..(n - 1) : k + 1 \in K => k \in K
      BY <1>3
    <2>3. \A k \in K : Shown(s) \in f[PathTo(s, k)]
      OBVIOUS
    <2>. HIDE DEF K
    <2>4. PICK m \in K : \A k \in K : m <= k
      BY <2>1, LeastNumber
    <2>5. m = 1
      <3>. SUFFICES ASSUME m # 1 PROVE FALSE
        OBVIOUS
      <3>1. m - 1 \in 1..(n - 1) /\ (m - 1) + 1 = m /\ m \in Nat
        BY ONLY <1>1, <2>1, m \in K, m # 1
      <3>2. m - 1 \in K
        BY <2>2, <3>1
      <3>3. m <= m - 1
        BY <2>4, <3>2
      <3>. QED BY ONLY <3>1, <3>3
    <2>. QED BY <2>3, <2>5
  <1>6. PathTo(s, 1) = [nodes |-> <<s[1].subject>>, steps |-> <<>>]
    <2>1. [i \in 1..1 |-> s[i].subject] = <<s[1].subject>>
      OBVIOUS
    <2>2. [i \in 1..(1 - 1) |-> s[i].id] = <<>>
      OBVIOUS
    <2>. QED BY <2>1, <2>2 DEF PathTo
  <1>7. 1 \in 1..n /\ s[1] \in T
    BY <1>1
  <1>. QED BY <1>5, <1>6, <1>7

\* Cycles has every elementary cycle.
LEMMA ElementaryCyclesAreFound ==
  ASSUME NEW T, StatementsTyped(T), NEW s \in ElementaryCycles(T)
  PROVE  Shown(s) \in Cycles(T)
  <1>1. PICK f : /\ \A p \in NatPaths : f[p] = SaidAfter(T, f, p)
                 /\ Cycles(T) = UNION {f[[nodes |-> <<r.subject>>, steps |-> <<>>]] : r \in T}
    BY CyclesAre
  <1>2. PICK r \in T : Shown(s) \in f[[nodes |-> <<r.subject>>, steps |-> <<>>]]
    BY <1>1, ElementaryIsFound
  <1>. QED BY <1>1, <1>2

\* Cycles has the elementary cycles, and no other.
LEMMA CyclesAreElementaryCycles ==
  ASSUME NEW T, StatementsTyped(T)
  PROVE  Cycles(T) = {Shown(s) : s \in ElementaryCycles(T)}
  BY CyclesAreElementary, ElementaryCyclesAreFound

-----------------------------------------------------------------------------
(* The search for the paths of an analysis                                 *)

\* The order of witnesses

\* The ids of the statements of a path are numbers.
Walks(v) == v.steps \in Seq(Nat)

\* Before another witness is a shorter one, or one with a lesser id where they
\* first differ.
LEMMA BeforeIs ==
  ASSUME NEW v, NEW w, Walks(v), Walks(w)
  PROVE  /\ Len(v.steps) \in Nat /\ Len(w.steps) \in Nat
         /\ \A i \in 1..Len(v.steps) : v.steps[i] \in Nat
         /\ WitnessBefore(v, w) <=>
              \/ Len(v.steps) < Len(w.steps)
              \/ /\ Len(v.steps) = Len(w.steps)
                 /\ \E i \in 1..Len(v.steps) :
                      v.steps[i] < w.steps[i] /\ \A j \in 1..(i - 1) : v.steps[j] = w.steps[j]
  <1>1. DOMAIN v.steps = 1..Len(v.steps) /\ Len(v.steps) \in Nat /\ Len(w.steps) \in Nat
        /\ \A i \in 1..Len(v.steps) : v.steps[i] \in Nat
    BY DEF Walks
  <1>. QED BY <1>1 DEF WitnessBefore

\* No witness is before itself.
LEMMA NeverBeforeItself ==
  ASSUME NEW v, Walks(v)
  PROVE  ~WitnessBefore(v, v)
  BY BeforeIs

\* What is before a witness is before what that is before.
LEMMA BeforeIsTransitive ==
  ASSUME NEW u, NEW v, NEW w, Walks(u), Walks(v), Walks(w),
         WitnessBefore(u, v), WitnessBefore(v, w)
  PROVE  WitnessBefore(u, w)
  <1>1. /\ Len(u.steps) \in Nat /\ Len(v.steps) \in Nat /\ Len(w.steps) \in Nat
        /\ \A i \in 1..Len(u.steps) : u.steps[i] \in Nat
        /\ \A i \in 1..Len(v.steps) : v.steps[i] \in Nat
        /\ \A i \in 1..Len(w.steps) : w.steps[i] \in Nat
    BY BeforeIs
  <1>2. CASE Len(u.steps) < Len(w.steps)
    BY <1>2, BeforeIs
  <1>3. CASE ~(Len(u.steps) < Len(w.steps))
    <2>1. Len(u.steps) = Len(v.steps) /\ Len(v.steps) = Len(w.steps)
      BY <1>1, <1>3, BeforeIs
    <2>2. PICK i \in 1..Len(u.steps) :
            u.steps[i] < v.steps[i] /\ \A j \in 1..(i - 1) : u.steps[j] = v.steps[j]
      BY <1>1, <2>1, BeforeIs
    <2>3. PICK k \in 1..Len(u.steps) :
            v.steps[k] < w.steps[k] /\ \A j \in 1..(k - 1) : v.steps[j] = w.steps[j]
      BY <1>1, <2>1, BeforeIs
    <2>4. PICK m \in {i, k} : m <= i /\ m <= k
      BY <2>2, <2>3
    <2>5. /\ m \in 1..Len(u.steps)
          /\ \A j \in 1..(m - 1) : j \in 1..(i - 1) /\ j \in 1..(k - 1)
      BY <1>1, <2>2, <2>3, <2>4
    <2>6. \A j \in 1..(m - 1) : u.steps[j] = w.steps[j]
      BY <2>2, <2>3, <2>5
    <2>7. u.steps[m] < w.steps[m]
      <3>1. /\ u.steps[m] \in Nat /\ v.steps[m] \in Nat /\ w.steps[m] \in Nat
        BY <1>1, <2>1, <2>5
      <3>2. u.steps[m] <= v.steps[m]
        <4>1. m = i \/ m \in 1..(i - 1)
          BY <2>2, <2>4, <2>5
        <4>. QED BY <2>2, <3>1, <4>1
      <3>3. v.steps[m] <= w.steps[m]
        <4>1. m = k \/ m \in 1..(k - 1)
          BY <2>3, <2>4, <2>5
        <4>. QED BY <2>3, <3>1, <4>1
      <3>. QED BY <2>2, <2>3, <2>4, <3>1, <3>2, <3>3
    <2>. QED BY <2>1, <2>5, <2>6, <2>7, BeforeIs
  <1>. QED BY <1>2, <1>3

\* Of two witnesses with other statements, one is before the other.
LEMMA BeforeIsTotal ==
  ASSUME NEW v, NEW w, Walks(v), Walks(w), v.steps # w.steps
  PROVE  WitnessBefore(v, w) \/ WitnessBefore(w, v)
  <1>1. /\ Len(v.steps) \in Nat /\ Len(w.steps) \in Nat
        /\ \A i \in 1..Len(v.steps) : v.steps[i] \in Nat
        /\ \A i \in 1..Len(w.steps) : w.steps[i] \in Nat
    BY BeforeIs
  <1>2. CASE Len(v.steps) # Len(w.steps)
    BY <1>1, <1>2, BeforeIs
  <1>3. CASE Len(v.steps) = Len(w.steps)
    <2>. DEFINE D == {i \in 1..Len(v.steps) : v.steps[i] # w.steps[i]}
    <2>1. D # {}
      <3>1. \E i \in 1..Len(v.steps) : v.steps[i] # w.steps[i]
        BY <1>3, SeqEqual DEF Walks
      <3>. QED BY <3>1
    <2>2. PICK i \in D : \A j \in D : i <= j
      <3>1. D \subseteq Nat
        BY <1>1
      <3>. HIDE DEF D
      <3>. QED BY <2>1, <3>1, LeastNumber
    <2>3. \A j \in 1..(i - 1) : v.steps[j] = w.steps[j]
      <3>1. \A j \in 1..(i - 1) : j \in 1..Len(v.steps) /\ ~(i <= j)
        BY <1>1
      <3>. QED BY <2>2, <3>1
    <2>4. v.steps[i] < w.steps[i] \/ w.steps[i] < v.steps[i]
      BY <1>1, <1>3
    <2>. QED BY <1>3, <2>3, <2>4, BeforeIs
  <1>. QED BY <1>2, <1>3

\* Not after one that is not after a third: not after the third.
LEMMA NotAfter ==
  ASSUME NEW u, NEW v, NEW w, Walks(u), Walks(v), Walks(w),
         ~WitnessBefore(v, u), ~WitnessBefore(w, v)
  PROVE  ~WitnessBefore(w, u)
  <1>1. SUFFICES ASSUME WitnessBefore(w, u) PROVE FALSE
    OBVIOUS
  <1>2. CASE u.steps = v.steps
    BY <1>1, <1>2, BeforeIs
  <1>3. CASE u.steps # v.steps
    BY <1>1, <1>3, BeforeIsTotal, BeforeIsTransitive
  <1>. QED BY <1>2, <1>3

\* Two paths that go on with the same statement keep their order.
LEMMA NotAfterWhenExtended ==
  ASSUME NEW v, NEW w, Walks(v), Walks(w), ~WitnessBefore(w, v),
         NEW x \in Nat, NEW vx, NEW wx,
         vx.steps = Append(v.steps, x), wx.steps = Append(w.steps, x)
  PROVE  ~WitnessBefore(wx, vx) /\ Walks(vx) /\ Walks(wx)
  <1>1. Walks(vx) /\ Walks(wx)
    BY DEF Walks
  <1>2. /\ Len(vx.steps) = Len(v.steps) + 1 /\ Len(wx.steps) = Len(w.steps) + 1
        /\ Len(v.steps) \in Nat /\ Len(w.steps) \in Nat
        /\ \A i \in 1..Len(v.steps) : vx.steps[i] = v.steps[i]
        /\ \A i \in 1..Len(w.steps) : wx.steps[i] = w.steps[i]
        /\ vx.steps[Len(v.steps) + 1] = x /\ wx.steps[Len(w.steps) + 1] = x
    BY DEF Walks
  <1>3. ASSUME WitnessBefore(wx, vx) PROVE FALSE
    <2>1. CASE Len(wx.steps) < Len(vx.steps)
      BY <1>2, <2>1, BeforeIs
    <2>2. CASE Len(wx.steps) = Len(vx.steps)
      <3>1. PICK i \in 1..Len(wx.steps) :
              wx.steps[i] < vx.steps[i] /\ \A j \in 1..(i - 1) : wx.steps[j] = vx.steps[j]
        <4>1. ~(Len(wx.steps) < Len(vx.steps))
          BY <1>2, <2>2
        <4>2. WitnessBefore(wx, vx) <=>
              \/ Len(wx.steps) < Len(vx.steps)
              \/ /\ Len(wx.steps) = Len(vx.steps)
                 /\ \E i \in 1..Len(wx.steps) :
                      wx.steps[i] < vx.steps[i] /\ \A j \in 1..(i - 1) : wx.steps[j] = vx.steps[j]
          BY ONLY <1>1, BeforeIs
        <4>. QED BY <1>3, <4>1, <4>2
      <3>2. Len(w.steps) = Len(v.steps)
        BY <1>2, <2>2
      <3>3. i \in 1..Len(w.steps)
        BY <1>2, <3>1, <3>2
      <3>4. \A j \in 1..(i - 1) : j \in 1..Len(w.steps)
        BY <1>2, <3>3
      <3>5. w.steps[i] < v.steps[i] /\ \A j \in 1..(i - 1) : w.steps[j] = v.steps[j]
        BY <1>2, <3>1, <3>2, <3>3, <3>4
      <3>. QED BY <3>2, <3>3, <3>5, BeforeIs
    <2>. QED BY <1>1, <1>2, <1>3, <2>1, <2>2, BeforeIs
  <1>. QED BY <1>1, <1>3

\* The least of finitely many.
LEMMA LeastExists ==
  ASSUME NEW S, IsFiniteSet(S), S # {}, \A w \in S : Walks(w)
  PROVE  \E w \in S : \A v \in S : ~WitnessBefore(v, w)
  <1>. DEFINE R == {p \in S \X S : WitnessBefore(p[1], p[2])}
  <1>1. \A v, w \in S : <<v, w>> \in R <=> WitnessBefore(v, w)
    OBVIOUS
  <1>. HIDE DEF R
  <1>2. StrictlyOrders(R, S)
    BY <1>1, NeverBeforeItself, BeforeIsTransitive DEF StrictlyOrders
  <1>3. PICK w \in S : \A v \in S : <<v, w>> \notin R
    BY <1>2, FiniteHasLeast
  <1>. QED BY <1>1, <1>3

-----------------------------------------------------------------------------
(* Paths of enabled statements                                             *)

\* The snapshot and the policy that a search is made of.
GraphTyped(input) ==
  /\ IsFiniteSet(input.snapshot.rows) /\ UniqueIds(input.snapshot.rows)
  /\ \A r \in input.snapshot.rows : RowTyped(r)
  /\ input.policy.maxDepth \in Nat

\* The versions of the snapshot.
Versions(input) == Nodes(input.snapshot.rows)

\* A simple path of enabled statements from a version, not longer than the
\* policy allows.
IsPath(input, anchor, w) ==
  /\ w = [nodes |-> w.nodes, steps |-> w.steps]
  /\ w.nodes \in Seq(Versions(input)) /\ w.steps \in Seq(Nat)
  /\ Len(w.nodes) = Len(w.steps) + 1 /\ Len(w.steps) <= input.policy.maxDepth
  /\ w.nodes[1] = anchor
  /\ \A i \in 1..Len(w.steps) :
       \E s \in Enabled(input, w.nodes[i]) : s.id = w.steps[i] /\ s.object = w.nodes[i + 1]
  /\ \A i, j \in 1..Len(w.nodes) : w.nodes[i] = w.nodes[j] => i = j

\* The enabled statements of a version are finitely many, with ids of their own.
LEMMA EnabledFacts ==
  ASSUME NEW input, GraphTyped(input)
  PROVE  /\ IsFiniteSet(Versions(input)) /\ Versions(input) \subseteq Nat
         /\ \A n, s : s \in Enabled(input, n) <=>
              /\ s \in input.snapshot.rows /\ s.family = "provenance" /\ s.subject = n
              /\ s.relation \in input.policy.enabled
         /\ \A n : \A s \in Enabled(input, n) : s.id \in Nat /\ s.object \in Versions(input)
         /\ \A n : IsFiniteSet(Enabled(input, n))
         /\ \A m, n : \A s \in Enabled(input, m), t \in Enabled(input, n) : s.id = t.id => s = t
  <1>1. /\ IsFiniteSet(Versions(input)) /\ Versions(input) \subseteq Nat
        /\ \A r \in Of(input.snapshot.rows, "provenance") : r.object \in Versions(input)
    BY NodesOf DEF GraphTyped, RowTyped, Versions
  <1>2. \A n, s : s \in Enabled(input, n) <=>
              /\ s \in input.snapshot.rows /\ s.family = "provenance" /\ s.subject = n
              /\ s.relation \in input.policy.enabled
    BY DEF Enabled, From, Of
  <1>3. \A n : \A s \in Enabled(input, n) : s.id \in Nat /\ s.object \in Versions(input)
    BY <1>1, <1>2 DEF Of, GraphTyped, RowTyped
  <1>4. \A n : IsFiniteSet(Enabled(input, n))
    <2>1. \A n : Enabled(input, n) \subseteq input.snapshot.rows
      BY <1>2
    <2>. QED BY <2>1, FS_Subset DEF GraphTyped
  <1>5. \A m, n : \A s \in Enabled(input, m), t \in Enabled(input, n) : s.id = t.id => s = t
    BY <1>2 DEF GraphTyped, UniqueIds
  <1>. QED BY <1>1, <1>2, <1>3, <1>4, <1>5

\* The extensions of a path go on to versions that are not on it.
LEMMA ExtensionsAre ==
  ASSUME NEW input, GraphTyped(input), NEW w
  PROVE  /\ IsFiniteSet(Extensions(input, w))
         /\ \A x : x \in Extensions(input, w) <=>
              \E s \in Enabled(input, End(w)) : s.object \notin ToSet(w.nodes) /\ x = Onward(w, s)
  <1>. DEFINE E == {t \in Enabled(input, End(w)) : t.object \notin ToSet(w.nodes)}
  <1>1. Extensions(input, w) = {Onward(w, s) : s \in E}
    BY DEF Extensions, Onward
  <1>2. IsFiniteSet(E)
    BY EnabledFacts, FS_Subset
  <1>3. IsFiniteSet({Onward(w, s) : s \in E})
    <2>. DEFINE f == [s \in E |-> Onward(w, s)]
    <2>1. f \in Surjection(E, {Onward(w, s) : s \in E})
      BY DEF Surjection
    <2>. HIDE DEF E
    <2>. QED BY <1>2, <2>1, FS_Surjection
  <1>. QED BY <1>1, <1>3

\* What the proofs about paths use of one, together.
LEMMA PathFacts ==
  ASSUME NEW input, NEW anchor, NEW w, IsPath(input, anchor, w)
  PROVE  /\ Len(w.nodes) \in Nat /\ Len(w.steps) \in Nat /\ Len(w.nodes) >= 1
         /\ End(w) = w.nodes[Len(w.nodes)] /\ End(w) \in Versions(input)
         /\ End(w) \in ToSet(w.nodes) /\ anchor \in ToSet(w.nodes)
         /\ Walks(w) /\ DOMAIN w.nodes = 1..Len(w.nodes) /\ DOMAIN w.steps = 1..Len(w.steps)
         /\ \A i \in 1..Len(w.nodes) : w.nodes[i] \in Versions(input) /\ w.nodes[i] \in ToSet(w.nodes)
         /\ \A n \in ToSet(w.nodes) : \E i \in 1..Len(w.nodes) : w.nodes[i] = n
         /\ w \in [nodes : Seq(Versions(input)) \ {<<>>}, steps : Seq(Nat)]
  <1>1. /\ Len(w.nodes) \in Nat /\ Len(w.steps) \in Nat /\ Len(w.nodes) >= 1
        /\ DOMAIN w.nodes = 1..Len(w.nodes) /\ DOMAIN w.steps = 1..Len(w.steps)
    BY DEF IsPath
  <1>2. Len(w.nodes) \in 1..Len(w.nodes) /\ 1 \in 1..Len(w.nodes)
    BY <1>1
  <1>3. \A i \in 1..Len(w.nodes) : w.nodes[i] \in Versions(input) /\ w.nodes[i] \in ToSet(w.nodes)
    BY <1>1 DEF IsPath, ToSet
  <1>4. End(w) = w.nodes[Len(w.nodes)]
    BY DEF End, Last
  <1>5. \A n \in ToSet(w.nodes) : \E i \in 1..Len(w.nodes) : w.nodes[i] = n
    BY <1>1 DEF ToSet
  <1>6. w \in [nodes : Seq(Versions(input)) \ {<<>>}, steps : Seq(Nat)]
    <2>1. w.nodes # <<>>
      BY <1>1
    <2>. QED BY <2>1 DEF IsPath
  <1>7. anchor = w.nodes[1]
    BY DEF IsPath
  <1>. QED BY <1>1, <1>2, <1>3, <1>4, <1>5, <1>6, <1>7 DEF IsPath, Walks

\* A path that goes on with an enabled statement to a new version is a path.
LEMMA OnwardIs ==
  ASSUME NEW input, GraphTyped(input), NEW anchor, NEW w, IsPath(input, anchor, w),
         NEW s \in Enabled(input, End(w)), s.object \notin ToSet(w.nodes),
         Len(w.steps) < input.policy.maxDepth
  PROVE  LET x == Onward(w, s)
         IN  /\ IsPath(input, anchor, x) /\ End(x) = s.object
             /\ x.steps = Append(w.steps, s.id) /\ Len(x.steps) = Len(w.steps) + 1
             /\ Len(x.nodes) = Len(w.nodes) + 1
             /\ \A i \in 1..Len(w.nodes) : x.nodes[i] = w.nodes[i]
  <1>. DEFINE x == Onward(w, s)
              n == Len(w.nodes)
  <1>1. s.id \in Nat /\ s.object \in Versions(input)
    BY EnabledFacts
  <1>2. x.nodes = Append(w.nodes, s.object) /\ x.steps = Append(w.steps, s.id)
        /\ x = [nodes |-> x.nodes, steps |-> x.steps]
    BY DEF Onward
  <1>3. /\ n \in Nat /\ n >= 1 /\ End(w) = w.nodes[n] /\ n = Len(w.steps) + 1 /\ Len(w.steps) \in Nat
        /\ w.nodes \in Seq(Versions(input)) /\ w.steps \in Seq(Nat)
        /\ \A i \in 1..n : w.nodes[i] \in ToSet(w.nodes)
    BY PathFacts DEF IsPath
  <1>. HIDE DEF x
  <1>4. /\ x.nodes \in Seq(Versions(input)) /\ Len(x.nodes) = n + 1
        /\ x.steps \in Seq(Nat) /\ Len(x.steps) = n
        /\ \A i \in 1..n : x.nodes[i] = w.nodes[i]
        /\ x.nodes[n + 1] = s.object
        /\ \A i \in 1..(n - 1) : x.steps[i] = w.steps[i]
        /\ x.steps[n] = s.id
    <2>1. /\ x.nodes \in Seq(Versions(input)) /\ Len(x.nodes) = n + 1
          /\ \A i \in 1..n : x.nodes[i] = w.nodes[i]
          /\ x.nodes[n + 1] = s.object
      BY <1>1, <1>2, <1>3, AppendProperties
    <2>2. /\ x.steps \in Seq(Nat) /\ Len(x.steps) = Len(w.steps) + 1
          /\ \A i \in 1..Len(w.steps) : x.steps[i] = w.steps[i]
          /\ x.steps[Len(w.steps) + 1] = s.id
      BY <1>1, <1>2, <1>3, AppendProperties
    <2>3. Len(w.steps) = n - 1 /\ (n - 1) + 1 = n
      BY <1>3
    <2>. QED BY <2>1, <2>2, <2>3, <1>3
  <1>. HIDE DEF n
  <1>5. End(x) = s.object
    BY <1>4 DEF End, Last
  <1>6. ASSUME NEW i \in 1..Len(x.steps)
        PROVE  \E t \in Enabled(input, x.nodes[i]) : t.id = x.steps[i] /\ t.object = x.nodes[i + 1]
    <2>1. CASE i = n
      <3>1. x.nodes[i] = End(w) /\ x.steps[i] = s.id /\ x.nodes[i + 1] = s.object
        BY <1>3, <1>4, <2>1
      <3>. QED BY <3>1
    <2>2. CASE i # n
      <3>1. i \in 1..Len(w.steps) /\ i \in 1..n /\ i + 1 \in 1..n /\ i \in 1..(n - 1)
        BY <1>3, <1>4, <2>2
      <3>2. \E t \in Enabled(input, w.nodes[i]) : t.id = w.steps[i] /\ t.object = w.nodes[i + 1]
        BY <3>1 DEF IsPath
      <3>. QED BY <1>4, <3>1, <3>2
    <2>. QED BY <2>1, <2>2
  <1>7. ASSUME NEW i \in 1..Len(x.nodes), NEW j \in 1..Len(x.nodes), x.nodes[i] = x.nodes[j]
        PROVE  i = j
    <2>1. CASE i \in 1..n /\ j \in 1..n
      BY <1>4, <1>7, <2>1 DEF IsPath, n
    <2>2. CASE i = n + 1 /\ j \in 1..n
      BY <1>3, <1>4, <1>7, <2>2
    <2>3. CASE j = n + 1 /\ i \in 1..n
      BY <1>3, <1>4, <1>7, <2>3
    <2>4. (i \in 1..n \/ i = n + 1) /\ (j \in 1..n \/ j = n + 1)
      BY <1>3, <1>4
    <2>. QED BY <2>1, <2>2, <2>3, <2>4
  <1>8. x.nodes[1] = anchor
    <2>1. w.nodes[1] = anchor
      BY DEF IsPath
    <2>2. 1 \in 1..n
      BY ONLY <1>3
    <2>. QED BY ONLY <1>4, <2>1, <2>2
  <1>9. Len(x.steps) <= input.policy.maxDepth /\ Len(x.nodes) = Len(x.steps) + 1
    BY <1>3, <1>4 DEF GraphTyped
  <1>10. IsPath(input, anchor, x)
    BY <1>2, <1>4, <1>6, <1>7, <1>8, <1>9 DEF IsPath
  <1>. QED BY <1>2, <1>3, <1>4, <1>5, <1>10 DEF x, n

\* A shorter witness is before a longer one.
LEMMA ShorterIsBefore ==
  ASSUME NEW v, NEW w, Walks(v), Walks(w)
  PROVE  /\ Len(v.steps) \in Nat /\ Len(w.steps) \in Nat
         /\ Len(v.steps) < Len(w.steps) => WitnessBefore(v, w)
         /\ ~WitnessBefore(v, w) => Len(w.steps) <= Len(v.steps)
  BY BeforeIs

-----------------------------------------------------------------------------
(* The search for the best witnesses                                       *)

\* The best that is known is of paths, one to a version; what is not yet expanded
\* is in the queue, which has nothing before what is; and every way on from what
\* is expanded, and every part of a way, is known.
SearchInv(input, anchor, s) ==
  /\ s \in SearchStates(input) /\ IsFiniteSet(s.best)
  /\ \A w \in s.queue \cup s.best : IsPath(input, anchor, w)
  /\ \A b, c \in s.best : End(b) = End(c) => b = c
  /\ \E b \in s.best : b.steps = <<>> /\ End(b) = anchor
  /\ \A n \in s.done : \E b \in s.best : End(b) = n
  /\ \A b \in s.best : End(b) \in s.done \/ b \in s.queue
  /\ \A b \in s.best, q \in s.queue : End(b) \in s.done => ~WitnessBefore(q, b)
  /\ \A b \in s.best : End(b) \in s.done /\ Len(b.steps) < input.policy.maxDepth =>
       \A e \in Extensions(input, b) : \E c \in s.best : End(c) = End(e) /\ ~WitnessBefore(e, c)
  /\ \A b \in s.best : \A i \in 1..Len(b.nodes) :
       \E c \in s.best : End(c) = b.nodes[i] /\ Len(c.steps) <= i - 1

\* The search starts with the empty path.
LEMMA SearchStarts ==
  ASSUME NEW input, GraphTyped(input), NEW anchor \in Versions(input)
  PROVE  SearchInv(input, anchor, SearchStart(anchor))
  <1>. DEFINE root == [nodes |-> <<anchor>>, steps |-> <<>>]
              s == SearchStart(anchor)
  <1>1. s.queue = {root} /\ s.best = {root} /\ s.done = {}
        /\ s = [queue |-> s.queue, best |-> s.best, done |-> s.done]
    BY DEF SearchStart
  <1>2. /\ root.nodes = <<anchor>> /\ root.steps = <<>> /\ Len(root.nodes) = 1 /\ Len(root.steps) = 0
        /\ root.nodes \in Seq(Versions(input)) /\ root.steps \in Seq(Nat) /\ root.nodes[1] = anchor
        /\ root = [nodes |-> root.nodes, steps |-> root.steps]
    OBVIOUS
  <1>. HIDE DEF s, root
  <1>3. IsPath(input, anchor, root)
    BY <1>2 DEF IsPath, GraphTyped
  <1>4. End(root) = anchor
    BY <1>2 DEF End, Last
  <1>5. IsFiniteSet({root})
    BY FS_Singleton
  <1>6. s \in SearchStates(input)
    <2>1. root \in [nodes : Seq(Versions(input)) \ {<<>>}, steps : Seq(Nat)]
      BY <1>3, PathFacts
    <2>. QED BY <1>1, <1>5, <2>1 DEF SearchStates, Versions
  <1>. QED BY <1>1, <1>2, <1>3, <1>4, <1>5, <1>6 DEF SearchInv, s

\* The path that is expanded has none before it in the queue.
LEMMA LeastOfQueue ==
  ASSUME NEW input, NEW s \in SearchStates(input), s.queue # {}
  PROVE  /\ LeastOf(s.queue) \in s.queue
         /\ \A v \in s.queue : Walks(v) /\ ~WitnessBefore(v, LeastOf(s.queue))
  <1>1. IsFiniteSet(s.queue) /\ \A w \in s.queue : Walks(w)
    BY DEF SearchStates, Walks
  <1>2. \E w \in s.queue : \A v \in s.queue : ~WitnessBefore(v, w)
    BY <1>1, LeastExists
  <1>. QED BY <1>1, <1>2 DEF LeastOf

\* A step of the search makes a state of a search.
LEMMA SearchStaysTyped ==
  ASSUME NEW input, GraphTyped(input), NEW s \in SearchStates(input), s.queue # {}
  PROVE  /\ SearchOn(input, s) \in SearchStates(input)
         /\ IsFiniteSet(s.best) => IsFiniteSet(SearchOn(input, s).best)
  <1>. DEFINE path == LeastOf(s.queue)
              rest == s.queue \ {path}
              better == IF Len(path.steps) >= input.policy.maxDepth THEN {}
                        ELSE Better(input, s.best, path)
              kept == {b \in s.best : \A w \in better : End(b) # End(w)}
              W == [nodes : Seq(Versions(input)) \ {<<>>}, steps : Seq(Nat)]
              t == SearchOn(input, s)
  <1>1. /\ s = [queue |-> s.queue, best |-> s.best, done |-> s.done]
        /\ s.queue \in SUBSET W /\ IsFiniteSet(s.queue) /\ s.best \in SUBSET W
        /\ s.done \in SUBSET Versions(input)
    BY DEF SearchStates, Versions
  <1>2. path \in s.queue
    BY LeastOfQueue
  <1>3. /\ path.nodes \in Seq(Versions(input)) /\ path.nodes # <<>> /\ path.steps \in Seq(Nat)
        /\ End(path) \in Versions(input)
    <2>1. path \in W
      BY <1>1, <1>2
    <2>2. path.nodes \in Seq(Versions(input)) /\ path.nodes # <<>> /\ path.steps \in Seq(Nat)
      BY <2>1
    <2>3. path.nodes[Len(path.nodes)] \in Versions(input)
      <3>. HIDE DEF path
      <3>. QED BY <2>2
    <2>. QED BY <2>2, <2>3 DEF End, Last
  <1>4. better \subseteq Extensions(input, path)
    BY DEF Better
  <1>5. t = IF path \notin s.best \/ End(path) \in s.done THEN [s EXCEPT !.queue = rest]
            ELSE [queue |-> rest \cup better, best |-> kept \cup better,
                  done |-> s.done \cup {End(path)}]
    BY DEF SearchOn
  <1>. HIDE DEF path, rest, better, kept, t, W
  <1>6. Extensions(input, path) \subseteq W /\ IsFiniteSet(Extensions(input, path))
    <2>1. ASSUME NEW x \in Extensions(input, path) PROVE x \in W
      <3>1. PICK r \in Enabled(input, End(path)) : x = Onward(path, r)
        BY ExtensionsAre
      <3>2. r.id \in Nat /\ r.object \in Versions(input)
        BY EnabledFacts
      <3>3. /\ Append(path.nodes, r.object) \in Seq(Versions(input))
            /\ Append(path.nodes, r.object) # <<>>
            /\ Append(path.steps, r.id) \in Seq(Nat)
        BY <1>3, <3>2
      <3>. QED BY <3>1, <3>3 DEF Onward, W
    <2>. QED BY <2>1, ExtensionsAre
  <1>7. better \subseteq W /\ IsFiniteSet(better)
    BY <1>4, <1>6, FS_Subset
  <1>8. rest \subseteq W /\ IsFiniteSet(rest)
    BY <1>1, FS_Subset DEF rest
  <1>9. kept \subseteq s.best
    BY DEF kept
  <1>10. CASE path \notin s.best \/ End(path) \in s.done
    <2>1. t = [queue |-> rest, best |-> s.best, done |-> s.done]
      BY <1>1, <1>5, <1>10
    <2>2. t \in SearchStates(input) /\ t.best = s.best
      BY <1>1, <1>8, <2>1 DEF SearchStates, Versions, W
    <2>. QED BY <2>2 DEF t
  <1>11. CASE ~(path \notin s.best \/ End(path) \in s.done)
    <2>1. t = [queue |-> rest \cup better, best |-> kept \cup better,
               done |-> s.done \cup {End(path)}]
      BY <1>5, <1>11
    <2>2. IsFiniteSet(rest \cup better)
      BY <1>7, <1>8, FS_Union
    <2>3. IsFiniteSet(s.best) => IsFiniteSet(kept \cup better)
      BY <1>7, <1>9, FS_Union, FS_Subset
    <2>4. /\ rest \cup better \in SUBSET W /\ kept \cup better \in SUBSET W
          /\ s.done \cup {End(path)} \in SUBSET Versions(input)
      BY <1>1, <1>3, <1>7, <1>8, <1>9
    <2>5. t \in SearchStates(input)
      BY <2>1, <2>2, <2>4 DEF SearchStates, Versions, W
    <2>6. t.best = kept \cup better
      BY <2>1
    <2>. QED BY <2>3, <2>5, <2>6 DEF t
  <1>. QED BY <1>10, <1>11

\* What an extension of a path is, when the path may be extended.
LEMMA ExtendsPath ==
  ASSUME NEW input, GraphTyped(input), NEW anchor, NEW w, IsPath(input, anchor, w),
         Len(w.steps) < input.policy.maxDepth, NEW x \in Extensions(input, w)
  PROVE  /\ IsPath(input, anchor, x) /\ Walks(x) /\ WitnessBefore(w, x) /\ ~WitnessBefore(x, w)
         /\ Len(x.steps) = Len(w.steps) + 1 /\ Len(x.nodes) = Len(w.nodes) + 1
         /\ \A i \in 1..Len(w.nodes) : x.nodes[i] = w.nodes[i]
         /\ End(x) \notin ToSet(w.nodes)
         /\ \E r \in Enabled(input, End(w)) : x = Onward(w, r)
  <1>1. PICK r \in Enabled(input, End(w)) : r.object \notin ToSet(w.nodes) /\ x = Onward(w, r)
    BY ExtensionsAre
  <1>2. /\ IsPath(input, anchor, x) /\ End(x) = r.object
        /\ Len(x.steps) = Len(w.steps) + 1
        /\ Len(x.nodes) = Len(w.nodes) + 1
        /\ \A i \in 1..Len(w.nodes) : x.nodes[i] = w.nodes[i]
    BY <1>1, OnwardIs
  <1>3. Walks(w) /\ Walks(x)
    BY <1>2, PathFacts
  <1>4. Len(w.steps) \in Nat /\ Len(x.steps) \in Nat
    BY <1>3, ShorterIsBefore
  <1>5. Len(w.steps) < Len(x.steps) /\ ~(Len(x.steps) <= Len(w.steps))
    BY <1>2, <1>4
  <1>6. WitnessBefore(w, x)
    BY <1>3, <1>5, ShorterIsBefore
  <1>7. ~WitnessBefore(x, w)
    BY <1>3, <1>6, BeforeIsTransitive, NeverBeforeItself
  <1>. QED BY <1>1, <1>2, <1>3, <1>6, <1>7

\* A step of the search keeps its invariant, and completes a version or shortens
\* the queue.
LEMMA SearchGoesOn ==
  ASSUME NEW input, GraphTyped(input), NEW anchor, NEW s, SearchInv(input, anchor, s), s.queue # {}
  PROVE  LET t == SearchOn(input, s)
         IN  /\ SearchInv(input, anchor, t)
             /\ \/ Cardinality(Versions(input) \ t.done) < Cardinality(Versions(input) \ s.done)
                \/ /\ Cardinality(Versions(input) \ t.done) = Cardinality(Versions(input) \ s.done)
                   /\ Cardinality(t.queue) < Cardinality(s.queue)
  <1>. DEFINE path == LeastOf(s.queue)
              rest == s.queue \ {path}
              better == IF Len(path.steps) >= input.policy.maxDepth THEN {}
                        ELSE Better(input, s.best, path)
              kept == {b \in s.best : \A w \in better : End(b) # End(w)}
              t == SearchOn(input, s)
              max == input.policy.maxDepth
              Fewer == \/ Cardinality(Versions(input) \ t.done) < Cardinality(Versions(input) \ s.done)
                       \/ /\ Cardinality(Versions(input) \ t.done) = Cardinality(Versions(input) \ s.done)
                          /\ Cardinality(t.queue) < Cardinality(s.queue)
  <1>1. /\ s \in SearchStates(input) /\ IsFiniteSet(s.best)
        /\ s = [queue |-> s.queue, best |-> s.best, done |-> s.done]
        /\ IsFiniteSet(s.queue) /\ s.done \subseteq Versions(input) /\ max \in Nat
    BY DEF SearchInv, SearchStates, Versions, GraphTyped
  <1>2. /\ \A w \in s.queue \cup s.best : IsPath(input, anchor, w) /\ Walks(w)
        /\ \A b, c \in s.best : End(b) = End(c) => b = c
        /\ \E b \in s.best : b.steps = <<>> /\ End(b) = anchor
        /\ \A n \in s.done : \E b \in s.best : End(b) = n
        /\ \A b \in s.best : End(b) \in s.done \/ b \in s.queue
        /\ \A b \in s.best, q \in s.queue : End(b) \in s.done => ~WitnessBefore(q, b)
        /\ \A b \in s.best : End(b) \in s.done /\ Len(b.steps) < max =>
             \A e \in Extensions(input, b) : \E c \in s.best : End(c) = End(e) /\ ~WitnessBefore(e, c)
        /\ \A b \in s.best : \A i \in 1..Len(b.nodes) :
             \E c \in s.best : End(c) = b.nodes[i] /\ Len(c.steps) <= i - 1
    BY PathFacts DEF SearchInv
  <1>3. path \in s.queue /\ \A v \in s.queue : ~WitnessBefore(v, path)
    BY <1>1, LeastOfQueue
  <1>4. t \in SearchStates(input) /\ IsFiniteSet(t.best)
    BY <1>1, SearchStaysTyped
  <1>5. t = IF path \notin s.best \/ End(path) \in s.done THEN [s EXCEPT !.queue = rest]
            ELSE [queue |-> rest \cup better, best |-> kept \cup better,
                  done |-> s.done \cup {End(path)}]
    BY DEF SearchOn
  <1>6. /\ \A b \in kept : b \in s.best /\ \A w \in better : End(b) # End(w)
        /\ \A b \in s.best : b \in kept \/ \E w \in better : End(w) = End(b)
        /\ rest \subseteq s.queue /\ path \notin rest /\ s.queue = rest \cup {path}
    BY <1>3
  <1>7. /\ \A x \in better : /\ Len(path.steps) < max
                             /\ x \in Extensions(input, path) /\ x \notin s.best
                             /\ \A b \in s.best \cup Extensions(input, path) :
                                  End(b) = End(x) => ~WitnessBefore(b, x)
        /\ Len(path.steps) < max =>
             \A x \in Extensions(input, path) :
               x \in better \/ x \in s.best
                 \/ \E b \in s.best \cup Extensions(input, path) : End(b) = End(x) /\ WitnessBefore(b, x)
    <2>1. Len(path.steps) \in Nat
      BY <1>2, <1>3, PathFacts
    <2>2. Len(path.steps) < max <=> ~(Len(path.steps) >= max)
      BY <1>1, <2>1
    <2>. QED BY <2>2 DEF Better
  <1>8. /\ IsPath(input, anchor, path) /\ Walks(path) /\ Len(path.nodes) \in Nat
        /\ Len(path.steps) \in Nat /\ Len(path.nodes) = Len(path.steps) + 1
        /\ End(path) \in ToSet(path.nodes) /\ anchor \in ToSet(path.nodes) /\ End(path) \in Versions(input)
    <2>1. IsPath(input, anchor, path) /\ Walks(path)
      BY <1>2, <1>3
    <2>. HIDE DEF path
    <2>2. Len(path.nodes) = Len(path.steps) + 1
      BY <2>1 DEF IsPath
    <2>. QED BY <2>1, <2>2, PathFacts
  <1>. HIDE DEF path, rest, better, kept, t, max, Fewer
  <1>9. CASE path \notin s.best \/ End(path) \in s.done
    <2>1. t.queue = rest /\ t.best = s.best /\ t.done = s.done
      <3>1. t = [queue |-> rest, best |-> s.best, done |-> s.done]
        BY <1>1, <1>5, <1>9
      <3>. QED BY <3>1
    <2>2. \A b \in s.best : End(b) \in s.done \/ b \in rest
      BY <1>2, <1>6, <1>9
    <2>3. SearchInv(input, anchor, t)
      BY <1>2, <1>4, <1>6, <2>1, <2>2 DEF SearchInv, max
    <2>4. Cardinality(rest) = Cardinality(s.queue) - 1 /\ Cardinality(s.queue) \in Nat
      BY <1>1, <1>3, FS_RemoveElement, FS_CardinalityType DEF rest
    <2>5. Fewer
      BY <2>1, <2>4 DEF Fewer
    <2>. QED BY <2>3, <2>5 DEF t, Fewer
  <1>10. CASE ~(path \notin s.best \/ End(path) \in s.done)
    <2>1. /\ t.queue = rest \cup better /\ t.best = kept \cup better /\ t.done = s.done \cup {End(path)}
          /\ path \in s.best /\ End(path) \notin s.done
      <3>1. t = [queue |-> rest \cup better, best |-> kept \cup better,
                 done |-> s.done \cup {End(path)}]
        BY <1>5, <1>10
      <3>. QED BY <1>10, <3>1
    <2>2. ASSUME NEW x \in better
          PROVE  /\ IsPath(input, anchor, x) /\ Walks(x) /\ WitnessBefore(path, x) /\ ~WitnessBefore(x, path)
                 /\ Len(x.steps) = Len(path.steps) + 1 /\ Len(x.nodes) = Len(path.nodes) + 1
                 /\ \A i \in 1..Len(path.nodes) : x.nodes[i] = path.nodes[i]
                 /\ End(x) \notin ToSet(path.nodes)
                 /\ \E r \in Enabled(input, End(path)) : x = Onward(path, r)
      BY <1>7, <1>8, <2>2, ExtendsPath DEF max
    <2>3. ASSUME NEW x \in better, NEW y \in better, End(x) = End(y) PROVE x = y
      <3>1. ~WitnessBefore(x, y) /\ ~WitnessBefore(y, x)
        BY <1>7, <2>3
      <3>2. x.steps = y.steps
        BY <2>2, <3>1, BeforeIsTotal
      <3>3. PICK r \in Enabled(input, End(path)) : x = Onward(path, r)
        BY <2>2
      <3>4. PICK q \in Enabled(input, End(path)) : y = Onward(path, q)
        BY <2>2
      <3>5. Append(path.steps, r.id) = Append(path.steps, q.id)
        BY <3>2, <3>3, <3>4 DEF Onward
      <3>6. path.steps \in Seq(Nat) /\ r.id \in Nat /\ q.id \in Nat
        BY <1>8, EnabledFacts DEF IsPath
      <3>7. r.id = q.id
        BY <3>5, <3>6
      <3>8. r = q
        BY <3>7, EnabledFacts
      <3>. QED BY <3>3, <3>4, <3>8
    <2>4. ASSUME NEW x \in better PROVE End(x) \notin t.done
      <3>1. End(x) # End(path)
        BY <1>8, <2>2
      <3>2. ASSUME End(x) \in s.done PROVE FALSE
        <4>1. PICK b \in s.best : End(b) = End(x)
          BY <1>2, <3>2
        <4>2. ~WitnessBefore(b, x) /\ ~WitnessBefore(path, b) /\ Walks(b)
          BY <1>2, <1>3, <1>7, <3>2, <4>1
        <4>. QED BY <1>8, <2>2, <4>2, NotAfter
      <3>. QED BY <2>1, <3>1, <3>2
    <2>5. ASSUME NEW b \in s.best, End(b) \in t.done PROVE b \in kept
      BY <1>6, <2>4, <2>5
    <2>6. ASSUME NEW b \in s.best
          PROVE  \E c \in t.best : End(c) = End(b) /\ ~WitnessBefore(b, c) /\ Walks(c)
      <3>1. CASE b \in kept
        BY <1>2, <2>1, <3>1, NeverBeforeItself
      <3>2. CASE b \notin kept
        <4>1. PICK x \in better : End(x) = End(b)
          BY <1>6, <3>2
        <4>2. ~WitnessBefore(b, x)
          BY <1>7, <4>1
        <4>. QED BY <2>1, <2>2, <4>1, <4>2
      <3>. QED BY <3>1, <3>2
    <2>7. \A w \in t.queue \cup t.best : IsPath(input, anchor, w)
      BY <1>2, <1>6, <2>1, <2>2
    <2>8. \A b, c \in t.best : End(b) = End(c) => b = c
      BY <1>2, <1>6, <2>1, <2>3
    <2>9. \E b \in t.best : b.steps = <<>> /\ End(b) = anchor
      <3>1. PICK b \in s.best : b.steps = <<>> /\ End(b) = anchor
        BY <1>2
      <3>2. \A x \in better : End(x) # anchor
        BY <1>8, <2>2
      <3>. QED BY <1>6, <2>1, <3>1, <3>2
    <2>10. \A n \in t.done : \E b \in t.best : End(b) = n
      <3>1. path \in kept
        BY <2>1, <2>5
      <3>2. ASSUME NEW n \in s.done PROVE \E b \in t.best : End(b) = n
        BY <1>2, <2>1, <2>5
      <3>. QED BY <2>1, <3>1, <3>2
    <2>11. \A b \in t.best : End(b) \in t.done \/ b \in t.queue
      BY <1>2, <1>6, <2>1
    <2>12. ASSUME NEW b \in t.best, NEW q \in t.queue, End(b) \in t.done
           PROVE  ~WitnessBefore(q, b)
      <3>1. b \in kept /\ b \in s.best
        BY <1>6, <2>1, <2>4, <2>12
      <3>2. Walks(b) /\ Walks(q)
        BY <1>2, <1>6, <2>1, <2>2, <3>1
      <3>3. CASE End(b) \in s.done
        <4>1. CASE q \in rest
          BY <1>2, <1>6, <3>1, <3>3, <4>1
        <4>2. CASE q \in better
          BY <1>2, <1>3, <1>8, <2>2, <3>1, <3>2, <3>3, <4>2, BeforeIsTransitive
        <4>. QED BY <2>1, <4>1, <4>2
      <3>4. CASE End(b) = End(path)
        <4>1. b = path
          BY <1>2, <2>1, <3>1, <3>4
        <4>. QED BY <1>3, <1>6, <2>1, <2>2, <4>1
      <3>. QED BY <2>1, <2>12, <3>3, <3>4
    <2>13. ASSUME NEW b \in t.best, End(b) \in t.done, Len(b.steps) < max,
                  NEW e \in Extensions(input, b)
           PROVE  \E c \in t.best : End(c) = End(e) /\ ~WitnessBefore(e, c)
      <3>1. b \in kept /\ b \in s.best /\ IsPath(input, anchor, b)
        BY <1>2, <1>6, <2>1, <2>4, <2>13
      <3>2. Walks(e)
        BY <2>13, <3>1, ExtendsPath DEF max
      <3>3. CASE End(b) \in s.done
        <4>1. PICK d \in s.best : End(d) = End(e) /\ ~WitnessBefore(e, d)
          BY <1>2, <2>13, <3>1, <3>3
        <4>2. PICK c \in t.best : End(c) = End(d) /\ ~WitnessBefore(d, c) /\ Walks(c)
          BY <2>6
        <4>3. ~WitnessBefore(e, c)
          BY <1>2, <3>2, <4>1, <4>2, NotAfter
        <4>. QED BY <4>1, <4>2, <4>3
      <3>4. CASE End(b) = End(path)
        <4>1. b = path
          BY <1>2, <2>1, <3>1, <3>4
        <4>. DEFINE X == {x \in s.best \cup Extensions(input, path) : End(x) = End(e)}
        <4>2. IsFiniteSet(X)
          <5>1. IsFiniteSet(s.best \cup Extensions(input, path))
            BY <1>1, ExtensionsAre, FS_Union
          <5>. QED BY <5>1, FS_Subset
        <4>3. e \in X
          BY <4>1
        <4>4. \A x \in X : Walks(x)
          BY <1>2, <1>8, <2>13, <4>1, ExtendsPath DEF max
        <4>5. PICK d \in X : \A x \in X : ~WitnessBefore(x, d)
          <5>. HIDE DEF X
          <5>. QED BY <4>2, <4>3, <4>4, LeastExists
        <4>6. ~WitnessBefore(e, d) /\ End(d) = End(e) /\ Walks(d)
          BY <4>3, <4>4, <4>5
        <4>7. CASE d \in s.best
          <5>1. PICK c \in t.best : End(c) = End(d) /\ ~WitnessBefore(d, c) /\ Walks(c)
            BY <2>6, <4>7
          <5>2. ~WitnessBefore(e, c)
            BY <3>2, <4>6, <5>1, NotAfter
          <5>. QED BY <4>6, <5>1, <5>2
        <4>8. CASE d \notin s.best
          <5>1. d \in Extensions(input, path)
            BY <4>8
          <5>2. d \in better
            BY <1>7, <2>13, <4>1, <4>5, <4>6, <4>8, <5>1
          <5>. QED BY <2>1, <4>6, <5>2
        <4>. QED BY <4>7, <4>8
      <3>. QED BY <2>1, <2>13, <3>3, <3>4
    <2>14. ASSUME NEW b \in t.best, NEW i \in 1..Len(b.nodes)
           PROVE  \E c \in t.best : End(c) = b.nodes[i] /\ Len(c.steps) <= i - 1
      <3>1. ASSUME NEW d \in s.best, Len(d.steps) <= i - 1
            PROVE  \E c \in t.best : End(c) = End(d) /\ Len(c.steps) <= i - 1
        <4>1. PICK c \in t.best : End(c) = End(d) /\ ~WitnessBefore(d, c) /\ Walks(c)
          BY <2>6
        <4>2. Len(c.steps) <= Len(d.steps) /\ Len(c.steps) \in Nat /\ Len(d.steps) \in Nat
          BY <1>2, <4>1, ShorterIsBefore
        <4>. QED BY <3>1, <4>1, <4>2
      <3>2. CASE b \in kept
        <4>1. PICK d \in s.best : End(d) = b.nodes[i] /\ Len(d.steps) <= i - 1
          BY <1>2, <1>6, <3>2
        <4>. QED BY <3>1, <4>1
      <3>3. CASE b \in better
        <4>1. /\ Len(b.steps) = Len(path.steps) + 1 /\ Len(b.nodes) = Len(path.nodes) + 1
              /\ \A j \in 1..Len(path.nodes) : b.nodes[j] = path.nodes[j]
              /\ IsPath(input, anchor, b)
          BY <2>2, <3>3
        <4>2. CASE i \in 1..Len(path.nodes)
          <5>1. PICK d \in s.best : End(d) = path.nodes[i] /\ Len(d.steps) <= i - 1
            BY <1>2, <2>1, <4>2
          <5>. QED BY <3>1, <4>1, <4>2, <5>1
        <4>3. CASE i = Len(path.nodes) + 1
          <5>1. End(b) = b.nodes[i]
            BY <4>1, <4>3, PathFacts
          <5>2. Len(b.steps) <= i - 1
            BY <1>8, <4>1, <4>3
          <5>. QED BY <2>1, <3>3, <5>1, <5>2
        <4>. QED BY <1>8, <4>1, <4>2, <4>3
      <3>. QED BY <2>1, <3>2, <3>3
    <2>15. SearchInv(input, anchor, t)
      BY <1>4, <2>7, <2>8, <2>9, <2>10, <2>11, <2>12, <2>13, <2>14 DEF SearchInv, max
    <2>16. Fewer
      <3>1. IsFiniteSet(Versions(input) \ s.done)
        BY EnabledFacts, FS_Subset
      <3>2. Versions(input) \ t.done = (Versions(input) \ s.done) \ {End(path)}
        BY <2>1
      <3>3. End(path) \in Versions(input) \ s.done
        BY <1>8, <2>1
      <3>. DEFINE A == Versions(input) \ s.done
      <3>5. /\ Cardinality(A \ {End(path)}) = Cardinality(A) - 1 /\ Cardinality(A) \in Nat
        <4>. HIDE DEF A
        <4>1. IsFiniteSet(A) /\ End(path) \in A
          BY <3>1, <3>3 DEF A
        <4>. QED BY <4>1, FS_RemoveElement, FS_CardinalityType
      <3>4. /\ Cardinality(Versions(input) \ t.done) = Cardinality(Versions(input) \ s.done) - 1
            /\ Cardinality(Versions(input) \ s.done) \in Nat
        BY <3>2, <3>5
      <3>. QED BY <3>4 DEF Fewer
    <2>. QED BY <2>15, <2>16 DEF t, Fewer
  <1>. QED BY <1>9, <1>10

\* A sequence is what precedes its last element, and that element.
LEMMA AllButLast ==
  ASSUME NEW S, NEW s \in Seq(S), s # <<>>
  PROVE  LET n == Len(s)
             f == SubSeq(s, 1, n - 1)
         IN  /\ n \in Nat /\ n > 0 /\ f \in Seq(S) /\ Len(f) = n - 1
             /\ \A i \in 1..(n - 1) : f[i] = s[i]
             /\ s = Append(f, s[n])
  <1>. DEFINE n == Len(s)
              f == SubSeq(s, 1, n - 1)
  <1>1. n \in Nat /\ n > 0 /\ n - 1 \in Nat /\ (n - 1) + 1 = n
    <2>1. Len(s) \in Nat /\ Len(s) # 0
      OBVIOUS
    <2>. QED BY <2>1
  <1>2. \A i \in 1..(n - 1) : s[i] \in S
    OBVIOUS
  <1>9. n \in Nat
    OBVIOUS
  <1>3. f = [i \in 1..(n - 1) |-> s[i]]
    <2>1. f = [i \in 1..((n - 1) - 1 + 1) |-> s[i + 1 - 1]]
      OBVIOUS
    <2>. QED BY <1>1, <2>1
  <1>. HIDE DEF f
  <1>4. f \in Seq(S) /\ Len(f) = n - 1
    BY <1>1, <1>2, <1>3
  <1>5. s = [i \in 1..n |-> s[i]]
    OBVIOUS
  <1>6. Append(f, s[n]) = [i \in 1..n |-> IF i = n THEN s[n] ELSE f[i]]
    <2>1. Append(f, s[n]) = [i \in 1..(Len(f) + 1) |-> IF i = Len(f) + 1 THEN s[n] ELSE f[i]]
      OBVIOUS
    <2>. QED BY <1>1, <1>4, <2>1
  <1>7. \A i \in 1..n : s[i] = IF i = n THEN s[n] ELSE f[i]
    <2>. SUFFICES ASSUME NEW i \in 1..n PROVE s[i] = IF i = n THEN s[n] ELSE f[i]
      OBVIOUS
    <2>1. CASE i # n
      <3>1. i \in 1..(n - 1)
        <4>. HIDE DEF n
        <4>. QED BY <1>9, <2>1
      <3>2. f[i] = s[i]
        BY ONLY <1>3, <3>1
      <3>. QED BY <2>1, <3>2
    <2>. QED BY <2>1
  <1>8. s = Append(f, s[n])
    BY <1>5, <1>6, <1>7
  <1>. QED BY <1>1, <1>3, <1>4, <1>8 DEF f

\* A version on a path is somewhere on it.
LEMMA OnPath ==
  ASSUME NEW input, NEW anchor, NEW w, IsPath(input, anchor, w), NEW x \in ToSet(w.nodes)
  PROVE  \E i \in 1..Len(w.nodes) : w.nodes[i] = x
  <1>1. w.nodes \in Seq(Versions(input))
    BY DEF IsPath
  <1>. QED BY <1>1 DEF ToSet

\* A path with statements is one with a statement less, extended.
LEMMA PathIsExtended ==
  ASSUME NEW input, GraphTyped(input), NEW anchor, NEW p, IsPath(input, anchor, p), p.steps # <<>>
  PROVE  \E q : /\ IsPath(input, anchor, q) /\ Len(q.steps) = Len(p.steps) - 1
                /\ \E r \in Enabled(input, End(q)) :
                     r.object \notin ToSet(q.nodes) /\ p = Onward(q, r)
  <1>. DEFINE n == Len(p.steps)
              ns == SubSeq(p.nodes, 1, n)
              ss == SubSeq(p.steps, 1, n - 1)
              q == [nodes |-> ns, steps |-> ss]
  <1>1. /\ n \in Nat /\ n > 0 /\ Len(p.nodes) = n + 1
        /\ p.nodes \in Seq(Versions(input)) /\ p.steps \in Seq(Nat)
        /\ p = [nodes |-> p.nodes, steps |-> p.steps]
        /\ p.nodes[1] = anchor /\ n <= input.policy.maxDepth
        /\ \A i \in 1..n :
             \E s \in Enabled(input, p.nodes[i]) : s.id = p.steps[i] /\ s.object = p.nodes[i + 1]
        /\ \A i, j \in 1..(n + 1) : p.nodes[i] = p.nodes[j] => i = j
    <2>1. n \in Nat /\ n # 0
      BY DEF IsPath
    <2>. QED BY <2>1 DEF IsPath
  <1>2. /\ ns \in Seq(Versions(input)) /\ Len(ns) = n /\ \A i \in 1..n : ns[i] = p.nodes[i]
        /\ p.nodes = Append(ns, p.nodes[n + 1])
    <2>1. p.nodes # <<>> /\ (n + 1) - 1 = n
      BY <1>1
    <2>. QED BY <1>1, <2>1, AllButLast
  <1>3. /\ ss \in Seq(Nat) /\ Len(ss) = n - 1 /\ \A i \in 1..(n - 1) : ss[i] = p.steps[i]
        /\ p.steps = Append(ss, p.steps[n])
    BY <1>1, AllButLast
  <1>4. q.nodes = ns /\ q.steps = ss /\ q = [nodes |-> q.nodes, steps |-> q.steps]
    OBVIOUS
  <1>. HIDE DEF q, ns, ss, n
  <1>5. IsPath(input, anchor, q)
    <2>1. n - 1 \in Nat /\ n - 1 <= input.policy.maxDepth /\ Len(q.nodes) = Len(q.steps) + 1
          /\ Len(q.steps) = n - 1 /\ Len(q.nodes) = n
      BY <1>1, <1>2, <1>3, <1>4 DEF GraphTyped
    <2>2. q.nodes[1] = anchor
      BY <1>1, <1>2, <1>4
    <2>3. ASSUME NEW i \in 1..Len(q.steps)
          PROVE  \E s \in Enabled(input, q.nodes[i]) : s.id = q.steps[i] /\ s.object = q.nodes[i + 1]
      <3>1. i \in 1..n /\ i + 1 \in 1..n /\ i \in 1..(n - 1)
        <4>1. i \in 1..(n - 1)
          BY <2>1
        <4>2. n \in Nat
          BY <1>1
        <4>. QED BY ONLY <4>1, <4>2
      <3>2. q.nodes[i] = p.nodes[i] /\ q.nodes[i + 1] = p.nodes[i + 1] /\ q.steps[i] = p.steps[i]
        BY <1>2, <1>3, <1>4, <3>1
      <3>. QED BY <1>1, <3>1, <3>2
    <2>4. ASSUME NEW i \in 1..Len(q.nodes), NEW j \in 1..Len(q.nodes), q.nodes[i] = q.nodes[j]
          PROVE  i = j
      <3>1. i \in 1..n /\ j \in 1..n /\ i \in 1..(n + 1) /\ j \in 1..(n + 1)
        <4>1. n \in Nat
          BY <1>1
        <4>2. i \in 1..n /\ j \in 1..n
          BY ONLY <2>1, <2>4
        <4>. QED BY ONLY <4>1, <4>2
      <3>2. p.nodes[i] = p.nodes[j]
        BY <1>2, <1>4, <2>4, <3>1
      <3>. QED BY ONLY <1>1, <3>1, <3>2
    <2>. QED BY <1>2, <1>3, <1>4, <2>1, <2>2, <2>3, <2>4 DEF IsPath
  <1>6. End(q) = p.nodes[n] /\ Len(q.nodes) = n
    <2>1. Len(q.nodes) = n /\ n \in 1..n
      BY <1>1, <1>2, <1>4
    <2>2. End(q) = q.nodes[Len(q.nodes)]
      BY <1>5, PathFacts
    <2>. QED BY <1>2, <1>4, <2>1, <2>2
  <1>7. PICK r \in Enabled(input, p.nodes[n]) : r.id = p.steps[n] /\ r.object = p.nodes[n + 1]
    <2>1. n \in 1..n
      BY <1>1
    <2>. QED BY <1>1, <2>1
  <1>8. r.object \notin ToSet(q.nodes)
    <2>1. SUFFICES ASSUME r.object \in ToSet(q.nodes) PROVE FALSE
      OBVIOUS
    <2>2. PICK i \in 1..n : q.nodes[i] = r.object
      BY <1>5, <1>6, <2>1, PathFacts
    <2>3. p.nodes[i] = p.nodes[n + 1] /\ i \in 1..(n + 1) /\ n + 1 \in 1..(n + 1) /\ i # n + 1
      BY <1>1, <1>2, <1>4, <1>7, <2>2
    <2>. QED BY <1>1, <2>3
  <1>9. p = Onward(q, r)
    BY <1>1, <1>2, <1>3, <1>4, <1>7 DEF Onward
  <1>10. Len(q.steps) = n - 1
    BY <1>3, <1>4
  <1>. QED BY <1>5, <1>6, <1>7, <1>8, <1>9, <1>10 DEF n

\* The search ends, with nothing left to expand.
LEMMA SearchEnds ==
  ASSUME NEW input, GraphTyped(input), NEW anchor \in Versions(input)
  PROVE  \E s : SearchInv(input, anchor, s) /\ s.queue = {} /\ Closure(input, anchor) = s.best
  <1>. DEFINE D == SearchStates(input)
              B == {s \in D : s.queue = {}}
              next == [s \in D |-> IF s \in B THEN s ELSE SearchOn(input, s)]
              out == [s \in D |-> s.best]
              I == {s \in D : SearchInv(input, anchor, s)}
              left == [s \in D |-> Cardinality(Versions(input) \ s.done)]
              k == [s \in D |-> Cardinality(s.queue)]
              Is(f) == f = [s \in D |-> IF s.queue = {} THEN s.best ELSE f[SearchOn(input, s)]]
              Search == CHOOSE f : Is(f)
  <1>1. next \in [D -> D]
    BY SearchStaysTyped
  <1>2. ASSUME NEW f PROVE Is(f) <=> Loop(D, B, next, out, f)
    <2>1. \A s \in D : (IF s.queue = {} THEN s.best ELSE f[SearchOn(input, s)])
                         = (IF s \in B THEN out[s] ELSE f[next[s]])
      OBVIOUS
    <2>. HIDE DEF D, B, out, next
    <2>2. [s \in D |-> IF s.queue = {} THEN s.best ELSE f[SearchOn(input, s)]]
            = [s \in D |-> IF s \in B THEN out[s] ELSE f[next[s]]]
      BY <2>1
    <2>. QED BY <2>2 DEF Loop
  <1>3. Loop(D, B, next, out, Search)
    <2>1. \E f : Loop(D, B, next, out, f)
      <3>. HIDE DEF D, B, next, out
      <3>. QED BY <1>1, LoopExists
    <2>2. \E f : Is(f)
      <3>. HIDE DEF D, B, next, out, Is
      <3>. QED BY <1>2, <2>1
    <2>3. Is(Search)
      <3>. HIDE DEF Is
      <3>. QED BY <2>2
    <2>. HIDE DEF D, B, next, out, Search, Is
    <2>. QED BY <1>2, <2>3
  <1>4. Closure(input, anchor) = Search[SearchStart(anchor)]
    BY DEF Closure
  <1>. HIDE DEF Search, Is
  <1>5. SearchStart(anchor) \in I
    <2>1. SearchInv(input, anchor, SearchStart(anchor))
      BY SearchStarts
    <2>. QED BY <2>1 DEF SearchInv
  <1>6. ASSUME NEW s \in I
        PROVE  left[s] \in Nat /\ k[s] \in Nat
    <2>1. IsFiniteSet(Versions(input) \ s.done) /\ IsFiniteSet(s.queue)
      BY EnabledFacts, FS_Subset DEF SearchStates
    <2>. QED BY <2>1, FS_CardinalityType
  <1>7. ASSUME NEW s \in I \ B
        PROVE  /\ next[s] \in I
               /\ left[next[s]] < left[s] \/ (left[next[s]] = left[s] /\ k[next[s]] < k[s])
    <2>. DEFINE t == SearchOn(input, s)
    <2>1. next[s] = t /\ s.queue # {} /\ SearchInv(input, anchor, s)
      OBVIOUS
    <2>2. /\ SearchInv(input, anchor, t)
          /\ \/ Cardinality(Versions(input) \ t.done) < Cardinality(Versions(input) \ s.done)
             \/ /\ Cardinality(Versions(input) \ t.done) = Cardinality(Versions(input) \ s.done)
                /\ Cardinality(t.queue) < Cardinality(s.queue)
      BY <2>1, SearchGoesOn
    <2>3. t \in D
      BY <2>2 DEF SearchInv
    <2>4. /\ left[t] = Cardinality(Versions(input) \ t.done) /\ left[s] = Cardinality(Versions(input) \ s.done)
          /\ k[t] = Cardinality(t.queue) /\ k[s] = Cardinality(s.queue)
      BY <2>3
    <2>. HIDE DEF t, left, k, next
    <2>. QED BY <2>1, <2>2, <2>3, <2>4
  <1>8. \E s \in I \cap B : Search[SearchStart(anchor)] = out[s]
    <2>1. I \in SUBSET D
      OBVIOUS
    <2>. HIDE DEF D, B, next, out, I, left, k
    <2>. QED BY <1>3, <1>5, <1>6, <1>7, <2>1, LoopEnds
  <1>. QED BY <1>4, <1>8

\* The closure of a version has a path to each version that a path leads to, and
\* no path to it is before that one.
LEMMA ClosureIs ==
  ASSUME NEW input, GraphTyped(input), NEW anchor \in Versions(input)
  PROVE  LET C == Closure(input, anchor)
         IN  /\ IsFiniteSet(C) /\ \A w \in C : IsPath(input, anchor, w)
             /\ \A v, w \in C : End(v) = End(w) => v = w
             /\ \A p : IsPath(input, anchor, p) =>
                  \E w \in C : End(w) = End(p) /\ ~WitnessBefore(p, w)
  <1>1. PICK s : SearchInv(input, anchor, s) /\ s.queue = {} /\ Closure(input, anchor) = s.best
    BY SearchEnds
  <1>2. /\ IsFiniteSet(s.best)
        /\ \A w \in s.best : IsPath(input, anchor, w) /\ Walks(w)
        /\ \A b, c \in s.best : End(b) = End(c) => b = c
        /\ \E b \in s.best : b.steps = <<>> /\ End(b) = anchor
        /\ \A b \in s.best : End(b) \in s.done
        /\ \A b \in s.best : End(b) \in s.done /\ Len(b.steps) < input.policy.maxDepth =>
             \A e \in Extensions(input, b) : \E c \in s.best : End(c) = End(e) /\ ~WitnessBefore(e, c)
        /\ \A b \in s.best : \A i \in 1..Len(b.nodes) :
             \E c \in s.best : End(c) = b.nodes[i] /\ Len(c.steps) <= i - 1
    BY <1>1, PathFacts DEF SearchInv
  <1>. DEFINE Fine(p) == \E w \in s.best : End(w) = End(p) /\ ~WitnessBefore(p, w)
              Bad == {n \in Nat : \E p : IsPath(input, anchor, p) /\ Len(p.steps) = n /\ ~Fine(p)}
  <1>3. ASSUME Bad # {} PROVE FALSE
    <2>1. PICK n \in Bad : \A m \in Bad : n <= m
      <3>1. Bad \subseteq Nat
        OBVIOUS
      <3>. HIDE DEF Bad
      <3>. QED BY <1>3, <3>1, LeastNumber
    <2>2. n \in Nat
      OBVIOUS
    <2>3. PICK p : IsPath(input, anchor, p) /\ Len(p.steps) = n /\ ~Fine(p)
      OBVIOUS
    <2>4. ASSUME NEW q, IsPath(input, anchor, q), Len(q.steps) = n - 1, n - 1 \in Nat PROVE Fine(q)
      <3>1. n - 1 \notin Bad
        <4>. HIDE DEF Bad
        <4>. QED BY <2>1, <2>2, <2>4
      <3>. HIDE DEF Fine
      <3>. QED BY <2>4, <3>1
    <2>. HIDE DEF Bad
    <2>5. Walks(p) /\ Len(p.nodes) = n + 1 /\ End(p) = p.nodes[n + 1] /\ p.nodes[1] = anchor
          /\ p.steps \in Seq(Nat)
      BY <2>3, PathFacts DEF IsPath
    <2>6. CASE n = 0
      <3>1. PICK b \in s.best : b.steps = <<>> /\ End(b) = anchor
        BY <1>2
      <3>2. p.steps = <<>> /\ End(p) = anchor
        BY <2>3, <2>5, <2>6
      <3>3. ~WitnessBefore(p, b)
        <4>1. Walks(b) /\ p.steps = b.steps
          BY <1>2, <3>1, <3>2
        <4>. QED BY <2>5, <4>1, BeforeIs
      <3>. QED BY <2>3, <3>1, <3>2, <3>3
    <2>7. CASE n # 0
      <3>1. PICK q : /\ IsPath(input, anchor, q) /\ Len(q.steps) = n - 1
                     /\ \E r \in Enabled(input, End(q)) :
                          r.object \notin ToSet(q.nodes) /\ p = Onward(q, r)
        <4>1. p.steps # <<>>
          BY <2>3, <2>7
        <4>. QED BY <2>3, <4>1, PathIsExtended
      <3>2. PICK r \in Enabled(input, End(q)) : r.object \notin ToSet(q.nodes) /\ p = Onward(q, r)
        BY <3>1
      <3>3. PICK c \in s.best : End(c) = End(q) /\ ~WitnessBefore(q, c)
        <4>1. Fine(q)
          BY <2>2, <2>4, <2>7, <3>1
        <4>. QED BY <4>1
      <3>4. /\ n <= input.policy.maxDepth /\ input.policy.maxDepth \in Nat
            /\ Walks(c) /\ Walks(q) /\ IsPath(input, anchor, c)
        BY <1>2, <2>3, <3>1, PathFacts DEF IsPath, GraphTyped
      <3>5. Len(c.steps) \in Nat /\ Len(c.steps) <= n - 1 /\ Len(c.steps) < n
            /\ Len(c.steps) < input.policy.maxDepth
        <4>1. Len(c.steps) \in Nat /\ Len(c.steps) <= Len(q.steps)
          BY <3>3, <3>4, ShorterIsBefore
        <4>. QED BY <2>2, <3>1, <3>4, <4>1
      <3>6. End(p) = r.object /\ p.steps = Append(q.steps, r.id) /\ r.id \in Nat
        <4>1. Len(q.steps) < input.policy.maxDepth
          BY <2>2, <3>1, <3>4
        <4>. QED BY <3>1, <3>2, <4>1, OnwardIs, EnabledFacts
      <3>7. CASE r.object \notin ToSet(c.nodes)
        <4>. DEFINE e == Onward(c, r)
        <4>1. e \in Extensions(input, c)
          BY <3>2, <3>3, <3>7, ExtensionsAre
        <4>2. PICK d \in s.best : End(d) = End(e) /\ ~WitnessBefore(e, d)
          BY <1>2, <3>5, <4>1
        <4>3. e.steps = Append(c.steps, r.id) /\ End(e) = r.object
          BY <3>2, <3>3, <3>4, <3>5, <3>7, OnwardIs
        <4>. HIDE DEF e
        <4>4. ~WitnessBefore(p, e) /\ Walks(e)
          BY <3>3, <3>4, <3>6, <4>3, NotAfterWhenExtended
        <4>5. ~WitnessBefore(p, d)
          BY <1>2, <2>5, <4>2, <4>4, NotAfter
        <4>. QED BY <2>3, <3>6, <4>2, <4>3, <4>5
      <3>8. CASE r.object \in ToSet(c.nodes)
        <4>1. PICK i \in 1..Len(c.nodes) : c.nodes[i] = r.object
          <5>1. IsPath(input, anchor, c)
            BY <3>4
          <5>2. ASSUME NEW x \in ToSet(c.nodes) PROVE \E i \in 1..Len(c.nodes) : c.nodes[i] = x
            BY <5>1, OnPath
          <5>. QED BY <3>8, <5>2
        <4>2. PICK d \in s.best : End(d) = c.nodes[i] /\ Len(d.steps) <= i - 1
          BY <1>2
        <4>3. i - 1 <= Len(c.steps) /\ Len(d.steps) \in Nat /\ Walks(d)
          BY <1>2, <3>4, <3>5, ShorterIsBefore DEF IsPath
        <4>4. Len(d.steps) < n
          BY <2>2, <3>5, <4>2, <4>3
        <4>5. WitnessBefore(d, p)
          BY <2>3, <2>5, <4>3, <4>4, ShorterIsBefore
        <4>6. ~WitnessBefore(p, d)
          BY <2>5, <4>3, <4>5, BeforeIsTransitive, NeverBeforeItself
        <4>. QED BY <2>3, <3>6, <4>1, <4>2, <4>6
      <3>. QED BY <3>7, <3>8
    <2>. QED BY <2>6, <2>7
  <1>4. ASSUME NEW p, IsPath(input, anchor, p) PROVE Fine(p)
    <2>1. Len(p.steps) \in Nat
      BY <1>4, PathFacts
    <2>. HIDE DEF Fine
    <2>. QED BY <1>3, <1>4, <2>1
  <1>. QED BY <1>1, <1>2, <1>4

-----------------------------------------------------------------------------
(* The sequences of statements that the property speaks of are the paths   *)
(* of the search                                                           *)

\* A sequence of statements as the search has it.
Trace(s, anchor) ==
  [nodes |-> [i \in 1..(Len(s) + 1) |-> IF i = 1 THEN anchor ELSE s[i - 1].object],
   steps |-> PathIds(s)]

\* A sequence of statements that the property speaks of is a path.
LEMMA PathsAreTraces ==
  ASSUME NEW input, GraphTyped(input), NEW a, a.snapshot = input.snapshot, a.policy = input.policy,
         NEW anchor \in Versions(input), NEW s \in Paths(a, anchor)
  PROVE  LET w == Trace(s, anchor)
         IN  IsPath(input, anchor, w) /\ End(w) = PathEnd(s, anchor) /\ w.steps = PathIds(s)
  <1>. DEFINE E == {r \in Of(a.snapshot.rows, "provenance") : r.relation \in a.policy.enabled}
              w == Trace(s, anchor)
  <1>1. PICK n \in 0..a.policy.maxDepth : s \in [1..n -> E]
    BY DEF Paths
  <1>2. /\ IsChain(s) /\ (s # <<>> => s[1].subject = anchor)
        /\ \A i, j \in DOMAIN s : s[i].object = s[j].object => i = j
        /\ \A i \in DOMAIN s : s[i].object # anchor
    BY DEF Paths
  <1>3. n \in Nat /\ n <= input.policy.maxDepth
    BY <1>1 DEF GraphTyped
  <1>4. s \in Seq(E) /\ Len(s) = n /\ DOMAIN s = 1..n
    BY ONLY <1>1, <1>3, FunctionIsSequence
  <1>5. \A e \in E : /\ e \in Enabled(input, e.subject) /\ e.id \in Nat
                     /\ e.object \in Versions(input)
    BY EnabledFacts DEF Of
  <1>. HIDE DEF E
  <1>6. /\ w = [nodes |-> w.nodes, steps |-> w.steps]
        /\ w.nodes = [i \in 1..(n + 1) |-> IF i = 1 THEN anchor ELSE s[i - 1].object]
        /\ w.steps = PathIds(s) /\ w.steps = [i \in 1..n |-> s[i].id]
    BY <1>4 DEF Trace, PathIds
  <1>. HIDE DEF w
  <1>7. \A i \in 1..n : s[i] \in E
    BY <1>1
  <1>8. w.steps \in Seq(Nat) /\ Len(w.steps) = n
    <2>1. w.steps \in [1..n -> Nat]
      BY <1>5, <1>6, <1>7
    <2>. QED BY <1>3, <2>1
  <1>9. w.nodes \in Seq(Versions(input)) /\ Len(w.nodes) = n + 1
    <2>1. ASSUME NEW i \in 1..(n + 1) PROVE w.nodes[i] \in Versions(input)
      <3>1. CASE i = 1
        BY <1>6, <3>1
      <3>2. CASE i # 1
        <4>1. i - 1 \in 1..n
          BY <1>3, <3>2
        <4>. QED BY <1>5, <1>6, <1>7, <3>2, <4>1
      <3>. QED BY <3>1, <3>2
    <2>2. w.nodes \in [1..(n + 1) -> Versions(input)]
      BY <1>6, <2>1
    <2>3. n + 1 \in Nat
      BY <1>3
    <2>. QED BY <2>2, <2>3
  <1>10. w.nodes[1] = anchor /\ \A i \in 1..n : w.nodes[i + 1] = s[i].object
    BY <1>3, <1>6
  <1>11. ASSUME NEW i \in 1..n PROVE s[i].subject = w.nodes[i]
    <2>1. CASE i = 1
      <3>1. s # <<>>
        BY <1>4, <2>1
      <3>. QED BY <1>2, <1>10, <2>1, <3>1
    <2>2. CASE i # 1
      <3>1. i - 1 \in 1..(n - 1) /\ i - 1 \in 1..n /\ (i - 1) + 1 = i
        BY <1>3, <2>2
      <3>2. s[i - 1].object = s[(i - 1) + 1].subject
        BY <1>2, <1>4, <3>1 DEF IsChain
      <3>3. w.nodes[(i - 1) + 1] = s[i - 1].object
        BY <1>10, <3>1
      <3>. QED BY <3>1, <3>2, <3>3
    <2>. QED BY <2>1, <2>2
  <1>12. \A i \in 1..n : \E e \in Enabled(input, w.nodes[i]) : e.id = w.steps[i] /\ e.object = w.nodes[i + 1]
    <2>. SUFFICES ASSUME NEW i \in 1..n
                  PROVE  \E e \in Enabled(input, w.nodes[i]) : e.id = w.steps[i] /\ e.object = w.nodes[i + 1]
      OBVIOUS
    <2>1. s[i] \in Enabled(input, w.nodes[i])
      BY <1>5, <1>7, <1>11
    <2>2. s[i].id = w.steps[i] /\ s[i].object = w.nodes[i + 1]
      BY <1>6, <1>10
    <2>. QED BY <2>1, <2>2
  <1>13. ASSUME NEW i \in 1..(n + 1), NEW j \in 1..(n + 1), w.nodes[i] = w.nodes[j] PROVE i = j
    <2>1. \A k \in 1..(n + 1) : k = 1 \/ (k - 1 \in 1..n /\ w.nodes[k] = s[k - 1].object)
      BY <1>3, <1>6
    <2>2. \A k \in 1..(n + 1) : k = 1 <=> w.nodes[k] = anchor
      BY <1>2, <1>4, <1>10, <2>1
    <2>3. CASE i # 1 /\ j # 1
      <3>1. i - 1 \in 1..n /\ j - 1 \in 1..n /\ s[i - 1].object = s[j - 1].object
        BY <1>13, <2>1, <2>3
      <3>2. i - 1 = j - 1
        BY <1>2, <1>4, <3>1
      <3>. QED BY <3>2
    <2>. QED BY <1>13, <2>2, <2>3
  <1>14. IsPath(input, anchor, w)
    BY <1>3, <1>6, <1>8, <1>9, <1>10, <1>12, <1>13 DEF IsPath
  <1>15. End(w) = PathEnd(s, anchor)
    <2>1. End(w) = w.nodes[n + 1]
      BY <1>9 DEF End, Last
    <2>2. CASE n = 0
      BY <1>4, <1>10, <2>1, <2>2 DEF PathEnd
    <2>3. CASE n # 0
      <3>1. n \in 1..n /\ s # <<>> /\ Last(s) = s[n]
        BY <1>3, <1>4, <2>3 DEF Last
      <3>. QED BY <1>10, <2>1, <3>1 DEF PathEnd
    <2>. QED BY <2>2, <2>3
  <1>. QED BY <1>6, <1>14, <1>15 DEF w

\* A path is a sequence of statements that the property speaks of.
LEMMA TracesArePaths ==
  ASSUME NEW input, GraphTyped(input), NEW a, a.snapshot = input.snapshot, a.policy = input.policy,
         NEW anchor, NEW w, IsPath(input, anchor, w)
  PROVE  \E s \in Paths(a, anchor) : PathEnd(s, anchor) = End(w) /\ PathIds(s) = w.steps
  <1>. DEFINE E == {r \in Of(a.snapshot.rows, "provenance") : r.relation \in a.policy.enabled}
              n == Len(w.steps)
              Leads(e, i) == e \in Enabled(input, w.nodes[i]) /\ e.id = w.steps[i] /\ e.object = w.nodes[i + 1]
              s == [i \in 1..n |-> CHOOSE e \in E : Leads(e, i)]
  <1>1. /\ n \in Nat /\ n <= input.policy.maxDepth /\ Len(w.nodes) = n + 1
        /\ w.steps \in Seq(Nat) /\ w.nodes \in Seq(Versions(input)) /\ w.nodes[1] = anchor
        /\ \A i, j \in 1..(n + 1) : w.nodes[i] = w.nodes[j] => i = j
        /\ \A i \in 1..n : \E e : Leads(e, i)
    BY DEF IsPath
  <1>2. \A i : \A e \in Enabled(input, w.nodes[i]) : e \in E /\ e.subject = w.nodes[i]
    BY DEF Enabled, From, Of
  <1>3. \A i \in 1..n : \E e \in E : Leads(e, i)
    BY <1>1, <1>2
  <1>. HIDE DEF n, E, Leads
  <1>4. \A i \in 1..n : s[i] \in E /\ Leads(s[i], i)
    BY <1>3
  <1>5. s \in [1..n -> E]
    BY <1>4
  <1>. HIDE DEF s
  <1>6. s \in Seq(E) /\ Len(s) = n /\ DOMAIN s = 1..n
    BY ONLY <1>1, <1>5, FunctionIsSequence
  <1>7. \A i \in 1..n : s[i].id = w.steps[i] /\ s[i].object = w.nodes[i + 1] /\ s[i].subject = w.nodes[i]
    BY <1>2, <1>4 DEF Leads
  <1>8. IsChain(s)
    <2>1. ASSUME NEW i \in 1..(n - 1) PROVE s[i].object = s[i + 1].subject
      <3>1. i \in 1..n /\ i + 1 \in 1..n
        BY <1>1
      <3>. QED BY <1>7, <3>1
    <2>. QED BY <1>6, <2>1 DEF IsChain
  <1>9. s # <<>> => s[1].subject = anchor
    <2>1. s # <<>> => 1 \in 1..n
      BY <1>1, <1>6
    <2>. QED BY <1>1, <1>7, <2>1
  <1>10. \A i, j \in DOMAIN s : s[i].object = s[j].object => i = j
    <2>. SUFFICES ASSUME NEW i \in 1..n, NEW j \in 1..n, s[i].object = s[j].object PROVE i = j
      BY <1>6
    <2>1. i + 1 \in 1..(n + 1) /\ j + 1 \in 1..(n + 1) /\ w.nodes[i + 1] = w.nodes[j + 1]
      BY <1>1, <1>7
    <2>2. i + 1 = j + 1
      BY <1>1, <2>1
    <2>. QED BY <2>2
  <1>11. \A i \in DOMAIN s : s[i].object # anchor
    <2>. SUFFICES ASSUME NEW i \in 1..n, s[i].object = anchor PROVE FALSE
      BY <1>6
    <2>1. i + 1 \in 1..(n + 1) /\ 1 \in 1..(n + 1) /\ w.nodes[i + 1] = w.nodes[1]
      BY <1>1, <1>7
    <2>2. i + 1 = 1
      BY <1>1, <2>1
    <2>. QED BY <2>2
  <1>12. s \in Paths(a, anchor)
    <2>1. n \in 0..a.policy.maxDepth
      BY <1>1 DEF GraphTyped
    <2>. QED BY <1>5, <1>8, <1>9, <1>10, <1>11, <2>1 DEF Paths, E
  <1>13. PathIds(s) = w.steps
    <2>1. w.steps = [i \in 1..n |-> w.steps[i]]
      BY <1>1 DEF n
    <2>. QED BY <1>6, <1>7, <2>1 DEF PathIds
  <1>14. PathEnd(s, anchor) = End(w)
    <2>1. End(w) = w.nodes[n + 1]
      BY <1>1 DEF End, Last
    <2>2. CASE n = 0
      BY <1>1, <1>6, <2>1, <2>2 DEF PathEnd
    <2>3. CASE n # 0
      <3>1. n \in 1..n /\ s # <<>> /\ Last(s) = s[n]
        BY <1>1, <1>6, <2>3 DEF Last
      <3>. QED BY <1>7, <2>1, <3>1 DEF PathEnd
    <2>. QED BY <2>2, <2>3
  <1>. QED BY <1>12, <1>13, <1>14

-----------------------------------------------------------------------------
(* What is stored is in order                                              *)

Shapes ==
  /\ db = [rows |-> db.rows, snapshots |-> db.snapshots, analyses |-> db.analyses,
           findings |-> db.findings, comparisons |-> db.comparisons]
  /\ pc = [c \in Callers |-> pc[c]] /\ req = [c \in Callers |-> req[c]]
  /\ work = [c \in Callers |-> work[c]] /\ view = [c \in Callers |-> view[c]]

Past(v) == v.rows \subseteq db.rows /\ v.snapshots \subseteq db.snapshots

\* The bindings of an analysis are members of its snapshot, by its keys.
BindingsAreKeys(a) ==
  \A b \in a.bindings : <<"binding", "included", b.statement>> \in a.snapshot.keys

\* Where a writer is tells what it writes, and what it has checked.
CallOf(c) ==
  /\ pc[c] \in {"connect", "begin"} =>
       req[c].call \in {"snapshot", "analysis", "comparison", "verify", "read", "replay"}
  /\ pc[c] = "snapshot" => req[c].call = "snapshot"
  /\ pc[c] = "analysis" => req[c].call = "analysis"
  /\ pc[c] \in {"comparison", "findings"} => req[c].call = "comparison"
  /\ pc[c] = "commit" => req[c].call \in {"snapshot", "analysis", "comparison"}

Checked(c) ==
  /\ pc[c] \in {"snapshot", "analysis"} => Past(view[c])
  /\ pc[c] = "commit" /\ req[c].call = "analysis" => Past(view[c])
  /\ pc[c] \in {"connect", "begin", "analysis"} /\ req[c].call = "analysis"
       => BindingsAreKeys(work[c])
  /\ pc[c] = "commit" /\ req[c].call = "analysis" =>
       /\ BindingsAreKeys(work[c])
       /\ SelectionHolds(work[c], view[c]) /\ SnapshotBound(work[c], view[c])
  /\ pc[c] \in {"findings", "commit"} /\ req[c].call = "comparison" =>
       PrerequisitesExist(work[c].comparison, db.rows)
  /\ pc[c] = "commit" /\ req[c].call = "comparison" =>
       work[c].comparison.findings \subseteq db.findings \cup work[c].inserted

MembersAreKeys == \A s \in db.snapshots : s.members = s.snapshot.keys

RestsOnStored(a) ==
  /\ SelectionHolds(a, db) /\ SnapshotBound(a, db) /\ BindingsAreKeys(a)

AnalysesRest == \A k \in db.analyses : RestsOnStored(k.analysis)

ComparisonRests(x) ==
  PrerequisitesExist(x, db.rows) /\ x.findings \subseteq db.findings

ComparisonsRest == \A k \in db.comparisons : ComparisonRests(k.comparison)

Inv ==
  /\ Shapes /\ MembersAreKeys /\ AnalysesRest /\ ComparisonsRest
  /\ \A c \in Callers : CallOf(c) /\ Checked(c)

-----------------------------------------------------------------------------
(* What holds of a view holds of a later store                             *)

LEMMA SelectionGrows ==
  ASSUME NEW a, NEW v, NEW w, v.rows \subseteq w.rows, SelectionHolds(a, v)
  PROVE  SelectionHolds(a, w)
  BY DEF SelectionHolds, Ids, Of

LEMMA BoundGrows ==
  ASSUME NEW a, NEW v, NEW w, v.snapshots \subseteq w.snapshots, SnapshotBound(a, v)
  PROVE  SnapshotBound(a, w)
  BY DEF SnapshotBound

LEMMA PrerequisitesGrow ==
  ASSUME NEW x, NEW v, NEW w, v \subseteq w, PrerequisitesExist(x, v)
  PROVE  PrerequisitesExist(x, w)
  BY DEF PrerequisitesExist, Ids, Of

LEMMA InitInv == Init => Inv
  BY DEF Init, Inv, Shapes, CallOf, Checked, MembersAreKeys, AnalysesRest, ComparisonsRest

-----------------------------------------------------------------------------
(* Steps.  A step of c keeps the invariant when it stores what is in order,*)
(* and leaves c where the invariant asks no more than c has.               *)

Grows ==
  /\ db' = [rows |-> db'.rows, snapshots |-> db'.snapshots, analyses |-> db'.analyses,
            findings |-> db'.findings, comparisons |-> db'.comparisons]
  /\ db.rows \subseteq db'.rows /\ db.snapshots \subseteq db'.snapshots
  /\ db.findings \subseteq db'.findings

StoresInOrder ==
  /\ Grows
  /\ \A s \in db'.snapshots \ db.snapshots : s.members = s.snapshot.keys
  /\ \A k \in db'.analyses \ db.analyses : RestsOnStored(k.analysis)
  /\ \A k \in db'.comparisons \ db.comparisons : ComparisonRests(k.comparison)'

Others(c) ==
  /\ Shapes'
  /\ \A d \in Callers \ {c} :
       pc'[d] = pc[d] /\ req'[d] = req[d] /\ work'[d] = work[d] /\ view'[d] = view[d]

LEMMA PastGrows ==
  ASSUME Grows, NEW v, Past(v)
  PROVE  Past(v)'
  BY DEF Grows, Past

LEMMA ComparisonsGrow ==
  ASSUME Grows, NEW x, ComparisonRests(x)
  PROVE  ComparisonRests(x)'
  BY PrerequisitesGrow DEF Grows, ComparisonRests

\* What a call has checked, the steps of others leave so.
LEMMA CheckedGrows ==
  ASSUME Grows, NEW c, Checked(c), UNCHANGED <<pc[c], req[c], work[c], view[c]>>
  PROVE  Checked(c)'
  <1>1. Past(view[c]) => Past(view[c])'
    BY PastGrows DEF Past
  <1>2. PrerequisitesExist(work[c].comparison, db.rows)
          => PrerequisitesExist(work[c].comparison, db.rows)'
    BY PrerequisitesGrow DEF Grows
  <1>. QED
    BY <1>1, <1>2 DEF Grows, Checked

LEMMA StepKeepsInv ==
  ASSUME Inv, NEW c \in Callers, StoresInOrder, Others(c), CallOf(c)', Checked(c)'
  PROVE  Inv'
  <1>. USE DEF Inv, StoresInOrder
  <1>1. MembersAreKeys'
    BY DEF MembersAreKeys
  <1>2. ASSUME NEW a, RestsOnStored(a) PROVE RestsOnStored(a)'
    BY <1>2, SelectionGrows, BoundGrows DEF Grows, RestsOnStored
  <1>3. AnalysesRest'
    BY <1>2 DEF AnalysesRest
  <1>4. ComparisonsRest'
    BY ComparisonsGrow DEF ComparisonsRest
  <1>5. ASSUME NEW d \in Callers \ {c} PROVE CallOf(d)' /\ Checked(d)'
    BY <1>5, CheckedGrows DEF Others, CallOf
  <1>. QED
    BY <1>1, <1>3, <1>4, <1>5 DEF Others

\* The store is left alone.
LEMMA SameStore ==
  ASSUME Inv, UNCHANGED db
  PROVE  StoresInOrder
  BY DEF Inv, Shapes, StoresInOrder, Grows

-----------------------------------------------------------------------------
(* Every action does                                                       *)

LEMMA RecordKeepsInv ==
  ASSUME Inv, NEW r, Record(r)
  PROVE  Inv'
  <1>. USE DEF Inv, Record
  <1>1. /\ Grows /\ db'.snapshots = db.snapshots /\ db'.analyses = db.analyses
        /\ db'.comparisons = db.comparisons
    BY DEF Shapes, Grows
  <1>2. ASSUME NEW a, RestsOnStored(a) PROVE RestsOnStored(a)'
    BY <1>1, <1>2, SelectionGrows, BoundGrows DEF Grows, RestsOnStored
  <1>3. MembersAreKeys' /\ AnalysesRest' /\ ComparisonsRest'
    BY <1>1, <1>2, ComparisonsGrow DEF MembersAreKeys, AnalysesRest, ComparisonsRest
  <1>4. \A c \in Callers : CallOf(c)' /\ Checked(c)'
    BY <1>1, CheckedGrows DEF CallOf
  <1>5. Shapes'
    BY <1>1 DEF Shapes, Grows
  <1>. QED
    BY <1>3, <1>4, <1>5

\* A call that starts: it connects with what it made, or it is done.
LEMMA StartKeepsInv ==
  ASSUME Inv, NEW c \in Callers, NEW q, NEW made, NEW holds \in BOOLEAN,
         Start(c, q, made), Proceed(c, holds),
         q.call \in {"snapshot", "analysis", "comparison", "verify", "read", "replay"},
         holds /\ q.call = "analysis" => BindingsAreKeys(made)
  PROVE  Inv'
  <1>1. StoresInOrder
    BY SameStore DEF Start
  <1>2. pc' = [pc EXCEPT ![c] = IF holds THEN "connect" ELSE "done"]
    BY DEF Proceed
  <1>3. Others(c) /\ req'[c] = q /\ work'[c] = made
    BY <1>2 DEF Inv, Shapes, Others, Start
  <1>4. CallOf(c)' /\ Checked(c)'
    BY <1>2, <1>3 DEF Inv, Shapes, CallOf, Checked
  <1>. QED
    BY <1>1, <1>3, <1>4, StepKeepsInv

\* What the builder selected is a part of the snapshot that it was given.
LEMMA AnalysesAreOfKeys ==
  ASSUME NEW input, AnalysisHolds(input)
  PROVE  BindingsAreKeys(Analyse(input))
  <1>1. \A b \in input.bindings : BranchHolds(input, b)
    BY DEF AnalysisHolds
  <1>2. \A b \in input.bindings : <<"binding", "included", b.statement>> \in input.snapshot.keys
    BY <1>1 DEF BranchHolds
  <1>3. /\ Analyse(input).bindings = input.bindings
        /\ Analyse(input).snapshot = input.snapshot
    BY DEF Analyse
  <1>. QED
    BY <1>2, <1>3 DEF BindingsAreKeys

LEMMA CallsKeepInv ==
  ASSUME Inv, NEW c \in Callers, NEW q,
         WriteSnapshot(c, q) \/ WriteAnalysis(c, q) \/ WriteComparison(c, q) \/ Read(c, q)
  PROVE  Inv'
  <1>1. CASE WriteSnapshot(c, q)
    BY <1>1, StartKeepsInv DEF WriteSnapshot, BuildHolds, InputHolds
  <1>2. CASE WriteAnalysis(c, q)
    BY <1>2, StartKeepsInv, AnalysesAreOfKeys DEF WriteAnalysis, AnalysisHolds
  <1>3. CASE WriteComparison(c, q)
    BY <1>3, StartKeepsInv DEF WriteComparison, ComparisonHolds
  <1>4. CASE Read(c, q)
    BY <1>4, StartKeepsInv DEF Read
  <1>. QED
    BY <1>1, <1>2, <1>3, <1>4

\* A call that goes on with the store and its work as they are.
LEMMA GoKeepsInv ==
  ASSUME Inv, NEW c \in Callers, NEW next, Go(c, next), UNCHANGED db,
         view' = [view EXCEPT ![c] = view'[c]], CallOf(c)', Checked(c)'
  PROVE  Inv'
  <1>1. StoresInOrder
    BY SameStore
  <1>2. Others(c)
    BY DEF Inv, Shapes, Others, Go, local
  <1>. QED
    BY <1>1, <1>2, StepKeepsInv

\* A call that is done has nothing left to write.
LEMMA FinishKeepsInv ==
  ASSUME Inv, NEW c \in Callers, NEW a, Finish(c, a), StoresInOrder
  PROVE  Inv'
  <1>1. Others(c) /\ pc'[c] = "done"
    BY DEF Inv, Shapes, StoresInOrder, Grows, Others, Finish, local
  <1>2. CallOf(c)' /\ Checked(c)'
    BY <1>1 DEF CallOf, Checked
  <1>. QED
    BY <1>1, <1>2, StepKeepsInv

LEMMA LeaseKeepsInv ==
  ASSUME Inv, NEW c \in Callers, Connect(c) \/ Reconnect(c)
  PROVE  Inv'
  <1>1. CASE Connect(c)
    <2>1. pc[c] = "connect" /\ pc'[c] = "begin" /\ UNCHANGED <<db, view, req, work>>
      BY <1>1 DEF Inv, Shapes, Connect, Lease, Go, local
    <2>2. CallOf(c)' /\ Checked(c)'
      BY <2>1 DEF Inv, CallOf, Checked
    <2>. QED
      BY <1>1, <2>1, <2>2, GoKeepsInv DEF Inv, Shapes, Connect, Lease
  <1>2. CASE Reconnect(c)
    <2>1. pc'[c] = "beginSnapshot" /\ UNCHANGED <<db, view, req, work>>
      BY <1>2 DEF Inv, Shapes, Reconnect, Lease, Go, local
    <2>2. CallOf(c)' /\ Checked(c)'
      BY <2>1 DEF CallOf, Checked
    <2>. QED
      BY <1>2, <2>1, <2>2, GoKeepsInv DEF Inv, Shapes, Reconnect, Lease
  <1>. QED
    BY <1>1, <1>2

\* A transaction begins: it sees the store as it is.
LEMMA BeginKeepsInv ==
  ASSUME Inv, NEW c \in Callers, Begin(c) \/ BeginSnapshot(c)
  PROVE  Inv'
  <1>1. view' = [view EXCEPT ![c] = view'[c]] /\ view'[c] = db
        /\ UNCHANGED <<db, req, work>>
    BY DEF Inv, Shapes, Begin, BeginSnapshot, Go, local
  <1>2. CASE Begin(c)
    <2>1. pc[c] = "begin" /\ pc'[c] = req[c].call
      BY <1>2 DEF Inv, Shapes, Begin, Go
    <2>2. CallOf(c)' /\ Checked(c)'
      BY <1>1, <2>1 DEF Inv, CallOf, Checked, Past
    <2>. QED
      BY <1>1, <1>2, <2>2, GoKeepsInv DEF Begin
  <1>3. CASE BeginSnapshot(c)
    <2>1. pc'[c] = "load"
      BY <1>3 DEF Inv, Shapes, BeginSnapshot, Go
    <2>2. CallOf(c)' /\ Checked(c)'
      BY <2>1 DEF CallOf, Checked
    <2>. QED
      BY <1>1, <1>3, <2>2, GoKeepsInv DEF BeginSnapshot
  <1>. QED
    BY <1>2, <1>3

\* A writer that goes on to its COMMIT has checked what it writes.
LEMMA InsertKeepsInv ==
  ASSUME Inv, NEW c \in Callers, InsertSnapshot(c) \/ InsertAnalysis(c)
  PROVE  Inv'
  <1>1. CASE InsertSnapshot(c)
    <2>1. CASE Go(c, "commit") /\ UNCHANGED <<lease, view>>
      <3>1. pc[c] = "snapshot" /\ pc'[c] = "commit" /\ UNCHANGED <<db, view, req, work>>
        BY <1>1, <2>1 DEF Inv, Shapes, InsertSnapshot, Go, local
      <3>2. CallOf(c)' /\ Checked(c)'
        BY <3>1 DEF Inv, CallOf, Checked, Past
      <3>. QED
        BY <2>1, <3>1, <3>2, GoKeepsInv DEF Inv, Shapes
    <2>2. CASE Finish(c, "refused")
      BY <1>1, <2>2, FinishKeepsInv, SameStore DEF InsertSnapshot
    <2>. QED
      BY <1>1, <2>1, <2>2 DEF InsertSnapshot
  <1>2. CASE InsertAnalysis(c)
    <2>1. CASE Go(c, "commit") /\ UNCHANGED <<lease, view>>
                 /\ TargetsHold(work[c], Project(work[c]), view[c])
      <3>1. pc[c] = "analysis" /\ pc'[c] = "commit" /\ UNCHANGED <<db, view, req, work>>
        BY <1>2, <2>1 DEF Inv, Shapes, InsertAnalysis, Go, local
      <3>2. SelectionHolds(work[c], view[c]) /\ SnapshotBound(work[c], view[c])
        BY <2>1 DEF TargetsHold
      <3>3. CallOf(c)' /\ Checked(c)'
        BY <3>1, <3>2 DEF Inv, CallOf, Checked, Past
      <3>. QED
        BY <2>1, <3>1, <3>3, GoKeepsInv DEF Inv, Shapes
    <2>2. CASE Finish(c, "refused")
      BY <1>2, <2>2, FinishKeepsInv, SameStore DEF InsertAnalysis
    <2>. QED
      BY <1>2, <2>1, <2>2 DEF InsertAnalysis
  <1>. QED
    BY <1>1, <1>2

\* The writer of a comparison: its rows are there, then its findings.
LEMMA ComparisonKeepsInv ==
  ASSUME Inv, NEW c \in Callers,
         CheckPrerequisites(c) \/ InsertFinding(c) \/ InsertComparison(c)
  PROVE  Inv'
  <1>1. CASE Finish(c, "refused") /\ UNCHANGED db
    BY <1>1, FinishKeepsInv, SameStore
  <1>2. CASE Finish(c, "duplicate") /\ UNCHANGED db
    BY <1>2, FinishKeepsInv, SameStore
  <1>3. CASE /\ pc[c] = "comparison" /\ Go(c, "findings") /\ UNCHANGED <<db, view>>
             /\ PrerequisitesExist(work[c].comparison, db.rows)
    <2>1. pc'[c] = "findings" /\ UNCHANGED <<req, work>>
      BY <1>3 DEF Inv, Shapes, Go, local
    <2>2. CallOf(c)' /\ Checked(c)'
      BY <1>3, <2>1 DEF Inv, CallOf, Checked
    <2>. QED
      BY <1>3, <2>2, GoKeepsInv DEF Inv, Shapes
  <1>4. CASE /\ pc[c] = "findings" /\ UNCHANGED <<db, pc, req, view>>
             /\ work' = [work EXCEPT ![c] = [comparison |-> @.comparison, todo |-> Tail(@.todo),
                                  inserted |-> @.inserted \cup {Head(work[c].todo)}]]
    <2>2. work'[c].comparison = work[c].comparison
      BY <1>4 DEF Inv, Shapes
    <2>3. Others(c)
      BY <1>4 DEF Inv, Shapes, Others
    <2>4. CallOf(c)' /\ Checked(c)'
      BY <1>4, <2>2 DEF Inv, CallOf, Checked
    <2>. QED
      BY <1>4, <2>3, <2>4, StepKeepsInv, SameStore
  <1>5. CASE /\ pc[c] = "findings" /\ Go(c, "commit") /\ UNCHANGED <<db, view>>
             /\ work[c].comparison.findings \subseteq db.findings \cup work[c].inserted
    <2>1. pc'[c] = "commit" /\ UNCHANGED <<req, work>>
      BY <1>5 DEF Inv, Shapes, Go, local
    <2>2. CallOf(c)' /\ Checked(c)'
      BY <1>5, <2>1 DEF Inv, CallOf, Checked
    <2>. QED
      BY <1>5, <2>2, GoKeepsInv DEF Inv, Shapes
  <1>. QED
    BY <1>1, <1>2, <1>3, <1>4, <1>5
       DEF CheckPrerequisites, InsertFinding, InsertComparison, local

\* What a COMMIT stores is in order.
LEMMA CommitsAreInOrder ==
  ASSUME Inv, NEW c \in Callers, pc[c] = "commit", db' = Committed(c)
  PROVE  StoresInOrder
  <1>. USE DEF Inv, Shapes, Committed
  <1>1. CASE req[c].call = "snapshot"
    <2>. DEFINE s == [id |-> c, snapshot |-> work[c].snapshot,
                      members |-> work[c].snapshot.keys]
    <2>1. db' = [rows |-> db.rows, snapshots |-> db.snapshots \cup {s},
                 analyses |-> db.analyses, findings |-> db.findings,
                 comparisons |-> db.comparisons]
      BY <1>1
    <2>2. s.members = s.snapshot.keys
      OBVIOUS
    <2>. HIDE DEF s
    <2>. QED
      BY ONLY <2>1, <2>2 DEF StoresInOrder, Grows
  <1>2. CASE req[c].call = "analysis"
    <2>. DEFINE k == [id |-> c, analysis |-> work[c], tables |-> Project(work[c])]
    <2>1. Past(view[c]) /\ BindingsAreKeys(work[c])
          /\ SelectionHolds(work[c], view[c]) /\ SnapshotBound(work[c], view[c])
      BY <1>2 DEF Checked
    <2>2. RestsOnStored(k.analysis)
      BY <2>1, SelectionGrows, BoundGrows DEF Past, RestsOnStored
    <2>3. db' = [rows |-> db.rows, snapshots |-> db.snapshots,
                 analyses |-> db.analyses \cup {k}, findings |-> db.findings,
                 comparisons |-> db.comparisons]
      BY <1>2
    <2>. HIDE DEF k
    <2>. QED
      BY ONLY <2>2, <2>3 DEF StoresInOrder, Grows
  <1>3. CASE req[c].call = "comparison"
    <2>1. /\ PrerequisitesExist(work[c].comparison, db.rows)
          /\ work[c].comparison.findings \subseteq db.findings \cup work[c].inserted
      BY <1>3 DEF Checked
    <2>2. /\ Grows /\ db'.rows = db.rows /\ db'.findings = db.findings \cup work[c].inserted
          /\ db'.snapshots = db.snapshots /\ db'.analyses = db.analyses
          /\ db'.comparisons = db.comparisons \cup
               {[id |-> c, comparison |-> work[c].comparison]}
      BY <1>3 DEF Grows
    <2>3. \A k \in db'.comparisons \ db.comparisons : ComparisonRests(k.comparison)'
      BY <2>1, <2>2 DEF ComparisonRests
    <2>. QED
      BY <2>2, <2>3 DEF StoresInOrder
  <1>. QED
    BY <1>1, <1>2, <1>3 DEF CallOf

LEMMA EndsKeepInv ==
  ASSUME Inv, NEW c \in Callers, Commit(c) \/ LoseCommit(c) \/ Fail(c)
  PROVE  Inv'
  <1>1. CASE Commit(c)
    BY <1>1, FinishKeepsInv, CommitsAreInOrder DEF Commit
  <1>2. CASE LoseCommit(c)
    BY <1>2, FinishKeepsInv, CommitsAreInOrder, SameStore DEF LoseCommit
  <1>3. CASE Fail(c)
    BY <1>3, FinishKeepsInv, SameStore DEF Fail
  <1>. QED
    BY <1>1, <1>2, <1>3

LEMMA LoadsKeepInv ==
  ASSUME Inv, NEW c \in Callers,
         LoadSnapshot(c) \/ LoadAnalysis(c) \/ LoadAnalysedSnapshot(c) \/ LoadComparison(c)
  PROVE  Inv'
  <1>1. CASE LoadSnapshot(c)
    BY <1>1, FinishKeepsInv, SameStore DEF LoadSnapshot
  <1>2. CASE LoadAnalysis(c)
    <2>1. CASE Finish(c, "missing") /\ UNCHANGED db
      BY <2>1, FinishKeepsInv, SameStore
    <2>2. CASE /\ pc' = [pc EXCEPT ![c] = "reconnect"]
               /\ work' = [work EXCEPT ![c] = work'[c]]
               /\ UNCHANGED <<db, req, view>>
      <3>1. Others(c) /\ pc'[c] = "reconnect"
        BY <2>2 DEF Inv, Shapes, Others
      <3>2. CallOf(c)' /\ Checked(c)'
        BY <3>1 DEF CallOf, Checked
      <3>. QED
        BY <2>2, <3>1, <3>2, StepKeepsInv, SameStore
    <2>. QED
      BY <1>2, <2>1, <2>2 DEF Inv, Shapes, LoadAnalysis, local
  <1>3. CASE LoadAnalysedSnapshot(c)
    BY <1>3, FinishKeepsInv, SameStore DEF LoadAnalysedSnapshot
  <1>4. CASE LoadComparison(c)
    BY <1>4, FinishKeepsInv, SameStore DEF LoadComparison
  <1>. QED
    BY <1>1, <1>2, <1>3, <1>4

LEMMA NextKeepsInv == Inv /\ [Next]_vars => Inv'
  <1>. SUFFICES ASSUME Inv, [Next]_vars PROVE Inv'
    OBVIOUS
  <1>1. CASE \E r \in later : Record(r)
    BY <1>1, RecordKeepsInv
  <1>2. ASSUME NEW c \in Callers, NEW q \in calls[c],
               WriteSnapshot(c, q) \/ WriteAnalysis(c, q) \/ WriteComparison(c, q) \/ Read(c, q)
        PROVE  Inv'
    BY <1>2, CallsKeepInv
  <1>3. ASSUME NEW c \in Callers, Step(c) \/ LoseCommit(c) \/ Fail(c)
        PROVE  Inv'
    BY <1>3, LeaseKeepsInv, BeginKeepsInv, InsertKeepsInv, ComparisonKeepsInv, EndsKeepInv,
       LoadsKeepInv DEF Step
  <1>4. CASE UNCHANGED vars
    BY <1>4 DEF vars, Inv, Shapes, MembersAreKeys, AnalysesRest, RestsOnStored,
                ComparisonsRest, ComparisonRests, CallOf, Checked, Past
  <1>. QED
    BY <1>1, <1>2, <1>3, <1>4 DEF Next

-----------------------------------------------------------------------------
(* What is made, and stored, was made by the builders                      *)

\* What a builder made of what it was given.
IsDraft(w) ==
  \E given : /\ InputTyped(given) /\ BuildHolds(given)
             /\ w = [given |-> given, snapshot |-> Build(given)]

\* What the builder of snapshots made, of something that it accepts.
IsSnapshot(s) == \E given : InputTyped(given) /\ BuildHolds(given) /\ s = Build(given)

\* What the builder of analyses accepts, with a snapshot that was built.
IsSelection(input) ==
  /\ input = [claim |-> input.claim, relations |-> input.relations, bindings |-> input.bindings,
              policy |-> input.policy, snapshotId |-> input.snapshotId, snapshot |-> input.snapshot]
  /\ SelectionTyped(input) /\ IsSnapshot(input.snapshot) /\ AnalysisHolds(input)

\* What the builder of analyses made, of something that it accepts.
IsAnalysis(a) == \E input : IsSelection(input) /\ a = Analyse(input)

\* What the service compares, of something that it accepts.
IsComparison(x) == \E q : ComparisonTyped(q) /\ ComparisonHolds(q) /\ x = Compare(q)

\* The work of a writer of a comparison: what it has inserted and has left are
\* findings of its comparison.
ComparedBy(w, q) ==
  /\ ComparisonTyped(q) /\ ComparisonHolds(q) /\ w.comparison = Compare(q)
  /\ w.inserted \subseteq Compare(q).findings /\ w.todo \in Seq(Compare(q).findings)

\* The store has the policy of a snapshot and what its Foundations rest on.
Admitted(s) ==
  PolicyIsStored(s) /\ FoundationTargets(s.rows) \subseteq Existing(db.rows, StoredIds(db))

\* The work of a call is what a builder made of what was asked, and the writers
\* that go on to their COMMIT have seen the policy.
Made(c) ==
  /\ pc[c] # "idle" /\ req[c].call = "snapshot" =>
       IsDraft(work[c]) \/ (work[c] = None /\ pc[c] = "done")
  /\ pc[c] \notin {"idle", "done"} /\ req[c].call = "analysis" => IsAnalysis(work[c])
  /\ pc[c] \notin {"idle", "done"} /\ req[c].call = "comparison" => ComparedBy(work[c], req[c])
  /\ pc[c] = "read" => req[c].call = "read"
  /\ pc[c] = "commit" /\ req[c].call = "snapshot" => Admitted(work[c].snapshot)
  /\ pc[c] = "commit" /\ req[c].call = "analysis" => work[c].policy \in Analytic

\* The rows that are or will be stored, and what may be asked, are as they were.
Typed ==
  /\ IsFiniteSet(db.rows \cup later) /\ UniqueIds(db.rows \cup later)
  /\ \A r \in db.rows \cup later : RowTyped(r)
  /\ \A c \in Callers : \A q \in calls[c] : CallTyped(q)

\* A row of the store that holds what a builder made, with its members, its
\* tables or its findings.
SnapshotIsMade(k) == IsSnapshot(k.snapshot) /\ k.members = k.snapshot.keys /\ Admitted(k.snapshot)
AnalysisIsMade(k) ==
  IsAnalysis(k.analysis) /\ k.analysis.policy \in Analytic /\ k.tables = Project(k.analysis)
ComparisonIsMade(k) == IsComparison(k.comparison)

AllAreMade ==
  /\ \A k \in db.snapshots : SnapshotIsMade(k)
  /\ \A k \in db.analyses : AnalysisIsMade(k)
  /\ \A k \in db.comparisons : ComparisonIsMade(k)
  /\ db.findings \subseteq UNION {k.comparison.findings : k \in db.comparisons}

\* The invariant: what is stored, and what the calls have in hand, was made by
\* the builders from rows of the store.
MadeInv == Typed /\ AllAreMade /\ \A c \in Callers : Made(c)

\* The invariant holds before anything is called.
LEMMA InitMade == Init => MadeInv
  <1>. SUFFICES ASSUME Init PROVE MadeInv
    OBVIOUS
  <1>1. PICK s \in Scripts :
          /\ db = [rows |-> s.rows, snapshots |-> {}, analyses |-> {},
                   findings |-> {}, comparisons |-> {}]
          /\ later = s.later /\ calls = s.calls
    BY DEF Init
  <1>2. Typed
    BY <1>1, StoreAssumption DEF ScriptTyped, Typed
  <1>3. AllAreMade
    BY <1>1 DEF AllAreMade
  <1>4. \A c \in Callers : Made(c)
    BY DEF Init, Made
  <1>. QED BY <1>2, <1>3, <1>4 DEF MadeInv

\* A later store admits what an earlier one did.
LEMMA AdmittedGrows ==
  ASSUME Grows, NEW s, Admitted(s)
  PROVE  Admitted(s)'
  <1>1. Existing(db.rows, StoredIds(db)) \subseteq Existing(db.rows, StoredIds(db))'
    BY DEF Grows, Existing, StoredIds, Ids, Of
  <1>. QED BY <1>1 DEF Admitted

\* What a call has in hand, the steps of others leave as it was made.
LEMMA MadeGrows ==
  ASSUME Grows, NEW c, Made(c), UNCHANGED <<pc[c], req[c], work[c]>>
  PROVE  Made(c)'
  <1>1. Admitted(work[c].snapshot) => Admitted(work[c].snapshot)'
    BY AdmittedGrows DEF Admitted
  <1>. QED BY <1>1 DEF Made

\* A step that stores only what was made.
StoresMade ==
  /\ Grows /\ db'.rows \cup later' = db.rows \cup later /\ calls' = calls
  /\ db.comparisons \subseteq db'.comparisons
  /\ \A k \in db'.snapshots \ db.snapshots : SnapshotIsMade(k)'
  /\ \A k \in db'.analyses \ db.analyses : AnalysisIsMade(k)
  /\ \A k \in db'.comparisons \ db.comparisons : ComparisonIsMade(k)
  /\ db'.findings \subseteq db.findings \cup UNION {k.comparison.findings : k \in db'.comparisons}

\* It leaves the store in order.
LEMMA StoreKeepsMade ==
  ASSUME MadeInv, StoresMade
  PROVE  Typed' /\ AllAreMade'
  <1>. USE DEF MadeInv, StoresMade
  <1>1. Typed'
    BY DEF Typed
  <1>2. ASSUME NEW k, SnapshotIsMade(k) PROVE SnapshotIsMade(k)'
    BY <1>2, AdmittedGrows DEF SnapshotIsMade
  <1>3. \A k \in db'.snapshots : SnapshotIsMade(k)'
    BY <1>2 DEF AllAreMade
  <1>4. \A k \in db'.analyses : AnalysisIsMade(k)'
    BY DEF AllAreMade, AnalysisIsMade
  <1>5. \A k \in db'.comparisons : ComparisonIsMade(k)'
    BY DEF AllAreMade, ComparisonIsMade
  <1>6. db'.findings \subseteq UNION {k.comparison.findings : k \in db'.comparisons}
    BY DEF AllAreMade
  <1>. QED BY <1>1, <1>3, <1>4, <1>5, <1>6 DEF AllAreMade

\* It keeps the invariant, when its caller's work was made, too.
LEMMA StepKeepsMade ==
  ASSUME MadeInv, NEW c \in Callers, StoresMade, Others(c), Made(c)'
  PROVE  MadeInv'
  <1>1. ASSUME NEW d \in Callers \ {c} PROVE Made(d)'
    BY <1>1, MadeGrows DEF StoresMade, Others, MadeInv
  <1>. QED BY <1>1, StoreKeepsMade DEF MadeInv

\* The store is left alone.
LEMMA SameStoreMade ==
  ASSUME Inv, UNCHANGED <<db, later, calls>>
  PROVE  StoresMade
  BY DEF Inv, Shapes, StoresMade, Grows

\* A row that is recorded was among those that may be.
LEMMA RecordKeepsMade ==
  ASSUME Inv, MadeInv, NEW r, Record(r)
  PROVE  MadeInv'
  <1>. USE DEF Record
  <1>1. /\ db'.rows = db.rows \cup {r} /\ db'.snapshots = db.snapshots
        /\ db'.analyses = db.analyses /\ db'.comparisons = db.comparisons
        /\ db'.findings = db.findings
        /\ db' = [rows |-> db'.rows, snapshots |-> db'.snapshots, analyses |-> db'.analyses,
                  findings |-> db'.findings, comparisons |-> db'.comparisons]
    BY DEF Inv, Shapes
  <1>2. StoresMade
    BY <1>1 DEF StoresMade, Grows
  <1>3. \A c \in Callers : Made(c)'
    BY <1>2, MadeGrows DEF MadeInv, StoresMade
  <1>. QED BY <1>2, <1>3, StoreKeepsMade DEF MadeInv

\* A call that starts: what it made, when it goes on.
LEMMA StartKeepsMade ==
  ASSUME Inv, MadeInv, NEW c \in Callers, NEW q, NEW made, NEW holds \in BOOLEAN,
         Start(c, q, made), Proceed(c, holds),
         holds /\ q.call = "snapshot" => IsDraft(made),
         ~holds => made = None,
         holds /\ q.call = "analysis" => IsAnalysis(made),
         holds /\ q.call = "comparison" => ComparedBy(made, q)
  PROVE  MadeInv'
  <1>1. StoresMade
    BY SameStoreMade DEF Start
  <1>2. pc' = [pc EXCEPT ![c] = IF holds THEN "connect" ELSE "done"]
    BY DEF Proceed
  <1>3. Others(c) /\ req'[c] = q /\ work'[c] = made
    BY <1>2 DEF Inv, Shapes, Others, Start
  <1>4. pc'[c] = IF holds THEN "connect" ELSE "done"
    BY <1>2 DEF Inv, Shapes
  <1>5. Made(c)'
    BY <1>3, <1>4 DEF Made
  <1>. QED BY <1>1, <1>3, <1>5, StepKeepsMade

\* What the builder is given are rows of the store.
LEMMA GivenIsTyped ==
  ASSUME MadeInv, NEW q, CallTyped(q), q.call = "snapshot"
  PROVE  InputTyped(Given(q))
  <1>1. IsFiniteSet(db.rows) /\ \A r \in db.rows : RowTyped(r)
    BY FS_Subset DEF MadeInv, Typed
  <1>. DEFINE R == {r \in db.rows : r.family \in Families /\ r.id \notin q.hidden}
  <1>2. IsFiniteSet(R)
    BY <1>1, FS_Subset
  <1>3. IsFiniteSet(R \cup q.altered) /\ \A r \in R \cup q.altered : RowTyped(r)
    BY <1>1, <1>2, FS_Union DEF CallTyped
  <1>4. Given(q).rows = R \cup q.altered /\ Given(q).policy = q.policy /\ Given(q).roots = q.roots
    BY DEF Given
  <1>. HIDE DEF R
  <1>. QED BY <1>3, <1>4 DEF InputTyped, CallTyped

\* The builders make what the calls go on with.
LEMMA CallsKeepMade ==
  ASSUME Inv, MadeInv, NEW c \in Callers, NEW q \in calls[c],
         WriteSnapshot(c, q) \/ WriteAnalysis(c, q) \/ WriteComparison(c, q) \/ Read(c, q)
  PROVE  MadeInv'
  <1>1. CallTyped(q)
    BY DEF MadeInv, Typed
  <1>2. CASE WriteSnapshot(c, q)
    <2>. DEFINE given == Given(q)
                holds == BuildHolds(given)
                draft == [given |-> given, snapshot |-> Build(given)]
    <2>1. q.call = "snapshot" /\ Start(c, q, IF holds THEN draft ELSE None) /\ Proceed(c, holds)
      BY <1>2 DEF WriteSnapshot
    <2>2. holds => IsDraft(draft)
      BY <1>1, <2>1, GivenIsTyped DEF IsDraft
    <2>3. holds \in BOOLEAN
      BY DEF BuildHolds, InputHolds
    <2>. HIDE DEF given, holds, draft
    <2>. QED BY <2>1, <2>2, <2>3, StartKeepsMade
  <1>3. CASE WriteAnalysis(c, q)
    <2>. DEFINE input == Selected(q)
                holds == AnalysisHolds(input)
    <2>1. /\ q.call = "analysis" /\ q.of \in Callers /\ pc[q.of] # "idle"
          /\ req[q.of].call = "snapshot" /\ work[q.of] # None
          /\ Start(c, q, IF holds THEN Analyse(input) ELSE None) /\ Proceed(c, holds)
      BY <1>1, <1>3 DEF WriteAnalysis, CallTyped
    <2>2. IsDraft(work[q.of])
      BY <2>1 DEF MadeInv, Made
    <2>3. IsSnapshot(work[q.of].snapshot)
      BY <2>2 DEF IsDraft, IsSnapshot
    <2>4. holds => IsAnalysis(Analyse(input))
      <3>1. /\ input.claim = q.claim /\ input.relations = q.relations /\ input.bindings = q.bindings
            /\ input.policy = q.policy /\ input.snapshotId = q.snapshotId
            /\ input.snapshot = work[q.of].snapshot
        BY DEF Selected
      <3>2. input = [claim |-> input.claim, relations |-> input.relations, bindings |-> input.bindings,
                     policy |-> input.policy, snapshotId |-> input.snapshotId,
                     snapshot |-> input.snapshot]
        BY DEF Selected
      <3>3. SelectionTyped(input)
        BY <1>1, <2>1, <3>1 DEF CallTyped, SelectionTyped
      <3>. HIDE DEF input
      <3>. QED BY <2>3, <3>1, <3>2, <3>3 DEF IsAnalysis, IsSelection
    <2>5. holds \in BOOLEAN
      BY DEF AnalysisHolds
    <2>. HIDE DEF input, holds
    <2>. QED BY <2>1, <2>4, <2>5, StartKeepsMade
  <1>4. CASE WriteComparison(c, q)
    <2>. DEFINE holds == ComparisonHolds(q)
                made == Compare(q)
    <2>1. PICK existing :
            /\ Start(c, q, IF holds THEN [comparison |-> made, inserted |-> {},
                                          todo |-> ToInsert(made, existing)] ELSE None)
            /\ q.call = "comparison" /\ Proceed(c, holds)
      BY <1>4 DEF WriteComparison
    <2>. DEFINE w == [comparison |-> made, inserted |-> {}, todo |-> ToInsert(made, existing)]
    <2>2. holds => ComparedBy(w, q)
      <3>1. SUFFICES ASSUME holds PROVE ComparedBy(w, q)
        OBVIOUS
      <3>2. ComparisonTyped(q)
        BY <1>1, <2>1 DEF CallTyped
      <3>3. ToInsert(made, existing) \in Seq(made.findings \ existing)
        BY <3>1, <3>2, ToInsertIsOfFindings
      <3>4. ToInsert(made, existing) \in Seq(made.findings)
        BY <3>3, SeqMonotonic
      <3>. QED BY <3>1, <3>2, <3>4 DEF ComparedBy
    <2>3. holds \in BOOLEAN
      BY DEF ComparisonHolds
    <2>. HIDE DEF holds, w, made
    <2>. QED BY <2>1, <2>2, <2>3, StartKeepsMade DEF w
  <1>5. CASE Read(c, q)
    BY <1>5, StartKeepsMade DEF Read
  <1>. QED BY <1>2, <1>3, <1>4, <1>5

\* A call that goes on with its work as it is.
LEMMA GoKeepsMade ==
  ASSUME Inv, MadeInv, NEW c \in Callers, NEW next, Go(c, next), UNCHANGED db,
         view' = [view EXCEPT ![c] = view'[c]], pc[c] \notin {"idle", "done"}, next \notin {"idle", "done"},
         next = "read" => req[c].call = "read",
         next = "commit" /\ req[c].call = "snapshot" => Admitted(work[c].snapshot),
         next = "commit" /\ req[c].call = "analysis" => work[c].policy \in Analytic
  PROVE  MadeInv'
  <1>1. StoresMade
    BY SameStoreMade DEF Go, local
  <1>2. Others(c) /\ pc'[c] = next
    BY DEF Inv, Shapes, Others, Go, local
  <1>3. Made(c)'
    BY <1>2 DEF Go, local, MadeInv, Made, Admitted
  <1>. QED BY <1>1, <1>2, <1>3, StepKeepsMade

\* A call that is done has nothing left in hand.
LEMMA FinishKeepsMade ==
  ASSUME Inv, MadeInv, NEW c \in Callers, NEW a, Finish(c, a), StoresMade, pc[c] # "idle"
  PROVE  MadeInv'
  <1>1. Others(c) /\ pc'[c] = "done" /\ req' = req /\ work' = work
    BY DEF Inv, Shapes, StoresMade, Grows, Others, Finish, local
  <1>2. Made(c)'
    BY <1>1 DEF MadeInv, Made
  <1>. QED BY <1>1, <1>2, StepKeepsMade

\* A lease of a connection, or a failed one, touches nothing.
LEMMA LeaseKeepsMade ==
  ASSUME Inv, MadeInv, NEW c \in Callers, Connect(c) \/ Reconnect(c)
  PROVE  MadeInv'
  BY GoKeepsMade DEF Inv, Shapes, Connect, Reconnect, Lease

\* The beginning of a transaction touches nothing.
LEMMA BeginKeepsMade ==
  ASSUME Inv, MadeInv, NEW c \in Callers, Begin(c) \/ BeginSnapshot(c)
  PROVE  MadeInv'
  <1>1. view' = [view EXCEPT ![c] = view'[c]]
    BY DEF Inv, Shapes, Begin, BeginSnapshot
  <1>2. CASE Begin(c)
    <2>1. req[c].call \in {"snapshot", "analysis", "comparison", "verify", "read", "replay"}
      BY <1>2 DEF Inv, CallOf, Begin
    <2>. QED BY <1>1, <1>2, <2>1, GoKeepsMade DEF Begin
  <1>3. CASE BeginSnapshot(c)
    BY <1>1, <1>3, GoKeepsMade DEF BeginSnapshot
  <1>. QED BY <1>2, <1>3

\* A writer that goes on to its COMMIT has seen its policy.
LEMMA InsertKeepsMade ==
  ASSUME Inv, MadeInv, NEW c \in Callers, InsertSnapshot(c) \/ InsertAnalysis(c)
  PROVE  MadeInv'
  <1>0. view = [view EXCEPT ![c] = view[c]]
    BY DEF Inv, Shapes
  <1>1. CASE InsertSnapshot(c)
    <2>0. pc[c] = "snapshot" /\ req[c].call = "snapshot"
      BY <1>1 DEF Inv, CallOf, InsertSnapshot
    <2>1. CASE /\ Go(c, "commit") /\ UNCHANGED <<lease, view, db>>
               /\ SnapshotAdmitted(work[c], view[c])
      <3>1. Past(view[c])
        BY <2>0 DEF Inv, Checked
      <3>2. Existing(view[c].rows, StoredIds(view[c])) \subseteq Existing(db.rows, StoredIds(db))
        BY <3>1 DEF Past, Existing, StoredIds, Ids, Of
      <3>3. Admitted(work[c].snapshot)
        BY <2>1, <3>2 DEF SnapshotAdmitted, Admitted
      <3>. QED BY <1>0, <2>0, <2>1, <3>3, GoKeepsMade
    <2>2. CASE Finish(c, "refused") /\ UNCHANGED db
      BY <2>0, <2>2, FinishKeepsMade, SameStoreMade DEF Finish, local
    <2>. QED BY <1>1, <2>1, <2>2 DEF InsertSnapshot
  <1>2. CASE InsertAnalysis(c)
    <2>0. pc[c] = "analysis" /\ req[c].call = "analysis"
      BY <1>2 DEF Inv, CallOf, InsertAnalysis
    <2>1. CASE /\ Go(c, "commit") /\ UNCHANGED <<lease, view, db>>
               /\ TargetsHold(work[c], Project(work[c]), view[c])
      <3>1. work[c].policy \in Analytic
        BY <2>1 DEF TargetsHold
      <3>. QED BY <1>0, <2>0, <2>1, <3>1, GoKeepsMade
    <2>2. CASE Finish(c, "refused") /\ UNCHANGED db
      BY <2>0, <2>2, FinishKeepsMade, SameStoreMade DEF Finish, local
    <2>. QED BY <1>2, <2>1, <2>2 DEF InsertAnalysis
  <1>. QED BY <1>1, <1>2

\* The findings that are inserted are those of the comparison.
LEMMA ComparisonKeepsMade ==
  ASSUME Inv, MadeInv, NEW c \in Callers,
         CheckPrerequisites(c) \/ InsertFinding(c) \/ InsertComparison(c)
  PROVE  MadeInv'
  <1>0. /\ view = [view EXCEPT ![c] = view[c]]
        /\ pc[c] \in {"comparison", "findings"} /\ req[c].call = "comparison"
        /\ ComparedBy(work[c], req[c])
    BY DEF Inv, Shapes, CallOf, CheckPrerequisites, InsertFinding, InsertComparison, MadeInv, Made
  <1>1. CASE Finish(c, "refused") /\ UNCHANGED db
    BY <1>0, <1>1, FinishKeepsMade, SameStoreMade DEF Finish, local
  <1>2. CASE Finish(c, "duplicate") /\ UNCHANGED db
    BY <1>0, <1>2, FinishKeepsMade, SameStoreMade DEF Finish, local
  <1>3. CASE \/ Go(c, "findings") /\ UNCHANGED <<db, view>>
             \/ Go(c, "commit") /\ UNCHANGED <<db, view>>
    BY <1>0, <1>3, GoKeepsMade
  <1>4. CASE /\ UNCHANGED <<db, later, calls, pc, req, view>> /\ work[c].todo # <<>>
             /\ work' = [work EXCEPT ![c] = [comparison |-> @.comparison, todo |-> Tail(@.todo),
                                  inserted |-> @.inserted \cup {Head(work[c].todo)}]]
    <2>1. /\ Others(c)
          /\ work'[c] = [comparison |-> work[c].comparison, todo |-> Tail(work[c].todo),
                         inserted |-> work[c].inserted \cup {Head(work[c].todo)}]
      BY <1>4 DEF Inv, Shapes, Others
    <2>2. /\ Head(work[c].todo) \in Compare(req[c]).findings
          /\ Tail(work[c].todo) \in Seq(Compare(req[c]).findings)
      BY <1>0, <1>4, HeadTailProperties DEF ComparedBy
    <2>3. ComparedBy(work'[c], req[c])
      BY <1>0, <2>1, <2>2 DEF ComparedBy
    <2>4. Made(c)'
      BY <1>0, <1>4, <2>3 DEF Made
    <2>. QED BY <1>4, <2>1, <2>4, StepKeepsMade, SameStoreMade
  <1>. QED
    BY <1>1, <1>2, <1>3, <1>4
       DEF CheckPrerequisites, InsertFinding, InsertComparison, local

\* What a COMMIT stores was made so.
LEMMA CommitsMade ==
  ASSUME Inv, MadeInv, NEW c \in Callers, pc[c] = "commit", db' = Committed(c),
         UNCHANGED <<later, calls>>
  PROVE  StoresMade
  <1>0. /\ req[c].call = "snapshot" => IsDraft(work[c]) /\ Admitted(work[c].snapshot)
        /\ req[c].call = "analysis" => IsAnalysis(work[c]) /\ work[c].policy \in Analytic
        /\ req[c].call = "comparison" => ComparedBy(work[c], req[c])
    BY DEF MadeInv, Made
  <1>. USE DEF Inv, Shapes, Committed
  <1>1. CASE req[c].call = "snapshot"
    <2>0. PICK s : s = [id |-> c, snapshot |-> work[c].snapshot,
                        members |-> work[c].snapshot.keys]
      OBVIOUS
    <2>1. db' = [rows |-> db.rows, snapshots |-> db.snapshots \cup {s},
                 analyses |-> db.analyses, findings |-> db.findings,
                 comparisons |-> db.comparisons]
      BY <1>1, <2>0
    <2>2. s.members = s.snapshot.keys /\ s.snapshot = work[c].snapshot
      BY <2>0
    <2>3. Grows
      BY ONLY <2>1 DEF Grows
    <2>4. SnapshotIsMade(s)'
      <3>1. IsSnapshot(s.snapshot) /\ Admitted(s.snapshot)
        BY <1>0, <1>1, <2>2 DEF IsDraft, IsSnapshot
      <3>2. Admitted(s.snapshot)'
        BY ONLY <2>3, <3>1, AdmittedGrows DEF Admitted
      <3>. QED BY ONLY <2>2, <3>1, <3>2 DEF SnapshotIsMade
    <2>5. UNCHANGED <<later, calls>>
      OBVIOUS
    <2>6. /\ db'.rows = db.rows /\ db'.snapshots = db.snapshots \cup {s}
          /\ db'.analyses = db.analyses /\ db'.findings = db.findings
          /\ db'.comparisons = db.comparisons
      BY ONLY <2>1
    <2>. QED
      BY ONLY <2>3, <2>4, <2>5, <2>6 DEF StoresMade
  <1>2. CASE req[c].call = "analysis"
    <2>. DEFINE k == [id |-> c, analysis |-> work[c], tables |-> Project(work[c])]
    <2>1. AnalysisIsMade(k)
      BY <1>0, <1>2 DEF AnalysisIsMade
    <2>2. db' = [rows |-> db.rows, snapshots |-> db.snapshots,
                 analyses |-> db.analyses \cup {k}, findings |-> db.findings,
                 comparisons |-> db.comparisons]
      BY <1>2
    <2>3. UNCHANGED <<later, calls>>
      OBVIOUS
    <2>. HIDE DEF k
    <2>. QED
      BY ONLY <2>1, <2>2, <2>3 DEF StoresMade, Grows
  <1>3. CASE req[c].call = "comparison"
    <2>. DEFINE k == [id |-> c, comparison |-> work[c].comparison]
    <2>1. ComparisonIsMade(k) /\ work[c].inserted \subseteq k.comparison.findings
      BY <1>0, <1>3 DEF ComparisonIsMade, IsComparison, ComparedBy
    <2>2. /\ Grows /\ db'.rows = db.rows /\ db'.findings = db.findings \cup work[c].inserted
          /\ db'.snapshots = db.snapshots /\ db'.analyses = db.analyses
          /\ db'.comparisons = db.comparisons \cup {k}
      BY <1>3 DEF Grows
    <2>3. UNCHANGED <<later, calls>>
      OBVIOUS
    <2>. HIDE DEF k
    <2>. QED
      BY ONLY <2>1, <2>2, <2>3 DEF StoresMade
  <1>. QED
    BY <1>1, <1>2, <1>3 DEF CallOf

\* A COMMIT stores what was made; a call that fails stores nothing.
LEMMA EndsKeepMade ==
  ASSUME Inv, MadeInv, NEW c \in Callers, Commit(c) \/ LoseCommit(c) \/ Fail(c)
  PROVE  MadeInv'
  <1>1. CASE Commit(c)
    BY <1>1, FinishKeepsMade, CommitsMade DEF Commit, Finish, local
  <1>2. CASE LoseCommit(c)
    BY <1>2, FinishKeepsMade, CommitsMade, SameStoreMade DEF LoseCommit, Finish, local
  <1>3. CASE Fail(c)
    BY <1>3, FinishKeepsMade, SameStoreMade DEF Fail, Finish, local
  <1>. QED
    BY <1>1, <1>2, <1>3

\* The readers store nothing.
LEMMA LoadsKeepMade ==
  ASSUME Inv, MadeInv, NEW c \in Callers,
         LoadSnapshot(c) \/ LoadAnalysis(c) \/ LoadAnalysedSnapshot(c) \/ LoadComparison(c)
  PROVE  MadeInv'
  <1>1. CASE LoadSnapshot(c)
    BY <1>1, FinishKeepsMade, SameStoreMade DEF LoadSnapshot, Finish, local
  <1>2. CASE LoadAnalysis(c)
    <2>1. CASE Finish(c, "missing") /\ UNCHANGED db
      BY <1>2, <2>1, FinishKeepsMade, SameStoreMade DEF LoadAnalysis, Finish, local
    <2>2. CASE /\ pc' = [pc EXCEPT ![c] = "reconnect"]
               /\ work' = [work EXCEPT ![c] = work'[c]]
               /\ UNCHANGED <<db, later, calls, req, view>>
      <3>1. Others(c) /\ pc'[c] = "reconnect"
        BY <2>2 DEF Inv, Shapes, Others
      <3>2. req[c].call = "read"
        BY <1>2 DEF LoadAnalysis, MadeInv, Made
      <3>3. Made(c)'
        BY <2>2, <3>1, <3>2 DEF Made
      <3>. QED
        BY <2>2, <3>1, <3>3, StepKeepsMade, SameStoreMade
    <2>. QED
      BY <1>2, <2>1, <2>2 DEF Inv, Shapes, LoadAnalysis, local
  <1>3. CASE LoadAnalysedSnapshot(c)
    BY <1>3, FinishKeepsMade, SameStoreMade DEF LoadAnalysedSnapshot, Finish, local
  <1>4. CASE LoadComparison(c)
    BY <1>4, FinishKeepsMade, SameStoreMade DEF LoadComparison, Finish, local
  <1>. QED
    BY <1>1, <1>2, <1>3, <1>4

\* Every step keeps the invariant.
LEMMA NextKeepsMade == Inv /\ MadeInv /\ [Next]_vars => MadeInv'
  <1>. SUFFICES ASSUME Inv, MadeInv, [Next]_vars PROVE MadeInv'
    OBVIOUS
  <1>1. CASE \E r \in later : Record(r)
    BY <1>1, RecordKeepsMade
  <1>2. ASSUME NEW c \in Callers, NEW q \in calls[c],
               WriteSnapshot(c, q) \/ WriteAnalysis(c, q) \/ WriteComparison(c, q) \/ Read(c, q)
        PROVE  MadeInv'
    BY <1>2, CallsKeepMade
  <1>3. ASSUME NEW c \in Callers, Step(c) \/ LoseCommit(c) \/ Fail(c)
        PROVE  MadeInv'
    BY <1>3, LeaseKeepsMade, BeginKeepsMade, InsertKeepsMade, ComparisonKeepsMade, EndsKeepMade,
       LoadsKeepMade DEF Step
  <1>4. CASE UNCHANGED vars
    <2>1. StoresMade
      BY <1>4, SameStoreMade DEF vars
    <2>2. \A c \in Callers : Made(c)'
      BY <1>4, <2>1, MadeGrows DEF vars, MadeInv, StoresMade
    <2>. QED BY <2>1, <2>2, StoreKeepsMade DEF MadeInv
  <1>. QED
    BY <1>1, <1>2, <1>3, <1>4 DEF Next

\* A snapshot that was made is the closure of its roots.
LEMMA MadeAreClosures == MadeInv => SnapshotsAreClosures
  <1>. SUFFICES ASSUME MadeInv, NEW c \in Callers, pc[c] = "connect", req[c].call = "snapshot"
                PROVE  LET given == work[c].given
                           made  == work[c].snapshot
                           near(d) == Within(given.rows, ToSet(given.roots), d)
                       IN  /\ Ids(made.rows, "artifactVersion") = near(given.policy.maxDepth)
                           /\ Of(made.rows, "provenance") =
                                {r \in Of(given.rows, "provenance") :
                                   r.subject \in near(given.policy.maxDepth - 1)}
                           /\ made.unrecorded = {n \in near(given.policy.maxDepth) :
                                ~\E r \in Of(given.rows, "knowledge") : r.subject = n}
                           /\ \A n \in near(given.policy.maxDepth) :
                                n \in ToSet(given.roots)
                                  \/ <<"artifactVersion", "included", n>> \in made.keys
    BY DEF SnapshotsAreClosures
  <1>1. IsDraft(work[c])
    BY DEF MadeInv, Made
  <1>2. PICK given : /\ InputTyped(given) /\ BuildHolds(given)
                     /\ work[c] = [given |-> given, snapshot |-> Build(given)]
    BY <1>1 DEF IsDraft
  <1>3. work[c].given = given /\ work[c].snapshot = Build(given)
    BY <1>2
  <1>. QED BY <1>2, <1>3, SnapshotOf

\* A comparison that was made says what it should.
LEMMA MadeAreContradictions == MadeInv => ContradictionsAreExact
  <1>. SUFFICES ASSUME MadeInv, NEW k \in Callers, pc[k] = "connect", req[k].call = "comparison"
                PROVE  ContradictionsAre(work[k].comparison.findings, ToSet(req[k].assertions))
    BY DEF ContradictionsAreExact
  <1>1. ComparedBy(work[k], req[k])
    BY DEF MadeInv, Made
  <1>2. /\ ComparisonTyped(req[k]) /\ ComparisonHolds(req[k])
        /\ work[k].comparison.findings = Compare(req[k]).findings
    BY <1>1 DEF ComparedBy
  <1>. QED BY <1>2, ContradictionsOf

\* A stored snapshot is verified when its rows are stored.
LEMMA StoredSnapshots ==
  ASSUME MadeInv, NEW k \in db.snapshots
  PROVE  SnapshotVerified(k, db) <=> k.snapshot.rows \subseteq db.rows
  <1>1. SnapshotIsMade(k)
    BY DEF MadeInv, AllAreMade
  <1>2. PICK given : InputTyped(given) /\ BuildHolds(given) /\ k.snapshot = Build(given)
    BY <1>1 DEF SnapshotIsMade, IsSnapshot
  <1>3. k.members = Build(given).keys /\ Admitted(Build(given))
    BY <1>1, <1>2 DEF SnapshotIsMade
  <1>4. Build(given).policy = given.policy
    BY DEF Build
  <1>5. given.policy \in Policies
    BY <1>3, <1>4 DEF Admitted, PolicyIsStored
  <1>6. FoundationTargets(Build(given).rows) \subseteq Existing(db.rows, StoredIds(db))
    BY <1>3 DEF Admitted
  <1>7. UniqueIds(db.rows)
    BY DEF MadeInv, Typed, UniqueIds
  <1>8. Verified(k, db.rows, StoredIds(db), Policies) <=> Build(given).rows \subseteq db.rows
    BY <1>2, <1>3, <1>5, <1>6, <1>7, SnapshotAuthentic
  <1>. QED BY <1>2, <1>8 DEF SnapshotVerified

\* A stored analysis is verified when the rows of its snapshot are stored.
LEMMA StoredAnalyses ==
  ASSUME Inv, MadeInv, NEW k \in db.analyses
  PROVE  AnalysisVerified(k, db) <=> k.analysis.snapshot.rows \subseteq db.rows
  <1>. DEFINE a == k.analysis
  <1>1. AnalysisIsMade(k) /\ RestsOnStored(a)
    BY DEF MadeInv, AllAreMade, Inv, AnalysesRest
  <1>2. PICK input : IsSelection(input) /\ a = Analyse(input)
    BY <1>1 DEF AnalysisIsMade, IsAnalysis
  <1>3. /\ a.claim = input.claim /\ a.relations = input.relations /\ a.bindings = input.bindings
        /\ a.policy = input.policy /\ a.snapshotId = input.snapshotId
        /\ a.snapshot = input.snapshot /\ a.findings = Findings(input)
    BY <1>2 DEF Analyse
  <1>. HIDE DEF a
  <1>4. InputOf(a) = input
    BY <1>2, <1>3 DEF InputOf, IsSelection
  <1>5. Reproduced(a)
    BY <1>2, <1>3, <1>4 DEF Reproduced, IsSelection
  <1>6. AnalysisPolicyHolds(a)
    BY <1>1, <1>2, <1>3 DEF AnalysisPolicyHolds, AnalysisIsMade, IsSelection, AnalysisHolds, a
  <1>7. SelectionHolds(a, db) /\ ProjectionHolds(k) /\ SnapshotBound(a, db)
    BY <1>1 DEF RestsOnStored, AnalysisIsMade, ProjectionHolds
  <1>8. (\E s \in db.snapshots : s.id = a.snapshotId /\ s.snapshot = a.snapshot /\ SnapshotVerified(s, db))
          <=> a.snapshot.rows \subseteq db.rows
    BY <1>7, StoredSnapshots DEF SnapshotBound
  <1>. QED BY <1>5, <1>6, <1>7, <1>8 DEF AnalysisVerified, a

\* A stored comparison is replayed when what it compared is stored.
LEMMA StoredComparisons ==
  ASSUME MadeInv, NEW k \in db.comparisons
  PROVE  LET c == k.comparison
         IN  Replayed(c, db.rows) <=>
               /\ ToSet(c.assertions) \cup c.domains \cup c.values \subseteq db.rows
               /\ \A a \in ToSet(c.assertions) : \A b \in a.bindings :
                    b[1] \in StatementFamilies =>
                      \E r \in Of(db.rows, "binding") : b = <<r.family, r.id>>
  <1>1. PICK q : ComparisonTyped(q) /\ ComparisonHolds(q) /\ k.comparison = Compare(q)
    BY DEF MadeInv, AllAreMade, ComparisonIsMade, IsComparison
  <1>2. IsFiniteSet(db.rows) /\ UniqueIds(db.rows) /\ \A r \in db.rows : r.id \in Nat
    BY FS_Subset DEF MadeInv, Typed, UniqueIds, RowTyped
  <1>. QED BY <1>1, <1>2, ReplayOf

\* What is stored is authenticated exactly when it should be.
LEMMA MadeAreAuthenticated == Inv /\ MadeInv => StoredIsAuthenticated
  BY StoredSnapshots, StoredAnalyses, StoredComparisons
     DEF MadeInv, AllAreMade, StoredIsAuthenticated

-----------------------------------------------------------------------------
(* What an analysis finds, and what the constraints of the store ask of it *)

\* A finite set has two elements when it has two that differ.
LEMMA TwoOf ==
  ASSUME NEW S, IsFiniteSet(S)
  PROVE  Cardinality(S) >= 2 <=> \E x, y \in S : x # y
  <1>0. Cardinality(S) \in Nat
    BY FS_CardinalityType
  <1>1. ASSUME Cardinality(S) >= 2, ~\E x, y \in S : x # y PROVE FALSE
    <2>1. PICK x \in S : TRUE
      <3>1. S # {}
        BY <1>1, FS_EmptySet
      <3>. QED BY <3>1
    <2>2. S = {x}
      BY <1>1
    <2>3. Cardinality({x}) = 1
      BY FS_Singleton
    <2>. QED BY <1>1, <2>2, <2>3
  <1>2. ASSUME NEW x \in S, NEW y \in S, x # y PROVE Cardinality(S) >= 2
    <2>1. IsFiniteSet(S \ {x}) /\ Cardinality(S \ {x}) = Cardinality(S) - 1
      BY FS_RemoveElement
    <2>2. Cardinality(S \ {x}) # 0 /\ Cardinality(S \ {x}) \in Nat
      BY <1>2, <2>1, FS_EmptySet, FS_CardinalityType
    <2>. QED BY <1>0, <2>1, <2>2
  <1>. QED BY <1>1, <1>2

-----------------------------------------------------------------------------
(* What an analysis selected                                               *)

\* What the proofs about an analysis use of its selection, together.
LEMMA SelectionFacts ==
  ASSUME NEW input, IsSelection(input)
  PROVE  LET rows == input.snapshot.rows
         IN  /\ GraphTyped(input) /\ IsFiniteSet(input.bindings)
             /\ \A b \in input.bindings : BranchHolds(input, b)
             /\ \A b, c \in input.bindings : Key(b) = Key(c) => b = c
             /\ \A b \in input.bindings : Key(b) = <<b.relation, b.statement>> /\ b.relation \in Nat
                                            /\ b.statement \in Nat
             /\ \A r \in rows : r.family # "artifactVersion" =>
                  <<r.family, "included", r.id>> \in input.snapshot.keys
             /\ EveryRelationIsBound(input) /\ WalksStayInside(input) /\ input.relations # {}
  <1>1. /\ SelectionTyped(input) /\ IsSnapshot(input.snapshot)
        /\ RelationsAreValid(input.relations) /\ BindingsAreValid(input.bindings)
        /\ \A b \in input.bindings : BranchHolds(input, b)
        /\ EveryRelationIsBound(input) /\ WalksStayInside(input)
    BY DEF IsSelection, AnalysisHolds
  <1>2. PICK given : InputTyped(given) /\ BuildHolds(given) /\ input.snapshot = Build(given)
    BY <1>1 DEF IsSnapshot
  <1>3. Build(given).rows = Included(given) /\ Build(given).keys = Keys(given)
    BY DEF Build
  <1>4. Included(given) \subseteq given.rows
    BY <1>2, IncludedOf
  <1>5. IsFiniteSet(given.rows) /\ UniqueIds(given.rows) /\ \A r \in given.rows : RowTyped(r)
    BY <1>2 DEF InputTyped, BuildHolds, InputHolds
  <1>6. GraphTyped(input)
    <2>1. IsFiniteSet(Included(given)) /\ UniqueIds(Included(given))
          /\ \A r \in Included(given) : RowTyped(r)
      BY <1>4, <1>5, FS_Subset DEF UniqueIds
    <2>. QED BY <1>1, <1>2, <1>3, <2>1 DEF GraphTyped, SelectionTyped
  <1>7. \A r \in Included(given) : r.family # "artifactVersion" =>
          <<r.family, "included", r.id>> \in Keys(given)
    BY DEF Keys
  <1>8. \A b, c \in input.bindings : Key(b) = Key(c) => b = c
    BY <1>1 DEF BindingsAreValid, Key
  <1>. QED BY <1>1, <1>2, <1>3, <1>6, <1>7, <1>8 DEF SelectionTyped, RelationsAreValid, Key

\* What the trigger finds under the key of a branch.
LEMMA BranchFacts ==
  ASSUME NEW input, IsSelection(input), NEW d, NEW b \in Partition(input, d)
  PROVE  /\ b \in Branches(input) /\ b \in input.bindings
         /\ BindingAt(input, Key(b)) = b /\ DirectionAt(input, Key(b)) = d
         /\ b.artifact \in Ids(input.snapshot.rows, "artifactVersion")
         /\ b.artifact \in Versions(input)
  <1>1. b \in Branches(input) /\ b \in input.bindings /\ RelationOf(input, b).direction = d
    BY DEF Partition, Branches
  <1>2. BindingAt(input, Key(b)) = b
    <2>1. \A c \in input.bindings : Key(c) = Key(b) => c = b
      BY <1>1, SelectionFacts
    <2>. QED BY <1>1, <2>1 DEF BindingAt
  <1>3. DirectionAt(input, Key(b)) = d
    BY <1>1 DEF DirectionAt, RelationOf, Key
  <1>4. b.artifact \in Ids(input.snapshot.rows, "artifactVersion")
    BY <1>1, SelectionFacts DEF BranchHolds
  <1>5. Ids(input.snapshot.rows, "artifactVersion") \subseteq Versions(input)
    BY DEF Versions, Nodes
  <1>. QED BY <1>1, <1>2, <1>3, <1>4, <1>5

\* A path from the version of a branch stays in the snapshot.
LEMMA PathStaysInside ==
  ASSUME NEW input, IsSelection(input), NEW b \in Branches(input),
         NEW p, IsPath(input, b.artifact, p)
  PROVE  \A i \in 1..Len(p.nodes) : p.nodes[i] \in Ids(input.snapshot.rows, "artifactVersion")
  <1>. DEFINE V == Ids(input.snapshot.rows, "artifactVersion")
              a == b.artifact
              Inside(w) == \A i \in 1..Len(w.nodes) : w.nodes[i] \in V
              Bad == {n \in Nat : \E w : IsPath(input, a, w) /\ Len(w.steps) = n /\ ~Inside(w)}
  <1>1. b \in input.bindings
    BY DEF Branches
  <1>2. GraphTyped(input) /\ a \in V /\ a \in Versions(input) /\ WalksStayInside(input)
    <2>1. GraphTyped(input) /\ a \in V /\ WalksStayInside(input)
      BY <1>1, SelectionFacts DEF BranchHolds
    <2>. QED BY <2>1 DEF Versions, Nodes
  <1>3. ASSUME Bad # {} PROVE FALSE
    <2>1. PICK n \in Bad : \A k \in Bad : n <= k
      <3>1. Bad \subseteq Nat
        OBVIOUS
      <3>. HIDE DEF Bad
      <3>. QED BY <1>3, <3>1, LeastNumber
    <2>2. n \in Nat
      OBVIOUS
    <2>3. PICK w : IsPath(input, a, w) /\ Len(w.steps) = n /\ ~Inside(w)
      OBVIOUS
    <2>4. ASSUME NEW q, IsPath(input, a, q), Len(q.steps) = n - 1, n - 1 \in Nat PROVE Inside(q)
      <3>1. n - 1 \notin Bad
        <4>. HIDE DEF Bad
        <4>. QED BY <2>1, <2>2, <2>4
      <3>. HIDE DEF Inside, V
      <3>. QED BY <2>4, <3>1
    <2>. HIDE DEF Bad
    <2>5. CASE n = 0
      <3>1. Len(w.nodes) = 1 /\ w.nodes[1] = a
        BY <2>3, <2>5 DEF IsPath
      <3>. QED BY <1>2, <2>3, <3>1
    <2>6. CASE n # 0
      <3>1. w.steps # <<>>
        BY <2>3, <2>6
      <3>2. PICK q : /\ IsPath(input, a, q) /\ Len(q.steps) = Len(w.steps) - 1
                     /\ \E r \in Enabled(input, End(q)) :
                          r.object \notin ToSet(q.nodes) /\ w = Onward(q, r)
        BY <1>2, <2>3, <3>1, PathIsExtended
      <3>3. PICK r \in Enabled(input, End(q)) : r.object \notin ToSet(q.nodes) /\ w = Onward(q, r)
        BY <3>2
      <3>4. Len(q.steps) = n - 1 /\ n - 1 \in Nat /\ Len(q.steps) < input.policy.maxDepth
            /\ input.policy.maxDepth \in Nat
        BY <1>2, <2>2, <2>3, <2>6, <3>2 DEF IsPath, GraphTyped
      <3>5. Inside(q)
        BY <2>4, <3>2, <3>4
      <3>6. PICK c \in Closure(input, a) : End(c) = End(q) /\ ~WitnessBefore(q, c)
        BY <1>2, <3>2, ClosureIs
      <3>7. IsPath(input, a, c)
        BY <1>2, ClosureIs
      <3>8. Len(c.steps) < input.policy.maxDepth
        <4>1. Walks(c) /\ Walks(q)
          BY <3>2, <3>7, PathFacts
        <4>2. Len(c.steps) <= Len(q.steps) /\ Len(c.steps) \in Nat
          BY <3>6, <4>1, ShorterIsBefore
        <4>. QED BY <3>4, <4>2
      <3>9. r \in Considered(input, Closure(input, a))
        BY <3>6, <3>8 DEF Considered
      <3>10. r.object \in V
        BY <1>2, <3>9 DEF WalksStayInside
      <3>11. /\ Len(w.nodes) = Len(q.nodes) + 1 /\ End(w) = r.object
             /\ \A i \in 1..Len(q.nodes) : w.nodes[i] = q.nodes[i]
        BY <1>2, <3>2, <3>3, <3>4, OnwardIs
      <3>12. End(w) = w.nodes[Len(w.nodes)] /\ Len(q.nodes) \in Nat
        BY <2>3, <3>2, PathFacts
      <3>13. Inside(w)
        <4>. SUFFICES ASSUME NEW i \in 1..Len(w.nodes) PROVE w.nodes[i] \in V
          OBVIOUS
        <4>1. i \in 1..Len(q.nodes) \/ i = Len(w.nodes)
          BY <3>11, <3>12
        <4>. HIDE DEF V
        <4>. QED BY <3>5, <3>10, <3>11, <3>12, <4>1
      <3>. QED BY <2>3, <3>13
    <2>. QED BY <2>5, <2>6
  <1>4. Len(p.steps) \in Nat
    BY PathFacts
  <1>5. Inside(p)
    <2>. HIDE DEF Inside, V
    <2>. QED BY <1>3, <1>4
  <1>. QED BY <1>5

\* The statements of a path are of the snapshot, and its members.
LEMMA StepsAreMembers ==
  ASSUME NEW input, IsSelection(input), NEW a, NEW p, IsPath(input, a, p)
  PROVE  \A i \in 1..Len(p.steps) : \E r \in Of(input.snapshot.rows, "provenance") :
           /\ r.id = p.steps[i] /\ r.subject = p.nodes[i] /\ r.object = p.nodes[i + 1]
           /\ r.relation \in input.policy.enabled
           /\ <<"provenance", "included", r.id>> \in input.snapshot.keys
  <1>. TAKE i \in 1..Len(p.steps)
  <1>1. PICK r \in Enabled(input, p.nodes[i]) : r.id = p.steps[i] /\ r.object = p.nodes[i + 1]
    BY DEF IsPath
  <1>2. /\ r \in input.snapshot.rows /\ r.family = "provenance" /\ r.subject = p.nodes[i]
        /\ r.relation \in input.policy.enabled
    BY DEF Enabled, From, Of
  <1>3. <<"provenance", "included", r.id>> \in input.snapshot.keys
    BY <1>2, SelectionFacts
  <1>. QED BY <1>1, <1>2, <1>3 DEF Of

-----------------------------------------------------------------------------
(* The findings of an analysis                                             *)

\* The branches of a direction at a version.
At(input, d, n) == {b \in Partition(input, d) : b.artifact = n}

\* The branches of a direction from which a version is reached, and the witness
\* of each.
Reaching(input, d, n) ==
  {b \in Partition(input, d) : n \in ReachedFrom(Closure(input, b.artifact))}
\* The witness of a branch for a version, as a member of a finding.
WitnessOf(input, b, n) == CHOOSE v \in Closure(input, b.artifact) : End(v) = n
MemberOf(input, b, n) ==
  [key |-> Key(b), nodes |-> WitnessOf(input, b, n).nodes, steps |-> WitnessOf(input, b, n).steps]
MembersOf(input, d, n) == {MemberOf(input, b, n) : b \in Reaching(input, d, n)}

\* The findings, one by one.
SharedAt(input, d, n) ==
  [type |-> "shared", direction |-> d, at |-> n, members |-> {Key(b) : b \in At(input, d, n)}]
CommonAt(input, d, n) ==
  [type |-> "common", direction |-> d, at |-> n, members |-> MembersOf(input, d, n)]
NoneOf(d, b, c) == [type |-> "none", direction |-> d, lower |-> Key(b), upper |-> Key(c)]

\* What is not known of what a branch reaches.
KnownOf(input, b) ==
  {s \in Of(input.snapshot.rows, "knowledge") :
     s.relation \in {"unknown", "partial"} /\ s.subject \in ReachedFrom(Closure(input, b.artifact))}
DerivedOf(input, b) == input.snapshot.unrecorded \cap ReachedFrom(Closure(input, b.artifact))
IncompleteOf(input, b) ==
  [type |-> "incomplete", key |-> Key(b),
   affected |-> {s.subject : s \in KnownOf(input, b)} \cup DerivedOf(input, b),
   statements |-> {s.id : s \in KnownOf(input, b)}, derived |-> DerivedOf(input, b)]

\* When a finding is made.
SaysShared(input, d, n) == Cardinality(At(input, d, n)) >= 2
SaysCommon(input, d, n) ==
  Cardinality(MembersOf(input, d, n)) >= 2 /\ \E m \in MembersOf(input, d, n) : m.steps # <<>>
SaysNone(input, d, b, c) ==
  /\ b \in Partition(input, d) /\ c \in Partition(input, d) /\ KeyBefore(Key(b), Key(c))
  /\ b.artifact # c.artifact
  /\ ReachedFrom(Closure(input, b.artifact)) \cap ReachedFrom(Closure(input, c.artifact)) = {}
SaysIncomplete(input, b) ==
  b \in Branches(input) /\ (KnownOf(input, b) # {} \/ DerivedOf(input, b) # {})

\* What the builder looks up is the closure of the branch.
LEMMA ClosureOf ==
  ASSUME NEW input, NEW b \in Branches(input)
  PROVE  Closures(input)[b.artifact] = Closure(input, b.artifact)
  BY DEF Closures

\* The branches of a finding are selected bindings, finitely many.
LEMMA MembersOfBindings ==
  ASSUME NEW input, IsSelection(input), NEW d, NEW n
  PROVE  /\ At(input, d, n) \subseteq input.bindings /\ IsFiniteSet(At(input, d, n))
         /\ Reaching(input, d, n) \subseteq Partition(input, d)
         /\ IsFiniteSet(MembersOf(input, d, n))
  <1>1. Partition(input, d) \subseteq input.bindings /\ IsFiniteSet(input.bindings)
    BY BranchFacts, SelectionFacts
  <1>2. At(input, d, n) \subseteq input.bindings /\ Reaching(input, d, n) \subseteq input.bindings
    BY <1>1 DEF At, Reaching
  <1>3. IsFiniteSet(At(input, d, n)) /\ IsFiniteSet(Reaching(input, d, n))
    BY <1>1, <1>2, FS_Subset
  <1>4. IsFiniteSet({MemberOf(input, b, n) : b \in Reaching(input, d, n)})
    <2>. DEFINE R == Reaching(input, d, n)
                f == [b \in R |-> MemberOf(input, b, n)]
    <2>. HIDE DEF R
    <2>1. f \in Surjection(R, {MemberOf(input, b, n) : b \in R})
      BY DEF Surjection
    <2>2. IsFiniteSet({MemberOf(input, b, n) : b \in R})
      BY <1>3, <2>1, FS_Surjection DEF R
    <2>. QED BY <2>2 DEF R
  <1>. QED BY <1>2, <1>3, <1>4 DEF MembersOf, Reaching

\* The witness of a branch is a path from its version that no path to the same
\* end is before.
LEMMA WitnessIs ==
  ASSUME NEW input, IsSelection(input), NEW d, NEW n, NEW b \in Reaching(input, d, n)
  PROVE  LET w == WitnessOf(input, b, n)
         IN  /\ IsPath(input, b.artifact, w) /\ End(w) = n
             /\ \A p : IsPath(input, b.artifact, p) /\ End(p) = n => ~WitnessBefore(p, w)
  <1>. DEFINE w == WitnessOf(input, b, n)
  <1>1. b \in Partition(input, d) /\ n \in ReachedFrom(Closure(input, b.artifact))
    BY DEF Reaching
  <1>2. b.artifact \in Versions(input) /\ GraphTyped(input)
    BY <1>1, BranchFacts, SelectionFacts
  <1>3. w \in Closure(input, b.artifact) /\ End(w) = n
    BY <1>1 DEF ReachedFrom, WitnessOf
  <1>. HIDE DEF w
  <1>4. IsPath(input, b.artifact, w)
    BY <1>2, <1>3, ClosureIs
  <1>5. ASSUME NEW p, IsPath(input, b.artifact, p), End(p) = n PROVE ~WitnessBefore(p, w)
    <2>1. PICK v \in Closure(input, b.artifact) : End(v) = End(p) /\ ~WitnessBefore(p, v)
      BY <1>2, <1>5, ClosureIs
    <2>2. v = w
      BY <1>2, <1>3, <1>5, <2>1, ClosureIs
    <2>. QED BY <2>1, <2>2
  <1>. QED BY <1>3, <1>4, <1>5 DEF w

\* The members of a finding are the witnesses of its branches, each under its
\* key.
LEMMA MembersAre ==
  ASSUME NEW input, IsSelection(input), NEW d, NEW n
  PROVE  /\ \A b \in Reaching(input, d, n) : MemberOf(input, b, n) \in MembersOf(input, d, n)
         /\ \A m \in MembersOf(input, d, n) : \E b \in Reaching(input, d, n) : m = MemberOf(input, b, n)
         /\ \A b, c \in Reaching(input, d, n) : Key(b) = Key(c) => b = c
         /\ \A b : MemberOf(input, b, n).key = Key(b)
         /\ \A b \in Reaching(input, d, n) : b \in Partition(input, d)
  <1>1. \A b \in Reaching(input, d, n) : b \in Partition(input, d) /\ b \in input.bindings
    BY BranchFacts DEF Reaching
  <1>2. \A b, c \in Reaching(input, d, n) : Key(b) = Key(c) => b = c
    BY <1>1, SelectionFacts
  <1>. QED BY <1>1, <1>2 DEF MembersOf, MemberOf

\* A shared version is said of two branches at it.
LEMMA SharedAre ==
  ASSUME NEW input, NEW d, NEW f
  PROVE  f \in Shared(input, d) <=>
           \E n : At(input, d, n) # {} /\ SaysShared(input, d, n) /\ f = SharedAt(input, d, n)
  <1>1. f \in Shared(input, d) <=> \E n \in {b.artifact : b \in Partition(input, d)} :
          SaysShared(input, d, n) /\ f = SharedAt(input, d, n)
    BY DEF Shared, SaysShared, SharedAt, At
  <1>2. \A n : n \in {b.artifact : b \in Partition(input, d)} <=> At(input, d, n) # {}
    BY DEF At
  <1>. QED BY <1>1, <1>2

\* A common upstream is said of two branches that reach it, one of them by a
\* statement.
LEMMA CommonAre ==
  ASSUME NEW input, NEW d, NEW f
  PROVE  f \in CommonUpstream(input, Closures(input), d) <=>
           \E n : /\ \E b \in Branches(input) : n \in ReachedFrom(Closure(input, b.artifact))
                  /\ SaysCommon(input, d, n) /\ f = CommonAt(input, d, n)
  <1>. DEFINE closures == Closures(input)
              Member(b, node) ==
                LET w == CHOOSE v \in closures[b.artifact] : End(v) = node
                IN  [key |-> Key(b), nodes |-> w.nodes, steps |-> w.steps]
              Members(node) == {Member(b, node) :
                b \in {c \in Partition(input, d) : node \in ReachedFrom(closures[c.artifact])}}
              Reaches == UNION {ReachedFrom(closures[b.artifact]) : b \in Branches(input)}
  <1>1. \A b \in Partition(input, d) : b \in Branches(input)
    BY DEF Partition
  <1>2. ASSUME NEW node PROVE Members(node) = MembersOf(input, d, node)
    <2>1. {c \in Partition(input, d) : node \in ReachedFrom(closures[c.artifact])} = Reaching(input, d, node)
      BY <1>1, ClosureOf DEF Reaching
    <2>2. \A b \in Reaching(input, d, node) : Member(b, node) = MemberOf(input, b, node)
      BY <1>1, ClosureOf DEF Reaching, MemberOf, WitnessOf
    <2>. HIDE DEF Member, closures
    <2>. QED BY <2>1, <2>2 DEF MembersOf
  <1>3. \A n : n \in Reaches <=> \E b \in Branches(input) : n \in ReachedFrom(Closure(input, b.artifact))
    BY ClosureOf
  <1>4. f \in CommonUpstream(input, Closures(input), d) <=>
          \E n \in Reaches : /\ Cardinality(Members(n)) >= 2
                             /\ \E m \in Members(n) : m.steps # <<>>
                             /\ f = [type |-> "common", direction |-> d, at |-> n, members |-> Members(n)]
    BY DEF CommonUpstream
  <1>. HIDE DEF Members, Reaches
  <1>. QED BY <1>2, <1>3, <1>4 DEF SaysCommon, CommonAt

\* No common upstream is said of two branches that reach nothing together.
LEMMA NoneAre ==
  ASSUME NEW input, NEW d, NEW f
  PROVE  f \in NoCommonUpstream(input, Closures(input), d) <=>
           \E b, c : SaysNone(input, d, b, c) /\ f = NoneOf(d, b, c)
  <1>. DEFINE closures == Closures(input)
              P == Partition(input, d)
              Q == {q \in P \X P :
                      /\ KeyBefore(Key(q[1]), Key(q[2])) /\ q[1].artifact # q[2].artifact
                      /\ ReachedFrom(closures[q[1].artifact]) \cap ReachedFrom(closures[q[2].artifact]) = {}}
  <1>1. \A b \in P : b \in Branches(input) /\ closures[b.artifact] = Closure(input, b.artifact)
    BY ClosureOf DEF Partition
  <1>2. f \in NoCommonUpstream(input, Closures(input), d) <=>
          \E p \in Q : f = [type |-> "none", direction |-> d, lower |-> Key(p[1]), upper |-> Key(p[2])]
    BY DEF NoCommonUpstream
  <1>. HIDE DEF closures
  <1>3. ASSUME NEW p \in Q PROVE p[1] \in P /\ p[2] \in P /\ SaysNone(input, d, p[1], p[2])
    BY <1>1 DEF SaysNone
  <1>4. ASSUME NEW b, NEW c, SaysNone(input, d, b, c) PROVE <<b, c>> \in Q
    BY <1>1, <1>4 DEF SaysNone
  <1>. HIDE DEF Q, P
  <1>5. ASSUME NEW b, NEW c, SaysNone(input, d, b, c), f = NoneOf(d, b, c)
        PROVE  \E p \in Q : f = [type |-> "none", direction |-> d, lower |-> Key(p[1]), upper |-> Key(p[2])]
    <2>1. <<b, c>>[1] = b /\ <<b, c>>[2] = c
      OBVIOUS
    <2>2. f = [type |-> "none", direction |-> d, lower |-> Key(<<b, c>>[1]), upper |-> Key(<<b, c>>[2])]
      BY <1>5, <2>1 DEF NoneOf
    <2>. QED BY <1>4, <1>5, <2>2
  <1>. QED BY <1>2, <1>3, <1>5 DEF NoneOf

\* Incomplete knowledge is said of a branch that reaches it.
LEMMA IncompleteAre ==
  ASSUME NEW input, NEW f
  PROVE  f \in KnowledgeIncomplete(input, Closures(input)) <=>
           \E b : SaysIncomplete(input, b) /\ f = IncompleteOf(input, b)
  <1>. DEFINE closures == Closures(input)
              Known(b) == {s \in Of(input.snapshot.rows, "knowledge") :
                s.relation \in {"unknown", "partial"} /\ s.subject \in ReachedFrom(closures[b.artifact])}
              Derived(b) == input.snapshot.unrecorded \cap ReachedFrom(closures[b.artifact])
              Of2(b) == [type |-> "incomplete", key |-> Key(b),
                         affected |-> {s.subject : s \in Known(b)} \cup Derived(b),
                         statements |-> {s.id : s \in Known(b)}, derived |-> Derived(b)]
  <1>1. \A b \in Branches(input) : Known(b) = KnownOf(input, b) /\ Derived(b) = DerivedOf(input, b)
    BY ClosureOf DEF KnownOf, DerivedOf
  <1>2. f \in KnowledgeIncomplete(input, Closures(input)) <=>
          \E b \in Branches(input) : (Known(b) # {} \/ Derived(b) # {}) /\ f = Of2(b)
    BY DEF KnowledgeIncomplete
  <1>. HIDE DEF Known, Derived, closures
  <1>3. \A b \in Branches(input) : Of2(b) = IncompleteOf(input, b)
    BY <1>1 DEF IncompleteOf
  <1>. HIDE DEF Of2
  <1>. QED BY <1>1, <1>2, <1>3 DEF SaysIncomplete

\* The findings of each type.
LEMMA FindingsAre ==
  ASSUME NEW input, NEW a, a.findings = Findings(input), NEW f
  PROVE  /\ f \in OfType(a, "shared") <=> \E d \in Directions : \E n :
              At(input, d, n) # {} /\ SaysShared(input, d, n) /\ f = SharedAt(input, d, n)
         /\ f \in OfType(a, "common") <=> \E d \in Directions : \E n :
              /\ \E b \in Branches(input) : n \in ReachedFrom(Closure(input, b.artifact))
              /\ SaysCommon(input, d, n) /\ f = CommonAt(input, d, n)
         /\ f \in OfType(a, "none") <=> \E d \in Directions : \E b, c :
              SaysNone(input, d, b, c) /\ f = NoneOf(d, b, c)
         /\ f \in OfType(a, "incomplete") <=> \E b : SaysIncomplete(input, b) /\ f = IncompleteOf(input, b)
  <1>1. f \in Findings(input) <=>
          \/ \E d \in Directions : \/ f \in Shared(input, d)
                                   \/ f \in CommonUpstream(input, Closures(input), d)
                                   \/ f \in NoCommonUpstream(input, Closures(input), d)
          \/ f \in KnowledgeIncomplete(input, Closures(input))
    BY DEF Findings
  <1>2. /\ \A d : f \in Shared(input, d) => f.type = "shared"
        /\ \A d : f \in CommonUpstream(input, Closures(input), d) => f.type = "common"
        /\ \A d : f \in NoCommonUpstream(input, Closures(input), d) => f.type = "none"
        /\ f \in KnowledgeIncomplete(input, Closures(input)) => f.type = "incomplete"
    <2>1. /\ \A d, n : SharedAt(input, d, n).type = "shared" /\ CommonAt(input, d, n).type = "common"
          /\ \A d, b, c : NoneOf(d, b, c).type = "none"
          /\ \A b : IncompleteOf(input, b).type = "incomplete"
      BY DEF SharedAt, CommonAt, NoneOf, IncompleteOf
    <2>. QED BY <2>1, SharedAre, CommonAre, NoneAre, IncompleteAre
  <1>4. \A t : f \in OfType(a, t) <=> f \in Findings(input) /\ f.type = t
    BY DEF OfType
  <1>5. f \in OfType(a, "shared") <=> \E d \in Directions : f \in Shared(input, d)
    BY <1>1, <1>2, <1>4
  <1>6. f \in OfType(a, "common") <=> \E d \in Directions : f \in CommonUpstream(input, Closures(input), d)
    BY <1>1, <1>2, <1>4
  <1>7. f \in OfType(a, "none") <=> \E d \in Directions : f \in NoCommonUpstream(input, Closures(input), d)
    BY <1>1, <1>2, <1>4
  <1>8. f \in OfType(a, "incomplete") <=> f \in KnowledgeIncomplete(input, Closures(input))
    BY <1>1, <1>2, <1>4
  <1>9. f \in OfType(a, "shared") <=> \E d \in Directions : \E n :
              At(input, d, n) # {} /\ SaysShared(input, d, n) /\ f = SharedAt(input, d, n)
    BY <1>5, SharedAre
  <1>10. f \in OfType(a, "common") <=> \E d \in Directions : \E n :
              /\ \E b \in Branches(input) : n \in ReachedFrom(Closure(input, b.artifact))
              /\ SaysCommon(input, d, n) /\ f = CommonAt(input, d, n)
    BY <1>6, CommonAre
  <1>11. f \in OfType(a, "none") <=> \E d \in Directions : \E b, c :
              SaysNone(input, d, b, c) /\ f = NoneOf(d, b, c)
    BY <1>7, NoneAre
  <1>12. f \in OfType(a, "incomplete") <=> \E b : SaysIncomplete(input, b) /\ f = IncompleteOf(input, b)
    BY <1>8, IncompleteAre
  <1>. QED BY <1>9, <1>10, <1>11, <1>12

-----------------------------------------------------------------------------
(* The tables of an analysis                                               *)

\* A common upstream is said of a version.
CommonIs(input, d, n) ==
  /\ d \in Directions /\ SaysCommon(input, d, n)
  /\ \E b \in Branches(input) : n \in ReachedFrom(Closure(input, b.artifact))

\* The row of a version on a witness, and of the statement that goes on from it.
RowOf(input, d, n, b, i) ==
  LET w == WitnessOf(input, b, n)
  IN  <<d, n, Key(b), i - 1, w.nodes[i], IF i \in DOMAIN w.steps THEN {w.steps[i]} ELSE {}>>

\* The tables of shared versions have the findings and their branches.
LEMMA SharedTables ==
  ASSUME NEW input, NEW a, a.findings = Findings(input), NEW x
  PROVE  /\ x \in Project(a).shared <=> \E d \in Directions : \E n :
              At(input, d, n) # {} /\ SaysShared(input, d, n) /\ x = <<d, n>>
         /\ x \in Project(a).sharedMembers <=> \E d \in Directions : \E n :
              SaysShared(input, d, n) /\ \E b \in At(input, d, n) : x = <<d, n, Key(b)>>
  <1>1. \A f : f \in OfType(a, "shared") <=> \E d \in Directions : \E n :
              At(input, d, n) # {} /\ SaysShared(input, d, n) /\ f = SharedAt(input, d, n)
    BY FindingsAre
  <1>2. \A d, n : /\ SharedAt(input, d, n).direction = d /\ SharedAt(input, d, n).at = n
                  /\ SharedAt(input, d, n).members = {Key(b) : b \in At(input, d, n)}
    BY DEF SharedAt
  <1>3. x \in Project(a).shared <=> \E f \in OfType(a, "shared") : x = <<f.direction, f.at>>
    BY DEF Project
  <1>4. x \in Project(a).sharedMembers <=>
          \E f \in OfType(a, "shared") : \E k \in f.members : x = <<f.direction, f.at, k>>
    BY DEF Project
  <1>5. x \in Project(a).shared <=> \E d \in Directions : \E n :
              At(input, d, n) # {} /\ SaysShared(input, d, n) /\ x = <<d, n>>
    BY <1>1, <1>2, <1>3
  <1>6. x \in Project(a).sharedMembers <=> \E d \in Directions : \E n :
              SaysShared(input, d, n) /\ \E b \in At(input, d, n) : x = <<d, n, Key(b)>>
    <2>1. ASSUME x \in Project(a).sharedMembers
          PROVE  \E d \in Directions : \E n :
                   SaysShared(input, d, n) /\ \E b \in At(input, d, n) : x = <<d, n, Key(b)>>
      <3>1. PICK f \in OfType(a, "shared") : \E k \in f.members : x = <<f.direction, f.at, k>>
        BY <1>4, <2>1
      <3>2. PICK d \in Directions : \E n : SaysShared(input, d, n) /\ f = SharedAt(input, d, n)
        BY <1>1
      <3>3. PICK n : SaysShared(input, d, n) /\ f = SharedAt(input, d, n)
        BY <3>2
      <3>4. f.direction = d /\ f.at = n /\ f.members = {Key(b) : b \in At(input, d, n)}
        BY <1>2, <3>3
      <3>5. \E b \in At(input, d, n) : x = <<d, n, Key(b)>>
        BY <3>1, <3>4
      <3>. QED BY <3>3, <3>5
    <2>2. ASSUME NEW d \in Directions, NEW n, SaysShared(input, d, n),
                 NEW b \in At(input, d, n), x = <<d, n, Key(b)>>
          PROVE  x \in Project(a).sharedMembers
      <3>1. SharedAt(input, d, n) \in OfType(a, "shared")
        BY <1>1, <2>2
      <3>2. Key(b) \in SharedAt(input, d, n).members
        BY <1>2
      <3>. QED BY <1>2, <1>4, <2>2, <3>1, <3>2
    <2>. QED BY <2>1, <2>2
  <1>. QED BY <1>5, <1>6

\* The tables of common upstreams have the findings, their branches and the rows
\* of their witnesses.
LEMMA CommonTables ==
  ASSUME NEW input, IsSelection(input), NEW a, a.findings = Findings(input), NEW x
  PROVE  /\ x \in Project(a).common <=> \E d, n : CommonIs(input, d, n) /\ x = <<d, n>>
         /\ x \in Project(a).commonMembers <=> \E d, n : CommonIs(input, d, n)
              /\ \E b \in Reaching(input, d, n) : x = <<d, n, Key(b)>>
         /\ x \in Project(a).steps <=> \E d, n : CommonIs(input, d, n)
              /\ \E b \in Reaching(input, d, n) : \E i \in DOMAIN WitnessOf(input, b, n).nodes :
                   x = RowOf(input, d, n, b, i)
  <1>1. \A f : f \in OfType(a, "common") <=> \E d, n : CommonIs(input, d, n) /\ f = CommonAt(input, d, n)
    BY FindingsAre DEF CommonIs
  <1>2. \A d, n : /\ CommonAt(input, d, n).direction = d /\ CommonAt(input, d, n).at = n
                  /\ CommonAt(input, d, n).members = MembersOf(input, d, n)
    BY DEF CommonAt
  <1>3. /\ x \in Project(a).common <=> \E f \in OfType(a, "common") : x = <<f.direction, f.at>>
        /\ x \in Project(a).commonMembers <=>
             \E f \in OfType(a, "common") : \E m \in f.members : x = <<f.direction, f.at, m.key>>
        /\ x \in Project(a).steps <=> \E f \in OfType(a, "common") : x \in StepRows(f)
    BY DEF Project
  <1>4. \A f : x \in StepRows(f) <=> \E m \in f.members : \E i \in DOMAIN m.nodes :
          x = <<f.direction, f.at, m.key, i - 1, m.nodes[i],
                IF i \in DOMAIN m.steps THEN {m.steps[i]} ELSE {}>>
    BY DEF StepRows
  <1>5. \A d, n : \A m : m \in MembersOf(input, d, n) <=>
          \E b \in Reaching(input, d, n) : m = MemberOf(input, b, n)
    BY MembersAre
  <1>6. \A b, n : /\ MemberOf(input, b, n).key = Key(b)
                  /\ MemberOf(input, b, n).nodes = WitnessOf(input, b, n).nodes
                  /\ MemberOf(input, b, n).steps = WitnessOf(input, b, n).steps
    BY DEF MemberOf
  <1>7. x \in Project(a).common <=> \E d, n : CommonIs(input, d, n) /\ x = <<d, n>>
    BY <1>1, <1>2, <1>3
  <1>8. x \in Project(a).commonMembers <=> \E d, n : CommonIs(input, d, n)
              /\ \E b \in Reaching(input, d, n) : x = <<d, n, Key(b)>>
    <2>1. x \in Project(a).commonMembers <=> \E d, n : CommonIs(input, d, n)
              /\ \E m \in MembersOf(input, d, n) : x = <<d, n, m.key>>
      BY <1>1, <1>2, <1>3
    <2>. QED BY <2>1, <1>5, <1>6
  <1>9. x \in Project(a).steps <=> \E d, n : CommonIs(input, d, n)
              /\ \E b \in Reaching(input, d, n) : \E i \in DOMAIN WitnessOf(input, b, n).nodes :
                   x = RowOf(input, d, n, b, i)
    <2>1. x \in Project(a).steps <=> \E d, n : CommonIs(input, d, n) /\ x \in StepRows(CommonAt(input, d, n))
      BY <1>1, <1>3
    <2>2. \A d, n : x \in StepRows(CommonAt(input, d, n)) <=>
            \E m \in MembersOf(input, d, n) : \E i \in DOMAIN m.nodes :
              x = <<d, n, m.key, i - 1, m.nodes[i], IF i \in DOMAIN m.steps THEN {m.steps[i]} ELSE {}>>
      BY <1>2, <1>4
    <2>3. ASSUME NEW d, NEW n
          PROVE  x \in StepRows(CommonAt(input, d, n)) <=>
                   \E b \in Reaching(input, d, n) : \E i \in DOMAIN WitnessOf(input, b, n).nodes :
                     x = RowOf(input, d, n, b, i)
      <3>1. \A b \in Reaching(input, d, n) : \A i :
              RowOf(input, d, n, b, i) =
                <<d, n, MemberOf(input, b, n).key, i - 1, MemberOf(input, b, n).nodes[i],
                  IF i \in DOMAIN MemberOf(input, b, n).steps THEN {MemberOf(input, b, n).steps[i]} ELSE {}>>
        BY <1>6 DEF RowOf
      <3>2. \A b \in Reaching(input, d, n) : MemberOf(input, b, n) \in MembersOf(input, d, n)
        BY <1>5
      <3>3. ASSUME NEW m \in MembersOf(input, d, n), NEW i \in DOMAIN m.nodes,
                   x = <<d, n, m.key, i - 1, m.nodes[i], IF i \in DOMAIN m.steps THEN {m.steps[i]} ELSE {}>>
            PROVE  \E b \in Reaching(input, d, n) : \E j \in DOMAIN WitnessOf(input, b, n).nodes :
                     x = RowOf(input, d, n, b, j)
        <4>1. PICK b \in Reaching(input, d, n) : m = MemberOf(input, b, n)
          BY <1>5
        <4>2. x = RowOf(input, d, n, b, i) /\ i \in DOMAIN WitnessOf(input, b, n).nodes
          BY <1>6, <3>1, <3>3, <4>1
        <4>. QED BY <4>2
      <3>4. ASSUME NEW b \in Reaching(input, d, n), NEW i \in DOMAIN WitnessOf(input, b, n).nodes,
                   x = RowOf(input, d, n, b, i)
            PROVE  \E m \in MembersOf(input, d, n) : \E j \in DOMAIN m.nodes :
                     x = <<d, n, m.key, j - 1, m.nodes[j], IF j \in DOMAIN m.steps THEN {m.steps[j]} ELSE {}>>
        <4>1. i \in DOMAIN MemberOf(input, b, n).nodes
          BY <1>6
        <4>. QED BY <3>1, <3>2, <3>4, <4>1
      <3>. QED BY <2>2, <3>3, <3>4
    <2>. QED BY <2>1, <2>3
  <1>. QED BY <1>7, <1>8, <1>9

\* The tables of the other findings have them, and what they are about.
LEMMA OtherTables ==
  ASSUME NEW input, NEW a, a.findings = Findings(input), NEW x
  PROVE  /\ x \in Project(a).none <=> \E d \in Directions : \E b, c :
              SaysNone(input, d, b, c) /\ x = <<d, Key(b), Key(c)>>
         /\ x \in Project(a).incomplete <=> \E b : SaysIncomplete(input, b) /\ x = Key(b)
         /\ x \in Project(a).affected <=> \E b : SaysIncomplete(input, b)
              /\ \E n \in {s.subject : s \in KnownOf(input, b)} \cup DerivedOf(input, b) : x = <<Key(b), n>>
         /\ x \in Project(a).known <=> \E b : SaysIncomplete(input, b)
              /\ \E s \in KnownOf(input, b) : x = <<Key(b), s.id>>
         /\ x \in Project(a).derived <=> \E b : SaysIncomplete(input, b)
              /\ \E n \in DerivedOf(input, b) : x = <<Key(b), n>>
  <1>1. \A f : f \in OfType(a, "none") <=> \E d \in Directions : \E b, c :
              SaysNone(input, d, b, c) /\ f = NoneOf(d, b, c)
    BY FindingsAre
  <1>2. \A f : f \in OfType(a, "incomplete") <=> \E b : SaysIncomplete(input, b) /\ f = IncompleteOf(input, b)
    BY FindingsAre
  <1>3. \A d, b, c : /\ NoneOf(d, b, c).direction = d /\ NoneOf(d, b, c).lower = Key(b)
                     /\ NoneOf(d, b, c).upper = Key(c)
    BY DEF NoneOf
  <1>4. \A b : /\ IncompleteOf(input, b).key = Key(b)
               /\ IncompleteOf(input, b).affected = {s.subject : s \in KnownOf(input, b)} \cup DerivedOf(input, b)
               /\ IncompleteOf(input, b).statements = {s.id : s \in KnownOf(input, b)}
               /\ IncompleteOf(input, b).derived = DerivedOf(input, b)
    BY DEF IncompleteOf
  <1>5. /\ x \in Project(a).none <=> \E f \in OfType(a, "none") : x = <<f.direction, f.lower, f.upper>>
        /\ x \in Project(a).incomplete <=> \E f \in OfType(a, "incomplete") : x = f.key
        /\ x \in Project(a).affected <=> \E f \in OfType(a, "incomplete") : \E n \in f.affected : x = <<f.key, n>>
        /\ x \in Project(a).known <=> \E f \in OfType(a, "incomplete") : \E n \in f.statements : x = <<f.key, n>>
        /\ x \in Project(a).derived <=> \E f \in OfType(a, "incomplete") : \E n \in f.derived : x = <<f.key, n>>
    BY DEF Project
  <1>6. x \in Project(a).none <=> \E d \in Directions : \E b, c :
              SaysNone(input, d, b, c) /\ x = <<d, Key(b), Key(c)>>
    BY <1>1, <1>3, <1>5
  <1>7. x \in Project(a).incomplete <=> \E b : SaysIncomplete(input, b) /\ x = Key(b)
    BY <1>2, <1>4, <1>5
  <1>8. x \in Project(a).affected <=> \E b : SaysIncomplete(input, b)
              /\ \E n \in {s.subject : s \in KnownOf(input, b)} \cup DerivedOf(input, b) : x = <<Key(b), n>>
    BY <1>2, <1>4, <1>5
  <1>9. x \in Project(a).known <=> \E b : SaysIncomplete(input, b)
              /\ \E n \in {s.id : s \in KnownOf(input, b)} : x = <<Key(b), n>>
    BY <1>2, <1>4, <1>5
  <1>10. x \in Project(a).derived <=> \E b : SaysIncomplete(input, b)
              /\ \E n \in DerivedOf(input, b) : x = <<Key(b), n>>
    BY <1>2, <1>4, <1>5
  <1>11. (\E b : SaysIncomplete(input, b) /\ \E n \in {s.id : s \in KnownOf(input, b)} : x = <<Key(b), n>>)
           <=> \E b : SaysIncomplete(input, b) /\ \E s \in KnownOf(input, b) : x = <<Key(b), s.id>>
    OBVIOUS
  <1>. QED BY <1>6, <1>7, <1>8, <1>9, <1>10, <1>11

\* a is the analysis of the selection input, as far as the trigger looks at it.
Analysed(a, input) ==
  /\ IsSelection(input) /\ a.findings = Findings(input) /\ a.claim = input.claim
  /\ a.relations = input.relations /\ a.bindings = input.bindings
  /\ a.policy = input.policy /\ a.snapshotId = input.snapshotId /\ a.snapshot = input.snapshot

\* The trigger finds the branch of a key, and its direction.
LEMMA AnalysedBranch ==
  ASSUME NEW input, NEW a, Analysed(a, input), NEW d, NEW b \in Partition(input, d)
  PROVE  BindingAt(a, Key(b)) = b /\ DirectionAt(a, Key(b)) = d
  <1>1. BindingAt(input, Key(b)) = b /\ DirectionAt(input, Key(b)) = d
    BY BranchFacts DEF Analysed
  <1>. QED BY <1>1 DEF Analysed, BindingAt, DirectionAt

\* The trigger accepts the rows of a shared version.
LEMMA SharedRowsHold ==
  ASSUME NEW input, NEW a, Analysed(a, input), NEW f \in Project(a).shared
  PROVE  SharedHolds(Project(a), a, f)
  <1>. DEFINE members == {m \in Project(a).sharedMembers : m[1] = f[1] /\ m[2] = f[2]}
  <1>1. IsSelection(input) /\ a.findings = Findings(input)
    BY DEF Analysed
  <1>2. PICK d \in Directions : \E n : SaysShared(input, d, n) /\ f = <<d, n>>
    BY <1>1, SharedTables
  <1>3. PICK n : SaysShared(input, d, n) /\ f = <<d, n>>
    BY <1>2
  <1>4. f[1] = d /\ f[2] = n
    BY <1>3
  <1>5. \A x : x \in members <=> \E b \in At(input, d, n) : x = <<d, n, Key(b)>>
    <2>1. ASSUME NEW x \in members PROVE \E b \in At(input, d, n) : x = <<d, n, Key(b)>>
      <3>1. x \in Project(a).sharedMembers /\ x[1] = d /\ x[2] = n
        BY <1>4
      <3>2. PICK e \in Directions : \E k : SaysShared(input, e, k) /\ \E b \in At(input, e, k) : x = <<e, k, Key(b)>>
        BY <1>1, <3>1, SharedTables
      <3>3. PICK k : SaysShared(input, e, k) /\ \E b \in At(input, e, k) : x = <<e, k, Key(b)>>
        BY <3>2
      <3>4. e = d /\ k = n
        BY <3>1, <3>3
      <3>. QED BY <3>3, <3>4
    <2>2. ASSUME NEW b \in At(input, d, n), NEW x, x = <<d, n, Key(b)>> PROVE x \in members
      <3>1. x \in Project(a).sharedMembers
        BY <1>1, <1>3, <2>2, SharedTables
      <3>2. x[1] = d /\ x[2] = n
        BY <2>2
      <3>. QED BY <1>4, <3>1, <3>2
    <2>. QED BY <2>1, <2>2
  <1>6. \A b \in At(input, d, n) : b \in Partition(input, d) /\ b.artifact = n /\ b \in input.bindings
    BY <1>1, MembersOfBindings DEF At
  <1>. HIDE DEF members
  <1>7. \A m \in members : BindingAt(a, m[3]).artifact = f[2] /\ DirectionAt(a, m[3]) = f[1]
    <2>. SUFFICES ASSUME NEW m \in members
                  PROVE  BindingAt(a, m[3]).artifact = f[2] /\ DirectionAt(a, m[3]) = f[1]
      OBVIOUS
    <2>1. PICK b \in At(input, d, n) : m = <<d, n, Key(b)>>
      BY <1>5
    <2>2. m[3] = Key(b)
      BY <2>1
    <2>. QED BY <1>4, <1>6, <2>2, AnalysedBranch
  <1>8. IsFiniteSet(members)
    <2>. DEFINE A == At(input, d, n)
                g == [b \in A |-> <<d, n, Key(b)>>]
    <2>1. IsFiniteSet(A)
      BY <1>1, MembersOfBindings
    <2>. HIDE DEF A
    <2>2. g \in Surjection(A, members)
      BY <1>5 DEF Surjection, A
    <2>. QED BY <2>1, <2>2, FS_Surjection
  <1>9. PICK b \in At(input, d, n), c \in At(input, d, n) : b # c
    <2>1. IsFiniteSet(At(input, d, n)) /\ Cardinality(At(input, d, n)) >= 2
      BY <1>1, <1>3, MembersOfBindings DEF SaysShared
    <2>. QED BY <2>1, TwoOf
  <1>10. <<d, n, Key(b)>> # <<d, n, Key(c)>>
    <2>1. Key(b) # Key(c)
      BY <1>1, <1>6, <1>9, SelectionFacts
    <2>. QED BY <2>1
  <1>11. Cardinality(members) >= 2
    BY <1>5, <1>8, <1>10, TwoOf
  <1>. QED BY <1>7, <1>11 DEF SharedHolds, members

\* The rows of a finding of a common upstream, and those of one of its witnesses.
LEMMA CommonRows ==
  ASSUME NEW input, NEW a, Analysed(a, input), NEW d, NEW n, CommonIs(input, d, n)
  PROVE  /\ \A x : x \in {m \in Project(a).commonMembers : m[1] = d /\ m[2] = n} <=>
              \E b \in Reaching(input, d, n) : x = <<d, n, Key(b)>>
         /\ \A b \in Reaching(input, d, n) : \A x :
              x \in {s \in Project(a).steps : s[1] = d /\ s[2] = n /\ s[3] = Key(b)} <=>
                \E i \in DOMAIN WitnessOf(input, b, n).nodes : x = RowOf(input, d, n, b, i)
  <1>1. IsSelection(input) /\ a.findings = Findings(input)
    BY DEF Analysed
  <1>2. ASSUME NEW x \in Project(a).commonMembers, x[1] = d, x[2] = n
        PROVE  \E b \in Reaching(input, d, n) : x = <<d, n, Key(b)>>
    <2>1. PICK e, k : CommonIs(input, e, k) /\ \E b \in Reaching(input, e, k) : x = <<e, k, Key(b)>>
      BY <1>1, CommonTables
    <2>2. e = d /\ k = n
      BY <1>2, <2>1
    <2>. QED BY <2>1, <2>2
  <1>3. ASSUME NEW b \in Reaching(input, d, n)
        PROVE  /\ <<d, n, Key(b)>> \in Project(a).commonMembers
               /\ <<d, n, Key(b)>>[1] = d /\ <<d, n, Key(b)>>[2] = n
    BY <1>1, CommonTables
  <1>4. ASSUME NEW b \in Reaching(input, d, n), NEW x \in Project(a).steps,
               x[1] = d, x[2] = n, x[3] = Key(b)
        PROVE  \E i \in DOMAIN WitnessOf(input, b, n).nodes : x = RowOf(input, d, n, b, i)
    <2>1. PICK e, k : CommonIs(input, e, k) /\ \E c \in Reaching(input, e, k) :
                        \E i \in DOMAIN WitnessOf(input, c, k).nodes : x = RowOf(input, e, k, c, i)
      BY <1>1, CommonTables
    <2>2. PICK c \in Reaching(input, e, k) :
                 \E i \in DOMAIN WitnessOf(input, c, k).nodes : x = RowOf(input, e, k, c, i)
      BY <2>1
    <2>3. PICK i \in DOMAIN WitnessOf(input, c, k).nodes : x = RowOf(input, e, k, c, i)
      BY <2>2
    <2>4. x[1] = e /\ x[2] = k /\ x[3] = Key(c)
      BY <2>3 DEF RowOf
    <2>5. e = d /\ k = n /\ Key(c) = Key(b)
      BY <1>4, <2>4
    <2>6. c = b
      BY <1>1, <2>5, MembersAre
    <2>. QED BY <2>3, <2>5, <2>6
  <1>5. ASSUME NEW b \in Reaching(input, d, n), NEW i \in DOMAIN WitnessOf(input, b, n).nodes
        PROVE  /\ RowOf(input, d, n, b, i) \in Project(a).steps
               /\ RowOf(input, d, n, b, i)[1] = d /\ RowOf(input, d, n, b, i)[2] = n
               /\ RowOf(input, d, n, b, i)[3] = Key(b)
    <2>1. RowOf(input, d, n, b, i) \in Project(a).steps
      BY <1>1, CommonTables
    <2>. QED BY <2>1 DEF RowOf
  <1>. QED BY <1>2, <1>3, <1>4, <1>5

\* The trigger accepts the rows of a common upstream.
LEMMA CommonRowsHold ==
  ASSUME NEW input, NEW a, Analysed(a, input), NEW f \in Project(a).common
  PROVE  CommonUpstreamHolds(Project(a), a, f)
  <1>. DEFINE members == {m \in Project(a).commonMembers : m[1] = f[1] /\ m[2] = f[2]}
  <1>1. IsSelection(input) /\ a.findings = Findings(input)
    BY DEF Analysed
  <1>2. PICK d, n : CommonIs(input, d, n) /\ f = <<d, n>>
    BY <1>1, CommonTables
  <1>3. f[1] = d /\ f[2] = n
    BY <1>2
  <1>4. \A x : x \in members <=> \E b \in Reaching(input, d, n) : x = <<d, n, Key(b)>>
    BY <1>2, <1>3, CommonRows
  <1>. HIDE DEF members
  <1>5. \A m \in members : DirectionAt(a, m[3]) = f[1]
    <2>. SUFFICES ASSUME NEW m \in members PROVE DirectionAt(a, m[3]) = f[1]
      OBVIOUS
    <2>1. PICK b \in Reaching(input, d, n) : m = <<d, n, Key(b)>>
      BY <1>4
    <2>2. m[3] = Key(b) /\ b \in Partition(input, d)
      BY <1>1, <2>1, MembersAre
    <2>. QED BY <1>3, <2>2, AnalysedBranch
  <1>6. SaysCommon(input, d, n)
    BY <1>2 DEF CommonIs
  <1>7. Cardinality(members) >= 2
    <2>1. PICK m \in MembersOf(input, d, n), k \in MembersOf(input, d, n) : m # k
      BY <1>1, <1>6, MembersOfBindings, TwoOf DEF SaysCommon
    <2>2. PICK b \in Reaching(input, d, n) : m = MemberOf(input, b, n)
      BY <1>1, MembersAre
    <2>3. PICK c \in Reaching(input, d, n) : k = MemberOf(input, c, n)
      BY <1>1, MembersAre
    <2>4. Key(b) # Key(c)
      BY <1>1, <2>1, <2>2, <2>3, MembersAre
    <2>5. <<d, n, Key(b)>> \in members /\ <<d, n, Key(c)>> \in members /\ <<d, n, Key(b)>> # <<d, n, Key(c)>>
      BY <1>4, <2>4
    <2>6. IsFiniteSet(members)
      <3>. DEFINE M == MembersOf(input, d, n)
                  g == [x \in M |-> <<d, n, x.key>>]
      <3>1. IsFiniteSet(M)
        BY <1>1, MembersOfBindings
      <3>2. \A x : x \in members <=> \E y \in M : x = <<d, n, y.key>>
        BY <1>1, <1>4, MembersAre
      <3>. HIDE DEF M
      <3>3. g \in Surjection(M, members)
        BY <3>2 DEF Surjection
      <3>. QED BY <3>1, <3>3, FS_Surjection
    <2>. QED BY <2>5, <2>6, TwoOf
  <1>8. \E s \in Project(a).steps : s[1] = f[1] /\ s[2] = f[2] /\ s[4] > 0
    <2>1. PICK m \in MembersOf(input, d, n) : m.steps # <<>>
      BY <1>6 DEF SaysCommon
    <2>2. PICK b \in Reaching(input, d, n) : m = MemberOf(input, b, n)
      BY <1>1, MembersAre
    <2>. DEFINE w == WitnessOf(input, b, n)
                s == RowOf(input, d, n, b, 2)
    <2>3. w.steps # <<>>
      BY <2>1, <2>2 DEF MemberOf
    <2>4. IsPath(input, b.artifact, w)
      BY <1>1, WitnessIs
    <2>. HIDE DEF w
    <2>5. 2 \in DOMAIN w.nodes
      <3>1. w.steps \in Seq(Nat) /\ Len(w.nodes) = Len(w.steps) + 1 /\ w.nodes \in Seq(Versions(input))
        BY <2>4 DEF IsPath
      <3>2. Len(w.steps) \in Nat /\ Len(w.steps) # 0
        BY <2>3, <3>1
      <3>. QED BY <3>1, <3>2
    <2>6. s \in Project(a).steps
      BY <1>2, <2>5, CommonRows DEF w
    <2>7. s[1] = d /\ s[2] = n /\ s[4] = 1
      BY DEF RowOf
    <2>. HIDE DEF s
    <2>. QED BY <1>3, <2>6, <2>7
  <1>. QED BY <1>5, <1>7, <1>8 DEF CommonUpstreamHolds, members

\* What is numbered without repetition is as many.
LEMMA Counted ==
  ASSUME NEW N \in Nat, NEW T, NEW f \in [1..N -> T],
         \A t \in T : \E i \in 1..N : f[i] = t, \A i, j \in 1..N : f[i] = f[j] => i = j
  PROVE  Cardinality(T) = N
  <1>1. f \in Injection(1..N, T) /\ f \in Surjection(1..N, T)
    BY DEF Injection, Surjection, IsInjective
  <1>2. ExistsBijection(1..N, T)
    BY <1>1 DEF ExistsBijection, Bijection
  <1>. QED BY <1>2, FS_CountingElements

\* The rows of a witness are its path.
LEMMA WitnessRowsHold ==
  ASSUME NEW input, NEW a, Analysed(a, input), NEW rows, input.snapshot.rows \subseteq rows,
         NEW m \in Project(a).commonMembers
  PROVE  StepsHold(Project(a), a, rows, m)
  <1>1. IsSelection(input) /\ a.findings = Findings(input) /\ a.policy = input.policy
    BY DEF Analysed
  <1>2. PICK d, n : CommonIs(input, d, n) /\ \E b \in Reaching(input, d, n) : m = <<d, n, Key(b)>>
    BY <1>1, CommonTables
  <1>3. PICK b \in Reaching(input, d, n) : m = <<d, n, Key(b)>>
    BY <1>2
  <1>. DEFINE w == WitnessOf(input, b, n)
              N == Len(w.nodes)
              R(i) == RowOf(input, d, n, b, i)
              path == {s \in Project(a).steps : s[1] = m[1] /\ s[2] = m[2] /\ s[3] = m[3]}
              last == Cardinality(path) - 1
              At2(i) == CHOOSE s \in path : s[4] = i
  <1>4. /\ m[1] = d /\ m[2] = n /\ m[3] = Key(b)
        /\ IsPath(input, b.artifact, w) /\ End(w) = n /\ b \in Partition(input, d)
    BY <1>1, <1>3, WitnessIs, MembersAre
  <1>5. /\ N \in Nat /\ N >= 1 /\ DOMAIN w.nodes = 1..N /\ DOMAIN w.steps = 1..(N - 1)
        /\ Len(w.steps) = N - 1 /\ End(w) = w.nodes[N] /\ w.nodes[1] = b.artifact
        /\ \A i, j \in 1..N : w.nodes[i] = w.nodes[j] => i = j
    <2>. HIDE DEF w
    <2>1. Len(w.steps) \in Nat /\ N = Len(w.steps) + 1 /\ w.nodes \in Seq(Versions(input))
          /\ w.steps \in Seq(Nat)
      BY <1>4 DEF IsPath
    <2>2. End(w) = w.nodes[N]
      BY <1>4, PathFacts
    <2>3. w.nodes[1] = b.artifact /\ \A i, j \in 1..N : w.nodes[i] = w.nodes[j] => i = j
      BY <1>4 DEF IsPath
    <2>4. N \in Nat /\ N >= 1 /\ Len(w.steps) = N - 1
      BY <2>1
    <2>. QED BY <2>1, <2>2, <2>3, <2>4
  <1>6. \A x : x \in path <=> \E i \in 1..N : x = R(i)
    BY <1>2, <1>3, <1>4, <1>5, CommonRows
  <1>7. \A i : /\ R(i)[4] = i - 1 /\ R(i)[5] = w.nodes[i]
               /\ R(i)[6] = IF i \in 1..(N - 1) THEN {w.steps[i]} ELSE {}
    BY <1>5 DEF RowOf
  <1>. HIDE DEF w, N, R, path
  <1>8. \A i \in 1..N : R(i) \in path /\ R(i)[4] = i - 1
    BY <1>6, <1>7
  <1>9. \A i, j \in 1..N : R(i)[4] = R(j)[4] => i = j
    BY <1>5, <1>8
  <1>10. Cardinality(path) = N
    <2>. DEFINE f == [i \in 1..N |-> R(i)]
    <2>1. f \in [1..N -> path] /\ \A x \in path : \E i \in 1..N : f[i] = x
      BY <1>6
    <2>2. \A i, j \in 1..N : f[i] = f[j] => i = j
      BY <1>9
    <2>. HIDE DEF f
    <2>. QED BY <1>5, <2>1, <2>2, Counted
  <1>11. last = N - 1 /\ last \in Nat
    BY <1>5, <1>10
  <1>12. Cardinality({s[5] : s \in path}) = N
    <2>. DEFINE f == [i \in 1..N |-> w.nodes[i]]
                T == {s[5] : s \in path}
    <2>1. \A x : x \in T <=> \E i \in 1..N : x = w.nodes[i]
      BY <1>6, <1>7
    <2>. HIDE DEF T
    <2>2. f \in [1..N -> T] /\ \A x \in T : \E i \in 1..N : f[i] = x
      BY <2>1
    <2>3. \A i, j \in 1..N : f[i] = f[j] => i = j
      BY <1>5
    <2>. HIDE DEF f
    <2>4. Cardinality(T) = N
      BY <1>5, <2>2, <2>3, Counted
    <2>. QED BY <2>4 DEF T
  <1>13. ASSUME NEW i \in 0..last PROVE At2(i) = R(i + 1) /\ i + 1 \in 1..N
    <2>1. i + 1 \in 1..N /\ (i + 1) - 1 = i
      BY <1>5, <1>11
    <2>2. R(i + 1) \in path /\ R(i + 1)[4] = i
      BY <1>8, <2>1
    <2>3. \A s \in path : s[4] = i => s = R(i + 1)
      BY <1>6, <1>9, <2>1, <2>2
    <2>. QED BY <2>1, <2>2, <2>3
  <1>14. path # {} /\ {s[4] : s \in path} = 0..last
    <2>1. R(1) \in path
      BY <1>5, <1>8
    <2>2. ASSUME NEW s \in path PROVE s[4] \in 0..last
      <3>1. PICK i \in 1..N : s = R(i)
        BY <1>6
      <3>2. s[4] = i - 1
        BY <1>7, <3>1
      <3>. QED BY <1>5, <1>11, <3>2
    <2>3. ASSUME NEW i \in 0..last PROVE \E s \in path : s[4] = i
      <3>1. i + 1 \in 1..N /\ (i + 1) - 1 = i
        BY <1>5, <1>11
      <3>. QED BY <1>8, <3>1
    <2>. HIDE DEF last
    <2>. QED BY <2>1, <2>2, <2>3
  <1>15. \A s \in path : s[6] = {} <=> s[4] = last
    <2>. SUFFICES ASSUME NEW s \in path PROVE s[6] = {} <=> s[4] = last
      OBVIOUS
    <2>1. PICK i \in 1..N : s = R(i)
      BY <1>6
    <2>2. s[4] = i - 1 /\ s[6] = IF i \in 1..(N - 1) THEN {w.steps[i]} ELSE {}
      BY <1>7, <2>1
    <2>3. i \in 1..(N - 1) <=> i - 1 # last
      BY <1>5, <1>11
    <2>4. s[6] = {} <=> ~(i \in 1..(N - 1))
      BY ONLY <2>2
    <2>. HIDE DEF last
    <2>. QED BY ONLY <2>2, <2>3, <2>4
  <1>16. At2(0)[5] = BindingAt(a, m[3]).artifact /\ At2(last)[5] = m[2]
    <2>1. 0 \in 0..last /\ last \in 0..last /\ last + 1 = N /\ 0 + 1 = 1
      <3>1. N \in Nat
        BY <1>5
      <3>. HIDE DEF last
      <3>. QED BY ONLY <1>11, <3>1
    <2>2. At2(0)[5] = w.nodes[1] /\ At2(last)[5] = w.nodes[N]
      <3>1. At2(0) = R(1) /\ At2(last) = R(N)
        <4>. HIDE DEF At2, last
        <4>. QED BY <1>13, <2>1
      <3>. HIDE DEF At2, last
      <3>. QED BY <1>7, <3>1
    <2>3. BindingAt(a, m[3]) = b
      BY <1>4, AnalysedBranch
    <2>. HIDE DEF At2, last
    <2>. QED BY <1>4, <1>5, <2>2, <2>3
  <1>17. ASSUME NEW i \in 0..(last - 1)
         PROVE  \E r \in Of(rows, "provenance") :
                  /\ {r.id} = At2(i)[6] /\ r.subject = At2(i)[5] /\ r.object = At2(i + 1)[5]
                  /\ r.relation \in a.policy.enabled
    <2>1. /\ i \in 0..last /\ i + 1 \in 0..last /\ i + 1 \in 1..(N - 1) /\ i + 1 \in 1..Len(w.steps)
      BY <1>5, <1>11
    <2>2. At2(i) = R(i + 1) /\ At2(i + 1) = R((i + 1) + 1)
      <3>. HIDE DEF At2, last
      <3>. QED BY <1>13, <2>1
    <2>. HIDE DEF At2, last
    <2>3. At2(i)[6] = {w.steps[i + 1]} /\ At2(i)[5] = w.nodes[i + 1] /\ At2(i + 1)[5] = w.nodes[(i + 1) + 1]
      BY <1>7, <2>1, <2>2
    <2>4. PICK r \in Of(input.snapshot.rows, "provenance") :
            /\ r.id = w.steps[i + 1] /\ r.subject = w.nodes[i + 1] /\ r.object = w.nodes[(i + 1) + 1]
            /\ r.relation \in input.policy.enabled
      <3>1. IsSelection(input) /\ IsPath(input, b.artifact, w)
        BY <1>1, <1>4
      <3>2. \A j \in 1..Len(w.steps) : \E r \in Of(input.snapshot.rows, "provenance") :
              /\ r.id = w.steps[j] /\ r.subject = w.nodes[j] /\ r.object = w.nodes[j + 1]
              /\ r.relation \in input.policy.enabled
              /\ <<"provenance", "included", r.id>> \in input.snapshot.keys
        BY ONLY <3>1, StepsAreMembers
      <3>. QED BY <2>1, <3>2
    <2>5. r \in Of(rows, "provenance")
      BY <2>4 DEF Of
    <2>. QED BY <1>1, <2>3, <2>4, <2>5
  <1>18. Cardinality({s[5] : s \in path}) = Cardinality(path)
    BY <1>10, <1>12
  <1>. HIDE DEF At2, last
  <1>. QED BY <1>14, <1>15, <1>16, <1>17, <1>18 DEF StepsHold, At2, last, path

\* What a branch reaches is a version of the snapshot.
LEMMA ReachedInside ==
  ASSUME NEW input, IsSelection(input), NEW b \in Branches(input),
         NEW n \in ReachedFrom(Closure(input, b.artifact))
  PROVE  n \in Ids(input.snapshot.rows, "artifactVersion")
  <1>1. PICK w \in Closure(input, b.artifact) : End(w) = n
    BY DEF ReachedFrom
  <1>2. GraphTyped(input) /\ b.artifact \in Versions(input)
    <2>1. b \in Partition(input, RelationOf(input, b).direction)
      BY DEF Partition
    <2>. QED BY <2>1, BranchFacts, SelectionFacts
  <1>3. IsPath(input, b.artifact, w)
    BY <1>2, ClosureIs
  <1>4. End(w) = w.nodes[Len(w.nodes)] /\ Len(w.nodes) \in 1..Len(w.nodes)
    BY <1>3, PathFacts
  <1>5. \A i \in 1..Len(w.nodes) : w.nodes[i] \in Ids(input.snapshot.rows, "artifactVersion")
    BY <1>3, PathStaysInside
  <1>. QED BY <1>1, <1>4, <1>5

\* The statements of the knowledge that a branch lacks.
LEMMA KnownAre ==
  ASSUME NEW input, IsSelection(input), NEW b, NEW s \in KnownOf(input, b)
  PROVE  /\ s \in Of(input.snapshot.rows, "knowledge") /\ s.relation \in {"unknown", "partial"}
         /\ <<"knowledge", "included", s.id>> \in input.snapshot.keys
         /\ s.subject \in ReachedFrom(Closure(input, b.artifact))
  <1>1. /\ s \in Of(input.snapshot.rows, "knowledge") /\ s.relation \in {"unknown", "partial"}
        /\ s.subject \in ReachedFrom(Closure(input, b.artifact))
    BY DEF KnownOf
  <1>2. s \in input.snapshot.rows /\ s.family = "knowledge"
    BY <1>1 DEF Of
  <1>3. <<"knowledge", "included", s.id>> \in input.snapshot.keys
    BY <1>2, SelectionFacts
  <1>. QED BY <1>1, <1>3

\* The trigger accepts the tables of an analysis of stored rows.
LEMMA TriggerAccepts ==
  ASSUME NEW input, NEW a, Analysed(a, input), NEW rows, input.snapshot.rows \subseteq rows,
         \A r \in a.relations : \E s \in Of(rows, "relation") :
           s.id = r.id /\ s.subject = a.claim /\ s.object = r.evidence /\ s.relation = r.direction
  PROVE  TriggerHolds(Project(a), a, rows)
  <1>. DEFINE t == Project(a)
  <1>1. IsSelection(input) /\ a.findings = Findings(input)
    BY DEF Analysed
  <1>2. EveryRelationIsBound(a)
    BY <1>1, SelectionFacts DEF Analysed, EveryRelationIsBound
  <1>3. ASSUME NEW b \in a.bindings
        PROVE  \E s \in Of(rows, "binding") :
                 s.id = b.statement /\ s.subject = b.evidence /\ s.object = b.artifact
    <2>1. BranchHolds(input, b)
      BY <1>1, SelectionFacts DEF Analysed
    <2>. QED BY <2>1 DEF BranchHolds, Of
  <1>4. \A f \in t.shared : SharedHolds(t, a, f)
    BY SharedRowsHold
  <1>5. \A f \in t.common : CommonUpstreamHolds(t, a, f)
    BY CommonRowsHold
  <1>6. \A m \in t.commonMembers : StepsHold(t, a, rows, m)
    BY WitnessRowsHold
  <1>7. ASSUME NEW f \in t.none
        PROVE  /\ DirectionAt(a, f[2]) = f[1] /\ DirectionAt(a, f[3]) = f[1]
               /\ BindingAt(a, f[2]).artifact # BindingAt(a, f[3]).artifact
    <2>1. PICK d \in Directions : \E b, c : SaysNone(input, d, b, c) /\ f = <<d, Key(b), Key(c)>>
      BY <1>1, OtherTables
    <2>2. PICK b, c : SaysNone(input, d, b, c) /\ f = <<d, Key(b), Key(c)>>
      BY <2>1
    <2>3. /\ f[1] = d /\ f[2] = Key(b) /\ f[3] = Key(c) /\ b.artifact # c.artifact
          /\ b \in Partition(input, d) /\ c \in Partition(input, d)
      BY <2>2 DEF SaysNone
    <2>4. BindingAt(a, Key(b)) = b /\ DirectionAt(a, Key(b)) = d
      BY <2>3, AnalysedBranch
    <2>5. BindingAt(a, Key(c)) = c /\ DirectionAt(a, Key(c)) = d
      BY <2>3, AnalysedBranch
    <2>. QED BY <2>3, <2>4, <2>5
  <1>8. ASSUME NEW k \in t.incomplete PROVE \E e \in t.known \cup t.derived : e[1] = k
    <2>1. PICK b : SaysIncomplete(input, b) /\ k = Key(b)
      BY <1>1, OtherTables
    <2>2. CASE KnownOf(input, b) # {}
      <3>1. PICK s \in KnownOf(input, b) : TRUE
        BY <2>2
      <3>2. <<Key(b), s.id>> \in t.known
        BY <1>1, <2>1, OtherTables
      <3>. HIDE DEF t
      <3>. QED BY <2>1, <3>2
    <2>3. CASE DerivedOf(input, b) # {}
      <3>1. PICK n \in DerivedOf(input, b) : TRUE
        BY <2>3
      <3>2. <<Key(b), n>> \in t.derived
        BY <1>1, <2>1, OtherTables
      <3>. HIDE DEF t
      <3>. QED BY <2>1, <3>2
    <2>. QED BY <2>1, <2>2, <2>3 DEF SaysIncomplete
  <1>9. ASSUME NEW e \in t.known
        PROVE  \E s \in Of(rows, "knowledge") : s.id = e[2] /\ s.relation \in {"unknown", "partial"}
    <2>1. PICK b : SaysIncomplete(input, b) /\ \E s \in KnownOf(input, b) : e = <<Key(b), s.id>>
      BY <1>1, OtherTables
    <2>2. PICK s \in KnownOf(input, b) : e = <<Key(b), s.id>>
      BY <2>1
    <2>3. s \in Of(input.snapshot.rows, "knowledge") /\ s.relation \in {"unknown", "partial"} /\ e[2] = s.id
      BY <1>1, <2>2, KnownAre
    <2>. QED BY <2>3 DEF Of
  <1>. QED BY <1>2, <1>3, <1>4, <1>5, <1>6, <1>7, <1>8, <1>9 DEF TriggerHolds

\* Its rows are found by the locks.
LEMMA TargetsAreFound ==
  ASSUME NEW input, NEW a, Analysed(a, input), NEW v, ReferencesHold(v.rows), input.snapshot.rows \subseteq v.rows,
         NEW k \in v.snapshots, k.id = a.snapshotId, k.snapshot = a.snapshot,
         k.members = k.snapshot.keys, a.policy \in Analytic,
         \A r \in a.relations : \E s \in Of(v.rows, "relation") :
           s.id = r.id /\ s.subject = a.claim /\ s.object = r.evidence /\ s.relation = r.direction
  PROVE  TargetsHold(a, Project(a), v)
  <1>. DEFINE t == Project(a)
              kept == {x \in v.snapshots : x.id = a.snapshotId}
              members(family) == {m[3] : m \in {q \in UNION {s.members : s \in kept} : q[1] = family}}
              statements == UNION {s[6] : s \in t.steps}
              known == {e[2] : e \in t.known}
              versions == {b.artifact : b \in a.bindings} \cup {f[2] : f \in t.shared \cup t.common}
                    \cup {s[5] : s \in t.steps} \cup {e[2] : e \in t.affected \cup t.derived}
              V == Ids(v.rows, "artifactVersion")
  <1>1. IsSelection(input) /\ a.findings = Findings(input) /\ a.bindings = input.bindings
        /\ a.snapshot = input.snapshot /\ a.relations = input.relations /\ a.claim = input.claim
    BY DEF Analysed
  <1>2. Ids(input.snapshot.rows, "artifactVersion") \subseteq V
    BY DEF Ids, Of
  <1>3. SelectionHolds(a, v)
    <2>1. \A s \in Of(v.rows, "relation") :
            s.subject \in Ids(v.rows, "claim") /\ s.object \in Ids(v.rows, "evidence")
      <3>. SUFFICES ASSUME NEW s \in Of(v.rows, "relation")
                    PROVE  s.subject \in Ids(v.rows, "claim") /\ s.object \in Ids(v.rows, "evidence")
        OBVIOUS
      <3>1. s \in v.rows /\ s.family = "relation"
        BY DEF Of
      <3>2. References(s) = {<<"claim", s.subject>>, <<"evidence", s.object>>}
        BY <3>1 DEF References
      <3>3. /\ <<"claim", s.subject>> \in {<<x.family, x.id>> : x \in v.rows}
            /\ <<"evidence", s.object>> \in {<<x.family, x.id>> : x \in v.rows}
        BY <3>1, <3>2 DEF ReferencesHold
      <3>4. PICK x \in v.rows : <<"claim", s.subject>> = <<x.family, x.id>>
        BY <3>3
      <3>5. PICK y \in v.rows : <<"evidence", s.object>> = <<y.family, y.id>>
        BY <3>3
      <3>. QED BY <3>4, <3>5 DEF Ids, Of
    <2>2. \E r \in a.relations : TRUE
      BY <1>1, SelectionFacts
    <2>3. a.claim \in Ids(v.rows, "claim")
      BY <2>1, <2>2
    <2>4. {r.evidence : r \in a.relations} \subseteq Ids(v.rows, "evidence")
      BY <2>1
    <2>. QED BY <2>3, <2>4 DEF SelectionHolds
  <1>4. SnapshotBound(a, v)
    BY DEF SnapshotBound
  <1>5. \A b \in a.bindings : BranchHolds(input, b)
    BY <1>1, SelectionFacts
  <1>6. \A b \in a.bindings : \E s \in Of(v.rows, "binding") :
           s.id = b.statement /\ s.subject = b.evidence /\ s.object = b.artifact
    BY <1>5 DEF BranchHolds, Of
  <1>7. ASSUME NEW family, NEW id, <<family, "included", id>> \in input.snapshot.keys
        PROVE  id \in members(family)
    <2>1. k \in kept
      OBVIOUS
    <2>2. <<family, "included", id>> \in UNION {s.members : s \in kept}
      BY <1>1, <1>7, <2>1
    <2>3. <<family, "included", id>>[1] = family /\ <<family, "included", id>>[3] = id
      OBVIOUS
    <2>. HIDE DEF kept
    <2>. QED BY <2>2, <2>3
  <1>. HIDE DEF members
  <1>8. {b.statement : b \in a.bindings} \subseteq members("binding")
    BY <1>5, <1>7 DEF BranchHolds
  <1>9. ASSUME NEW x \in t.steps
        PROVE  /\ x[5] \in V
               /\ x[6] \subseteq Ids(v.rows, "provenance") \cap members("provenance")
    <2>1. PICK d, n : CommonIs(input, d, n) /\ \E b \in Reaching(input, d, n) :
                        \E i \in DOMAIN WitnessOf(input, b, n).nodes : x = RowOf(input, d, n, b, i)
      BY <1>1, CommonTables
    <2>2. PICK b \in Reaching(input, d, n) :
                 \E i \in DOMAIN WitnessOf(input, b, n).nodes : x = RowOf(input, d, n, b, i)
      BY <2>1
    <2>. DEFINE w == WitnessOf(input, b, n)
    <2>3. PICK i \in DOMAIN w.nodes : x = RowOf(input, d, n, b, i)
      BY <2>2
    <2>4. x[5] = w.nodes[i] /\ x[6] = IF i \in DOMAIN w.steps THEN {w.steps[i]} ELSE {}
      BY <2>3 DEF RowOf
    <2>5. IsPath(input, b.artifact, w) /\ b \in Branches(input)
      <3>1. b \in Partition(input, d)
        BY <1>1, MembersAre
      <3>. QED BY <1>1, <3>1, WitnessIs, BranchFacts
    <2>. HIDE DEF w
    <2>6. DOMAIN w.nodes = 1..Len(w.nodes) /\ DOMAIN w.steps = 1..Len(w.steps)
      BY <2>5, PathFacts
    <2>7. x[5] \in V
      <3>1. \A j \in 1..Len(w.nodes) : w.nodes[j] \in Ids(input.snapshot.rows, "artifactVersion")
        BY <1>1, <2>5, PathStaysInside
      <3>. HIDE DEF V
      <3>. QED BY <1>2, <2>3, <2>4, <2>6, <3>1
    <2>8. \A j \in 1..Len(w.steps) : \E r \in Of(input.snapshot.rows, "provenance") :
            /\ r.id = w.steps[j] /\ r.subject = w.nodes[j] /\ r.object = w.nodes[j + 1]
            /\ r.relation \in input.policy.enabled
            /\ <<"provenance", "included", r.id>> \in input.snapshot.keys
      BY <1>1, <2>5, StepsAreMembers
    <2>9. ASSUME NEW j \in DOMAIN w.steps
          PROVE  w.steps[j] \in Ids(v.rows, "provenance") \cap members("provenance")
      <3>1. PICK r \in Of(input.snapshot.rows, "provenance") :
              r.id = w.steps[j] /\ <<"provenance", "included", r.id>> \in input.snapshot.keys
        BY <2>6, <2>8
      <3>2. r.id \in Ids(v.rows, "provenance")
        BY DEF Ids, Of
      <3>. QED BY <1>7, <3>1, <3>2
    <2>. QED BY <2>4, <2>7, <2>9
  <1>10. statements \subseteq Ids(v.rows, "provenance") \cap members("provenance")
    BY <1>9
  <1>11. ASSUME NEW e \in t.known PROVE e[2] \in Ids(v.rows, "knowledge") \cap members("knowledge")
    <2>1. PICK b : SaysIncomplete(input, b) /\ \E s \in KnownOf(input, b) : e = <<Key(b), s.id>>
      BY <1>1, OtherTables
    <2>2. PICK s \in KnownOf(input, b) : e = <<Key(b), s.id>>
      BY <2>1
    <2>3. s \in Of(input.snapshot.rows, "knowledge") /\ e[2] = s.id
          /\ <<"knowledge", "included", s.id>> \in input.snapshot.keys
      BY <1>1, <2>2, KnownAre
    <2>4. s.id \in Ids(v.rows, "knowledge")
      BY <2>3 DEF Ids, Of
    <2>. QED BY <1>7, <2>3, <2>4
  <1>12. \A b \in a.bindings : b.artifact \in V
    BY <1>2, <1>5 DEF BranchHolds
  <1>13. ASSUME NEW f \in t.shared PROVE f[2] \in V
    <2>1. PICK d \in Directions : \E n : At(input, d, n) # {} /\ f = <<d, n>>
      BY <1>1, SharedTables
    <2>2. PICK n : At(input, d, n) # {} /\ f = <<d, n>>
      BY <2>1
    <2>3. PICK b \in At(input, d, n) : TRUE
      BY <2>2
    <2>4. b \in a.bindings /\ b.artifact = n /\ f[2] = n
      BY <1>1, <2>2, MembersOfBindings DEF At
    <2>. QED BY <1>12, <2>4
  <1>14. ASSUME NEW f \in t.common PROVE f[2] \in V
    <2>1. PICK d, n : CommonIs(input, d, n) /\ f = <<d, n>>
      BY <1>1, CommonTables
    <2>2. PICK b \in Branches(input) : n \in ReachedFrom(Closure(input, b.artifact))
      BY <2>1 DEF CommonIs
    <2>3. f[2] = n
      BY <2>1
    <2>. QED BY <1>1, <1>2, <2>2, <2>3, ReachedInside
  <1>15. ASSUME NEW e \in t.affected \cup t.derived PROVE e[2] \in V
    <2>1. PICK b : /\ SaysIncomplete(input, b)
                   /\ \E n \in {s.subject : s \in KnownOf(input, b)} \cup DerivedOf(input, b) : e = <<Key(b), n>>
      BY <1>1, OtherTables
    <2>2. PICK n \in {s.subject : s \in KnownOf(input, b)} \cup DerivedOf(input, b) : e = <<Key(b), n>>
      BY <2>1
    <2>3. n \in ReachedFrom(Closure(input, b.artifact))
      BY <1>1, <2>2, KnownAre DEF DerivedOf
    <2>4. b \in Branches(input) /\ e[2] = n
      BY <2>1, <2>2 DEF SaysIncomplete
    <2>. QED BY <1>1, <1>2, <2>3, <2>4, ReachedInside
  <1>16. versions \subseteq V
    <2>. HIDE DEF t, V
    <2>. QED BY <1>9, <1>12, <1>13, <1>14, <1>15
  <1>17. known \subseteq Ids(v.rows, "knowledge") \cap members("knowledge")
    BY <1>11
  <1>. HIDE DEF t
  <1>. QED BY <1>3, <1>4, <1>6, <1>8, <1>10, <1>16, <1>17 DEF TargetsHold, members, t

\* What a writer of an analysis sees has its references.
RefInv ==
  /\ ReferencesHold(db.rows)
  /\ \A c \in Callers : pc[c] = "analysis" => ReferencesHold(view[c].rows)

\* The scripts' rows have their references.
LEMMA InitRef == Init => RefInv
  <1>. SUFFICES ASSUME Init PROVE RefInv
    OBVIOUS
  <1>1. PICK s \in Scripts : db.rows = s.rows
    BY DEF Init
  <1>2. ReferencesHold(db.rows)
    BY <1>1, StoreAssumption DEF ScriptTyped
  <1>. QED BY <1>2 DEF RefInv, Init

\* A row is recorded after what it refers to.
LEMMA RecordKeepsRef ==
  ASSUME Inv, RefInv, NEW r, Record(r)
  PROVE  RefInv'
  <1>1. db'.rows = db.rows \cup {r} /\ UNCHANGED <<pc, view>>
    BY DEF Inv, Shapes, Record
  <1>2. References(r) \subseteq {<<x.family, x.id>> : x \in db.rows}
    BY DEF Record
  <1>3. \A s \in db.rows : References(s) \subseteq {<<x.family, x.id>> : x \in db.rows}
    BY DEF RefInv, ReferencesHold
  <1>4. ReferencesHold(db.rows)'
    <2>1. {<<x.family, x.id>> : x \in db.rows} \subseteq {<<x.family, x.id>> : x \in db'.rows}
      BY <1>1
    <2>2. \A s \in db'.rows : References(s) \subseteq {<<x.family, x.id>> : x \in db'.rows}
      BY <1>1, <1>2, <1>3, <2>1
    <2>. QED BY <2>2 DEF ReferencesHold
  <1>5. \A c \in Callers : pc'[c] = "analysis" => ReferencesHold(view'[c].rows)
    BY <1>1 DEF RefInv
  <1>. QED BY <1>4, <1>5 DEF RefInv, ReferencesHold

\* The other steps leave the rows alone, and a transaction sees them as they are.
LEMMA StepKeepsRef ==
  ASSUME Inv, RefInv, NEW c \in Callers, db'.rows = db.rows,
         \A d \in Callers : pc'[d] = "analysis" =>
           (pc[d] = "analysis" /\ view'[d] = view[d]) \/ view'[d] = db
  PROVE  RefInv'
  <1>1. ReferencesHold(db'.rows)
    BY DEF RefInv
  <1>2. ASSUME NEW d \in Callers, pc'[d] = "analysis" PROVE ReferencesHold(view'[d].rows)
    BY <1>2 DEF RefInv
  <1>. QED BY <1>1, <1>2 DEF RefInv, ReferencesHold

\* Every step keeps the references.
LEMMA NextKeepsRef == Inv /\ RefInv /\ [Next]_vars => RefInv'
  <1>. SUFFICES ASSUME Inv, RefInv, [Next]_vars PROVE RefInv'
    OBVIOUS
  <1>. USE DEF Inv, Shapes
  <1>1. CASE \E r \in later : Record(r)
    BY <1>1, RecordKeepsRef
  <1>2. ASSUME NEW c \in Callers, NEW q \in calls[c],
               WriteSnapshot(c, q) \/ WriteAnalysis(c, q) \/ WriteComparison(c, q) \/ Read(c, q)
        PROVE  RefInv'
    <2>1. UNCHANGED <<db, view>>
      BY <1>2 DEF WriteSnapshot, WriteAnalysis, WriteComparison, Read, Start
    <2>2. \E next \in {"connect", "done"} : pc' = [pc EXCEPT ![c] = next]
      BY <1>2 DEF WriteSnapshot, WriteAnalysis, WriteComparison, Read, Proceed
    <2>. QED BY <2>1, <2>2, StepKeepsRef
  <1>3. ASSUME NEW c \in Callers, NEW a, Finish(c, a), db'.rows = db.rows PROVE RefInv'
    BY <1>3, StepKeepsRef DEF Finish
  <1>4. ASSUME NEW c \in Callers, NEW next, Go(c, next), next # "analysis", UNCHANGED db,
               view' = [view EXCEPT ![c] = view'[c]]
        PROVE  RefInv'
    <2>1. pc' = [pc EXCEPT ![c] = next]
      BY <1>4 DEF Go
    <2>. QED BY <1>4, <2>1, StepKeepsRef
  <1>5. ASSUME NEW c \in Callers, Connect(c) \/ Reconnect(c) PROVE RefInv'
    BY <1>4, <1>5 DEF Connect, Reconnect, Lease
  <1>6. ASSUME NEW c \in Callers, Begin(c) PROVE RefInv'
    <2>1. view' = [view EXCEPT ![c] = db] /\ UNCHANGED db
      BY <1>6 DEF Begin
    <2>2. \E next : pc' = [pc EXCEPT ![c] = next]
      BY <1>6 DEF Begin, Go
    <2>. QED BY <2>1, <2>2, StepKeepsRef
  <1>7. ASSUME NEW c \in Callers, BeginSnapshot(c) PROVE RefInv'
    BY <1>4, <1>7 DEF BeginSnapshot
  <1>8. ASSUME NEW c \in Callers, InsertSnapshot(c) \/ InsertAnalysis(c) \/ CheckPrerequisites(c)
                                    \/ InsertComparison(c)
        PROVE  RefInv'
    <2>1. UNCHANGED db
      BY <1>8 DEF InsertSnapshot, InsertAnalysis, CheckPrerequisites, InsertComparison
    <2>2. \/ Finish(c, "refused")
          \/ Go(c, "commit") /\ UNCHANGED view
          \/ Go(c, "findings") /\ UNCHANGED view
      BY <1>8 DEF InsertSnapshot, InsertAnalysis, CheckPrerequisites, InsertComparison
    <2>. QED BY <1>3, <1>4, <2>1, <2>2
  <1>9. ASSUME NEW c \in Callers, InsertFinding(c) PROVE RefInv'
    <2>1. UNCHANGED db /\ (Finish(c, "duplicate") \/ UNCHANGED <<pc, view>>)
      BY <1>9 DEF InsertFinding
    <2>. QED BY <1>3, <2>1, StepKeepsRef
  <1>10. ASSUME NEW c \in Callers, Commit(c) \/ LoseCommit(c) \/ Fail(c) PROVE RefInv'
    <2>1. Committed(c).rows = db.rows
      BY DEF Committed
    <2>2. db'.rows = db.rows /\ \E a : Finish(c, a)
      BY <1>10, <2>1 DEF Commit, LoseCommit, Fail
    <2>. QED BY <1>3, <2>2
  <1>11. ASSUME NEW c \in Callers,
                LoadSnapshot(c) \/ LoadAnalysedSnapshot(c) \/ LoadComparison(c)
         PROVE  RefInv'
    BY <1>3, <1>11 DEF LoadSnapshot, LoadAnalysedSnapshot, LoadComparison
  <1>12. ASSUME NEW c \in Callers, LoadAnalysis(c) PROVE RefInv'
    <2>1. UNCHANGED db
      BY <1>12 DEF LoadAnalysis
    <2>2. Finish(c, "missing") \/ (pc' = [pc EXCEPT ![c] = "reconnect"] /\ UNCHANGED view)
      BY <1>12 DEF LoadAnalysis
    <2>. QED BY <1>3, <2>1, <2>2, StepKeepsRef
  <1>13. ASSUME NEW c \in Callers, Step(c) \/ LoseCommit(c) \/ Fail(c) PROVE RefInv'
    BY <1>5, <1>6, <1>7, <1>8, <1>9, <1>10, <1>11, <1>12, <1>13 DEF Step
  <1>14. CASE UNCHANGED vars
    BY <1>14 DEF vars, RefInv, ReferencesHold
  <1>. QED BY <1>1, <1>2, <1>13, <1>14 DEF Next

\* An analysis of a stored and authentic snapshot is accepted.
LEMMA AnalysesAreAccepted ==
  ASSUME Inv, MadeInv, RefInv
  PROVE  ConstraintsAgree
  <1>. SUFFICES ASSUME NEW c \in Callers, pc[c] = "analysis",
                       \E s \in view[c].snapshots :
                         /\ s.id = work[c].snapshotId /\ s.snapshot = work[c].snapshot
                         /\ SnapshotVerified(s, view[c]),
                       work[c].policy \in Analytic,
                       \A r \in work[c].relations : \E s \in Of(view[c].rows, "relation") :
                         s.id = r.id /\ s.subject = work[c].claim /\ s.object = r.evidence
                           /\ s.relation = r.direction
                PROVE  /\ TargetsHold(work[c], Project(work[c]), view[c])
                       /\ TriggerHolds(Project(work[c]), work[c], view[c].rows)
    BY DEF ConstraintsAgree
  <1>1. IsAnalysis(work[c])
    BY DEF Inv, CallOf, MadeInv, Made
  <1>2. PICK input : IsSelection(input) /\ work[c] = Analyse(input)
    BY <1>1 DEF IsAnalysis
  <1>3. Analysed(work[c], input)
    BY <1>2 DEF Analysed, Analyse
  <1>4. PICK s \in view[c].snapshots :
          /\ s.id = work[c].snapshotId /\ s.snapshot = work[c].snapshot
          /\ SnapshotVerified(s, view[c])
    OBVIOUS
  <1>5. s.members = s.snapshot.keys /\ s.snapshot.rows \subseteq view[c].rows
    BY <1>4 DEF SnapshotVerified, Verified, MembershipHolds, HistoryHolds, Historical
  <1>6. input.snapshot.rows \subseteq view[c].rows
    BY <1>3, <1>4, <1>5 DEF Analysed
  <1>7. ReferencesHold(view[c].rows)
    BY DEF RefInv
  <1>8. TargetsHold(work[c], Project(work[c]), view[c])
    BY <1>3, <1>4, <1>5, <1>6, <1>7, TargetsAreFound
  <1>9. TriggerHolds(Project(work[c]), work[c], view[c].rows)
    BY <1>3, <1>6, TriggerAccepts
  <1>. QED BY <1>8, <1>9

\* A version is the end of a path exactly when the search reaches it.
LEMMA EndsAre ==
  ASSUME NEW input, IsSelection(input), NEW a, Analysed(a, input),
         NEW d, NEW b \in Partition(input, d)
  PROVE  /\ {PathEnd(s, b.artifact) : s \in Paths(a, b.artifact)}
              = ReachedFrom(Closure(input, b.artifact))
         /\ b.artifact \in ReachedFrom(Closure(input, b.artifact))
         /\ \A n : b \in Reaching(input, d, n) <=> n \in ReachedFrom(Closure(input, b.artifact))
  <1>. DEFINE anchor == b.artifact
  <1>1. /\ GraphTyped(input) /\ anchor \in Versions(input)
        /\ a.snapshot = input.snapshot /\ a.policy = input.policy
    BY BranchFacts, SelectionFacts DEF Analysed
  <1>. HIDE DEF anchor
  <1>2. ASSUME NEW s \in Paths(a, anchor) PROVE PathEnd(s, anchor) \in ReachedFrom(Closure(input, anchor))
    <2>1. IsPath(input, anchor, Trace(s, anchor)) /\ End(Trace(s, anchor)) = PathEnd(s, anchor)
      BY <1>1, PathsAreTraces
    <2>2. PICK w \in Closure(input, anchor) : End(w) = End(Trace(s, anchor))
      BY <1>1, <2>1, ClosureIs
    <2>. QED BY <2>1, <2>2 DEF ReachedFrom
  <1>3. ASSUME NEW n \in ReachedFrom(Closure(input, anchor))
        PROVE  \E s \in Paths(a, anchor) : PathEnd(s, anchor) = n
    <2>1. PICK w \in Closure(input, anchor) : End(w) = n
      BY DEF ReachedFrom
    <2>2. IsPath(input, anchor, w)
      BY <1>1, <2>1, ClosureIs
    <2>. QED BY <1>1, <2>1, <2>2, TracesArePaths
  <1>4. anchor \in ReachedFrom(Closure(input, anchor))
    <2>1. /\ <<>> \in Paths(a, anchor) /\ PathEnd(<<>>, anchor) = anchor
      <3>1. a.policy.maxDepth \in Nat
        BY <1>1 DEF GraphTyped
      <3>2. IsChain(<<>>)
        BY DEF IsChain
      <3>3. \A E : <<>> \in [1..0 -> E]
        OBVIOUS
      <3>4. 0 \in 0..a.policy.maxDepth
        BY <3>1
      <3>5. \A E : <<>> \in UNION {[1..n -> E] : n \in 0..a.policy.maxDepth}
        BY <3>3, <3>4
      <3>. QED BY <3>2, <3>5 DEF Paths, PathEnd
    <2>. QED BY <1>2, <2>1
  <1>5. \A n : b \in Reaching(input, d, n) <=> n \in ReachedFrom(Closure(input, b.artifact))
    BY DEF Reaching
  <1>. QED BY <1>2, <1>3, <1>4, <1>5 DEF anchor

\* Two branches of a direction, in the order of their keys.
TwoBranches(input, d, b, c) ==
  /\ d \in Directions /\ b \in Partition(input, d) /\ c \in Partition(input, d)
  /\ KeyBefore(Key(b), Key(c))

\* A key is of one branch.
LEMMA BranchOfKey ==
  ASSUME NEW input, IsSelection(input), NEW d, NEW e, NEW b \in Partition(input, d),
         NEW c \in Partition(input, e), Key(b) = Key(c)
  PROVE  b = c
  <1>1. b \in input.bindings /\ c \in input.bindings
    BY BranchFacts
  <1>. QED BY <1>1, SelectionFacts

\* Two branches in order are two.
LEMMA TwoKeysDiffer ==
  ASSUME NEW input, IsSelection(input), NEW d, NEW b, NEW c, TwoBranches(input, d, b, c)
  PROVE  Key(b) # Key(c) /\ b # c
  <1>1. b \in input.bindings /\ c \in input.bindings
    BY BranchFacts DEF TwoBranches
  <1>2. b.relation \in Nat /\ b.statement \in Nat /\ c.relation \in Nat /\ c.statement \in Nat
    BY <1>1, SelectionFacts
  <1>. QED BY <1>2 DEF TwoBranches, Key, KeyBefore

\* A shared version is said of two branches exactly when they have one.
LEMMA SharedIsExact ==
  ASSUME NEW input, NEW a, Analysed(a, input), NEW d, NEW b, NEW c, TwoBranches(input, d, b, c)
  PROVE  (\E f \in OfType(a, "shared") : {Key(b), Key(c)} \subseteq f.members)
           <=> b.artifact = c.artifact
  <1>1. IsSelection(input) /\ a.findings = Findings(input)
    BY DEF Analysed
  <1>2. b # c /\ b \in Partition(input, d) /\ c \in Partition(input, d) /\ d \in Directions
    BY <1>1, TwoKeysDiffer DEF TwoBranches
  <1>3. ASSUME NEW f \in OfType(a, "shared"), Key(b) \in f.members, Key(c) \in f.members
        PROVE  b.artifact = c.artifact
    <2>1. PICK e \in Directions : \E n : f = SharedAt(input, e, n)
      BY <1>1, FindingsAre
    <2>2. PICK n : f = SharedAt(input, e, n)
      BY <2>1
    <2>3. f.members = {Key(x) : x \in At(input, e, n)}
      BY <2>2 DEF SharedAt
    <2>4. PICK x \in At(input, e, n) : Key(x) = Key(b)
      BY <1>3, <2>3
    <2>5. PICK y \in At(input, e, n) : Key(y) = Key(c)
      BY <1>3, <2>3
    <2>6. x = b /\ y = c
      <3>1. x \in Partition(input, e) /\ y \in Partition(input, e)
        BY DEF At
      <3>. QED BY <1>1, <1>2, <2>4, <2>5, <3>1, BranchOfKey
    <2>. QED BY <2>6 DEF At
  <1>4. ASSUME b.artifact = c.artifact
        PROVE  \E f \in OfType(a, "shared") : {Key(b), Key(c)} \subseteq f.members
    <2>. DEFINE n == b.artifact
                f == SharedAt(input, d, n)
    <2>1. b \in At(input, d, n) /\ c \in At(input, d, n)
      BY <1>2, <1>4 DEF At
    <2>. HIDE DEF n
    <2>2. SaysShared(input, d, n)
      <3>1. IsFiniteSet(At(input, d, n))
        BY <1>1, MembersOfBindings
      <3>. QED BY <1>2, <2>1, <3>1, TwoOf DEF SaysShared
    <2>3. f \in OfType(a, "shared")
      BY <1>1, <1>2, <2>1, <2>2, FindingsAre
    <2>4. Key(b) \in f.members /\ Key(c) \in f.members
      BY <2>1 DEF SharedAt
    <2>. HIDE DEF f
    <2>. QED BY <2>3, <2>4
  <1>. QED BY <1>3, <1>4

\* A common upstream is said of two branches exactly when both reach it, one of
\* the direction from elsewhere.
LEMMA CommonIsExact ==
  ASSUME NEW input, NEW a, Analysed(a, input), NEW d, NEW b, NEW c, TwoBranches(input, d, b, c), NEW n
  PROVE  (\E f \in OfType(a, "common") : f.at = n /\ f.direction = d
            /\ {Key(b), Key(c)} \subseteq {m.key : m \in f.members})
           <=> /\ b \in Reaching(input, d, n) /\ c \in Reaching(input, d, n)
               /\ \E e \in Reaching(input, d, n) : n # e.artifact
  <1>1. IsSelection(input) /\ a.findings = Findings(input)
    BY DEF Analysed
  <1>2. b # c /\ Key(b) # Key(c) /\ b \in Partition(input, d) /\ c \in Partition(input, d) /\ d \in Directions
    BY <1>1, TwoKeysDiffer DEF TwoBranches
  <1>3. \A e \in Reaching(input, d, n) : MemberOf(input, e, n).steps # <<>> <=> n # e.artifact
    <2>. SUFFICES ASSUME NEW e \in Reaching(input, d, n)
                  PROVE  MemberOf(input, e, n).steps # <<>> <=> n # e.artifact
      OBVIOUS
    <2>. DEFINE w == WitnessOf(input, e, n)
    <2>1. IsPath(input, e.artifact, w) /\ End(w) = n
      BY <1>1, WitnessIs
    <2>2. MemberOf(input, e, n).steps = w.steps
      BY DEF MemberOf
    <2>. HIDE DEF w
    <2>3. /\ Len(w.steps) \in Nat /\ Len(w.nodes) = Len(w.steps) + 1 /\ w.steps \in Seq(Nat)
          /\ w.nodes[1] = e.artifact /\ n = w.nodes[Len(w.nodes)]
          /\ \A i, j \in 1..Len(w.nodes) : w.nodes[i] = w.nodes[j] => i = j
      BY <2>1, PathFacts DEF IsPath
    <2>4. w.steps # <<>> <=> Len(w.nodes) # 1
      BY <2>3
    <2>5. Len(w.nodes) \in 1..Len(w.nodes) /\ 1 \in 1..Len(w.nodes)
      BY <2>3
    <2>. QED BY <2>2, <2>3, <2>4, <2>5
  <1>4. ASSUME NEW f \in OfType(a, "common"), f.at = n, f.direction = d,
               {Key(b), Key(c)} \subseteq {m.key : m \in f.members}
        PROVE  /\ b \in Reaching(input, d, n) /\ c \in Reaching(input, d, n)
               /\ \E e \in Reaching(input, d, n) : n # e.artifact
    <2>1. PICK e \in Directions : \E k : SaysCommon(input, e, k) /\ f = CommonAt(input, e, k)
      BY <1>1, FindingsAre
    <2>2. PICK k : SaysCommon(input, e, k) /\ f = CommonAt(input, e, k)
      BY <2>1
    <2>3. e = d /\ k = n /\ f.members = MembersOf(input, d, n)
      BY <1>4, <2>2 DEF CommonAt
    <2>4. PICK x \in MembersOf(input, d, n) : x.key = Key(b)
      BY <1>4, <2>3
    <2>5. PICK y \in MembersOf(input, d, n) : y.key = Key(c)
      BY <1>4, <2>3
    <2>6. \A m \in MembersOf(input, d, n) : \E z \in Reaching(input, d, n) : m = MemberOf(input, z, n)
            /\ m.key = Key(z) /\ z \in Partition(input, d)
      BY <1>1, MembersAre
    <2>7. b \in Reaching(input, d, n) /\ c \in Reaching(input, d, n)
      BY <1>1, <1>2, <2>4, <2>5, <2>6, BranchOfKey
    <2>8. PICK m \in MembersOf(input, d, n) : m.steps # <<>>
      BY <2>2, <2>3 DEF SaysCommon
    <2>9. PICK z \in Reaching(input, d, n) : m = MemberOf(input, z, n)
      BY <2>6
    <2>. QED BY <1>3, <2>7, <2>8, <2>9
  <1>5. ASSUME b \in Reaching(input, d, n), c \in Reaching(input, d, n),
               NEW e \in Reaching(input, d, n), n # e.artifact
        PROVE  \E f \in OfType(a, "common") : f.at = n /\ f.direction = d
                 /\ {Key(b), Key(c)} \subseteq {m.key : m \in f.members}
    <2>. DEFINE f == CommonAt(input, d, n)
                M == MembersOf(input, d, n)
    <2>1. /\ MemberOf(input, b, n) \in M /\ MemberOf(input, c, n) \in M /\ MemberOf(input, e, n) \in M
          /\ MemberOf(input, b, n).key = Key(b) /\ MemberOf(input, c, n).key = Key(c)
      BY <1>1, <1>5, MembersAre
    <2>2. Cardinality(M) >= 2
      <3>1. IsFiniteSet(M)
        BY <1>1, MembersOfBindings
      <3>2. MemberOf(input, b, n) # MemberOf(input, c, n)
        BY <1>2, <2>1
      <3>. HIDE DEF M
      <3>. QED BY <2>1, <3>1, <3>2, TwoOf
    <2>3. SaysCommon(input, d, n)
      BY <1>3, <1>5, <2>1, <2>2 DEF SaysCommon
    <2>4. \E z \in Branches(input) : n \in ReachedFrom(Closure(input, z.artifact))
      BY <1>1, <1>2, <1>5, BranchFacts DEF Reaching
    <2>5. f \in OfType(a, "common")
      BY <1>1, <1>2, <2>3, <2>4, FindingsAre
    <2>6. f.at = n /\ f.direction = d /\ f.members = M
      BY DEF CommonAt
    <2>. HIDE DEF f, M
    <2>7. Key(b) \in {m.key : m \in f.members} /\ Key(c) \in {m.key : m \in f.members}
      BY <2>1, <2>6
    <2>. QED BY <2>5, <2>6, <2>7
  <1>. QED BY <1>4, <1>5

\* No common upstream is said of two branches exactly when there is none.
LEMMA NoneIsExact ==
  ASSUME NEW input, NEW a, Analysed(a, input), NEW d, NEW b, NEW c, TwoBranches(input, d, b, c)
  PROVE  (\E f \in OfType(a, "none") : f.lower = Key(b) /\ f.upper = Key(c))
           <=> ReachedFrom(Closure(input, b.artifact)) \cap ReachedFrom(Closure(input, c.artifact)) = {}
  <1>1. IsSelection(input) /\ a.findings = Findings(input)
    BY DEF Analysed
  <1>2. b \in Partition(input, d) /\ c \in Partition(input, d) /\ d \in Directions /\ KeyBefore(Key(b), Key(c))
    BY DEF TwoBranches
  <1>3. ASSUME NEW f \in OfType(a, "none"), f.lower = Key(b), f.upper = Key(c)
        PROVE  ReachedFrom(Closure(input, b.artifact)) \cap ReachedFrom(Closure(input, c.artifact)) = {}
    <2>1. PICK e \in Directions : \E x, y : SaysNone(input, e, x, y) /\ f = NoneOf(e, x, y)
      BY <1>1, FindingsAre
    <2>2. PICK x, y : SaysNone(input, e, x, y) /\ f = NoneOf(e, x, y)
      BY <2>1
    <2>3. x \in Partition(input, e) /\ y \in Partition(input, e) /\ Key(x) = Key(b) /\ Key(y) = Key(c)
      BY <1>3, <2>2 DEF SaysNone, NoneOf
    <2>4. x = b /\ y = c
      BY <1>1, <1>2, <2>3, BranchOfKey
    <2>. QED BY <2>2, <2>4 DEF SaysNone
  <1>4. ASSUME ReachedFrom(Closure(input, b.artifact)) \cap ReachedFrom(Closure(input, c.artifact)) = {}
        PROVE  \E f \in OfType(a, "none") : f.lower = Key(b) /\ f.upper = Key(c)
    <2>1. b.artifact \in ReachedFrom(Closure(input, b.artifact))
      BY <1>1, <1>2, EndsAre
    <2>2. c.artifact \in ReachedFrom(Closure(input, c.artifact))
      BY <1>1, <1>2, EndsAre
    <2>3. SaysNone(input, d, b, c)
      BY <1>2, <1>4, <2>1, <2>2 DEF SaysNone
    <2>4. NoneOf(d, b, c) \in OfType(a, "none")
      BY <1>1, <1>2, <2>3, FindingsAre
    <2>. QED BY <2>4 DEF NoneOf
  <1>. QED BY <1>3, <1>4

\* No path to the same version is before the witness.
LEMMA WitnessesAreLeast ==
  ASSUME NEW input, NEW a, Analysed(a, input), NEW d, NEW b \in Partition(input, d),
         NEW f \in OfType(a, "common"), NEW m \in f.members, m.key = Key(b),
         NEW s \in Paths(a, b.artifact), PathEnd(s, b.artifact) = f.at
  PROVE  ~WitnessBefore([steps |-> PathIds(s)], [steps |-> m.steps])
  <1>1. IsSelection(input) /\ a.findings = Findings(input)
    BY DEF Analysed
  <1>2. PICK e \in Directions : \E n : SaysCommon(input, e, n) /\ f = CommonAt(input, e, n)
    BY <1>1, FindingsAre
  <1>3. PICK n : SaysCommon(input, e, n) /\ f = CommonAt(input, e, n)
    BY <1>2
  <1>4. f.at = n /\ f.members = MembersOf(input, e, n)
    BY <1>3 DEF CommonAt
  <1>5. PICK x \in Reaching(input, e, n) : m = MemberOf(input, x, n)
    BY <1>1, <1>4, MembersAre
  <1>6. x = b
    BY <1>1, <1>5, MembersAre, BranchOfKey
  <1>. DEFINE w == WitnessOf(input, b, n)
              p == Trace(s, b.artifact)
  <1>7. m.steps = w.steps
    BY <1>5, <1>6 DEF MemberOf
  <1>8. IsPath(input, b.artifact, p) /\ End(p) = n /\ p.steps = PathIds(s)
    <2>1. /\ GraphTyped(input) /\ b.artifact \in Versions(input)
          /\ a.snapshot = input.snapshot /\ a.policy = input.policy
      BY <1>1, BranchFacts, SelectionFacts DEF Analysed
    <2>. QED BY <1>4, <2>1, PathsAreTraces
  <1>9. ~WitnessBefore(p, w)
    BY <1>1, <1>5, <1>6, <1>8, WitnessIs
  <1>. HIDE DEF p, w
  <1>. QED BY <1>7, <1>8, <1>9 DEF WitnessBefore

\* Where the paths from a branch end.
EndsOf(a, x) == {PathEnd(s, x.artifact) : s \in Paths(a, x.artifact)}

\* The same of the paths that the property speaks of.
LEMMA AnalysedIsExact ==
  ASSUME NEW input, NEW a, Analysed(a, input), NEW d, NEW b, NEW c, TwoBranches(input, d, b, c)
  PROVE  \A n \in EndsOf(a, b) \cup EndsOf(a, c) :
               (\E f \in OfType(a, "common") : f.at = n /\ f.direction = d
                  /\ {Key(b), Key(c)} \subseteq {m.key : m \in f.members})
                 <=> /\ n \in EndsOf(a, b) \cap EndsOf(a, c)
                     /\ \E e \in Partition(a, d) : n \in EndsOf(a, e) \ {e.artifact}
  <1>. DEFINE Ends(x) == EndsOf(a, x)
  <1>1. IsSelection(input) /\ b \in Partition(input, d) /\ c \in Partition(input, d)
    BY DEF Analysed, TwoBranches
  <1>2. Partition(a, d) = Partition(input, d)
    BY DEF Analysed, Partition, Branches, RelationOf
  <1>3. \A x \in Partition(input, d) : \A n : n \in Ends(x) <=> x \in Reaching(input, d, n)
    BY <1>1, EndsAre DEF EndsOf
  <1>4. \A n : \A e \in Reaching(input, d, n) : e \in Partition(input, d)
    BY DEF Reaching
  <1>. HIDE DEF Ends
  <1>5. ASSUME NEW n
        PROVE  (/\ b \in Reaching(input, d, n) /\ c \in Reaching(input, d, n)
                /\ \E e \in Reaching(input, d, n) : n # e.artifact)
               <=> /\ n \in Ends(b) \cap Ends(c)
                   /\ \E e \in Partition(a, d) : n \in Ends(e) \ {e.artifact}
    BY <1>1, <1>2, <1>3, <1>4
  <1>. QED BY <1>5, CommonIsExact DEF Ends

\* An analysis that was made says what it should.
LEMMA MadeAreDependencies ==
  ASSUME Inv, MadeInv
  PROVE  DependenciesAreExact
  <1>. SUFFICES ASSUME NEW k \in Callers, pc[k] = "connect", req[k].call = "analysis",
                       NEW d \in Directions, NEW b \in Partition(work[k], d),
                       NEW c \in Partition(work[k], d), KeyBefore(Key(b), Key(c))
                PROVE
       LET a == work[k]
           Ends(x) == {PathEnd(s, x.artifact) : s \in Paths(a, x.artifact)}
           Said(type, x, y) == \E f \in OfType(a, type) : {Key(x), Key(y)} \subseteq f.members
       IN /\ Said("shared", b, c) <=> b.artifact = c.artifact
          /\ \A n \in Ends(b) \cup Ends(c) :
               (\E f \in OfType(a, "common") : f.at = n /\ f.direction = d
                  /\ {Key(b), Key(c)} \subseteq {m.key : m \in f.members})
                 <=> /\ n \in Ends(b) \cap Ends(c)
                     /\ \E e \in Partition(a, d) : n \in Ends(e) \ {e.artifact}
          /\ (\E f \in OfType(a, "none") : f.lower = Key(b) /\ f.upper = Key(c))
               <=> Ends(b) \cap Ends(c) = {}
          /\ \A f \in OfType(a, "common") : \A m \in f.members : m.key = Key(b) =>
               \A s \in Paths(a, b.artifact) : PathEnd(s, b.artifact) = f.at =>
                 ~WitnessBefore([steps |-> PathIds(s)], [steps |-> m.steps])
    BY DEF DependenciesAreExact
  <1>. DEFINE a == work[k]
              Ends(x) == EndsOf(a, x)
  <1>1. IsAnalysis(a)
    BY DEF MadeInv, Made
  <1>2. PICK input : IsSelection(input) /\ a = Analyse(input)
    BY <1>1 DEF IsAnalysis
  <1>3. Analysed(a, input)
    BY <1>2 DEF Analysed, Analyse
  <1>. HIDE DEF a
  <1>4. Partition(a, d) = Partition(input, d)
    BY <1>3 DEF Analysed, Partition, Branches, RelationOf
  <1>5. TwoBranches(input, d, b, c) /\ b \in Partition(input, d) /\ c \in Partition(input, d)
    BY <1>4 DEF TwoBranches, a
  <1>6. (\E f \in OfType(a, "shared") : {Key(b), Key(c)} \subseteq f.members) <=> b.artifact = c.artifact
    BY <1>3, <1>5, SharedIsExact
  <1>7. \A n \in Ends(b) \cup Ends(c) :
               (\E f \in OfType(a, "common") : f.at = n /\ f.direction = d
                  /\ {Key(b), Key(c)} \subseteq {m.key : m \in f.members})
                 <=> /\ n \in Ends(b) \cap Ends(c)
                     /\ \E e \in Partition(a, d) : n \in Ends(e) \ {e.artifact}
    BY ONLY <1>3, <1>5, AnalysedIsExact
  <1>8. (\E f \in OfType(a, "none") : f.lower = Key(b) /\ f.upper = Key(c)) <=> Ends(b) \cap Ends(c) = {}
    <2>1. Ends(b) = ReachedFrom(Closure(input, b.artifact))
      BY <1>2, <1>3, <1>5, EndsAre DEF EndsOf
    <2>2. Ends(c) = ReachedFrom(Closure(input, c.artifact))
      BY <1>2, <1>3, <1>5, EndsAre DEF EndsOf
    <2>. HIDE DEF Ends
    <2>. QED BY <1>3, <1>5, <2>1, <2>2, NoneIsExact
  <1>9. \A f \in OfType(a, "common") : \A m \in f.members : m.key = Key(b) =>
               \A s \in Paths(a, b.artifact) : PathEnd(s, b.artifact) = f.at =>
                 ~WitnessBefore([steps |-> PathIds(s)], [steps |-> m.steps])
    BY <1>3, <1>5, WitnessesAreLeast
  <1>. QED BY <1>6, <1>7, <1>8, <1>9 DEF a, EndsOf

\* The diagnostics of a snapshot that was built are its elementary cycles.
LEMMA BuiltCycles ==
  ASSUME NEW given, InputTyped(given), BuildHolds(given)
  PROVE  Build(given).cycles = {Shown(s) : s \in ElementaryCycles(Of(Build(given).rows, "provenance"))}
  <1>. DEFINE T == Of(Build(given).rows, "provenance")
  <1>1. Build(given).rows = Included(given) /\ Build(given).cycles = Cycles(T)
    BY DEF Build
  <1>2. T \subseteq given.rows /\ \A r \in T : r.family = "provenance"
    BY <1>1, IncludedOf DEF Of
  <1>3. IsFiniteSet(T)
    BY <1>2, FS_Subset DEF InputTyped
  <1>4. \A r \in T : r.id \in Nat /\ r.subject \in Nat /\ r.object \in Nat
    BY <1>2 DEF InputTyped, RowTyped
  <1>. HIDE DEF T
  <1>5. StatementsTyped(T)
    BY <1>3, <1>4 DEF StatementsTyped
  <1>6. Cycles(T) = {Shown(s) : s \in ElementaryCycles(T)}
    BY <1>5, CyclesAreElementaryCycles
  <1>. QED BY <1>1, <1>6 DEF T

\* A snapshot that was made has its elementary cycles.
LEMMA MadeAreCycles == MadeInv => CyclesAreComplete
  <1>. SUFFICES ASSUME MadeInv, NEW c \in Callers, pc[c] = "connect", req[c].call = "snapshot"
                PROVE  work[c].snapshot.cycles =
                         {Shown(s) : s \in ElementaryCycles(Of(work[c].snapshot.rows, "provenance"))}
    BY DEF CyclesAreComplete, Shown
  <1>1. IsDraft(work[c])
    BY DEF MadeInv, Made
  <1>2. PICK given : /\ InputTyped(given) /\ BuildHolds(given)
                     /\ work[c] = [given |-> given, snapshot |-> Build(given)]
    BY <1>1 DEF IsDraft
  <1>3. work[c].snapshot = Build(given)
    BY <1>2
  <1>. QED BY <1>2, <1>3, BuiltCycles

-----------------------------------------------------------------------------
(* Theorems                                                                *)

\* Everything that an analysis in the store rests on is stored: the claim and
\* the relations that it selected, and under the id it names the very snapshot
\* that it was derived from, with the selected bindings as members; and for a
\* comparison its assertions, domains and findings, whoever inserted these.  It
\* does not matter which rows were stored in between, and which queries failed
\* (rcv016PostgresRepository.ts, rcv017PostgresRepository.ts,
\* rcv018PostgresRepository.ts).
THEOREM AnalysesRestOnStoredRows == Spec => []AnalysesRestOnStored
  <1>1. Inv => AnalysesRestOnStored
    BY DEF Inv, MembersAreKeys, AnalysesRest, RestsOnStored, SnapshotBound,
           BindingsAreKeys, ComparisonsRest, ComparisonRests, AnalysesRestOnStored
  <1>. QED
    BY <1>1, InitInv, NextKeepsInv, PTL DEF Spec

\* The three invariants, of every state.
LEMMA StoreInvariant == Spec => [](Inv /\ MadeInv /\ RefInv)
  <1>1. Init => Inv /\ MadeInv /\ RefInv
    BY InitInv, InitMade, InitRef
  <1>2. Inv /\ MadeInv /\ RefInv /\ [Next]_vars => (Inv /\ MadeInv /\ RefInv)'
    BY NextKeepsInv, NextKeepsMade, NextKeepsRef
  <1>. QED BY <1>1, <1>2, PTL DEF Spec

\* A snapshot that a call has built holds the versions within its policy's depth
\* of the roots, the statements by which they are reached and no others, and as
\* unrecorded those of whose provenance nothing is said; and its diagnostics are
\* all its elementary cycles, each once and from its least version: for any
\* rows, with cycles and parallel statements, and any depth
\* (rcv016SnapshotBuilder.ts:475-566, rcv016CycleDiagnostics.ts:66-117).
THEOREM SnapshotsSayAll == Spec => []SnapshotsAreComplete
  <1>1. Inv /\ MadeInv /\ RefInv => SnapshotsAreComplete
    BY MadeAreClosures, MadeAreCycles DEF SnapshotsAreComplete
  <1>. QED BY <1>1, StoreInvariant, PTL

\* An analysis says of any two of its branches that they share their version,
\* have a common upstream or have none exactly as there are paths of enabled
\* statements that meet, and its witnesses are the least such paths; and a
\* comparison says of two assertions that they contradict each other exactly
\* when they are about the same and their domain excludes their values together
\* (rcv017AnalysisBuilder.ts:361-600, rcv018AnalysisBuilder.ts:174-185).
THEOREM FindingsSayAll == Spec => []FindingsAreExact
  <1>1. Inv /\ MadeInv /\ RefInv => FindingsAreExact
    BY MadeAreDependencies, MadeAreContradictions DEF FindingsAreExact
  <1>. QED BY <1>1, StoreInvariant, PTL

\* A reader authenticates a stored snapshot, analysis or comparison exactly when
\* the rows that it repeats are stored, whatever was recorded since, and every
\* stored finding is of a stored comparison, whichever attempts failed
\* (rcv016ReadVerifier.ts, rcv017ReadVerifier.ts, rcv018PostgresRepository.ts).
THEOREM StoredIsAuthentic == Spec => []StoredIsAuthenticated
  <1>1. Inv /\ MadeInv /\ RefInv => StoredIsAuthenticated
    BY MadeAreAuthenticated
  <1>. QED BY <1>1, StoreInvariant, PTL

\* The constraints and the deferred trigger of the database, which restate the
\* rules of the builder in SQL, never refuse an analysis that the builder made
\* of a snapshot that is stored and authentic in the view of its transaction
\* (rcv017PostgresRepository.ts, the migration of the dependency analyses).
THEOREM ConstraintsAccept == Spec => []ConstraintsAgree
  <1>1. Inv /\ MadeInv /\ RefInv => ConstraintsAgree
    BY AnalysesAreAccepted
  <1>. QED BY <1>1, StoreInvariant, PTL
================================================================================
