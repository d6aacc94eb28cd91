----------------------------- MODULE Contradictions -----------------------------
(***************************************************************************)
(* Evidence contradiction analysis (RCV-018): the pairs of assertions that *)
(* rcv018AnalysisBuilder.ts compares, the findings that rcv018Write-       *)
(* Verifier.ts leaves to be stored, and what rcv018ReadVerifier.ts asks of *)
(* a stored analysis.                                                      *)
(*                                                                         *)
(* An assertion, a comparison domain and a value domain are rows.  What    *)
(* refers to one by id, version and hash holds the row itself, as a hash   *)
(* is the content it stands for.  Values are numbers, ordered as their     *)
(* texts are; a context is a function from the keys of the schema.         *)
(***************************************************************************)
EXTENDS ProvenanceSnapshots

\* A finding names two assertions in the order of their ids, and their values in
\* the order in which the domain lists a pair.
Finding(a, b) ==
  [first |-> a, second |-> b, domain |-> a.domain,
   values |-> IF a.value < b.value THEN <<a.value, b.value>> ELSE <<b.value, a.value>>]

FindingBefore(f, g) ==
  \/ f.first.id < g.first.id
  \/ f.first.id = g.first.id /\ f.second.id < g.second.id

\* The columns of an assertion; a binding is a family and an id.
AssertionTyped(a) ==
  /\ a = [family |-> "assertion", id |-> a.id, subject |-> a.subject, property |-> a.property,
          domain |-> a.domain, value |-> a.value, context |-> a.context, bindings |-> a.bindings]
  /\ a.id \in Nat /\ a.value \in Nat
  /\ \A p \in a.domain.pairs : p \in Nat \X Nat
  /\ a.domain.family = "comparisonDomain" /\ a.domain.values.family = "valueDomain"
  /\ \A b \in a.bindings : b = <<b[1], b[2]>>

ComparisonTyped(q) ==
  /\ q.assertions \in Seq(ToSet(q.assertions))
  /\ \A a \in ToSet(q.assertions) : AssertionTyped(a)

-----------------------------------------------------------------------------
(* buildRcv018Analysis *)

PairsAreOrdered(domain) == \A p \in domain.pairs : p[1] < p[2]

\* An assertion is of a domain that was supplied, has one of its values, and a
\* context for its keys.
AssertionHolds(a, input) ==
  /\ a.bindings # {}
  /\ a.domain \in input.domains /\ a.domain.values \in input.values
  /\ a.property = a.domain.property
  /\ a.value \in a.domain.values.allowed
  /\ DOMAIN a.context = a.domain.keys

EveryDomainIsUsed(input) ==
  LET domains == {a.domain : a \in ToSet(input.assertions)}
  IN  input.domains = domains /\ input.values = {d.values : d \in domains}

ComparisonHolds(input) ==
  /\ \A i, j \in DOMAIN input.assertions :
       input.assertions[i].id = input.assertions[j].id => i = j
  /\ UniqueIds(input.domains) /\ UniqueIds(input.values)
  /\ \A d \in input.domains : PairsAreOrdered(d)
  /\ \A a \in ToSet(input.assertions) : AssertionHolds(a, input)
  /\ EveryDomainIsUsed(input)

Comparable(a, b) ==
  /\ a.subject = b.subject /\ a.property = b.property
  /\ a.domain = b.domain /\ a.context = b.context

Incompatible(a, b) == Finding(a, b).values \in a.domain.pairs

InOrder(input) ==
  LET given == ToSet(input.assertions)
  IN  Ordered(given, {p \in given \X given : p[1].id < p[2].id})

\* Every pair is evaluated once, the lesser id first.
Evaluations(input) ==
  LET a == InOrder(input)
  IN  {[first |-> a[p[1]], second |-> a[p[2]],
        outcome |-> IF ~Comparable(a[p[1]], a[p[2]]) THEN "not comparable"
                    ELSE IF Incompatible(a[p[1]], a[p[2]]) THEN "contradiction"
                    ELSE "comparable"] :
         p \in {q \in (DOMAIN a) \X (DOMAIN a) : q[1] < q[2]}}

Compare(input) ==
  [assertions |-> InOrder(input), domains |-> input.domains, values |-> input.values,
   findings |-> {Finding(e.first, e.second) :
                   e \in {d \in Evaluations(input) : d.outcome = "contradiction"}}]

-----------------------------------------------------------------------------
(* verifyRcv018Write, and the prerequisites of persistRcv018Analysis *)

\* The caller says which findings are stored already; the others are inserted,
\* in their order.
ToInsert(comparison, existing) ==
  LET new == comparison.findings \ existing
  IN  Ordered(new, {p \in new \X new : FindingBefore(p[1], p[2])})

AssertionIds(comparison) == {a.id : a \in ToSet(comparison.assertions)}

\* Rows are looked up by their ids; what they say is not compared.
PrerequisitesExist(comparison, rows) ==
  /\ {d.id : d \in comparison.values} \subseteq Ids(rows, "valueDomain")
  /\ {d.id : d \in comparison.domains} \subseteq Ids(rows, "comparisonDomain")
  /\ AssertionIds(comparison) \subseteq Ids(rows, "assertion")

-----------------------------------------------------------------------------
(* verifyRcv018ReadBundle *)

Those(rows, family, ids) == {r \in Of(rows, family) : r.id \in ids}

\* The rows that are stored under the ids of the analysis.
Reloaded(comparison, rows) ==
  [assertions |-> SetToSeq(Those(rows, "assertion", AssertionIds(comparison))),
   domains |-> Those(rows, "comparisonDomain", {d.id : d \in comparison.domains}),
   values |-> Those(rows, "valueDomain", {d.id : d \in comparison.values})]

\* Of the statements that an assertion binds, the reader knows one family.
StatementsAreKnown(a, rows) ==
  \A b \in a.bindings : b[1] \in StatementFamilies =>
    b[1] = "binding" /\ b[2] \in Ids(rows, "binding")

Replayed(comparison, rows) ==
  LET input == Reloaded(comparison, rows)
  IN  /\ \A a \in ToSet(input.assertions) : StatementsAreKnown(a, rows)
      /\ ComparisonHolds(input)
      /\ Compare(input) = comparison
=================================================================================
