------------------------------ MODULE MCProvenance ------------------------------
(* Small instances of ProvenanceStore: every graph of at most seven         *)
(* statements between four versions, with snapshots of several roots and    *)
(* depths and analyses of them; every three assertions of a domain with two *)
(* contexts; and calls that race, are given wrong rows, lack a Foundation   *)
(* target, or fail.                                                         *)
EXTENDS ProvenanceStore, TLC

Row(family, id, subject, relation, object) ==
  [family |-> family, id |-> id, subject |-> subject, relation |-> relation,
   object |-> object, basis |-> {}, valid |-> "none", source |-> 0]

Version(n)  == Row("artifactVersion", n, 0, "", 0)
Evidence(n) == Row("evidence", n, 0, "", 0)

Candidates ==
  {Row("provenance", 11, 1, "quotes", 2), Row("provenance", 12, 2, "reposts", 3),
   Row("provenance", 13, 3, "quotes", 1), Row("provenance", 14, 1, "derived_from", 2),
   Row("provenance", 15, 1, "cites", 3),  Row("provenance", 16, 3, "incorporates", 4),
   Row("provenance", 17, 4, "quotes", 4)}

Foundation == {Version(n) : n \in 1..4} \cup {Evidence(n) : n \in 31..33}
  \cup {Row("binding", 40 + n, 30 + n, "bound_to", n) : n \in 1..3}
  \cup {Row("claim", 60, 0, "", 0), Row("knowledge", 51, 3, "partial", 0),
        Row("knowledge", 52, 1, "known", 0)}
  \cup {Row("relation", 71, 60, "supports", 31), Row("relation", 72, 60, "supports", 32),
        Row("relation", 73, 60, "supports", 33)}

Bind(r, n) == [relation |-> r, statement |-> 40 + n, evidence |-> 30 + n, artifact |-> n]
Rel(n, direction) == [id |-> 70 + n, evidence |-> 30 + n, direction |-> direction]

Depth(d) == [maxRoots |-> 3, maxNodes |-> 4, maxEdges |-> 7, maxDepth |-> d]
Narrow   == [maxRoots |-> 2, maxNodes |-> 3, maxEdges |-> 3, maxDepth |-> 3]

Enable(relations, d) ==
  [enabled |-> relations, maxRelations |-> 3, maxBindings |-> 3, maxArtifacts |-> 4,
   maxStatements |-> 7, maxDepth |-> d, maxFindings |-> 20]
AllEnabled == DependencyRelations
Tight == [Enable(AllEnabled, 3) EXCEPT !.maxFindings = 3, !.maxArtifacts = 3, !.maxStatements = 3]

MCPolicies == {Depth(1), Depth(2), Depth(3), Narrow}
MCAnalytic == {Enable(AllEnabled, 1), Enable(AllEnabled, 3), Enable({"quotes"}, 3), Tight}

Snapshot(roots, policy) ==
  [call |-> "snapshot", roots |-> roots, policy |-> policy, hidden |-> {}, altered |-> {}]

Analysis(of, as, ns, policy) ==
  [call |-> "analysis", of |-> of, snapshotId |-> as, claim |-> 60, policy |-> policy,
   relations |-> {Rel(n, "supports") : n \in ns}, bindings |-> {Bind(70 + n, n) : n \in ns}]

\* The walks to take, and the analyses of the snapshots they give.
Walks ==
  {<<<<1>>, Depth(2)>>, <<<<1>>, Depth(3)>>, <<<<1>>, Narrow>>,
   <<<<3, 1, 2>>, Depth(1)>>, <<<<3, 1, 2>>, Narrow>>}

Script(rows, more, failures, one, two, three, four) ==
  [rows |-> rows, later |-> more, troubles |-> failures,
   calls |-> (101 :> one @@ 102 :> two @@ 103 :> three @@ 104 :> four)]

Graphs ==
  {Script(Foundation \cup S, {}, 0, {Snapshot(w[1], w[2])},
          {Analysis(101, 101, 1..3, Enable(AllEnabled, 3))}, {}, {}) :
     S \in SUBSET Candidates, w \in Walks}
  \cup
  {Script(Foundation \cup Candidates, {}, 0, {Snapshot(<<1>>, Depth(3))},
          {Analysis(101, 101, 1..3, p) : p \in MCAnalytic}, {}, {})}

-----------------------------------------------------------------------------
Statement(n) == CHOOSE r \in Candidates : r.id = n

\* Sources, and statements that rest on evidence and on a snapshot.
Sources ==
  {[Row("sourceVersion", 80 + n, 0, "", 0) EXCEPT !.source = 90 + n] : n \in 1..2}
  \cup {Row("attribution", 21, 1, "authored_by", 81), Row("attribution", 22, 2, "hosted_by", 82),
        Row("sourceRelation", 23, 91, "alias_of", 92)}

Founded  == [Statement(12) EXCEPT !.basis = {<<"evidence", 39>>}]
Reviewed == [Row("knowledge", 53, 2, "unknown", 0) EXCEPT !.basis = {<<"provenance_snapshot", 101>>}]

Stored == Foundation \cup Sources \cup {Statement(11), Statement(14), Founded}

Whole   == Snapshot(<<1>>, Depth(2))
Replace(r) == [Whole EXCEPT !.hidden = {r.id}, !.altered = {r}]

\* Snapshots of what is not stored so: a statement altered, left out, made up,
\* given twice, with a validity, or under a policy that is not stored.
Wrong ==
  {Replace([Founded EXCEPT !.relation = "cites"]), Replace([Founded EXCEPT !.basis = {}]),
   [Whole EXCEPT !.hidden = {11}], [Whole EXCEPT !.hidden = {2}],
   [Whole EXCEPT !.altered = {Statement(16)}],
   [Whole EXCEPT !.altered = {[Statement(11) EXCEPT !.relation = "cites"]}],
   Replace([Statement(11) EXCEPT !.valid = "forward"]),
   Replace([Row("sourceRelation", 23, 91, "part_of", 92) EXCEPT !.valid = "forward"]),
   [Whole EXCEPT !.policy.maxEdges = 9]}

Analyses ==
  {Analysis(101, 101, {1, 2}, Enable(AllEnabled, 3)),
   Analysis(101, 103, {1, 2}, Enable(AllEnabled, 3)),
   Analysis(101, 101, {1, 2}, Enable({"quotes"}, 2)),
   [Analysis(101, 101, {1, 2}, Enable(AllEnabled, 3)) EXCEPT
      !.relations = {Rel(1, "supports"), Rel(2, "contradicts")}],
   [Analysis(101, 101, {1, 2}, Enable(AllEnabled, 3)) EXCEPT
      !.relations = {Rel(1, "supports")}],
   [Analysis(101, 101, {1, 2}, Enable(AllEnabled, 3)) EXCEPT !.claim = 61]}

Verify(n)     == [call |-> "verify", id |-> n]
ReadOf(n)     == [call |-> "read", id |-> n]

Good == Analysis(101, 101, {1, 2}, Enable(AllEnabled, 3))

AllStored == Stored \cup {Evidence(39)}

Races ==
  {Script(Stored, {Evidence(39), Reviewed}, 0, {Whole}, {Good}, {Whole}, {}),
   Script(AllStored, {}, 1, {Whole}, {Good}, {}, {ReadOf(102)}),
   Script(AllStored, {}, 0, {Whole}, {Good}, {ReadOf(102)}, {ReadOf(102)}),
   Script(AllStored, {}, 0, {Whole}, Analyses, {Snapshot(<<1>>, Depth(3))}, {})}
  \cup {Script(AllStored, {}, 0, {q}, {Good}, {Verify(101)}, {ReadOf(102)}) : q \in Wrong}

-----------------------------------------------------------------------------
\* Assertions of three values, the first excluded by the others.
Closed == [family |-> "valueDomain", id |-> 201, allowed |-> 1..3]
Wider  == [Closed EXCEPT !.allowed = 1..4]

Domain(n, values, pairs) ==
  [family |-> "comparisonDomain", id |-> n, property |-> n, values |-> values,
   keys |-> {"region"}, pairs |-> pairs]

States == Domain(211, Closed, {<<1, 2>>, <<1, 3>>})
Others == Domain(212, Closed, {<<2, 3>>})

Asserted(n, domain, value, region) ==
  [family |-> "assertion", id |-> 220 + n, subject |-> 1, property |-> domain.property,
   domain |-> domain, value |-> value, context |-> [region |-> region],
   bindings |-> {<<"binding", 41>>}]

Comparison(assertions) ==
  [call |-> "comparison", assertions |-> assertions,
   domains |-> {assertions[i].domain : i \in DOMAIN assertions},
   values |-> {assertions[i].domain.values : i \in DOMAIN assertions}]

ReplayOf(n) == [call |-> "replay", id |-> n]

\* What is asserted, and what is stored of it.
Asserting(rows, more, failures, one, two, three, four) ==
  Script({Closed, States, Others} \cup rows, more, failures, one, two, three, four)

Alike ==
  {Asserting({x, y, z}, {}, 0, {Comparison(<<z, x, y>>)}, {}, {}, {}) :
     x \in {Asserted(1, d, v, "a") : d \in {States, Others}, v \in 1..3},
     y \in {Asserted(2, States, v, r) : v \in 1..3, r \in {"a", "b"}},
     z \in {Asserted(3, States, v, "a") : v \in 1..3}}

A1 == Asserted(1, States, 2, "a")
A2 == Asserted(2, States, 1, "a")
A3 == Asserted(3, States, 3, "a")
Bound(a, kind, n) == [a EXCEPT !.bindings = @ \cup {<<kind, n>>}]

\* Comparisons of what is not stored so: another value or domain, an assertion
\* or a domain that is missing, a statement of another family or of none.
Disputed ==
  {Comparison(<<A1, A2>>), Comparison(<<[A1 EXCEPT !.value = 3], A2>>),
   Comparison(<<A1, A3>>), Comparison(<<A1, Asserted(2, Others, 2, "a")>>),
   Comparison(<<Asserted(1, Domain(211, Wider, {<<1, 2>>}), 4, "a")>>),
   Comparison(<<Asserted(1, Domain(213, Closed, {}), 1, "a")>>),
   Comparison(<<[A1 EXCEPT !.context = [zone |-> "a"]]>>),
   [Comparison(<<A1>>) EXCEPT !.domains = {States, Others}],
   Comparison(<<Asserted(1, Domain(211, Closed, {<<2, 1>>}), 1, "a")>>)}

Disputes ==
  {Asserting({A1, A2, A3}, {}, 1, {Comparison(<<A1, A2, A3>>)}, {Comparison(<<A3, A2>>)}, {}, {}),
   Asserting({A1, A2, A3}, {}, 0, {Comparison(<<A1, A2, A3>>)}, {Comparison(<<A3, A2, A1>>)},
             {}, {ReplayOf(102)})}
  \cup {Asserting({A1, A2}, {}, 0, {q}, {}, {}, {ReplayOf(101)}) : q \in Disputed}
  \cup {Asserting({Bound(A1, k, n), A2} \cup (Foundation \ {r}), {r}, 0,
                  {Comparison(<<Bound(A1, k, n), A2>>)}, {}, {}, {ReplayOf(101)}) :
           k \in {"binding", "knowledge", "claimVersion"}, n \in {42, 51},
           r \in {Row("binding", 42, 32, "bound_to", 2)}}

MCScripts == Graphs \cup Races \cup Alike \cup Disputes
================================================================================
