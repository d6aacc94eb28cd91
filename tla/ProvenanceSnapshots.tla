-------------------------- MODULE ProvenanceSnapshots --------------------------
(***************************************************************************)
(* Evidence provenance snapshots (RCV-016): what the builder makes of the  *)
(* rows it is given (rcv016SnapshotBuilder.ts, rcv016CycleDiagnostics.ts,  *)
(* rcv016SnapshotMembership.ts), and what the read verifier asks of a      *)
(* stored snapshot (rcv016ReadVerifier.ts).                                *)
(*                                                                         *)
(* A row is a record with a family and an id that is a number, ordered as  *)
(* the canonical UUIDs are.  A statement also has a subject, a relation    *)
(* (the state, for a knowledge statement), an object, the targets of its   *)
(* Foundation as pairs of a kind and an id, and a validity.  A canonical   *)
(* text and its hash are the value they stand for; byte limits are left    *)
(* out, the counted ones are kept.                                         *)
(***************************************************************************)
EXTENDS Naturals, Sequences, FiniteSets, SequencesExt

Of(rows, family)  == {r \in rows : r.family = family}
Ids(rows, family) == {r.id : r \in Of(rows, family)}

StatementFamilies ==
  {"provenance", "sourceRelation", "attribution", "binding", "knowledge"}
Families == StatementFamilies \cup {"artifactVersion", "sourceVersion"}

ContentRelations ==
  {"cites", "derived_from", "incorporates", "quotes", "reposts",
   "syndicated_from", "uses_information_from"}

\* The columns that the builders compare: a statement is of two versions.
RowTyped(r) ==
  r.id \in Nat /\ (r.family = "provenance" => r.subject \in Nat /\ r.object \in Nat)

InputTyped(input) ==
  /\ IsFiniteSet(input.rows) /\ \A r \in input.rows : RowTyped(r)
  /\ input.policy.maxDepth \in Nat /\ input.roots \in Seq(Nat)

-----------------------------------------------------------------------------
(* validateInput *)

\* A validity that ends before it begins is nobody's; most statements are
\* bound to no time at all.
CommonHolds(r, timeless) == r.valid \in IF timeless THEN {"none"} ELSE {"none", "forward"}

ArtifactVersionHolds(r) == r.family = "artifactVersion"
SourceVersionHolds(r)   == r.family = "sourceVersion"
ProvenanceHolds(r) ==
  r.family = "provenance" /\ r.relation \in ContentRelations /\ CommonHolds(r, TRUE)
AttributionHolds(r) ==
  /\ r.family = "attribution" /\ CommonHolds(r, TRUE)
  /\ r.relation \in {"authored_by", "published_by", "hosted_by", "issued_by"}
SourceRelationHolds(r) ==
  /\ r.family = "sourceRelation"
  /\ r.relation \in {"alias_of", "successor_of", "part_of", "controlled_by", "operated_by"}
  /\ CommonHolds(r, r.relation \in {"alias_of", "successor_of"})
BindingHolds(r) ==
  r.family = "binding" /\ r.relation = "bound_to" /\ CommonHolds(r, TRUE)
KnowledgeHolds(r) ==
  /\ r.family = "knowledge" /\ CommonHolds(r, TRUE)
  /\ r.relation \in {"unknown", "partial", "known"}

RowHolds(r) ==
  \/ ArtifactVersionHolds(r) \/ SourceVersionHolds(r) \/ ProvenanceHolds(r)
  \/ AttributionHolds(r) \/ SourceRelationHolds(r) \/ BindingHolds(r)
  \/ KnowledgeHolds(r)

\* One row to an identity, in each family.
UniqueIds(rows) ==
  \A a, b \in rows : a.family = b.family /\ a.id = b.id => a = b

\* Every policy walks all seven relations; only its bounds vary.
TraversalPolicyHolds(policy) ==
  \A f \in {"maxRoots", "maxNodes", "maxEdges", "maxDepth"} : policy[f] > 0

\* input has rows, the sequence of its roots, and a traversal policy.
InputHolds(input) ==
  /\ TraversalPolicyHolds(input.policy)
  /\ \A r \in input.rows : RowHolds(r)
  /\ UniqueIds(input.rows)
  /\ input.roots # <<>> /\ IsInjective(input.roots)
  /\ Len(input.roots) <= input.policy.maxRoots
  /\ ToSet(input.roots) \subseteq Ids(input.rows, "artifactVersion")

-----------------------------------------------------------------------------
(* The walk from the roots *)

\* S in the order that the pairs of before make of it: the element at i has
\* i - 1 others before it.
Ordered(S, before) ==
  [i \in 1..Cardinality(S) |->
     CHOOSE x \in S : Cardinality({y \in S : <<y, x>> \in before}) = i - 1]

Roots(input)     == ToSet(input.roots)
Ascending(S)     == Ordered(S, {p \in S \X S : p[1] < p[2]})
From(rows, node) == {r \in Of(rows, "provenance") : r.subject = node}
Nodes(rows) ==
  Ids(rows, "artifactVersion") \cup {r.object : r \in Of(rows, "provenance")}

\* A walk has a queue, and the depth of every version, beyond maxDepth when it
\* is not reached.
WalkStates(input) ==
  [queue : Seq(Nodes(input.rows)), depths : [Nodes(input.rows) -> Nat]]

WalkStart(input) ==
  [queue  |-> Ascending(Roots(input)),
   depths |-> [n \in Nodes(input.rows) |->
                 IF n \in Roots(input) THEN 0 ELSE input.policy.maxDepth + 1]]

\* A version enters the queue again when a shorter way to it is found; one at
\* maxDepth is not expanded.
WalkOn(input, w) ==
  LET depth == w.depths[Head(w.queue)]
      found == {n \in {r.object : r \in From(input.rows, Head(w.queue))} : depth + 1 < w.depths[n]}
  IN  IF depth >= input.policy.maxDepth THEN [w EXCEPT !.queue = Tail(@)]
      ELSE [queue  |-> Tail(w.queue) \o Ascending(found),
            depths |-> [n \in Nodes(input.rows) |-> IF n \in found THEN depth + 1 ELSE w.depths[n]]]

Depths(input) ==
  LET Walk[w \in WalkStates(input)] ==
        IF w.queue = <<>> THEN w.depths ELSE Walk[WalkOn(input, w)]
  IN  Walk[WalkStart(input)]

Reached(input) ==
  LET depths == Depths(input)
  IN  {n \in DOMAIN depths : depths[n] <= input.policy.maxDepth}

\* Mutant of Walked: the statements of versions at the last depth, too.
WalkedFromLast(input) ==
  {r \in Of(input.rows, "provenance") : r.subject \in Reached(input)}

\* The statements that were walked: those of versions above the last depth.
Walked(input) ==
  LET depths == Depths(input)
  IN  {r \in Of(input.rows, "provenance") :
         r.subject \in DOMAIN depths /\ depths[r.subject] < input.policy.maxDepth}

Attributions(input) ==
  {r \in Of(input.rows, "attribution") : r.subject \in Reached(input)}

SourceVersions(input) ==
  {r \in Of(input.rows, "sourceVersion") :
     r.id \in {a.object : a \in Attributions(input)}}

\* Both sources have a version in the snapshot.
SourceRelations(input) ==
  LET sources == {r.source : r \in SourceVersions(input)}
  IN  {r \in Of(input.rows, "sourceRelation") : {r.subject, r.object} \subseteq sources}

Included(input) ==
  LET reached == Reached(input)
  IN  {r \in Of(input.rows, "artifactVersion") : r.id \in reached}
        \cup Walked(input) \cup Attributions(input) \cup SourceVersions(input)
        \cup SourceRelations(input)
        \cup {r \in Of(input.rows, "binding") : r.object \in reached}
        \cup {r \in Of(input.rows, "knowledge") : r.subject \in reached}

\* What the builder refuses after its input was found well formed.
Complete(input) ==
  /\ {r.object : r \in Walked(input)} \subseteq Ids(input.rows, "artifactVersion")
  /\ Cardinality(Reached(input)) <= input.policy.maxNodes
  /\ Cardinality(Walked(input)) <= input.policy.maxEdges
  /\ {r.object : r \in Attributions(input)} \subseteq Ids(input.rows, "sourceVersion")

-----------------------------------------------------------------------------
(* buildRcv016CycleDiagnostics *)

\* The rotation of a cycle that comes first: the one that starts at the least
\* of its versions, for no version occurs twice in it.
Normal(nodes, steps) ==
  LET first == CHOOSE i \in DOMAIN nodes : \A j \in DOMAIN nodes : nodes[i] <= nodes[j]
      Turned(s) == SubSeq(s, first, Len(s)) \o SubSeq(s, 1, first - 1)
  IN  [nodes |-> Turned(nodes), steps |-> Turned(steps)]

\* A statement that leads back into a path closes the end of it.
CycleOf(path, r) ==
  LET at == CHOOSE i \in DOMAIN path.nodes : path.nodes[i] = r.object
  IN  Normal(SubSeq(path.nodes, at, Len(path.nodes)),
             Append(SubSeq(path.steps, at, Len(path.steps)), r.id))

\* A path that goes on with a statement.
Onward(path, r) == [nodes |-> Append(path.nodes, r.object), steps |-> Append(path.steps, r.id)]

\* Every path from every version, until it meets itself.  Statements between
\* the same two versions make cycles of their own.
Cycles(statements) ==
  LET Visit[path \in [nodes : Seq(Nat), steps : Seq(Nat)]] ==
        UNION {IF r.object \in ToSet(path.nodes) THEN {CycleOf(path, r)} ELSE Visit[Onward(path, r)] :
                 r \in {s \in statements : s.subject = Last(path.nodes)}}
  IN  UNION {Visit[[nodes |-> <<r.subject>>, steps |-> <<>>]] : r \in statements}

-----------------------------------------------------------------------------
(* The snapshot *)

\* A root that other versions of the snapshot rest on is a member twice.
Keys(input) ==
  {<<"artifactVersion", "root", n>> : n \in Roots(input)}
    \cup {<<"artifactVersion", "included", r.object>> : r \in Walked(input)}
    \cup {<<r.family, "included", r.id>> :
            r \in {s \in Included(input) : s.family # "artifactVersion"}}

Unrecorded(keys, rows) ==
  {k[3] : k \in {q \in keys : q[1] = "artifactVersion"}}
    \ {r.subject : r \in Of(rows, "knowledge")}

BuildHolds(input) == InputHolds(input) /\ Complete(input)

\* rows are the arrays of the snapshot, keys its membership.
Build(input) ==
  LET rows == Included(input)
      keys == Keys(input)
  IN  [roots      |-> Roots(input),
       policy     |-> input.policy,
       rows       |-> rows,
       keys       |-> keys,
       unrecorded |-> Unrecorded(keys, rows),
       cycles     |-> Cycles(Of(rows, "provenance"))]

\* What the writer locks: the targets of every Foundation in the snapshot.
FoundationTargets(rows) ==
  UNION {r.basis : r \in {s \in rows : s.family \in StatementFamilies}}

-----------------------------------------------------------------------------
(* verifyRcv016HistoricalSnapshot: kept is the stored row, with an id, the *)
(* snapshot and its members; rows, ids and policies are what is stored now *)

\* The rows that the members of a stored snapshot name, as they are now.
Historical(rows, members) ==
  {r \in rows : \E k \in members : k[1] = r.family /\ k[3] = r.id}

\* A statement that says it is bound to no time, which a relation of sources
\* is not asked.
ShapeHolds(r) ==
  r.family \in StatementFamilies \ {"sourceRelation"} => r.valid = "none"

SchemaHolds(snapshot) ==
  /\ snapshot.roots # {} /\ UniqueIds(snapshot.rows)
  /\ \A r \in snapshot.rows : ShapeHolds(r)

MembershipHolds(kept) == kept.snapshot.keys = kept.members
DerivedHolds(snapshot) ==
  snapshot.unrecorded = Unrecorded(snapshot.keys, snapshot.rows)
DiagnosticsHold(snapshot) ==
  snapshot.cycles = Cycles(Of(snapshot.rows, "provenance"))
PolicyHolds(snapshot, policies) == snapshot.policy \in policies

\* Mutant of HistoryHolds: the rows are looked up and not compared.
HistoryNamed(kept, rows) ==
  {<<r.family, r.id>> : r \in kept.snapshot.rows}
    = {<<r.family, r.id>> : r \in Historical(rows, kept.members)}

\* The rows of the snapshot are the rows stored now.
HistoryHolds(kept, rows) == kept.snapshot.rows = Historical(rows, kept.members)

\* Which targets of a Foundation exist.
Existing(rows, ids) ==
  {<<"evidence", n>> : n \in Ids(rows, "evidence")}
    \cup {<<"artifact_version", n>> : n \in Ids(rows, "artifactVersion")}
    \cup {<<"provenance_snapshot", n>> : n \in ids}

FoundationsHold(kept, rows, ids) ==
  FoundationTargets(Historical(rows, kept.members)) \subseteq Existing(rows, ids)

Verified(kept, rows, ids, policies) ==
  /\ SchemaHolds(kept.snapshot)
  /\ MembershipHolds(kept)
  /\ DerivedHolds(kept.snapshot)
  /\ DiagnosticsHold(kept.snapshot)
  /\ PolicyHolds(kept.snapshot, policies)
  /\ HistoryHolds(kept, rows)
  /\ FoundationsHold(kept, rows, ids)

-----------------------------------------------------------------------------
(* What a snapshot should be *)

\* The versions within d statements of the roots.
Within(rows, roots, d) ==
  LET W[n \in Nat] ==
        IF n = 0 THEN roots
        ELSE W[n - 1] \cup {r.object : r \in {s \in Of(rows, "provenance") :
                                                s.subject \in W[n - 1]}}
  IN  W[d]

\* s is a path of statements, each going on where the one before it ended.
IsChain(s) == \A i \in 1..(Len(s) - 1) : s[i].object = s[i + 1].subject

\* The elementary cycles, starting at their least version.
ElementaryCycles(statements) ==
  {s \in UNION {[1..n -> statements] : n \in 1..Cardinality({r.subject : r \in statements})} :
     /\ IsChain(s) /\ Last(s).object = s[1].subject
     /\ \A i, j \in DOMAIN s : s[i].subject = s[j].subject => i = j
     /\ \A i \in DOMAIN s : s[1].subject <= s[i].subject}
================================================================================
