--------------------------- MODULE DependencyAnalysis ---------------------------
(***************************************************************************)
(* Claim-evidence dependency analysis (RCV-017): the findings that         *)
(* rcv017AnalysisBuilder.ts derives from a snapshot, the relational rows   *)
(* that rcv017PersistenceProjection.ts makes of them, what the constraint  *)
(* trigger asks of those rows, and what rcv017ReadVerifier.ts asks of a    *)
(* stored analysis.                                                        *)
(*                                                                         *)
(* An input has the claim version, relations [id, evidence, direction] and *)
(* bindings [relation, statement, evidence, artifact] selected for it, a   *)
(* policy, and a snapshot with the id it is said to be stored under.  A    *)
(* binding that counts is a branch; its key is the pair of its relation    *)
(* and its statement.  Lists that the code keeps sorted are sets.          *)
(***************************************************************************)
EXTENDS ProvenanceSnapshots

DependencyRelations == ContentRelations \ {"cites"}
Directions == {"supports", "contradicts"}

Key(b) == <<b.relation, b.statement>>
KeyBefore(k, l) == k[1] < l[1] \/ (k[1] = l[1] /\ k[2] < l[2])

SelectionTyped(q) ==
  /\ IsFiniteSet(q.relations) /\ \A r \in q.relations : r.id \in Nat
  /\ IsFiniteSet(q.bindings)
  /\ \A b \in q.bindings : b.relation \in Nat /\ b.statement \in Nat
  /\ q.policy.maxDepth \in Nat

Limits == {"maxRelations", "maxBindings", "maxArtifacts", "maxStatements",
           "maxDepth", "maxFindings"}

PolicyIsValid(policy) ==
  /\ policy.enabled # {} /\ policy.enabled \subseteq DependencyRelations
  /\ \A f \in Limits : policy[f] > 0

RelationsAreValid(relations) ==
  /\ relations # {}
  /\ \A r \in relations : r.direction \in Directions \cup {"contextualizes"}
  /\ \A r, s \in relations : r.id = s.id => r = s

BindingsAreValid(bindings) ==
  bindings # {} /\ \A b, c \in bindings : b.statement = c.statement => b = c

RelationOf(input, b) == CHOOSE r \in input.relations : r.id = b.relation

\* Every selected binding is one of the snapshot, and of a selected relation.
BranchHolds(input, b) ==
  /\ \E r \in input.relations : r.id = b.relation /\ r.evidence = b.evidence
  /\ \E s \in Of(input.snapshot.rows, "binding") :
       s.id = b.statement /\ s.subject = b.evidence /\ s.object = b.artifact
  /\ <<"binding", "included", b.statement>> \in input.snapshot.keys
  /\ b.artifact \in Ids(input.snapshot.rows, "artifactVersion")

EveryRelationIsBound(input) ==
  {r.id : r \in input.relations} = {b.relation : b \in input.bindings}

Branches(input) ==
  {b \in input.bindings : RelationOf(input, b).direction # "contextualizes"}
Partition(input, direction) ==
  {b \in Branches(input) : RelationOf(input, b).direction = direction}

-----------------------------------------------------------------------------
(* buildClosure *)

End(w) == Last(w.nodes)

\* Fewer statements first, then by their ids one after the other.
WitnessBefore(v, w) ==
  \/ Len(v.steps) < Len(w.steps)
  \/ /\ Len(v.steps) = Len(w.steps)
     /\ \E i \in DOMAIN v.steps :
          v.steps[i] < w.steps[i] /\ \A j \in 1..(i - 1) : v.steps[j] = w.steps[j]

Enabled(input, node) ==
  {s \in From(input.snapshot.rows, node) : s.relation \in input.policy.enabled}

\* The ways on from the end of a path that do not lead back into it.
Extensions(input, path) ==
  {Onward(path, s) : s \in {t \in Enabled(input, End(path)) : t.object \notin ToSet(path.nodes)}}

\* A search has a queue of paths, the best witness of each version reached so
\* far, and the versions that were expanded.
SearchStates(input) ==
  LET versions  == Nodes(input.snapshot.rows)
      witnesses == [nodes : Seq(versions) \ {<<>>}, steps : Seq(Nat)]
  IN  {s \in [queue : SUBSET witnesses, best : SUBSET witnesses, done : SUBSET versions] :
         IsFiniteSet(s.queue)}

SearchStart(anchor) ==
  LET root == [nodes |-> <<anchor>>, steps |-> <<>>]
  IN  [queue |-> {root}, best |-> {root}, done |-> {}]

LeastOf(queue) == CHOOSE w \in queue : \A v \in queue : ~WitnessBefore(v, w)

\* The extensions of a path that are the best that is known of their ends.
Better(input, best, path) ==
  {w \in Extensions(input, path) : w \notin best /\
     \A b \in best \cup Extensions(input, path) : End(b) = End(w) => ~WitnessBefore(b, w)}

\* The least path of the queue goes first; it is dropped when its end has a
\* better witness or was expanded, and extended when it is not at the depth limit.
SearchOn(input, s) ==
  LET path   == LeastOf(s.queue)
      rest   == s.queue \ {path}
      better == IF Len(path.steps) >= input.policy.maxDepth THEN {}
                ELSE Better(input, s.best, path)
  IN  IF path \notin s.best \/ End(path) \in s.done THEN [s EXCEPT !.queue = rest]
      ELSE [queue |-> rest \cup better,
            best  |-> {b \in s.best : \A w \in better : End(b) # End(w)} \cup better,
            done  |-> s.done \cup {End(path)}]

\* The best witness of each version reached from anchor.
Closure(input, anchor) ==
  LET Search[s \in SearchStates(input)] ==
        IF s.queue = {} THEN s.best ELSE Search[SearchOn(input, s)]
  IN  Search[SearchStart(anchor)]

ReachedFrom(closure) == {End(w) : w \in closure}

\* The statements that were looked at: all enabled ones of every version that
\* was reached above the depth limit.
Considered(input, closure) ==
  UNION {Enabled(input, End(w)) :
           w \in {v \in closure : Len(v.steps) < input.policy.maxDepth}}

-----------------------------------------------------------------------------
(* The findings; closures gives the closure of every anchor *)

Shared(input, direction) ==
  LET At(node) == {b \in Partition(input, direction) : b.artifact = node}
  IN  {[type |-> "shared", direction |-> direction, at |-> node,
        members |-> {Key(b) : b \in At(node)}] :
         node \in {n \in {b.artifact : b \in Partition(input, direction)} :
                     Cardinality(At(n)) >= 2}}

CommonUpstream(input, closures, direction) ==
  LET Member(b, node) ==
        LET w == CHOOSE v \in closures[b.artifact] : End(v) = node
        IN  [key |-> Key(b), nodes |-> w.nodes, steps |-> w.steps]
      Members(node) == {Member(b, node) :
        b \in {c \in Partition(input, direction) : node \in ReachedFrom(closures[c.artifact])}}
      Reaches == UNION {ReachedFrom(closures[b.artifact]) : b \in Branches(input)}
  IN  {[type |-> "common", direction |-> direction, at |-> node, members |-> Members(node)] :
         node \in {n \in Reaches : /\ Cardinality(Members(n)) >= 2
                                   /\ \E m \in Members(n) : m.steps # <<>>}}

\* Mutant of NoCommonUpstream: only the anchors are compared.
NoCommonAnchor(input, closures, direction) ==
  {[type |-> "none", direction |-> direction, lower |-> Key(p[1]), upper |-> Key(p[2])] :
     p \in {q \in Partition(input, direction) \X Partition(input, direction) :
              KeyBefore(Key(q[1]), Key(q[2])) /\ q[1].artifact # q[2].artifact}}

NoCommonUpstream(input, closures, direction) ==
  {[type |-> "none", direction |-> direction, lower |-> Key(p[1]), upper |-> Key(p[2])] :
     p \in {q \in Partition(input, direction) \X Partition(input, direction) :
              /\ KeyBefore(Key(q[1]), Key(q[2])) /\ q[1].artifact # q[2].artifact
              /\ ReachedFrom(closures[q[1].artifact]) \cap ReachedFrom(closures[q[2].artifact]) = {}}}

\* What is said, or not said, of the provenance of versions in a closure.
KnowledgeIncomplete(input, closures) ==
  LET Known(b) == {s \in Of(input.snapshot.rows, "knowledge") :
        s.relation \in {"unknown", "partial"} /\ s.subject \in ReachedFrom(closures[b.artifact])}
      Derived(b) == input.snapshot.unrecorded \cap ReachedFrom(closures[b.artifact])
  IN  {[type |-> "incomplete", key |-> Key(b),
        affected |-> {s.subject : s \in Known(b)} \cup Derived(b),
        statements |-> {s.id : s \in Known(b)}, derived |-> Derived(b)] :
         b \in {c \in Branches(input) : Known(c) # {} \/ Derived(c) # {}}}

Closures(input) == [a \in {b.artifact : b \in Branches(input)} |-> Closure(input, a)]

Findings(input) ==
  LET closures == Closures(input)
  IN  (UNION {Shared(input, d) \cup CommonUpstream(input, closures, d)
               \cup NoCommonUpstream(input, closures, d) : d \in Directions})
        \cup KnowledgeIncomplete(input, closures)

WithinLimits(input) ==
  LET closures == Closures(input)
      values   == {closures[a] : a \in DOMAIN closures}
  IN  /\ Cardinality(input.relations) <= input.policy.maxRelations
      /\ Cardinality(input.bindings)  <= input.policy.maxBindings
      /\ Cardinality(UNION {ReachedFrom(c) : c \in values}) <= input.policy.maxArtifacts
      /\ Cardinality(UNION {Considered(input, c) : c \in values}) <= input.policy.maxStatements
      /\ Cardinality(Findings(input)) <= input.policy.maxFindings

\* A statement that leads out of the snapshot fails the walk.
WalksStayInside(input) ==
  \A b \in Branches(input) : \A s \in Considered(input, Closure(input, b.artifact)) :
    s.object \in Ids(input.snapshot.rows, "artifactVersion")

AnalysisHolds(input) ==
  /\ RelationsAreValid(input.relations) /\ BindingsAreValid(input.bindings)
  /\ PolicyIsValid(input.policy)
  /\ \A b \in input.bindings : BranchHolds(input, b)
  /\ EveryRelationIsBound(input)
  /\ WalksStayInside(input)
  /\ WithinLimits(input)

\* An analysis names its snapshot by id and by hash, and its policy by hash.
Analyse(input) ==
  [claim |-> input.claim, relations |-> input.relations, bindings |-> input.bindings,
   policy |-> input.policy, snapshotId |-> input.snapshotId, snapshot |-> input.snapshot,
   findings |-> Findings(input)]

-----------------------------------------------------------------------------
(* projectRcv017Persistence *)

OfType(a, type) == {f \in a.findings : f.type = type}

\* Mutant of StepRows: a version has the statement that led to it.
StepRowsShifted(f) ==
  UNION {{<<f.direction, f.at, m.key, i - 1, m.nodes[i],
            IF i - 1 \in DOMAIN m.steps THEN {m.steps[i - 1]} ELSE {}>> : i \in DOMAIN m.nodes} :
           m \in f.members}

\* A witness has a row for each version; the one of its end has no statement.
StepRows(f) ==
  UNION {{<<f.direction, f.at, m.key, i - 1, m.nodes[i],
            IF i \in DOMAIN m.steps THEN {m.steps[i]} ELSE {}>> : i \in DOMAIN m.nodes} :
           m \in f.members}

Project(a) ==
  [shared |-> {<<f.direction, f.at>> : f \in OfType(a, "shared")},
   sharedMembers |-> UNION {{<<f.direction, f.at, k>> : k \in f.members} : f \in OfType(a, "shared")},
   common |-> {<<f.direction, f.at>> : f \in OfType(a, "common")},
   commonMembers |->
     UNION {{<<f.direction, f.at, m.key>> : m \in f.members} : f \in OfType(a, "common")},
   steps |-> UNION {StepRows(f) : f \in OfType(a, "common")},
   none |-> {<<f.direction, f.lower, f.upper>> : f \in OfType(a, "none")},
   incomplete |-> {f.key : f \in OfType(a, "incomplete")},
   affected |-> UNION {{<<f.key, n>> : n \in f.affected} : f \in OfType(a, "incomplete")},
   known    |-> UNION {{<<f.key, n>> : n \in f.statements} : f \in OfType(a, "incomplete")},
   derived  |-> UNION {{<<f.key, n>> : n \in f.derived} : f \in OfType(a, "incomplete")}]

-----------------------------------------------------------------------------
(* rcv017_validate_claim_evidence_dependency_analysis, over the tables t of *)
(* the analysis a and the stored rows                                       *)

BindingAt(a, k)   == CHOOSE b \in a.bindings : Key(b) = k
DirectionAt(a, k) == (CHOOSE r \in a.relations : r.id = k[1]).direction

\* A path of rows starts at the anchor, ends at the finding, and each row but
\* the last has a stored, enabled statement that leads to the next.
StepsHold(t, a, rows, m) ==
  LET path == {s \in t.steps : s[1] = m[1] /\ s[2] = m[2] /\ s[3] = m[3]}
      last == Cardinality(path) - 1
      At(i) == CHOOSE s \in path : s[4] = i
  IN  /\ path # {} /\ {s[4] : s \in path} = 0..last
      /\ \A s \in path : s[6] = {} <=> s[4] = last
      /\ Cardinality({s[5] : s \in path}) = Cardinality(path)
      /\ At(0)[5] = BindingAt(a, m[3]).artifact /\ At(last)[5] = m[2]
      /\ \A i \in 0..(last - 1) : \E r \in Of(rows, "provenance") :
           /\ {r.id} = At(i)[6] /\ r.subject = At(i)[5] /\ r.object = At(i + 1)[5]
           /\ r.relation \in a.policy.enabled

SharedHolds(t, a, f) ==
  LET members == {m \in t.sharedMembers : m[1] = f[1] /\ m[2] = f[2]}
  IN  /\ Cardinality(members) >= 2
      /\ \A m \in members : /\ BindingAt(a, m[3]).artifact = f[2]
                            /\ DirectionAt(a, m[3]) = f[1]

CommonUpstreamHolds(t, a, f) ==
  LET members == {m \in t.commonMembers : m[1] = f[1] /\ m[2] = f[2]}
  IN  /\ Cardinality(members) >= 2
      /\ \E s \in t.steps : s[1] = f[1] /\ s[2] = f[2] /\ s[4] > 0
      /\ \A m \in members : DirectionAt(a, m[3]) = f[1]

TriggerHolds(t, a, rows) ==
  /\ \A r \in a.relations : \E s \in Of(rows, "relation") :
       s.id = r.id /\ s.subject = a.claim /\ s.object = r.evidence /\ s.relation = r.direction
  /\ EveryRelationIsBound(a)
  /\ \A b \in a.bindings : \E s \in Of(rows, "binding") :
       s.id = b.statement /\ s.subject = b.evidence /\ s.object = b.artifact
  /\ \A f \in t.shared : SharedHolds(t, a, f)
  /\ \A f \in t.common : CommonUpstreamHolds(t, a, f)
  /\ \A m \in t.commonMembers : StepsHold(t, a, rows, m)
  /\ \A f \in t.none : /\ DirectionAt(a, f[2]) = f[1] /\ DirectionAt(a, f[3]) = f[1]
                       /\ BindingAt(a, f[2]).artifact # BindingAt(a, f[3]).artifact
  /\ \A k \in t.incomplete : \E e \in t.known \cup t.derived : e[1] = k
  /\ \A e \in t.known : \E s \in Of(rows, "knowledge") :
       s.id = e[2] /\ s.relation \in {"unknown", "partial"}

-----------------------------------------------------------------------------
(* verifyRcv017PersistedAnalysis: the findings are derived once more from  *)
(* the snapshot that the analysis names, which is verified itself          *)

InputOf(a) ==
  [claim |-> a.claim, relations |-> a.relations, bindings |-> a.bindings,
   policy |-> a.policy, snapshotId |-> a.snapshotId, snapshot |-> a.snapshot]

Reproduced(a) == AnalysisHolds(InputOf(a)) /\ a.findings = Findings(InputOf(a))
================================================================================
