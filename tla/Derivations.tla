------------------------------ MODULE Derivations ------------------------------
(***************************************************************************)
(* Reproducible derivations (RCV-015) over a growing body of evidence: the *)
(* calls of EvidenceAssessments, createDerivationRuleRevision,             *)
(* createDerivation and the reads getClaimVersionDetails and               *)
(* getDerivationDetails.  The processes that call may run different builds *)
(* of the code, and each derivation names the one that made it.            *)
(***************************************************************************)
EXTENDS EvidenceAssessments

\* Builds: records of the three artifact hashes that a process computes.
CONSTANT Builds

\* The other two hashes are taken over the execution contract's, too.
ASSUME BuildAssumption ==
  \A b, d \in Builds :
    b.interpreter = d.interpreter \/ b.builder = d.builder => b.execution = d.execution

VARIABLES
  snap,  \* The rows a REPEATABLE READ transaction sees.
  read   \* What its statements have loaded of them.

vars == <<evars, snap, read>>

-----------------------------------------------------------------------------
(* Rows *)

Identity(b) == [interpreter |-> b.interpreter, execution |-> b.execution]

IdentityOf(mode, i) == IF mode = "deterministic" THEN i ELSE None

\* definition: the identity in the text of the definition; identity: in the
\* columns.  A derivation copies the columns of its rule.
Rule(id, q) ==
  [table |-> "rule", id |-> id, key |-> q.key, mode |-> q.mode,
   definition |-> IdentityOf(q.mode, q.definition),
   identity |-> IdentityOf(q.mode, q.definition), builder |-> q.build.builder]

EvidenceInput(id, r) == [table |-> "evidence_input", derivation |-> id, relation |-> r]

AssessmentInput(id, a) ==
  [table |-> "assessment_input", derivation |-> id,
   assessment |-> a.id, relation |-> a.relation]

Audit(id, output) == [table |-> "audit", derivation |-> id, output |-> output]

EvidenceInputs(D, id) == {i.relation : i \in {x \in Of(D, "evidence_input") : x.derivation = id}}

AssessmentInputs(D, id) ==
  {i.assessment : i \in {x \in Of(D, "assessment_input") : x.derivation = id}}

Audits(D, id) == {x \in Of(D, "audit") : x.derivation = id}

\* fk_derivations_*: the contract, the identity and the builder of the rule.
DerivationStands(x, D) ==
  \E r \in Of(D, "rule") :
    /\ r.id = x.rule /\ r.mode = x.mode
    /\ r.identity = x.identity /\ r.builder = x.builder

EvidenceInputStands(i, D) ==
  \E x \in Of(D, "derivation"), r \in Of(D, "relation") :
    x.id = i.derivation /\ r.id = i.relation /\ r.version = x.version

AssessmentInputStands(i, D) ==
  /\ EvidenceInputStands(i, D)
  /\ \E a \in Of(D, "assessment") : a.id = i.assessment /\ a.relation = i.relation

\* All foreign keys.
Stands(x, D) ==
  /\ x.table = "relation" => RelationStands(x, D)
  /\ x.table = "assessment" => AssessmentStands(x, D)
  /\ x.table = "comparison" => ComparisonStands(x, D)
  /\ x.table = "derivation" => DerivationStands(x, D)
  /\ x.table = "evidence_input" => EvidenceInputStands(x, D)
  /\ x.table = "assessment_input" => AssessmentInputStands(x, D)
  /\ x.table = "audit" => \E y \in Of(D, "derivation") : y.id = x.derivation

\* Deferred to COMMIT.
AuditStands(x, D) ==
  Cardinality(Audits(D, x.id)) = IF x.mode = "recorded" THEN 1 ELSE 0

-----------------------------------------------------------------------------
(* Transactions *)

Unread == UNCHANGED <<snap, read>>

Init ==
  /\ EvidenceInit
  /\ snap = [c \in Callers |-> {}]
  /\ read = [c \in Callers |-> {}]

\* Mutant of Visible: each statement sees what is committed by then.
VisibleByStatement(c) == db

Visible(c) == snap[c]

-----------------------------------------------------------------------------
(* createDerivationRuleRevision *)

CreateRule(c, q) == q.call = "rule" /\ Begin(c, q, "define") /\ Unread

\* A process accepts no definition for another build.
DefinitionFits(q) == q.mode = "deterministic" => q.definition = Identity(q.build)

KeyTaken(D, q) == \E r \in Of(D, "rule") : r.key = q.key

\* A row of the same key that is not committed yet has to be waited for.
InsertRule(c) ==
  /\ pc[c] = "define"
  /\ DefinitionFits(req[c])
  /\ \A d \in Callers : ~KeyTaken(db \cup work[d], req[c])
  /\ work' = [work EXCEPT ![c] = {Rule(c, req[c])}]
  /\ pc' = [pc EXCEPT ![c] = "commit"]
  /\ UNCHANGED <<db, held, shared, todo, req, answer, script>>
  /\ Unread

RuleRefused(c) ==
  /\ pc[c] = "define"
  /\ \/ ~DefinitionFits(req[c]) /\ Refused(c, "invalid")
     \/ DefinitionFits(req[c]) /\ KeyTaken(db, req[c]) /\ Refused(c, "duplicate")
  /\ Unread

-----------------------------------------------------------------------------
(* The inputs of createDerivation, which are also what                     *)
(* getClaimVersionDetails returns                                          *)

CreateDerivation(c, q) == q.call = "derivation" /\ Begin(c, q, "version") /\ Unread

GetDetails(c, q) == q.call = "details" /\ Begin(c, q, "version") /\ Unread

VersionThere(q) ==
  /\ q.version \in Versions
  /\ q.call = "details" => ClaimOf[q.version] = q.claim

\* The first query takes the snapshot.
LoadVersion(c) ==
  /\ pc[c] = "version"
  /\ VersionThere(req[c])
  /\ snap' = [snap EXCEPT ![c] = db]
  /\ Goto(c, "read relations")
  /\ UNCHANGED read

VersionMissing(c) ==
  /\ pc[c] = "version"
  /\ ~VersionThere(req[c])
  /\ Refused(c, "not found")
  /\ Unread

Load(c, rows) == read' = [read EXCEPT ![c] = @ \cup rows] /\ UNCHANGED snap

LoadRelations(c) ==
  /\ pc[c] = "read relations"
  /\ Load(c, RelationsOf(Visible(c), req[c].version))
  /\ Goto(c, "read assessments")

LoadAssessments(c) ==
  /\ pc[c] = "read assessments"
  /\ Load(c, AssessmentsOf(Visible(c), req[c].version))
  /\ Goto(c, "read comparisons")

LoadComparisons(c) ==
  /\ pc[c] = "read comparisons"
  /\ Load(c, ComparisonsOf(Visible(c), req[c].version))
  /\ IF req[c].call = "derivation" THEN Goto(c, "rule")
     ELSE Ended(c, "read") /\ UNCHANGED db

-----------------------------------------------------------------------------
(* createDerivation, from the rule to the last insert *)

\* Mutant of VerifyRule: any interpreter will do.
VerifyBuilderOnly(b, r) == r.builder = b.builder

VerifyRule(b, r) ==
  /\ r.mode = "deterministic" => r.identity = Identity(b) /\ r.definition = r.identity
  /\ r.builder = b.builder

Decided(R) == Ids(Of(R, "relation") \cup Of(R, "assessment"))

\* process: what a recorded process has decided about.
ProcessFits(r, q, R) ==
  IF r.mode = "deterministic" THEN q.process = None
  ELSE q.process # None /\ q.process = Decided(R)

RuleFits(r, q, R) == VerifyRule(q.build, r) /\ ProcessFits(r, q, R)

RuleOf(c) == {r \in Of(Visible(c), "rule") : r.id = req[c].rule}

\* What the build's code makes of the rows, and the interpreter of that.  A
\* recorded process brings an output of its own.
Input(b, R) == [builder |-> b.builder, rows |-> R]

Output(c, r, input) ==
  IF r.mode = "deterministic" THEN [by |-> req[c].build.interpreter, of |-> input]
  ELSE [by |-> c, of |-> None]

Derivation(c, r) ==
  LET input == Input(req[c].build, read[c]) IN
  [table |-> "derivation", id |-> c, version |-> req[c].version, rule |-> r.id,
   mode |-> r.mode, identity |-> r.identity, builder |-> r.builder,
   input |-> input, output |-> Output(c, r, input)]

InsertDerivation(c) ==
  /\ pc[c] = "rule"
  /\ \E r \in RuleOf(c) :
       /\ RuleFits(r, req[c], read[c])
       /\ work' = [work EXCEPT ![c] = {Derivation(c, r)}]
  /\ todo' = [todo EXCEPT ![c] = Ids(Of(read[c], "relation"))]
  /\ pc' = [pc EXCEPT ![c] = IF todo'[c] = {} THEN "inputs" ELSE "evidence inputs"]
  /\ UNCHANGED <<db, held, shared, req, answer, script>>
  /\ Unread

DerivationRefused(c) ==
  /\ pc[c] = "rule"
  /\ \A r \in RuleOf(c) : ~RuleFits(r, req[c], read[c])
  /\ Refused(c, "invalid")
  /\ Unread

\* Mutant of InsertEvidenceInput: it locks the relation FOR UPDATE.
InsertEvidenceInputForUpdate(c) ==
  LET r == NextReference(c) IN
  /\ pc[c] = "evidence inputs"
  /\ \A d \in Callers \ {c} : r \notin held[d] \cup shared[d]
  /\ work' = [work EXCEPT ![c] = @ \cup {EvidenceInput(c, r)}]
  /\ held' = [held EXCEPT ![c] = @ \cup {r}]
  /\ todo' = [todo EXCEPT ![c] = @ \ {r}]
  /\ pc' = [pc EXCEPT ![c] = IF todo[c] = {r} THEN "inputs" ELSE @]
  /\ UNCHANGED <<db, shared, req, answer, script>>
  /\ Unread

InsertEvidenceInput(c) ==
  /\ pc[c] = "evidence inputs"
  /\ Refer(c, EvidenceInput(c, NextReference(c)), "inputs")
  /\ Unread

\* Mutant of AssessmentInputRows: an input that answers another is left out.
UnansweringInputRows(c) == {AssessmentInput(c, a) : a \in {x \in Of(read[c], "assessment") : x.parent = None}}

AssessmentInputRows(c) == {AssessmentInput(c, a) : a \in Of(read[c], "assessment")}

\* None of these inserts waits: their relations are locked by now.
InsertInputs(c) ==
  /\ pc[c] = "inputs"
  /\ work' = [work EXCEPT ![c] = @ \cup AssessmentInputRows(c) \cup
                {Audit(c, x.output) : x \in {y \in Of(@, "derivation") : y.mode = "recorded"}}]
  /\ pc' = [pc EXCEPT ![c] = "commit"]
  /\ UNCHANGED <<db, held, shared, todo, req, answer, script>>
  /\ Unread

-----------------------------------------------------------------------------
(* getDerivationDetails, by a process of build b on the rows D *)

Peers(x, D) ==
  {y \in Of(D, "derivation") :
     /\ y.rule = x.rule /\ y.mode = "deterministic" /\ y.input = x.input
     /\ x.identity # None /\ y.identity.interpreter = x.identity.interpreter}

Anomalies(x, b, D) ==
  LET r == CHOOSE s \in Of(D, "rule") : s.id = x.rule
      mine == Identity(b)
      deterministic == x.mode = "deterministic"
      foreign(part) == deterministic /\
        {x.identity[part], r.identity[part], r.definition[part]} # {mine[part]}
      codes == [
        interpreter_artifact_hash_mismatch |-> foreign("interpreter"),
        interpreter_execution_identity_mismatch |-> foreign("execution"),
        snapshot_builder_artifact_hash_mismatch |-> {x.builder, r.builder} # {b.builder},
        input_reference_mismatch |->
          \/ EvidenceInputs(D, x.id) # Ids(Of(x.input.rows, "relation"))
          \/ AssessmentInputs(D, x.id) # Ids(Of(x.input.rows, "assessment")),
        recorded_process_audit_hash_mismatch |->
          \E a \in Audits(D, x.id) : a.output # x.output,
        deterministic_output_mismatch |->
          deterministic /\ Cardinality({y.output : y \in Peers(x, D)}) > 1]
  IN {code \in DOMAIN codes : codes[code]}

\* What a derivation by rule r looks like, as far as the rule determines it.
MadeBy(x, r) ==
  /\ r.id = x.rule /\ r.mode = x.mode
  /\ x.input = [builder |-> r.builder, rows |-> x.input.rows]
  /\ x.mode = "deterministic" =>
       x.output = [by |-> r.identity.interpreter, of |-> x.input]

\* integrity.status of buildAssessmentGraph, for the assessments A of a version.
GraphIsValid(A) ==
  /\ \A a \in A : a.parent # None =>
       a.parent # a.id /\ \E p \in A : p.id = a.parent /\ p.relation = a.relation
  /\ \A C \in SUBSET A : C # {} => \E a \in C : a.parent \notin Ids(C)

\* Rows with an id of their own.
Entities == {"relation", "assessment", "rule", "derivation"}

\* What is there already met the constraints when it came, has ids that no
\* call is given, and was derived by its rules.
ASSUME StoredAssumption ==
  /\ \A x \in Stored : Stands(x, Stored)
  /\ \A x \in Stored :
       x.table \in Entities \cup {"comparison", "evidence_input", "assessment_input", "audit"}
  /\ \A x, y \in Stored : x.table = y.table /\ x.table \in Entities /\ x.id = y.id => x = y
  /\ \A x \in Stored : x.table \in Entities => x.id \notin Callers
  /\ Of(Stored, "relation") \subseteq Relation
  /\ \A a \in Of(Stored, "assessment") : IndependenceStands(a, Stored)
  /\ GraphIsValid(Of(Stored, "assessment"))
  /\ \A x \in Of(Stored, "derivation") : \E r \in Of(Stored, "rule") : MadeBy(x, r)

-----------------------------------------------------------------------------
Step(c) ==
  \/ EvidenceStep(c) /\ Unread
  \/ InsertRule(c)
  \/ RuleRefused(c)
  \/ LoadVersion(c)
  \/ VersionMissing(c)
  \/ LoadRelations(c)
  \/ LoadAssessments(c)
  \/ LoadComparisons(c)
  \/ InsertDerivation(c)
  \/ DerivationRefused(c)
  \/ InsertEvidenceInput(c)
  \/ InsertInputs(c)

Call(c, q) ==
  \/ CreateEvidence(c, q) /\ Unread
  \/ CreateAssessment(c, q) /\ Unread
  \/ CreateRule(c, q)
  \/ CreateDerivation(c, q)
  \/ GetDetails(c, q)

Next ==
  \E c \in Callers :
    \/ Step(c)
    \/ CallLost(c) /\ Unread
    \/ \E q \in script[c] : Call(c, q)

\* A process goes on with the call it is in, and PostgreSQL answers.
Spec == Init /\ [][Next]_vars /\ \A c \in Callers : WF_vars(Step(c))

-----------------------------------------------------------------------------
(* Properties *)

\* The services check before they write, and what they checked still holds when
\* they write: no constraint of RCV-010, 011, 014 or 015 ever refuses a row or a
\* commit (other than uq_derivation_rule_revisions_rule, which is relied on).
ConstraintsNeverFire ==
  \A c \in Callers :
    LET D == db \cup work[c] IN
    /\ \A x \in work[c] : Stands(x, D)
    /\ pc[c] = "commit" =>
         /\ \A a \in Of(work[c], "assessment") : IndependenceStands(a, D)
         /\ \A x \in Of(work[c], "derivation") : AuditStands(x, D)

Closed(R) ==
  /\ \A a \in Of(R, "assessment") : a.relation \in Ids(Of(R, "relation")) /\ IndependenceStands(a, R)
  /\ \A x \in Of(R, "comparison") : ComparisonStands(x, R)
  /\ GraphIsValid(Of(R, "assessment"))

\* However evidence and assessments come in between its four queries, a read of
\* a claim version returns a whole: every assessment with its relation, its
\* parent and all its comparisons, and a response graph without anomalies.
ReadsAreClosed ==
  \A c \in Callers : pc[c] = "rule" \/ answer[c] = "read" => Closed(read[c])

\* PostgreSQL has to abort nobody but assessments that hold their own relation
\* and wait for each other's, while inserting comparisons.  Derivations, which
\* lock every relation of a version, never take part in a deadlock.
OnlyAssessmentsDeadlock ==
  \A c \in Callers : Deadlocked(c) => pc[c] = "compare"

\* A deterministic rule gives one result for one state of the evidence, whichever
\* builds of the code the processes that apply it are.
OutputsReproduce ==
  \A x, y \in {d \in Of(db, "derivation") : d.mode = "deterministic"} :
    x.rule = y.rule /\ x.input.rows = y.input.rows
      => x.input = y.input /\ x.output = y.output

\* The differences between two builds that getDerivationDetails reports for a
\* derivation of that mode.
Differences(mode, b, d) ==
  {k \in {"interpreter_artifact_hash_mismatch"} : mode = "deterministic" /\ b.interpreter # d.interpreter}
  \cup {k \in {"interpreter_execution_identity_mismatch"} : mode = "deterministic" /\ b.execution # d.execution}
  \cup {k \in {"snapshot_builder_artifact_hash_mismatch"} : b.builder # d.builder}

\* getDerivationDetails of a stored derivation, by any build and at any later
\* time, reports exactly how that build differs from the one that made it.
ReadsBackAsWritten ==
  \A x \in Of(db, "derivation"), b \in Builds :
    x.id \in Callers =>
      Anomalies(x, b, db) = Differences(x.mode, b, req[x.id].build)

\* A response is refused with "Assessment response graph conflict" only when the
\* stored responses are damaged, which tests/evidence.test.cjs:1121 calls "damaged
\* parent chains".  (An id may be given in upper case, as uuidPattern allows.)
GraphConflictsAreReal ==
  \A c \in Callers :
    answer[c] = "conflict" => ~GraphIsValid(AssessmentsOf(db, req[c].version))

\* Every call is answered, a deadlock or a lost connection notwithstanding.
CallsAreAnswered ==
  \A c \in Callers : pc[c] # "idle" ~> pc[c] = "done"

=============================================================================
