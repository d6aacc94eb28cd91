-------------------------- MODULE EvidenceAssessments --------------------------
(***************************************************************************)
(* Evidence of a claim version and the assessments of it: concurrent calls *)
(* of createEvidenceForClaimVersion and createEvidenceAssessment           *)
(* (evidenceService.ts), one action per statement and the code after it.   *)
(*                                                                         *)
(* A call is made at most once, and its id is the id of the row it creates *)
(* (randomUUID).  Evidence and its relation to the version are created     *)
(* together and share an id.  Rows are never changed or deleted.           *)
(***************************************************************************)
EXTENDS Naturals, Sequences, FiniteSets

CONSTANTS
  Callers,  \* The calls, numbered.
  Scripts,  \* Which requests may come, one choice for each behaviour.
  ClaimOf,  \* The claim of every claim version.
  Stored,   \* The rows that are there already.
  MaxLost,  \* Bound: connections lost in a behaviour.
  None

Versions == DOMAIN ClaimOf

ASSUME CallerAssumption ==
  /\ IsFiniteSet(Callers) /\ Callers \subseteq Nat /\ None \notin Nat
  /\ MaxLost \in Nat

VARIABLES
  db,      \* Committed rows.
  work,    \* The rows each open transaction has inserted.
  held,    \* The relations each transaction has locked FOR UPDATE.
  shared,  \* Those it has locked FOR KEY SHARE, by referring to them.
  todo,    \* Those it has still to refer to.
  pc, req, answer,
  script   \* The choice from Scripts.

evars == <<db, work, held, shared, todo, pc, req, answer, script>>

-----------------------------------------------------------------------------
(* Rows *)

Relation == [table : {"relation"}, id : Nat, version : Versions]

\* scored: independence is not null.  rubric: FALSE for rows older than RCV-014.
Assessment == [table : {"assessment"}, id : Nat, relation : Nat,
               parent : Nat \cup {None}, scored : BOOLEAN, rubric : BOOLEAN]

Comparison == [table : {"comparison"}, assessment : Nat, relation : Nat]

Of(D, t) == {r \in D : r.table = t}

Ids(D) == {r.id : r \in D}

RelationsOf(D, v) == {r \in Of(D, "relation") : r.version = v}

AssessmentsOf(D, v) ==
  {a \in Of(D, "assessment") : a.relation \in Ids(RelationsOf(D, v))}

ComparisonsOf(D, v) ==
  {x \in Of(D, "comparison") : x.assessment \in Ids(AssessmentsOf(D, v))}

-----------------------------------------------------------------------------
(* Constraints.  The database refusing a row is no action of this module,  *)
(* since the services check before they insert (ConstraintsNeverFire).     *)

RelationStands(r, D) == r.version \in Versions

AssessmentStands(a, D) ==
  /\ a.relation \in Ids(Of(D, "relation"))
  /\ a.parent # a.id
  /\ a.parent # None => \E p \in Of(D, "assessment") :
                          p.id = a.parent /\ p.relation = a.relation

ComparisonStands(x, D) ==
  \E a \in Of(D, "assessment"), r, s \in Of(D, "relation") :
    /\ a.id = x.assessment /\ r.id = a.relation /\ s.id = x.relation
    /\ r # s /\ r.version = s.version

\* Deferred to COMMIT.
IndependenceStands(a, D) ==
  a.rubric => (a.scored <=> \E x \in Of(D, "comparison") : x.assessment = a.id)

-----------------------------------------------------------------------------
(* Transactions *)

EvidenceInit ==
  /\ db = Stored
  /\ work = [c \in Callers |-> {}]
  /\ held = [c \in Callers |-> {}]
  /\ shared = [c \in Callers |-> {}]
  /\ todo = [c \in Callers |-> {}]
  /\ pc = [c \in Callers |-> "idle"]
  /\ req = [c \in Callers |-> None]
  /\ answer = [c \in Callers |-> "none"]
  /\ script \in Scripts

Begin(c, q, point) ==
  /\ pc[c] = "idle"
  /\ q \in script[c]
  /\ req' = [req EXCEPT ![c] = q]
  /\ pc' = [pc EXCEPT ![c] = point]
  /\ UNCHANGED <<db, work, held, shared, todo, answer, script>>

\* The transaction is over, with its locks.
Ended(c, kind) ==
  /\ work' = [work EXCEPT ![c] = {}]
  /\ held' = [held EXCEPT ![c] = {}]
  /\ shared' = [shared EXCEPT ![c] = {}]
  /\ todo' = [todo EXCEPT ![c] = {}]
  /\ pc' = [pc EXCEPT ![c] = "done"]
  /\ answer' = [answer EXCEPT ![c] = kind]
  /\ UNCHANGED <<req, script>>

\* An error, and the ROLLBACK that follows it.
Refused(c, kind) == Ended(c, kind) /\ UNCHANGED db

Goto(c, point) ==
  /\ pc' = [pc EXCEPT ![c] = point]
  /\ UNCHANGED <<db, work, held, shared, todo, req, answer, script>>

Unlocked(c, r) == \A d \in Callers \ {c} : r \notin held[d]

\* The smallest id first: the comparisons are sorted, and the relations of a
\* snapshot come in the order of their creation.
NextReference(c) == CHOOSE r \in todo[c] : \A s \in todo[c] : r <= s

\* Inserting a row that refers to a relation locks it FOR KEY SHARE, which
\* has to wait for another's FOR UPDATE.
Refer(c, row, point) ==
  /\ Unlocked(c, NextReference(c))
  /\ work' = [work EXCEPT ![c] = @ \cup {row}]
  /\ shared' = [shared EXCEPT ![c] = @ \cup {NextReference(c)}]
  /\ todo' = [todo EXCEPT ![c] = @ \ {NextReference(c)}]
  /\ pc' = [pc EXCEPT ![c] = IF todo[c] = {NextReference(c)} THEN point ELSE @]
  /\ UNCHANGED <<db, held, req, answer, script>>

\* Mutant of Commit: the connection goes back with its transaction open.
CommitHoldingLocks(c) ==
  /\ pc[c] = "commit"
  /\ db' = db \cup work[c]
  /\ pc' = [pc EXCEPT ![c] = "done"]
  /\ answer' = [answer EXCEPT ![c] = "created"]
  /\ UNCHANGED <<work, held, shared, todo, req, script>>

Commit(c) ==
  /\ pc[c] = "commit"
  /\ db' = db \cup work[c]
  /\ Ended(c, "created")

\* The connection is lost: the server rolls back, or had already committed.
\* The caller sees an error and cannot tell; a repeated call is another one.
CallLost(c) ==
  /\ pc[c] \notin {"idle", "done"}
  /\ Cardinality({d \in Callers : answer[d] = "lost"}) < MaxLost
  /\ \/ UNCHANGED db
     \/ pc[c] = "commit" /\ db' = db \cup work[c]
  /\ Ended(c, "lost")

-----------------------------------------------------------------------------
(* createEvidenceForClaimVersion *)

VersionKnown(q) == q.version \in Versions /\ ClaimOf[q.version] = q.claim

CreateEvidence(c, q) == q.call = "evidence" /\ Begin(c, q, "evidence")

InsertEvidence(c) ==
  /\ pc[c] = "evidence"
  /\ VersionKnown(req[c])
  /\ work' = [work EXCEPT ![c] =
       {[table |-> "relation", id |-> c, version |-> req[c].version]}]
  /\ pc' = [pc EXCEPT ![c] = "commit"]
  /\ UNCHANGED <<db, held, shared, todo, req, answer, script>>

VersionUnknown(c) ==
  /\ pc[c] = "evidence"
  /\ ~VersionKnown(req[c])
  /\ Refused(c, "not found")

-----------------------------------------------------------------------------
(* createEvidenceAssessment *)

CreateAssessment(c, q) == q.call = "assessment" /\ Begin(c, q, "lock")

\* The row the first SELECT finds.
AssessedRelation(q) ==
  {r \in Of(db, "relation") : r.id = q.relation /\ r.version = q.version /\ VersionKnown(q)}

\* FOR UPDATE waits for both kinds of lock.
LockRelation(c) ==
  /\ pc[c] = "lock"
  /\ AssessedRelation(req[c]) # {}
  /\ \A d \in Callers \ {c} : req[c].relation \notin held[d] \cup shared[d]
  /\ held' = [held EXCEPT ![c] = {req[c].relation}]
  /\ pc' = [pc EXCEPT ![c] = "response"]
  /\ UNCHANGED <<db, work, shared, todo, req, answer, script>>

RelationUnknown(c) ==
  /\ pc[c] = "lock"
  /\ AssessedRelation(req[c]) = {}
  /\ Refused(c, "not found")

\* The assessment a response names, in the relation it is about.
ResponseTarget(q) ==
  {a \in Of(db, "assessment") : a.id = q.parent /\ a.relation = q.relation}

\* inspectAssessmentParentChain.  The rows of the recursive query are found by
\* the text of their id: the rows have it in lower case, the request, when
\* upper holds, in upper case.
ChainConflict(q, new) ==
  LET row(i) == {a \in Of(db, "assessment") : a.id = i}
      walk[visited \in SUBSET Nat, i \in Nat \cup {None}] ==
        IF i = None THEN "none"
        ELSE IF i = new THEN "would_create_cycle"
        ELSE IF i \in visited THEN "existing_cycle"
        ELSE IF row(i) = {} \/ (visited = {} /\ q.upper) THEN "missing_ancestor"
        ELSE LET a == CHOOSE x \in row(i) : TRUE IN
             IF a.relation # q.relation THEN "cross_relation_ancestor"
             ELSE walk[visited \cup {i}, a.parent]
  IN walk[{}, q.parent]

\* Nobody else can add a response to the locked relation, so the two SELECTs
\* find what one would.
CheckResponse(c) ==
  /\ pc[c] = "response"
  /\ req[c].parent # None => /\ ResponseTarget(req[c]) # {}
                             /\ ChainConflict(req[c], c) = "none"
  /\ Goto(c, "comparisons")

ResponseRefused(c) ==
  /\ pc[c] = "response"
  /\ req[c].parent # None
  /\ \/ ResponseTarget(req[c]) = {} /\ Refused(c, "not found")
     \/ /\ ResponseTarget(req[c]) # {}
        /\ ChainConflict(req[c], c) # "none"
        /\ Refused(c, "conflict")

Compared(q) == {q.comparisons[i] : i \in DOMAIN q.comparisons}

\* Mutant of ComparisonsStated: an assessment may be compared with its own
\* relation.
ComparisonsStatedLoosely(q) ==
  /\ Len(q.comparisons) = Cardinality(Compared(q))
  /\ q.scored <=> Compared(q) # {}

\* duplicate_, missing_, unexpected_ and self_comparison.
ComparisonsStated(q) ==
  /\ Len(q.comparisons) = Cardinality(Compared(q))
  /\ q.scored <=> Compared(q) # {}
  /\ q.relation \notin Compared(q)

ComparisonsFound(q) == Compared(q) \subseteq Ids(RelationsOf(db, q.version))

CheckComparisons(c) ==
  /\ pc[c] = "comparisons"
  /\ ComparisonsStated(req[c]) /\ ComparisonsFound(req[c])
  /\ Goto(c, "insert")

ComparisonsRefused(c) ==
  /\ pc[c] = "comparisons"
  /\ ~(ComparisonsStated(req[c]) /\ ComparisonsFound(req[c]))
  /\ Refused(c, "invalid")

\* The references of an assessment are to rows it holds or nobody locks.
InsertAssessment(c) ==
  /\ pc[c] = "insert"
  /\ work' = [work EXCEPT ![c] =
       {[table |-> "assessment", id |-> c, relation |-> req[c].relation,
         parent |-> req[c].parent, scored |-> req[c].scored, rubric |-> TRUE]}]
  /\ todo' = [todo EXCEPT ![c] = Compared(req[c])]
  /\ pc' = [pc EXCEPT ![c] = IF Compared(req[c]) = {} THEN "commit" ELSE "compare"]
  /\ UNCHANGED <<db, held, shared, req, answer, script>>

\* One INSERT, whose rows lock their relations one after the other.
InsertComparison(c) ==
  /\ pc[c] = "compare"
  /\ Refer(c, [table |-> "comparison", assessment |-> c,
               relation |-> NextReference(c)], "commit")

-----------------------------------------------------------------------------
(* Deadlocks *)

\* c waits for d to give up a relation.
Waits(c, d) ==
  /\ c # d
  /\ \/ /\ pc[c] = "lock"
        /\ AssessedRelation(req[c]) # {}
        /\ req[c].relation \in held[d] \cup shared[d]
     \/ todo[c] # {} /\ NextReference(c) \in held[d]

Deadlocked(c) ==
  \E C \in SUBSET Callers :
    /\ c \in C
    /\ \A x \in C : (\E y \in C : Waits(x, y)) /\ (\E y \in C : Waits(y, x))

\* PostgreSQL aborts one of them; the call is not repeated.
DeadlockVictim(c) == Deadlocked(c) /\ Refused(c, "aborted")

EvidenceStep(c) ==
  \/ InsertEvidence(c)
  \/ VersionUnknown(c)
  \/ LockRelation(c)
  \/ RelationUnknown(c)
  \/ CheckResponse(c)
  \/ ResponseRefused(c)
  \/ CheckComparisons(c)
  \/ ComparisonsRefused(c)
  \/ InsertAssessment(c)
  \/ InsertComparison(c)
  \/ Commit(c)
  \/ DeadlockVictim(c)

=============================================================================
