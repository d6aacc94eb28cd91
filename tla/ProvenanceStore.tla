----------------------------- MODULE ProvenanceStore -----------------------------
(***************************************************************************)
(* The stored provenance of the claims: snapshots (RCV-016), analyses of   *)
(* them (RCV-017) and comparisons of assertions (RCV-018), written and     *)
(* read by concurrent calls over one connection pool while further rows    *)
(* are recorded.                                                           *)
(*                                                                         *)
(* A caller makes one call; what it stores has the caller's number as id.  *)
(* Rows, snapshots, analyses, comparisons and findings are only ever added *)
(* (nothing in the code updates or deletes one), and the locks of RCV-016  *)
(* and RCV-017 are KEY SHARE, so that a call waits for another only for a  *)
(* connection, or for a finding that the other inserts.                    *)
(***************************************************************************)
EXTENDS DependencyAnalysis, Contradictions

CONSTANTS
  Callers,  \* Numbers above those of all rows.
  Scripts,  \* What may happen: the stored rows, later ones, the calls of each
            \* caller, and how many queries may fail.
  Slots,    \* The connections of the pool.
  Policies, \* The stored traversal policies.
  Analytic, \* The stored dependency-analysis policies.
  None

\* What a caller may ask, as far as the builders compare it; the snapshot that
\* an analysis is of is one that a caller builds.
CallTyped(q) ==
  /\ q.call = "snapshot" =>
       /\ IsFiniteSet(q.altered) /\ \A r \in q.altered : RowTyped(r)
       /\ q.policy.maxDepth \in Nat /\ q.roots \in Seq(Nat)
  /\ q.call = "analysis" => q.of \in Callers /\ SelectionTyped(q)
  /\ q.call = "comparison" => ComparisonTyped(q)

References(r) ==
  CASE r.family = "provenance"  -> {<<"artifactVersion", r.subject>>, <<"artifactVersion", r.object>>}
    [] r.family = "attribution" -> {<<"artifactVersion", r.subject>>, <<"sourceVersion", r.object>>}
    [] r.family = "binding"     -> {<<"evidence", r.subject>>, <<"artifactVersion", r.object>>}
    [] r.family = "knowledge"   -> {<<"artifactVersion", r.subject>>}
    [] r.family = "relation"    -> {<<"claim", r.subject>>, <<"evidence", r.object>>}
    [] OTHER -> {}

\* Foreign keys: what a row refers to is among the rows.
ReferencesHold(rows) ==
  \A r \in rows : References(r) \subseteq {<<x.family, x.id>> : x \in rows}

\* The rows that are ever stored are one to an identity, and those that are
\* stored at first have their references.
ScriptTyped(s) ==
  /\ IsFiniteSet(s.rows \cup s.later) /\ UniqueIds(s.rows \cup s.later)
  /\ ReferencesHold(s.rows)
  /\ \A r \in s.rows \cup s.later : RowTyped(r)
  /\ \A c \in Callers : \A q \in s.calls[c] : CallTyped(q)

ASSUME StoreAssumption ==
  /\ Callers \subseteq Nat /\ None \notin Callers
  /\ \A s \in Scripts : ScriptTyped(s)

VARIABLES
  db,       \* What is committed: rows, snapshots, analyses, findings, comparisons.
  later,    \* The rows that are still to be recorded.
  calls,    \* What each caller may ask.
  pc,       \* Where its call is.
  req,      \* What it asked.
  work,     \* What it made for the store, and has inserted of it.
  view,     \* What its REPEATABLE READ transaction sees.
  lease,    \* Who holds each connection.
  answer,   \* What it was answered.
  troubles  \* How many queries may still fail.

vars == <<db, later, calls, pc, req, work, view, lease, answer, troubles>>
local == <<later, calls, req>>

Init ==
  /\ \E s \in Scripts :
       /\ db = [rows |-> s.rows, snapshots |-> {}, analyses |-> {},
                findings |-> {}, comparisons |-> {}]
       /\ later = s.later /\ calls = s.calls /\ troubles = s.troubles
  /\ pc     = [c \in Callers |-> "idle"]
  /\ req    = [c \in Callers |-> None]
  /\ work   = [c \in Callers |-> None]
  /\ view   = [c \in Callers |-> None]
  /\ lease  = [s \in Slots |-> None]
  /\ answer = [c \in Callers |-> None]

\* Mutant of Released: only one connection is given back.
ReleasedOne(c) ==
  LET given == CHOOSE s \in Slots : lease[s] = c \/ \A t \in Slots : lease[t] # c
  IN  [s \in Slots |-> IF s = given /\ lease[s] = c THEN None ELSE lease[s]]

Released(c) == [s \in Slots |-> IF lease[s] = c THEN None ELSE lease[s]]

Finish(c, a) ==
  /\ pc'     = [pc EXCEPT ![c] = "done"]
  /\ answer' = [answer EXCEPT ![c] = a]
  /\ lease'  = Released(c)
  /\ UNCHANGED <<local, work, view>>

Go(c, next) ==
  /\ pc' = [pc EXCEPT ![c] = next]
  /\ UNCHANGED <<local, work, answer>>

-----------------------------------------------------------------------------
(* A row is recorded; its references exist *)

Record(r) ==
  /\ r \in later /\ References(r) \subseteq {<<s.family, s.id>> : s \in db.rows}
  /\ later' = later \ {r}
  /\ db' = [db EXCEPT !.rows = @ \cup {r}]
  /\ UNCHANGED <<calls, pc, req, work, view, lease, answer, troubles>>

-----------------------------------------------------------------------------
(* The calls.  What a builder refuses never reaches the pool.               *)

\* buildSnapshot and writeSnapshot: the caller hands over the rows it read
\* before, without some (hidden) and with some it made up (altered).
Given(q) ==
  [rows |-> {r \in db.rows : r.family \in Families /\ r.id \notin q.hidden} \cup q.altered,
   roots |-> q.roots, policy |-> q.policy]

Start(c, q, made) ==
  /\ pc[c] = "idle" /\ q \in calls[c]
  /\ req'  = [req EXCEPT ![c] = q]
  /\ work' = [work EXCEPT ![c] = made]
  /\ UNCHANGED <<db, later, calls, view, lease, troubles>>

Proceed(c, holds) ==
  IF holds THEN pc' = [pc EXCEPT ![c] = "connect"] /\ UNCHANGED answer
  ELSE pc' = [pc EXCEPT ![c] = "done"] /\ answer' = [answer EXCEPT ![c] = "invalid"]

WriteSnapshot(c, q) ==
  /\ q.call = "snapshot"
  /\ LET given == Given(q)
         holds == BuildHolds(given)
     IN  /\ Start(c, q, IF holds THEN [given |-> given, snapshot |-> Build(given)] ELSE None)
         /\ Proceed(c, holds)

\* The builder of analyses is given a snapshot that was built, by q.of, and the
\* id under which the caller says it is stored.
Selected(q) ==
  [claim |-> q.claim, relations |-> q.relations, bindings |-> q.bindings,
   policy |-> q.policy, snapshotId |-> q.snapshotId, snapshot |-> work[q.of].snapshot]

WriteAnalysis(c, q) ==
  /\ q.call = "analysis"
  /\ pc[q.of] # "idle" /\ req[q.of].call = "snapshot" /\ work[q.of] # None
  /\ LET holds == AnalysisHolds(Selected(q))
     IN  Start(c, q, IF holds THEN Analyse(Selected(q)) ELSE None) /\ Proceed(c, holds)

\* The caller says which of the findings it believes to be stored.
WriteComparison(c, q) ==
  /\ q.call = "comparison"
  /\ LET holds == ComparisonHolds(q)
         made  == Compare(q)
     IN  /\ \E existing \in IF holds THEN SUBSET made.findings ELSE {{}} :
              Start(c, q, IF holds THEN [comparison |-> made, inserted |-> {},
                                         todo |-> ToInsert(made, existing)] ELSE None)
         /\ Proceed(c, holds)

\* verifySnapshot, and the reads of an analysis and of a comparison.
Read(c, q) ==
  /\ q.call \in {"verify", "read", "replay"}
  /\ Start(c, q, None)
  /\ Proceed(c, TRUE)

Lease(c, from, next) ==
  /\ pc[c] = from
  /\ \E s \in Slots : lease[s] = None /\ lease' = [lease EXCEPT ![s] = c]
  /\ Go(c, next)
  /\ UNCHANGED <<db, view, troubles>>

Connect(c) == Lease(c, "connect", "begin")

\* BEGIN ISOLATION LEVEL REPEATABLE READ, and the first query.  The writer of
\* comparisons is READ COMMITTED: it looks at the store, not at its view.
Begin(c) ==
  /\ pc[c] = "begin"
  /\ view' = [view EXCEPT ![c] = db]
  /\ Go(c, req[c].call)
  /\ UNCHANGED <<db, lease, troubles>>

-----------------------------------------------------------------------------
(* writeRcv016Snapshot *)

StoredIds(v) == {k.id : k \in v.snapshots}

PolicyIsStored(snapshot) == snapshot.policy \in Policies

\* The policy is looked up and the Foundation targets are locked, then the header
\* and the members are inserted, which have foreign keys to all rows.
SnapshotAdmitted(made, v) ==
  /\ PolicyIsStored(made.snapshot)
  /\ FoundationTargets(made.snapshot.rows) \subseteq Existing(v.rows, StoredIds(v))
  /\ {<<r.family, r.id>> : r \in made.snapshot.rows} \subseteq {<<r.family, r.id>> : r \in v.rows}

InsertSnapshot(c) ==
  /\ pc[c] = "snapshot"
  /\ IF SnapshotAdmitted(work[c], view[c])
     THEN Go(c, "commit") /\ UNCHANGED <<lease, view>>
     ELSE Finish(c, "refused")
  /\ UNCHANGED <<db, troubles>>

(* persistAnalysis *)

\* The rows of the claim that the analysis selected are as it says.
SelectionHolds(a, v) ==
  /\ a.claim \in Ids(v.rows, "claim")
  /\ {r.evidence : r \in a.relations} \subseteq Ids(v.rows, "evidence")
  /\ \A r \in a.relations : \E s \in Of(v.rows, "relation") :
       s.id = r.id /\ s.subject = a.claim /\ s.object = r.evidence /\ s.relation = r.direction

\* Mutant of SnapshotBound: the hash of the snapshot is not compared.
SnapshotNamed(a, v) == \E s \in v.snapshots : s.id = a.snapshotId

SnapshotBound(a, v) == \E s \in v.snapshots : s.id = a.snapshotId /\ s.snapshot = a.snapshot

\* lockHistoricalTargets: every row that the analysis rests on is stored, as
\* the analysis says it is.
TargetsHold(a, t, v) ==
  LET members(family) == {m[3] : m \in {k \in UNION {s.members :
        s \in {x \in v.snapshots : x.id = a.snapshotId}} : k[1] = family}}
      statements == UNION {s[6] : s \in t.steps}
      known == {e[2] : e \in t.known}
      versions == {b.artifact : b \in a.bindings} \cup {f[2] : f \in t.shared \cup t.common}
                    \cup {s[5] : s \in t.steps} \cup {e[2] : e \in t.affected \cup t.derived}
  IN  /\ SelectionHolds(a, v)
      /\ SnapshotBound(a, v)
      /\ a.policy \in Analytic
      /\ \A b \in a.bindings : \E s \in Of(v.rows, "binding") :
           s.id = b.statement /\ s.subject = b.evidence /\ s.object = b.artifact
      /\ {b.statement : b \in a.bindings} \subseteq members("binding")
      /\ versions \subseteq Ids(v.rows, "artifactVersion")
      /\ statements \subseteq Ids(v.rows, "provenance") \cap members("provenance")
      /\ known \subseteq Ids(v.rows, "knowledge") \cap members("knowledge")

\* SET CONSTRAINTS ALL IMMEDIATE fires the trigger before the COMMIT.
InsertAnalysis(c) ==
  LET t == Project(work[c])
  IN  /\ pc[c] = "analysis"
      /\ IF TargetsHold(work[c], t, view[c]) /\ TriggerHolds(t, work[c], view[c].rows)
         THEN Go(c, "commit") /\ UNCHANGED <<lease, view>>
         ELSE Finish(c, "refused")
      /\ UNCHANGED <<db, troubles>>

-----------------------------------------------------------------------------
(* persistRcv018Analysis *)

\* Whether the rows exist is asked one by one; as none is ever deleted, it is
\* the same to ask at once.
CheckPrerequisites(c) ==
  /\ pc[c] = "comparison"
  /\ IF PrerequisitesExist(work[c].comparison, db.rows)
     THEN Go(c, "findings") /\ UNCHANGED <<lease, view>>
     ELSE Finish(c, "refused")
  /\ UNCHANGED <<db, troubles>>

\* The findings that a transaction has inserted and not committed.
InFlight(c) ==
  IF pc[c] \in {"findings", "commit"} /\ req[c].call = "comparison"
  THEN work[c].inserted ELSE {}

\* A finding is stored once, under its hash: an INSERT waits for another one of
\* it, and fails when that one is committed.
InsertFinding(c) ==
  /\ pc[c] = "findings" /\ work[c].todo # <<>>
  /\ LET f == Head(work[c].todo)
     IN  /\ \A d \in Callers \ {c} : f \notin InFlight(d)
         /\ IF f \in db.findings THEN Finish(c, "duplicate")
            ELSE /\ work' = [work EXCEPT ![c] = [comparison |-> @.comparison,
                       todo |-> Tail(@.todo), inserted |-> @.inserted \cup {f}]]
                 /\ UNCHANGED <<local, pc, view, lease, answer>>
  /\ UNCHANGED <<db, troubles>>

\* The analysis and its members, which have foreign keys to the findings.
InsertComparison(c) ==
  /\ pc[c] = "findings" /\ work[c].todo = <<>>
  /\ IF work[c].comparison.findings \subseteq db.findings \cup work[c].inserted
     THEN Go(c, "commit") /\ UNCHANGED <<lease, view>>
     ELSE Finish(c, "refused")
  /\ UNCHANGED <<db, troubles>>

-----------------------------------------------------------------------------
(* COMMIT *)

Committed(c) ==
  CASE req[c].call = "snapshot" ->
         [db EXCEPT !.snapshots = @ \cup {[id |-> c, snapshot |-> work[c].snapshot,
                                           members |-> work[c].snapshot.keys]}]
    [] req[c].call = "analysis" ->
         [db EXCEPT !.analyses = @ \cup {[id |-> c, analysis |-> work[c],
                                          tables |-> Project(work[c])]}]
    [] OTHER ->
         [db EXCEPT !.findings = @ \cup work[c].inserted,
                    !.comparisons = @ \cup {[id |-> c, comparison |-> work[c].comparison]}]

Commit(c) ==
  /\ pc[c] = "commit"
  /\ db' = Committed(c)
  /\ Finish(c, "stored")
  /\ UNCHANGED troubles

\* The connection is lost during the COMMIT, which the server may have done.
\* The caller is told of a failure; it may ask again, under another id.
LoseCommit(c) ==
  /\ pc[c] = "commit" /\ troubles > 0
  /\ troubles' = troubles - 1
  /\ db' \in {db, Committed(c)}
  /\ Finish(c, "failed")

\* Any query fails, and the transaction is rolled back.
Fail(c) ==
  /\ pc[c] \in {"begin", "snapshot", "analysis", "comparison", "findings",
                "verify", "read", "replay", "beginSnapshot", "load"}
  /\ troubles > 0
  /\ troubles' = troubles - 1
  /\ Finish(c, "failed")
  /\ UNCHANGED db

-----------------------------------------------------------------------------
(* verifyRcv016HistoricalSnapshot and verifyRcv017PersistedAnalysis.  What  *)
(* is loaded is verified after the transaction has ended.                   *)

SnapshotVerified(kept, v) == Verified(kept, v.rows, StoredIds(v), Policies)

LoadSnapshot(c) ==
  /\ pc[c] = "verify"
  /\ LET found == {k \in view[c].snapshots : k.id = req[c].id}
     IN  Finish(c, IF found = {} THEN "missing"
                   ELSE IF \A k \in found : SnapshotVerified(k, view[c]) THEN "verified"
                   ELSE "corrupt")
  /\ UNCHANGED <<db, troubles>>

\* The transaction ends, but its connection is kept while another is asked
\* for, to read the snapshot with.
LoadAnalysis(c) ==
  /\ pc[c] = "read"
  /\ LET found == {k \in view[c].analyses : k.id = req[c].id}
     IN  IF found = {} THEN Finish(c, "missing") /\ UNCHANGED <<db, troubles>>
         ELSE /\ pc'   = [pc EXCEPT ![c] = "reconnect"]
              /\ work' = [work EXCEPT ![c] = CHOOSE k \in found : TRUE]
              /\ UNCHANGED <<db, local, view, lease, answer, troubles>>

Reconnect(c) == Lease(c, "reconnect", "beginSnapshot")

BeginSnapshot(c) ==
  /\ pc[c] = "beginSnapshot"
  /\ view' = [view EXCEPT ![c] = db]
  /\ Go(c, "load")
  /\ UNCHANGED <<db, lease, troubles>>

AnalysisPolicyHolds(a) == a.policy \in Analytic /\ PolicyIsValid(a.policy)

ProjectionHolds(kept) == kept.tables = Project(kept.analysis)

AnalysisVerified(kept, v) ==
  LET a == kept.analysis
  IN  /\ AnalysisPolicyHolds(a)
      /\ \E s \in v.snapshots : s.id = a.snapshotId /\ s.snapshot = a.snapshot
                                  /\ SnapshotVerified(s, v)
      /\ SelectionHolds(a, v)
      /\ Reproduced(a)
      /\ ProjectionHolds(kept)

LoadAnalysedSnapshot(c) ==
  /\ pc[c] = "load"
  /\ Finish(c, IF AnalysisVerified(work[c], view[c]) THEN "verified" ELSE "corrupt")
  /\ UNCHANGED <<db, troubles>>

\* readRcv018Analysis and verifyRcv018ReadBundle.
LoadComparison(c) ==
  /\ pc[c] = "replay"
  /\ LET found == {k \in view[c].comparisons : k.id = req[c].id}
     IN  Finish(c, IF found = {} THEN "missing"
                   ELSE IF \A k \in found : Replayed(k.comparison, view[c].rows) THEN "verified"
                   ELSE "corrupt")
  /\ UNCHANGED <<db, troubles>>

-----------------------------------------------------------------------------

Step(c) ==
  \/ Connect(c) \/ Begin(c) \/ InsertSnapshot(c) \/ InsertAnalysis(c)
  \/ Commit(c) \/ LoadSnapshot(c) \/ LoadAnalysis(c) \/ Reconnect(c)
  \/ BeginSnapshot(c) \/ LoadAnalysedSnapshot(c)
  \/ CheckPrerequisites(c) \/ InsertFinding(c) \/ InsertComparison(c)
  \/ LoadComparison(c)

Next ==
  \/ \E r \in later : Record(r)
  \/ \E c \in Callers :
       \/ \E q \in calls[c] :
            WriteSnapshot(c, q) \/ WriteAnalysis(c, q) \/ WriteComparison(c, q) \/ Read(c, q)
       \/ Step(c) \/ LoseCommit(c) \/ Fail(c)

\* A query that was sent is answered, and a connection that is free is given to
\* one who waits for it.
Spec == Init /\ [][Next]_vars /\ \A c \in Callers : WF_vars(Step(c))

-----------------------------------------------------------------------------
(* Properties *)

\* A snapshot holds the versions within its policy's depth of the roots, all
\* statements by which they are reached and no others, and a version is said to
\* be unrecorded when nothing is said of its provenance; whatever cycles and
\* parallel statements there are (rcv016SnapshotBuilder.ts:475-566).
SnapshotsAreClosures ==
  \A c \in Callers : pc[c] = "connect" /\ req[c].call = "snapshot" =>
    LET given == work[c].given
        made  == work[c].snapshot
        near(d) == Within(given.rows, ToSet(given.roots), d)
    IN  /\ Ids(made.rows, "artifactVersion") = near(given.policy.maxDepth)
        /\ Of(made.rows, "provenance") =
             {r \in Of(given.rows, "provenance") : r.subject \in near(given.policy.maxDepth - 1)}
        /\ made.unrecorded = {n \in near(given.policy.maxDepth) :
             ~\E r \in Of(given.rows, "knowledge") : r.subject = n}
        /\ \A n \in near(given.policy.maxDepth) :
             n \in ToSet(given.roots) \/ <<"artifactVersion", "included", n>> \in made.keys

\* The diagnostics of a snapshot are its elementary cycles, each once
\* (rcv016CycleDiagnostics.ts:66-117).
CyclesAreComplete ==
  \A c \in Callers : pc[c] = "connect" /\ req[c].call = "snapshot" =>
    work[c].snapshot.cycles =
      {[nodes |-> [i \in DOMAIN s |-> s[i].subject], steps |-> [i \in DOMAIN s |-> s[i].id]] :
         s \in ElementaryCycles(Of(work[c].snapshot.rows, "provenance"))}

\* What a snapshot says follows from its statements, and all that follows.
SnapshotsAreComplete == SnapshotsAreClosures /\ CyclesAreComplete

\* The simple paths of enabled statements from a version, within the depth.
Paths(a, anchor) ==
  LET enabled == {r \in Of(a.snapshot.rows, "provenance") : r.relation \in a.policy.enabled}
  IN  {s \in UNION {[1..n -> enabled] : n \in 0..a.policy.maxDepth} :
         /\ IsChain(s) /\ (s # <<>> => s[1].subject = anchor)
         /\ \A i, j \in DOMAIN s : s[i].object = s[j].object => i = j
         /\ \A i \in DOMAIN s : s[i].object # anchor}

PathEnd(s, anchor) == IF s = <<>> THEN anchor ELSE Last(s).object
PathIds(s) == [i \in DOMAIN s |-> s[i].id]

\* Two branches of one direction are said to share their version, to have a
\* common upstream, or to have none, as there are paths that meet or not; and
\* each witness is the least of all paths that lead to its end.
DependenciesAreExact ==
  \A k \in {c \in Callers : pc[c] = "connect" /\ req[c].call = "analysis"} :
    LET a == work[k]
        Ends(b) == {PathEnd(s, b.artifact) : s \in Paths(a, b.artifact)}
        Said(type, b, c) == \E f \in OfType(a, type) : {Key(b), Key(c)} \subseteq f.members
    IN  \A d \in Directions : \A b, c \in Partition(a, d) : KeyBefore(Key(b), Key(c)) =>
          /\ Said("shared", b, c) <=> b.artifact = c.artifact
          /\ \A n \in Ends(b) \cup Ends(c) :
               (\E f \in OfType(a, "common") : f.at = n /\ f.direction = d
                  /\ {Key(b), Key(c)} \subseteq {m.key : m \in f.members})
                 <=> /\ n \in Ends(b) \cap Ends(c)
                     /\ \E e \in Partition(a, d) : n \in Ends(e) \ {e.artifact}
          /\ (\E f \in OfType(a, "none") : f.lower = Key(b) /\ f.upper = Key(c))
               <=> Ends(b) \cap Ends(c) = {}
          /\ \A f \in OfType(a, "common") : \A m \in f.members : m.key = Key(b) =>
               \A s \in Paths(a, b.artifact) : PathEnd(s, b.artifact) = f.at =>
                 ~WitnessBefore([steps |-> PathIds(s)], [steps |-> m.steps])

\* An assertion but for its value, and for who made it.
About(a) == [a EXCEPT !.id = 0, !.value = 0, !.bindings = {}]

ContradictionsAre(said, given) ==
  /\ \A f, g \in said : {f.first, f.second} = {g.first, g.second} => f = g
  /\ \A a, b \in given :
       (\E f \in said : {f.first, f.second} = {a, b})
         <=> About(a) = About(b) /\ \E p \in a.domain.pairs : {p[1], p[2]} = {a.value, b.value}

\* Two assertions are said to contradict each other exactly when they are about
\* the same in the same context and their domain excludes their values together,
\* in whichever order the caller listed them.
ContradictionsAreExact ==
  \A k \in {c \in Callers : pc[c] = "connect" /\ req[c].call = "comparison"} :
    ContradictionsAre(work[k].comparison.findings, ToSet(req[k].assertions))

\* The builders find all that follows from what they are given, and no more.
FindingsAreExact == DependenciesAreExact /\ ContradictionsAreExact

\* What is stored is authenticated exactly when it repeats the rows that are
\* stored, an analysis when its snapshot is, and a comparison once every
\* statement its assertions bind is a recorded binding; no later row undoes it.
\* A stored finding is one of a stored comparison, whichever attempts failed.
StoredIsAuthenticated ==
  /\ db.findings \subseteq UNION {k.comparison.findings : k \in db.comparisons}
  /\ \A k \in db.snapshots : SnapshotVerified(k, db) <=> k.snapshot.rows \subseteq db.rows
  /\ \A k \in db.analyses : AnalysisVerified(k, db) <=> k.analysis.snapshot.rows \subseteq db.rows
  /\ \A k \in db.comparisons :
       LET c == k.comparison
       IN  Replayed(c, db.rows) <=>
             /\ ToSet(c.assertions) \cup c.domains \cup c.values \subseteq db.rows
             /\ \A a \in ToSet(c.assertions) : \A b \in a.bindings :
                  b[1] \in StatementFamilies =>
                    \E r \in Of(db.rows, "binding") : b = <<r.family, r.id>>

\* Neither the locks nor the constraint trigger refuse an analysis of a stored
\* and authentic snapshot, of relations that are stored and under a stored policy.
ConstraintsAgree ==
  \A c \in Callers :
    pc[c] = "analysis"
      /\ (\E s \in view[c].snapshots :
            /\ s.id = work[c].snapshotId /\ s.snapshot = work[c].snapshot
            /\ SnapshotVerified(s, view[c]))
      /\ work[c].policy \in Analytic
      /\ (\A r \in work[c].relations : \E s \in Of(view[c].rows, "relation") :
            s.id = r.id /\ s.subject = work[c].claim /\ s.object = r.evidence
              /\ s.relation = r.direction)
    => LET t == Project(work[c])
       IN  TargetsHold(work[c], t, view[c]) /\ TriggerHolds(t, work[c], view[c].rows)

\* What an analysis rests on is stored, and stays so: its snapshot under its id,
\* with the bindings it selected as members, and the relations of its claim.  So
\* are the assertions of a comparison and its findings, whoever inserted them.
AnalysesRestOnStored ==
  /\ \A k \in db.analyses :
       /\ SelectionHolds(k.analysis, db)
       /\ \E s \in db.snapshots :
            /\ s.id = k.analysis.snapshotId /\ s.snapshot = k.analysis.snapshot
            /\ \A b \in k.analysis.bindings : <<"binding", "included", b.statement>> \in s.members
  /\ \A k \in db.comparisons :
       PrerequisitesExist(k.comparison, db.rows) /\ k.comparison.findings \subseteq db.findings

\* Every connection is held by a read of an analysis that waits for its second.
Starved ==
  \A s \in Slots : lease[s] # None /\ pc[lease[s]] = "reconnect"

\* Every call is answered, unless reads of analyses have taken all connections,
\* each waiting for one more (rcv017PostgresReadRepository.ts:152-175).
ProvenanceCallsEnd == \A c \in Callers : pc[c] # "idle" ~> (pc[c] = "done" \/ Starved)
================================================================================
