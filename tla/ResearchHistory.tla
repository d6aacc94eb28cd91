---------------------------- MODULE ResearchHistory ----------------------------
(***************************************************************************)
(* RCV-021: the rows of research operations, the semantic core that says   *)
(* what a stored history must satisfy (rcv021SemanticCore.ts, rcv021Dead-  *)
(* lineProvenance.ts), the verifier that judges it (rcv021ReadVerifier.ts) *)
(* and the gates a bundle passes before it is written (rcv021Postgres-     *)
(* Repository.ts, rcv021TerminalWriteContext.ts).                          *)
(*                                                                         *)
(* Callers bring whole rows, with ids and times of their own, so the rows  *)
(* they may submit are a constant: a bundle is the set of rows of one call *)
(* and a database D is a set of rows.  An operation row stands for itself  *)
(* and its subject and trigger bindings.  A row is compared by its id and, *)
(* for the rest of its canonical text, by equality.                        *)
(***************************************************************************)
EXTENDS Integers, FiniteSets

CONSTANTS
  Bundles,   \* The bundles callers may submit: sets of rows.
  None

Id == STRING
Operations == Nat \* Operation ids, in the order the writer sorts them.
Times == Nat

AttemptOutcomes  == {"SUCCEEDED", "FAILED"}
TerminalOutcomes == {"SUCCESS_WITH_RESULTS", "SUCCESS_NO_RESULTS", "FAILED",
                     "TIMED_OUT"}
\* failure_authority: absent, free text, or the deadline provenance record
\* bound to the run and the attempt.
Causes == {"none", "text", "deadline"}

Row ==
  [kind : {"operation"}, id : Operations, at : Times]
  \cup [kind : {"close"}, id : Id, operation : Operations, at : Times]
  \cup [kind : {"run"}, id : Id, operation : Operations, at : Times,
        deadline : Times, predecessor : Id \cup {None}]
  \cup [kind : {"start"}, id : Id, run : Id, at : Times]
  \cup [kind : {"attempt"}, id : Id, run : Id, number : Nat \ {0},
        predecessor : Id \cup {None}, at : Times]
  \cup [kind : {"resolution"}, id : Id, attempt : Id,
        outcome : AttemptOutcomes, at : Times, cause : Causes]
  \cup [kind : {"result"}, id : Id, run : Id, at : Times]
  \cup [kind : {"terminal"}, id : Id, run : Id, outcome : TerminalOutcomes,
        at : Times, manifest : SUBSET Id]
  \cup [kind : {"selection"}, id : Id, result : Id, occurrence : Id,
        at : Times]

\* The row a row belongs to by a foreign key.
Parent(r) ==
  CASE r.kind \in {"run", "close"} -> r.operation
    [] r.kind \in {"start", "attempt", "result", "terminal"} -> r.run
    [] r.kind = "resolution" -> r.attempt
    [] OTHER -> None

ASSUME BundleAssumption ==
  /\ None \notin Id
  /\ \A b \in Bundles : IsFiniteSet(b) /\ b \subseteq Row /\ b # {}
  \* Ids are drawn by the callers as UUIDs: a child id names one parent.
  /\ \A r, s \in UNION Bundles :
       r.kind = s.kind /\ r.id = s.id => Parent(r) = Parent(s)

-----------------------------------------------------------------------------
(* Tables *)

Of(D, kind) == {r \in D : r.kind = kind}

RunsOf(D, o)       == {r \in Of(D, "run") : r.operation = o}
ClosesOf(D, o)     == {c \in Of(D, "close") : c.operation = o}
StartsOf(D, i)     == {s \in Of(D, "start") : s.run = i}
AttemptsOf(D, i)   == {a \in Of(D, "attempt") : a.run = i}
ResultsOf(D, i)    == {x \in Of(D, "result") : x.run = i}
TerminalsOf(D, i)  == {t \in Of(D, "terminal") : t.run = i}
ResolutionsOf(D, a) == {s \in Of(D, "resolution") : s.attempt = a}

\* The primary key and the unique constraints of each table.
Keys(r) ==
  {<<r.kind, "id", r.id>>} \cup
  CASE r.kind = "close"      -> {<<"close", "operation", r.operation>>}
    [] r.kind = "start"      -> {<<"start", "run", r.run>>}
    [] r.kind = "attempt"    -> {<<"attempt", "number", <<r.run, r.number>>>>}
    [] r.kind = "resolution" -> {<<"resolution", "attempt", r.attempt>>}
    [] r.kind = "terminal"   -> {<<"terminal", "run", r.run>>}
    [] r.kind = "selection"  -> {<<"selection", "occurrence", r.occurrence>>}
    [] OTHER                 -> {}

Collides(r, D) == \E s \in D : Keys(r) \cap Keys(s) # {}

\* Mutant of Insertable: any stored row of that id counts as a replay.
InsertableById(r, D) ==
  (\E s \in D : s.kind = r.kind /\ s.id = r.id) \/ ~Collides(r, D)

\* INSERT ... ON CONFLICT DO NOTHING, and on a conflict the stored row of
\* that id must exist and be the same.
Insertable(r, D) == r \in D \/ ~Collides(r, D)

\* The parent a child is looked up by before any lock is taken.
OwnerKnown(r, D) ==
  CASE r.kind \in {"start", "attempt", "result", "terminal"} ->
         \E s \in Of(D, "run") : s.id = r.run
    [] r.kind = "resolution" -> \E a \in Of(D, "attempt") : a.id = r.attempt
    [] r.kind = "selection"  -> \E x \in Of(D, "result") : x.id = r.result
    [] OTHER -> TRUE

\* The foreign keys between rows of one kind: reruns and retries.
PredecessorExists(r, D) ==
  /\ r.kind = "run" /\ r.predecessor # None
       => \E s \in Of(D, "run") : s.id = r.predecessor
  /\ r.kind = "attempt" /\ r.predecessor # None
       => \E a \in AttemptsOf(D, r.run) : a.id = r.predecessor

\* The runs a row touches, and through them the operations (owners).
TouchedRuns(r, D) ==
  CASE r.kind = "run" -> {r.id}
    [] r.kind \in {"start", "attempt", "result", "terminal"} -> {r.run}
    [] r.kind = "resolution" ->
         {a.run : a \in {b \in Of(D, "attempt") : b.id = r.attempt}}
    [] r.kind = "selection" ->
         {x.run : x \in {y \in Of(D, "result") : y.id = r.result}}
    [] OTHER -> {}

Owners(B, D) == UNION {TouchedRuns(r, D \cup B) : r \in B}

Affected(B, D) ==
  {r.id : r \in Of(B, "operation")} \cup {c.operation : c \in Of(B, "close")}
  \cup {r.operation : r \in {s \in Of(D \cup B, "run") : s.id \in Owners(B, D)}}

\* A run and its chain of predecessors (targetGraph): the least set of run ids
\* that holds i and follows predecessors.
Ancestry(D, i) ==
  LET named == {i} \cup {r.predecessor : r \in Of(D, "run")}
      Follows(S) == \A r \in Of(D, "run") :
                      r.id \in S /\ r.predecessor # None => r.predecessor \in S
  IN  {j \in named : \A S \in SUBSET named : i \in S /\ Follows(S) => j \in S}

-----------------------------------------------------------------------------
(* The semantic core: what a stored history must satisfy *)

OperationLifecycle(D, o) ==
  /\ \A c \in ClosesOf(D, o), p \in Of(D, "operation") :
       p.id = o => c.at >= p.at
  /\ \A c, d \in ClosesOf(D, o) : c = d

RunCreation(D, r) ==
  /\ \A c \in ClosesOf(D, r.operation) : c.at > r.at
  /\ r.deadline >= r.at
  /\ r.predecessor # None =>
       \E p \in RunsOf(D, r.operation) :
         /\ p.id = r.predecessor
         /\ \E t \in TerminalsOf(D, p.id) : t.at < r.at

AttemptResolution(a, s) ==
  /\ s.at >= a.at
  /\ s.outcome = "SUCCEEDED" => s.cause = "none"

Retry(D, a) ==
  \E p \in AttemptsOf(D, a.run) :
    /\ p.id = a.predecessor
    /\ a.number = p.number + 1
    /\ \E s \in ResolutionsOf(D, p.id) :
         s.outcome = "FAILED" /\ AttemptResolution(p, s) /\ a.at > s.at

FirstOrRetry(D, a) == IF a.predecessor = None THEN a.number = 1 ELSE Retry(D, a)

\* Every attempt is resolved, none outlives the run, retries form a chain.
AttemptSet(D, i, terminalAt) ==
  \A a \in AttemptsOf(D, i) :
    /\ FirstOrRetry(D, a)
    /\ a.predecessor # None => a.at < terminalAt
    /\ \E s \in ResolutionsOf(D, a.id) :
         AttemptResolution(a, s) /\ s.at <= terminalAt

\* An attempt that was active at the deadline ends FAILED with the recorded
\* cause in a TIMED_OUT run; one that started later is never explained.
DeadlineEvidence(D, r, t) ==
  \A a \in AttemptsOf(D, r.id), s \in Of(D, "resolution") :
    s.attempt = a.id =>
      \/ a.at <= r.deadline /\ s.at < r.deadline
      \/ /\ a.at <= r.deadline
         /\ t.outcome = "TIMED_OUT"
         /\ s.outcome = "FAILED"
         /\ s.cause = "deadline"

\* Mutant of Manifest: results may be missing from the manifest.
PartialManifest(D, t) ==
  t.manifest \subseteq {x.id : x \in ResultsOf(D, t.run)}

Manifest(D, t) == t.manifest = {x.id : x \in ResultsOf(D, t.run)}

TerminalResolution(D, r, t) ==
  /\ AttemptSet(D, r.id, t.at)
  /\ t.outcome = "TIMED_OUT" => t.at >= r.deadline
  /\ \A x \in ResultsOf(D, r.id) : x.at <= t.at
  /\ Manifest(D, t)
  /\ t.outcome = "SUCCESS_NO_RESULTS" => t.manifest = {}
  /\ t.outcome = "SUCCESS_WITH_RESULTS" => t.manifest # {}

StartedOnce(D, r) ==
  \A s, u \in StartsOf(D, r.id) : s = u /\ s.at >= r.at

\* verifyRcv021HistoricalGraph over the runs named by I of operation o.
HistoryVerifies(D, o, I) ==
  /\ OperationLifecycle(D, o)
  /\ \A r \in RunsOf(D, o) : r.id \in I =>
       /\ RunCreation(D, r)
       /\ \A a \in AttemptsOf(D, r.id), s \in Of(D, "resolution") :
            s.attempt = a.id => AttemptResolution(a, s)
       /\ \A t \in TerminalsOf(D, r.id) :
            /\ TerminalResolution(D, r, t)
            /\ StartsOf(D, r.id) # {}
            /\ StartedOnce(D, r)

\* deadlineQualification = "VERIFIED"
DeadlinesVerified(D, o, I) ==
  \A r \in RunsOf(D, o) : r.id \in I =>
    /\ \A t \in TerminalsOf(D, r.id) : DeadlineEvidence(D, r, t)
    /\ TerminalsOf(D, r.id) = {} =>
         \A a \in AttemptsOf(D, r.id) :
           /\ a.at < r.deadline
           /\ \E s \in ResolutionsOf(D, a.id) : s.at < r.deadline

Verified(D, o, I) == HistoryVerifies(D, o, I) /\ DeadlinesVerified(D, o, I)

\* Mutant of AttemptOrdering: retry lineage is left to the terminal.
StartOrdering(D, r) ==
  /\ StartedOnce(D, r)
  /\ \A a \in AttemptsOf(D, r.id) : \E s \in StartsOf(D, r.id) : a.at >= s.at

\* validateStoredAttemptOrdering
AttemptOrdering(D, r) ==
  /\ StartedOnce(D, r)
  /\ \A a \in AttemptsOf(D, r.id) :
       /\ \E s \in StartsOf(D, r.id) : a.at >= s.at
       /\ FirstOrRetry(D, a)

-----------------------------------------------------------------------------
(* The gates of persistRcv021ScopedBundle, on what the transaction sees *)

\* Mutant of RunsOfOpenOperations: the closed check is left to the verifier,
\* which compares times.
RunsOfAnyOperation(B, D) == TRUE

RunsOfOpenOperations(B, D) ==
  \A r \in Of(B, "run") \ D : ClosesOf(D \cup B, r.operation) = {}

\* Mutant of ChildrenOfLiveRuns: replays are turned away too.
NoChildOfFinishedRuns(B, D) ==
  \A r \in B : r.kind \in {"start", "attempt", "resolution", "result"} =>
    \A i \in TouchedRuns(r, D \cup B) : TerminalsOf(D, i) = {}

\* childReplayOrReject: once a run is terminal only replays are let through.
ChildrenOfLiveRuns(B, D) ==
  \A r \in B \ D : r.kind \in {"start", "attempt", "resolution", "result"} =>
    \A i \in TouchedRuns(r, D \cup B) : TerminalsOf(D, i) = {}

TerminalContext(D, r) ==
  /\ Verified(D, r.operation, Ancestry(D, r.id))
  /\ AttemptOrdering(D, r)

\* The new run is judged with its finished ancestors, not with children of
\* its own.
CreationContext(D, r) ==
  /\ RunCreation(D, r)
  /\ Verified(D, r.operation, Ancestry(D, r.id) \ {r.id})

\* Mutant of PendingContext: only finished runs are verified.
TerminalContextOnly(D, r) ==
  TerminalsOf(D, r.id) # {} =>
    Verified(D, r.operation, Ancestry(D, r.id)) /\ AttemptOrdering(D, r)

PendingContext(D, r) ==
  /\ HistoryVerifies(D, r.operation, Ancestry(D, r.id))
  /\ AttemptOrdering(D, r)
  /\ TerminalsOf(D, r.id) # {}
       => DeadlinesVerified(D, r.operation, Ancestry(D, r.id))

\* Every gate but the inserts of the selections, which come one by one.
Writable(B, D) ==
  /\ \A r, s \in B : r = s \/ Keys(r) \cap Keys(s) = {}
  /\ \A r \in B : PredecessorExists(r, D \cup B)
  /\ \A r \in B : r.kind # "selection" => Insertable(r, D)
  /\ RunsOfOpenOperations(B, D)
  /\ ChildrenOfLiveRuns(B, D)
  /\ \A o \in Affected(B, D) : OperationLifecycle(D \cup B, o)
  /\ \A r \in Of(D \cup B, "run") :
       /\ r.id \in {t.run : t \in Of(B, "terminal")} => TerminalContext(D \cup B, r)
       /\ r \in B \ D => CreationContext(D \cup B, r)
       /\ r.id \in Owners(B, D) => PendingContext(D \cup B, r)

\* persistRcv021Bundle on a history D that nobody else is changing.
Accepts(B, D) ==
  /\ \A r \in B : OwnerKnown(r, D \cup B) /\ Insertable(r, D)
  /\ Affected(B, D) \subseteq {p.id : p \in Of(D \cup B, "operation")}
  /\ Writable(B, D)

================================================================================
