------------------------ MODULE ResearchOrchestration ------------------------
(***************************************************************************)
(* RCV-021: concurrent writers of research operations, runs, attempts,     *)
(* provider results, terminal resolutions and selections, over append-only *)
(* tables (services/rcv021PostgresRepository.ts, rcv021TerminalWrite-      *)
(* Context.ts).  The rows and the gates are those of ResearchHistory.      *)
(*                                                                         *)
(* Bundles that touch one operation meet at its row lock; only inserts of  *)
(* operations and of selections can meet other writers elsewhere.  Each of *)
(* those waits is an action; what happens under the lock is one action.    *)
(***************************************************************************)
EXTENDS ResearchHistory

CONSTANT
  Writers    \* Concurrent callers of persistRcv021Bundle.

ASSUME WriterAssumption == IsFiniteSet(Writers)

VARIABLES
  db,      \* Committed rows.
  work,    \* Rows each open transaction has inserted.
  lock,    \* Operations whose row each transaction has locked.
  pc,      \* Where each call stands.
  bundle,  \* The rows each call was given.
  answer   \* How each writer's last call ended.

vars == <<db, work, lock, pc, bundle, answer>>

-----------------------------------------------------------------------------
(* Transactions *)

Pcs == {"idle", "operations", "lock", "write", "select", "commit"}
Answers == {"none", "accepted", "refused", "failed"}

TypeOK ==
  /\ db \subseteq UNION Bundles
  /\ work \in [Writers -> SUBSET UNION Bundles]
  /\ lock \in [Writers -> SUBSET Operations]
  /\ pc \in [Writers -> Pcs]
  /\ bundle \in [Writers -> Bundles \cup {{}}]
  /\ answer \in [Writers -> Answers]

Init ==
  /\ db = {}
  /\ work = [w \in Writers |-> {}]
  /\ lock = [w \in Writers |-> {}]
  /\ pc = [w \in Writers |-> "idle"]
  /\ bundle = [w \in Writers |-> {}]
  /\ answer = [w \in Writers |-> "none"]

Visible(w) == db \cup work[w]

\* A transaction ends: its locks are gone and its call returns.
Ends(w, kind) ==
  /\ work' = [work EXCEPT ![w] = {}]
  /\ lock' = [lock EXCEPT ![w] = {}]
  /\ pc' = [pc EXCEPT ![w] = "idle"]
  /\ bundle' = [bundle EXCEPT ![w] = {}]
  /\ answer' = [answer EXCEPT ![w] = kind]

Refused(w) == Ends(w, "refused") /\ UNCHANGED db

\* verifyRcv021WriteProposal passed; BEGIN, SAVEPOINT and the isolation check.
Submit(w, B) ==
  /\ pc[w] = "idle"
  /\ pc' = [pc EXCEPT ![w] = "operations"]
  /\ bundle' = [bundle EXCEPT ![w] = B]
  /\ answer' = [answer EXCEPT ![w] = "none"]
  /\ UNCHANGED <<db, work, lock>>

\* Another transaction has inserted a row with a key of r and is still open:
\* the insert waits for its end.
InFlight(w, r) == \E v \in Writers \ {w} : Collides(r, work[v])

NewOperations(w) == Of(bundle[w], "operation") \ Visible(w)

First(S) == {x \in S : \A y \in S : x.id <= y.id}

\* Operations are inserted in the order of their ids.
InsertOperation(w) ==
  /\ pc[w] = "operations"
  /\ \E r \in First(NewOperations(w)) :
       /\ ~InFlight(w, r)
       /\ ~Collides(r, Visible(w))
       /\ work' = [work EXCEPT ![w] = @ \cup {r}]
  /\ UNCHANGED <<db, lock, pc, bundle, answer>>

OperationConflict(w) ==
  /\ pc[w] = "operations"
  /\ \E r \in First(NewOperations(w)) : Collides(r, Visible(w))
  /\ Refused(w)

OperationsInserted(w) ==
  /\ pc[w] = "operations"
  /\ NewOperations(w) = {}
  /\ pc' = [pc EXCEPT ![w] = "lock"]
  /\ UNCHANGED <<db, work, lock, bundle, answer>>

ToLock(w) == Affected(bundle[w], Visible(w)) \ lock[w]

\* Mutant of NextToLock: operations are locked in the order of the rows.
AnyToLock(w) == ToLock(w)

NextToLock(w) == {o \in ToLock(w) : \A p \in ToLock(w) : o <= p}

Exists(w, o) == \E r \in Of(Visible(w), "operation") : r.id = o

\* Mutant of Free: the operation is read without FOR UPDATE.
Shared(w, o) == TRUE

Free(w, o) == \A v \in Writers \ {w} : o \notin lock[v]

\* The owners of runs, attempts and results are looked up before the locks;
\* a parent that is not committed yet is missing.
OwnersKnown(w) ==
  \A r \in bundle[w] : OwnerKnown(r, Visible(w) \cup bundle[w])

\* Operations are locked in the order of their ids.
LockOperation(w) ==
  /\ pc[w] = "lock"
  /\ OwnersKnown(w)
  /\ \E o \in NextToLock(w) :
       /\ Exists(w, o)
       /\ Free(w, o)
       /\ lock' = [lock EXCEPT ![w] = @ \cup {o}]
  /\ UNCHANGED <<db, work, pc, bundle, answer>>

ParentMissing(w) ==
  /\ pc[w] = "lock"
  /\ \/ ~OwnersKnown(w)
     \/ \E o \in NextToLock(w) : ~Exists(w, o)
  /\ Refused(w)

Locked(w) ==
  /\ pc[w] = "lock"
  /\ OwnersKnown(w)
  /\ ToLock(w) = {}
  /\ pc' = [pc EXCEPT ![w] = "write"]
  /\ UNCHANGED <<db, work, lock, bundle, answer>>

\* The rest of persistRcv021ScopedBundle up to the selections.
Write(w) ==
  /\ pc[w] = "write"
  /\ Writable(bundle[w], Visible(w))
  /\ work' = [work EXCEPT ![w] = @ \cup
                {r \in bundle[w] : r.kind # "selection" /\ ~Collides(r, Visible(w))}]
  /\ pc' = [pc EXCEPT ![w] = "select"]
  /\ UNCHANGED <<db, lock, bundle, answer>>

Refuse(w) ==
  /\ pc[w] = "write"
  /\ ~Writable(bundle[w], Visible(w))
  /\ Refused(w)

Unselected(w) == Of(bundle[w], "selection") \ Visible(w)

InsertSelection(w, r) ==
  /\ pc[w] = "select"
  /\ r \in Unselected(w)
  /\ ~InFlight(w, r)
  /\ ~Collides(r, Visible(w))
  /\ work' = [work EXCEPT ![w] = @ \cup {r}]
  /\ UNCHANGED <<db, lock, pc, bundle, answer>>

SelectionConflict(w, r) ==
  /\ pc[w] = "select"
  /\ r \in Unselected(w)
  /\ Collides(r, Visible(w))
  /\ Refused(w)

Selected(w) ==
  /\ pc[w] = "select"
  /\ Unselected(w) = {}
  /\ pc' = [pc EXCEPT ![w] = "commit"]
  /\ UNCHANGED <<db, work, lock, bundle, answer>>

\* Mutant of Commit: the locks outlive the transaction.
CommitHoldingLocks(w) ==
  /\ pc[w] = "commit"
  /\ db' = db \cup work[w]
  /\ work' = [work EXCEPT ![w] = {}]
  /\ pc' = [pc EXCEPT ![w] = "idle"]
  /\ bundle' = [bundle EXCEPT ![w] = {}]
  /\ answer' = [answer EXCEPT ![w] = "accepted"]
  /\ UNCHANGED lock

Commit(w) ==
  /\ pc[w] = "commit"
  /\ db' = db \cup work[w]
  /\ Ends(w, "accepted")

\* The connection is lost: the server rolls back, or had already committed.
ConnectionLost(w) ==
  /\ pc[w] # "idle"
  /\ \/ UNCHANGED db
     \/ pc[w] = "commit" /\ db' = db \cup work[w]
  /\ Ends(w, "failed")

\* w waits for v: at an insert, or at a row lock.
WaitsAtInsert(w, v) ==
  \/ /\ pc[w] = "operations"
     /\ \E r \in First(NewOperations(w)) :
          Collides(r, work[v]) /\ ~Collides(r, Visible(w))
  \/ /\ pc[w] = "select"
     /\ \A r \in Unselected(w) : InFlight(w, r) /\ ~Collides(r, Visible(w))
     /\ \E r \in Unselected(w) : Collides(r, work[v])

WaitsAtLock(w, v) ==
  /\ pc[w] = "lock"
  /\ \E o \in NextToLock(w) : Exists(w, o) /\ o \in lock[v]

Waits(w, v) == w # v /\ (WaitsAtInsert(w, v) \/ WaitsAtLock(w, v))

\* PostgreSQL aborts one transaction of a cycle of waits.
Deadlocked(w) ==
  \E C \in SUBSET Writers :
    /\ w \in C
    /\ \A v \in C : (\E u \in C : Waits(v, u)) /\ (\E u \in C : Waits(u, v))

DeadlockVictim(w) ==
  /\ Deadlocked(w)
  /\ Ends(w, "failed")
  /\ UNCHANGED db

Step(w) ==
  \/ InsertOperation(w)
  \/ OperationConflict(w)
  \/ OperationsInserted(w)
  \/ LockOperation(w)
  \/ ParentMissing(w)
  \/ Locked(w)
  \/ Write(w)
  \/ Refuse(w)
  \/ \E r \in bundle[w] : InsertSelection(w, r) \/ SelectionConflict(w, r)
  \/ Selected(w)
  \/ Commit(w)
  \/ DeadlockVictim(w)

Next == \E w \in Writers :
          \/ \E B \in Bundles : Submit(w, B)
          \/ Step(w)
          \/ ConnectionLost(w)

\* Every database call returns, and PostgreSQL queues the transactions that
\* wait for a row, so none waits for ever behind others that come and go.
\* Nothing makes a caller submit or a connection fail.
Fairness == \A w \in Writers : SF_vars(Step(w))

Spec == Init /\ [][Next]_vars /\ Fairness

-----------------------------------------------------------------------------
(* Properties *)

Activity(D, i) == StartsOf(D, i) \cup AttemptsOf(D, i) \cup ResultsOf(D, i)
                  \cup TerminalsOf(D, i)
                  \cup UNION {ResolutionsOf(D, a.id) : a \in AttemptsOf(D, i)}

\* Ends are final, whoever races them: a closed operation admits no run, and
\* nothing that the outcome of a finished run was derived from changes. The
\* checks and the inserts hold the operation's lock.
EndsAreFinal ==
  [][/\ \A c \in Of(db, "close") :
          RunsOf(db', c.operation) = RunsOf(db, c.operation)
     /\ \A t \in Of(db, "terminal") :
          Activity(db', t.run) = Activity(db, t.run)]_vars

\* The manifest of a terminal resolution lists exactly the results stored
\* for its run, those written by the same bundle included.
ManifestsAreComplete ==
  \A t \in Of(db, "terminal") :
    t.manifest = {x.id : x \in ResultsOf(db, t.run)}

\* The attempts of a run form one chain: every attempt with a lower number
\* failed before a later one began, so no two are ever open together.
AttemptsAreSequential ==
  \A a, b \in Of(db, "attempt") :
    a.run = b.run /\ a # b =>
      /\ a.number # b.number
      /\ a.number < b.number =>
           \E s \in ResolutionsOf(db, a.id) : s.outcome = "FAILED" /\ s.at < b.at

\* A rerun has a finished predecessor of its own operation, which ended
\* before the rerun was created; so lineage has no cycle.
RerunsFollowTerminals ==
  \A r \in Of(db, "run") : r.predecessor # None =>
    \E p \in RunsOf(db, r.operation), t \in TerminalsOf(db, r.predecessor) :
      p.id = r.predecessor /\ t.at < r.at

\* A close whose time is not after the creation of a run that exists.
Backdated(D, o) == \E c \in ClosesOf(D, o), r \in RunsOf(D, o) : c.at <= r.at

\* Writer and reader agree: the graph of an operation that the writer let
\* grow row by row always passes the historical verifier, unless a close
\* was committed with a time at or before an existing run's.
HistoriesStayReadable ==
  \A p \in Of(db, "operation") :
    ~Backdated(db, p.id) =>
      HistoryVerifies(db, p.id, {r.id : r \in RunsOf(db, p.id)})

\* In a finished run no attempt began after the deadline, and one that was
\* open at the deadline failed for that recorded cause and timed the run out.
DeadlinesAreExplained ==
  \A r \in Of(db, "run") : \A t \in TerminalsOf(db, r.id) :
    \A a \in AttemptsOf(db, r.id) : \E s \in ResolutionsOf(db, a.id) :
      /\ a.at <= r.deadline
      /\ s.at >= r.deadline =>
           /\ s.outcome = "FAILED" /\ s.cause = "deadline"
           /\ t.outcome = "TIMED_OUT"

\* What is stored of the runs stays coherent, whoever wrote which row of it.
RunsAreCoherent ==
  /\ ManifestsAreComplete /\ AttemptsAreSequential
  /\ DeadlinesAreExplained /\ RerunsFollowTerminals

\* Some attempt of r reached the deadline without the recorded cause, or
\* began after it.
Unexplained(D, r) ==
  \E a \in AttemptsOf(D, r.id), s \in Of(D, "resolution") :
    s.attempt = a.id /\ (a.at > r.deadline \/ s.at >= r.deadline)

\* The terminal resolution FAILED of r at time n.
Failure(D, r, n) ==
  [kind |-> "terminal", id |-> "failure", run |-> r.id, outcome |-> "FAILED",
   at |-> n, manifest |-> {x.id : x \in ResultsOf(D, r.id)}]

FailureIsFresh == \A t \in Of(UNION Bundles, "terminal") : t.id # "failure"

\* No accepted row leads into a dead end: a started run whose attempts are
\* all over can be finished as FAILED an instant later, unless its deadline
\* passed during an attempt or its operation was closed in its past.
RunsCanFinish ==
  \A r \in Of(db, "run") :
    \/ TerminalsOf(db, r.id) # {} \/ StartsOf(db, r.id) = {}
    \/ Unexplained(db, r) \/ Backdated(db, r.operation)
    \/ \E a \in AttemptsOf(db, r.id) : ResolutionsOf(db, a.id) = {}
    \/ \E q \in db : Writable({Failure(db, r, q.at + 1)}, db)

\* An accepted bundle is stored, row for row, with the content submitted:
\* neither a race nor a row of the same id makes it something else.
AcceptedIsStored ==
  [][\A w \in Writers :
       pc[w] # "idle" /\ answer'[w] = "accepted" => bundle[w] \subseteq db']_vars

\* Row locks and unique indexes make every bundle one step of the ledger: it
\* appears whole, and at that moment it passes every gate against what is
\* then stored, whatever committed since its writer looked.
Ledger == INSTANCE ResearchLedger

BundlesAreAtomic == Ledger!LedgerSpec

\* Operations are locked in one order, so a cycle of waits can only be about
\* selections, which are inserted in the caller's order.
LocksNeverDeadlock ==
  \A w \in Writers : Deadlocked(w) => pc[w] = "select"

\* Every call ends, whoever holds the rows it needs.
EveryBundleAnswered ==
  \A w \in Writers : pc[w] # "idle" ~> pc[w] = "idle"

=============================================================================
