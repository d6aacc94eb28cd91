--------------------------- MODULE ResearchScheduler ---------------------------
(***************************************************************************)
(* The research scheduler: concurrent callers of createSchedulerRunNow     *)
(* (researchSchedulerPostgresWriter.ts) and of createResearchScheduler-    *)
(* PolicyV1 (researchSchedulerPolicyV1.ts), each in a transaction of its   *)
(* own, beside the RCV-021 writers, whose bundles arrive as whole steps    *)
(* that wait for the same operation rows.                                  *)
(***************************************************************************)
EXTENDS SchedulerLedger

CONSTANTS
  Schedulers,     \* Callers of createSchedulerRunNow.
  Administrators  \* Callers of createResearchSchedulerPolicyV1.

Callers == Schedulers \cup Administrators

ASSUME CallerAssumption ==
  IsFiniteSet(Callers) /\ Schedulers \cap Administrators = {}

VARIABLES
  call,      \* The request of each caller, or None.
  at,        \* Where each call stands.
  held,      \* The rows each transaction has locked.
  draft,     \* The rows each transaction has inserted.
  reply      \* How each caller's last call ended.

svars == <<db, streams, versions, decisions, call, at, held, draft, reply>>

-----------------------------------------------------------------------------
(* Transactions *)

StreamRow(p) == <<"stream", p>>
OperationRow(o) == <<"operation", o>>

Free(l) == \A x \in Callers : l \notin held[x]
FreeFor(x, l) == \A y \in Callers \ {x} : l \notin held[y]

Nothing == [decisions |-> {}, runs |-> {}, streams |-> {}, versions |-> {}]

SchedulerInit ==
  /\ StoreInit
  /\ call = [x \in Callers |-> None]
  /\ at = [x \in Callers |-> "idle"]
  /\ held = [x \in Callers |-> {}]
  /\ draft = [x \in Callers |-> Nothing]
  /\ reply = [x \in Callers |-> "none"]

Begin(x, q, point) ==
  /\ at[x] = "idle"
  /\ call' = [call EXCEPT ![x] = q]
  /\ at' = [at EXCEPT ![x] = point]
  /\ reply' = [reply EXCEPT ![x] = "none"]
  /\ UNCHANGED <<tables, held, draft>>

\* The transaction ends, its locks with it.
Answer(x, kind) ==
  /\ call' = [call EXCEPT ![x] = None]
  /\ at' = [at EXCEPT ![x] = "idle"]
  /\ held' = [held EXCEPT ![x] = {}]
  /\ draft' = [draft EXCEPT ![x] = Nothing]
  /\ reply' = [reply EXCEPT ![x] = kind]

Turned(x) == Answer(x, "refused") /\ UNCHANGED tables

Lock(x, l, point) ==
  /\ FreeFor(x, l)
  /\ held' = [held EXCEPT ![x] = @ \cup {l}]
  /\ at' = [at EXCEPT ![x] = point]
  /\ UNCHANGED <<tables, call, draft, reply>>

Published(x) ==
  /\ db' = db \cup draft[x].runs
  /\ decisions' = decisions \cup draft[x].decisions
  /\ streams' = streams \cup draft[x].streams
  /\ versions' = versions \cup draft[x].versions

\* Mutant of CommitCall: the connection goes back with its transaction open.
CommitCallHoldingLocks(x) ==
  /\ at[x] = "commit"
  /\ Published(x)
  /\ at' = [at EXCEPT ![x] = "idle"]
  /\ UNCHANGED <<call, held, draft, reply>>

CommitCall(x) ==
  /\ at[x] = "commit"
  /\ Published(x)
  /\ Answer(x, IF draft[x] = Nothing THEN "idempotent" ELSE "committed")

\* The connection is lost: rolled back, or already committed.
CallLost(x) ==
  /\ at[x] # "idle"
  /\ \/ UNCHANGED tables
     \/ at[x] = "commit" /\ Published(x)
  /\ Answer(x, "failed")

-----------------------------------------------------------------------------
(* RUN_NOW *)

RunNow(s, q) == Begin(s, q, "stream")

\* FOR UPDATE on the stream; a stream is never changed, so waiting for it
\* would not make a wrong one right.
LockStream(s) ==
  /\ at[s] = "stream"
  /\ StreamKnown(call[s])
  /\ Lock(s, StreamRow(call[s].policy), "operation")

StreamUnknown(s) ==
  /\ at[s] = "stream"
  /\ ~StreamKnown(call[s])
  /\ Turned(s)

\* Mutant of LockOperation: the operation is read without FOR UPDATE.
ReadOperation(s) ==
  /\ at[s] = "operation"
  /\ at' = [at EXCEPT ![s] = "decide"]
  /\ UNCHANGED <<tables, call, held, draft, reply>>

LockOperation(s) ==
  /\ at[s] = "operation"
  /\ Lock(s, OperationRow(call[s].operation), "decide")

Decide(s) ==
  /\ at[s] = "decide"
  /\ Eligible(call[s])
  /\ Admissible(call[s])
  /\ draft' = [draft EXCEPT ![s].decisions = {NewDecision(call[s])},
                           ![s].runs = {RunRow(call[s])}]
  /\ at' = [at EXCEPT ![s] = "commit"]
  /\ UNCHANGED <<tables, call, held, reply>>

Replay(s) ==
  /\ at[s] = "decide"
  /\ Eligible(call[s])
  /\ Replays(call[s])
  /\ at' = [at EXCEPT ![s] = "commit"]
  /\ UNCHANGED <<tables, call, held, draft, reply>>

Refuse(s) ==
  /\ at[s] = "decide"
  /\ ~(Eligible(call[s]) /\ (Admissible(call[s]) \/ Replays(call[s])))
  /\ Turned(s)

-----------------------------------------------------------------------------
(* Policy V1 *)

CreatePolicy(a, t) == Begin(a, t, "operation")

LockAuthorizedOperation(a) ==
  /\ at[a] = "operation"
  /\ OperationOf(call[a]) # {}
  /\ Lock(a, OperationRow(call[a].operation), "stream")

OperationMissing(a) ==
  /\ at[a] = "operation"
  /\ OperationOf(call[a]) = {}
  /\ Turned(a)

\* An uncommitted stream of the same policy: the insert waits.
PolicyInFlight(a) ==
  \E b \in Callers \ {a} : \E u \in draft[b].streams : u.policy = call[a].policy

InsertPolicy(a) ==
  /\ at[a] = "stream"
  /\ NewPolicy(call[a])
  /\ ~PolicyInFlight(a)
  /\ draft' = [draft EXCEPT ![a].streams = {call[a]},
                           ![a].versions = FirstVersions(call[a])]
  /\ at' = [at EXCEPT ![a] = "commit"]
  /\ UNCHANGED <<tables, call, held, reply>>

\* The stream is there already: its row is locked and its first version
\* compared, or inserted when it is missing.
AuthenticatePolicy(a) ==
  /\ at[a] = "stream"
  /\ SamePolicy(call[a])
  /\ FreeFor(a, StreamRow(call[a].policy))
  /\ held' = [held EXCEPT ![a] = @ \cup {StreamRow(call[a].policy)}]
  /\ draft' = [draft EXCEPT ![a].versions = FirstVersions(call[a]) \ versions]
  /\ at' = [at EXCEPT ![a] = "commit"]
  /\ UNCHANGED <<tables, call, reply>>

\* The operation has another stream, or the policy another operation.
PolicyConflict(a) ==
  /\ at[a] = "stream"
  /\ call[a] \notin streams
  /\ \/ StreamsOf(call[a]) # {} /\ \A u \in StreamsOf(call[a]) : FreeFor(a, StreamRow(u.policy))
     \/ StreamsOf(call[a]) = {} /\ \E u \in streams : u.policy = call[a].policy
  /\ Turned(a)

-----------------------------------------------------------------------------
(* Waits, the other writers, and the specification *)

WaitsForRow(x, l) ==
  \/ at[x] = "operation" /\ l = OperationRow(call[x].operation)
  \/ /\ at[x] = "stream"
     /\ IF x \in Schedulers
        THEN StreamKnown(call[x]) /\ l = StreamRow(call[x].policy)
        ELSE \E u \in StreamsOf(call[x]) : l = StreamRow(u.policy)

Waits(x, y) == x # y /\ \E l \in held[y] : WaitsForRow(x, l)

\* PostgreSQL aborts one of two transactions that wait for each other; a
\* transaction holds at most two rows, so no longer cycle exists.
Deadlocked(x) == \E y \in Callers : Waits(x, y) /\ Waits(y, x)

DeadlockVictim(x) ==
  /\ Deadlocked(x)
  /\ Answer(x, "failed")
  /\ UNCHANGED tables

\* A bundle of another RCV-021 writer, which locks the operations it touches.
PersistBundle(B) ==
  /\ \A o \in Affected(B, db) : Free(OperationRow(o))
  /\ StoreBundle(B)
  /\ UNCHANGED <<call, at, held, draft, reply>>

\* Inserting a version locks the stream it refers to (FOR KEY SHARE).
Amend(v) ==
  /\ Free(StreamRow(v.policy))
  /\ StoreAmendment(v)
  /\ UNCHANGED <<call, at, held, draft, reply>>

SchedulerStep(s) ==
  \/ LockStream(s) \/ StreamUnknown(s)
  \/ LockOperation(s)
  \/ Decide(s) \/ Replay(s) \/ Refuse(s)
  \/ CommitCall(s) \/ DeadlockVictim(s)

AdministratorStep(a) ==
  \/ LockAuthorizedOperation(a) \/ OperationMissing(a)
  \/ InsertPolicy(a) \/ AuthenticatePolicy(a) \/ PolicyConflict(a)
  \/ CommitCall(a) \/ DeadlockVictim(a)

SchedulerNext ==
  \/ \E s \in Schedulers : (\E q \in Requests : RunNow(s, q)) \/ SchedulerStep(s)
  \/ \E a \in Administrators :
       (\E t \in Streamable : CreatePolicy(a, t)) \/ AdministratorStep(a)
  \/ \E x \in Callers : CallLost(x)
  \/ \E B \in Bundles : PersistBundle(B)
  \/ \E v \in Amendments : Amend(v)

\* Database calls return and row locks are queued.  Nobody has to make a
\* request, and nothing has to fail.
SchedulerFairness ==
  /\ \A s \in Schedulers : SF_svars(SchedulerStep(s))
  /\ \A a \in Administrators : SF_svars(AdministratorStep(a))

SchedulerSpec == SchedulerInit /\ [][SchedulerNext]_svars /\ SchedulerFairness

-----------------------------------------------------------------------------
(* Properties *)

\* Every transaction takes effect as one whole step that was allowed at the
\* moment it commits, though its statements ran before: the manifest is the
\* lifecycle of the operation then, the tail was the tail then, and the slot
\* was free then.
DecisionsAreAtomic == StoreSpec

\* The request that made decision d is repeated and turned away.
TurnedAway(s, d) ==
  /\ at[s] = "decide" /\ at'[s] = "idle" /\ reply'[s] = "refused"
  /\ call[s].policy = d.policy /\ d.run = RunOf(call[s]) /\ RunRow(call[s]) \in db

\* A request that is repeated after it was decided is answered with its
\* decision again, unless the operation was closed since, rows were written
\* into its past, or a version was inserted that takes its slot or cannot be.
RetriesAreIdempotent ==
  [][\A s \in Schedulers, d \in decisions :
       TurnedAway(s, d) =>
         \/ ClosesOf(db, d.operation) # {}
         \/ ~Undisturbed(db, d)
         \/ ~PolicyHistory(versions, d.policy)
         \/ Overruled(d)]_svars

\* Every call ends.
CallsEnd == \A x \in Callers : at[x] # "idle" ~> at[x] = "idle"

=============================================================================
