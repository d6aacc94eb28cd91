---------------------------- MODULE SchedulerLedger ----------------------------
(***************************************************************************)
(* The research scheduler as its callers may think of it: the tables of    *)
(* RCV-021 and of the scheduler, which change by one whole bundle, policy  *)
(* or decision at a time.  ResearchScheduler implements it with row locks; *)
(* SchedulerReader reads it statement by statement.                        *)
(*                                                                         *)
(* A decision row stands for the rows written with it in one transaction   *)
(* and keyed by its slot: the prefix manifest with its members and the     *)
(* binding to the run.  Only RUN_NOW decisions are ever written.  Times    *)
(* are small numbers and Interval is the fixed 24 hours of policy V1; the  *)
(* clock is never read, callers bring the time of evaluation.              *)
(***************************************************************************)
EXTENDS ResearchLedger

CONSTANTS
  Policies,
  Streamable,     \* The policies administrators may create: policy and operation.
  Requests,       \* The RUN_NOW requests callers may make.
  Amendments,     \* Later policy versions an operator may insert with SQL.
  Interval,
  Slots,          \* The slots of the times that requests bring.
  SlotRunId       \* deriveSchedulerRunId: a run id for every policy slot.

Request == [operation : Operations, policy : Policies, at : Times, deadline : Times]
Stream  == [policy : Policies, operation : Operations]
Version == [policy : Policies, version : Nat \ {0}, enabled : BOOLEAN,
            effective : Times, first : Times]

ASSUME SchedulerAssumption ==
  /\ Requests \subseteq Request /\ Streamable \subseteq Stream
  /\ Amendments \subseteq Version
  /\ Interval \in Nat \ {0}
  /\ Slots \subseteq Nat /\ None \notin Slots
  /\ \A q \in Requests :
       /\ 0 .. q.at \div Interval \subseteq Slots
       /\ {q.operation} \X {q.policy} \X Slots \subseteq DOMAIN SlotRunId
  /\ \A x, y \in DOMAIN SlotRunId :
       SlotRunId[x] \in Id /\ (SlotRunId[x] = SlotRunId[y] => x = y)
  \* A run that callers give the id of a slot is of the slot's operation.
  /\ \A r \in UNION Bundles, x \in DOMAIN SlotRunId :
       r.kind = "run" /\ r.id = SlotRunId[x] => r.operation = x[1]

Reasons == {"INITIAL_ELIGIBILITY", "INTERVAL_ELIGIBILITY", "MISSED_SLOT_COALESCED"}

Decision == [operation : Operations, policy : Policies, slot : Slots, at : Times,
             version : Nat \ {0}, reason : Reasons, previous : Slots \cup {None},
             manifest : SUBSET Row, run : Id]

VARIABLES
  streams,   \* scheduler_policy_streams
  versions,  \* scheduler_policy_versions
  decisions  \* scheduler_decisions, with manifest, members and binding

tables == <<db, streams, versions, decisions>>

-----------------------------------------------------------------------------
(* Slots and policies *)

VersionsOf(V, p) == {v \in V : v.policy = p}

Anchor(V, p) ==
  CHOOSE v \in VersionsOf(V, p) : \A u \in VersionsOf(V, p) : v.version <= u.version

\* validateSchedulerPolicyHistory
PolicyHistory(V, p) ==
  /\ VersionsOf(V, p) # {}
  /\ \A u, v \in VersionsOf(V, p) :
       /\ u.version < v.version => u.effective < v.effective
       /\ u.first = v.first
  /\ Anchor(V, p).effective <= Anchor(V, p).first

\* deriveSchedulerDueSlot; there is none before the first eligibility.
DueSlot(v, n) == (n - v.first) \div Interval
Due(v, n) == n >= v.first
ScheduledAt(v, slot) == v.first + slot * Interval

\* selectSchedulerPolicyOwner
Owner(V, p, n) ==
  CHOOSE v \in VersionsOf(V, p) :
    /\ v.effective <= n
    /\ \A u \in VersionsOf(V, p) : u.effective <= n => u.version <= v.version

-----------------------------------------------------------------------------
(* History at a cutoff *)

\* graphAtCutoff: what had happened to operation o by time n, without the
\* runs X.
AtCutoff(D, o, n, X) ==
  LET runs     == {r \in RunsOf(D, o) : r.at <= n /\ r.id \notin X}
      ids      == {r.id : r \in runs}
      attempts == {a \in Of(D, "attempt") : a.run \in ids /\ a.at <= n}
  IN  {p \in Of(D, "operation") : p.id = o}
      \cup {c \in ClosesOf(D, o) : c.at <= n}
      \cup runs \cup attempts
      \cup {x \in D : x.kind \in {"start", "result", "terminal"}
                        /\ x.run \in ids /\ x.at <= n}
      \cup {s \in Of(D, "resolution") : s.at <= n
                        /\ s.attempt \in {a.id : a \in attempts}}

\* deadlineQualification at an evaluation time: a run without terminal must
\* not have met its deadline; unresolved attempts are not judged.
DeadlinesVerifiedAt(D, o, n) ==
  \A r \in RunsOf(D, o) :
    /\ \A t \in TerminalsOf(D, r.id) : DeadlineEvidence(D, r, t)
    /\ TerminalsOf(D, r.id) = {} =>
         /\ n < r.deadline
         /\ \A a \in AttemptsOf(D, r.id) :
              /\ a.at < r.deadline
              /\ \A s \in ResolutionsOf(D, a.id) : s.at < r.deadline

\* requireRcv021HistoricalVerification(graphAtCutoff(...), evaluationAt)
VerifiedAt(D, o, n, X) ==
  LET H == AtCutoff(D, o, n, X)
  IN  /\ HistoryVerifies(H, o, {r.id : r \in RunsOf(H, o)})
      /\ DeadlinesVerifiedAt(H, o, n)

\* authenticateRcv021DecisionOutputCreation: the creation of run i at n,
\* whatever became of it.
OutputAuthentic(D, o, n, i) ==
  LET H == AtCutoff(D, o, n, {})
  IN  /\ OperationLifecycle(H, o)
      /\ \E r \in RunsOf(H, o) :
           r.id = i /\ r.at = n /\ r.predecessor = None /\ RunCreation(H, r)

\* loadPrefix: the lifecycle members a decision rests on.
Prefix(D, o, n, X) ==
  {r \in AtCutoff(D, o, n, X) :
     r.kind \in {"operation", "close", "run", "start", "terminal"}}

Nonterminal(P) ==
  {r \in Of(P, "run") : \A t \in Of(P, "terminal") : t.run # r.id}

-----------------------------------------------------------------------------
(* The decision chain *)

DecisionsOf(S, p) == {d \in S : d.policy = p}

ChainTail(S, p) ==
  {d \in DecisionsOf(S, p) : \A e \in DecisionsOf(S, p) : e.previous # d.slot}

\* authenticateChain: one genesis, every other decision the only successor
\* of a stored one with a lower slot.
ChainAuthentic(S, p) ==
  LET C == DecisionsOf(S, p)
  IN  /\ C # {} => Cardinality({d \in C : d.previous = None}) = 1
      /\ \A d \in C : d.previous # None =>
           \E e \in C : e.slot = d.previous /\ e.slot < d.slot
      /\ \A d, e \in C : d.previous = e.previous => d = e

\* Mutant of Reason: only the slot right before is looked up.
ReasonBySlotBefore(S, p, slot) ==
  CASE slot = 0 -> "INITIAL_ELIGIBILITY"
    [] slot > 0 /\ slot - 1 \in {d.slot : d \in DecisionsOf(S, p)} ->
         "INTERVAL_ELIGIBILITY"
    [] OTHER -> "MISSED_SLOT_COALESCED"

\* classifySchedulerDueReason
Reason(S, p, slot) ==
  CASE slot = 0 -> "INITIAL_ELIGIBILITY"
    [] slot > 0 /\ 0 .. slot - 1 \subseteq {d.slot : d \in DecisionsOf(S, p)} ->
         "INTERVAL_ELIGIBILITY"
    [] OTHER -> "MISSED_SLOT_COALESCED"

-----------------------------------------------------------------------------
(* createSchedulerRunNow, once it holds the stream and the operation *)

DueVersion(q) == Anchor(versions, q.policy)
SlotOf(q) == DueSlot(DueVersion(q), q.at)
OwnerOf(q) == Owner(versions, q.policy, ScheduledAt(DueVersion(q), SlotOf(q)))
RunOf(q) == SlotRunId[<<q.operation, q.policy, SlotOf(q)>>]

RunRow(q) ==
  [kind |-> "run", id |-> RunOf(q), operation |-> q.operation, at |-> q.at,
   deadline |-> q.deadline, predecessor |-> None]

Existing(q) == {d \in DecisionsOf(decisions, q.policy) : d.slot = SlotOf(q)}

\* Up to the lookup of the stored decision of the slot, and the deadline
\* context right after it.
Eligible(q) ==
  /\ PolicyHistory(versions, q.policy)
  /\ ChainAuthentic(decisions, q.policy)
  /\ ClosesOf(db, q.operation) = {}
  /\ Due(DueVersion(q), q.at)
  /\ OwnerOf(q).enabled
  /\ \A r \in RunsOf(db, q.operation) : r.id = RunOf(q) =>
       OutputAuthentic(db, q.operation, q.at, r.id)
  /\ VerifiedAt(db, q.operation, q.at, {RunOf(q)})

\* Mutant of Replays: the manifest is compared with the history of now.
ReplaysSameHistory(q) ==
  \E d \in Existing(q) :
    /\ d.at = q.at
    /\ d.version = OwnerOf(q).version
    /\ RunRow(q) \in db
    /\ d.manifest = Prefix(db, q.operation, q.at, {})

\* The stored decision of the slot is the one this request would have made.
Replays(q) ==
  \E d \in Existing(q) :
    /\ d.at = q.at
    /\ d.version = OwnerOf(q).version
    /\ RunRow(q) \in db

NewDecision(q) ==
  LET tail == ChainTail(decisions, q.policy)
  IN  [operation |-> q.operation, policy |-> q.policy, slot |-> SlotOf(q),
       at |-> q.at, version |-> OwnerOf(q).version,
       reason |-> Reason(decisions, q.policy, SlotOf(q)),
       previous |-> IF tail = {} THEN None ELSE (CHOOSE d \in tail : TRUE).slot,
       manifest |-> Prefix(db, q.operation, q.at, {}), run |-> RunOf(q)]

\* Mutant of Admissible: runs that have not ended do not block.
AdmissibleBesideRuns(q) ==
  /\ Existing(q) = {}
  /\ \E p \in Of(db, "operation") : p.id = q.operation /\ p.at <= q.at
  /\ \A d \in ChainTail(decisions, q.policy) : d.slot < SlotOf(q)
  /\ Accepts({RunRow(q)}, db)

\* Nothing blocks a new decision: no run of the operation is open at the
\* time of evaluation, the slot lies after the tail, and the run passes the
\* gates of RCV-021.
Admissible(q) ==
  /\ Existing(q) = {}
  /\ \E p \in Of(db, "operation") : p.id = q.operation /\ p.at <= q.at
  /\ Nonterminal(Prefix(db, q.operation, q.at, {})) = {}
  /\ \A d \in ChainTail(decisions, q.policy) : d.slot < SlotOf(q)
  /\ Accepts({RunRow(q)}, db)

-----------------------------------------------------------------------------
(* createResearchSchedulerPolicyV1 *)

OperationOf(t) == {p \in Of(db, "operation") : p.id = t.operation}
StreamsOf(t) == {u \in streams : u.operation = t.operation}

\* buildResearchSchedulerPolicyV1Authority: enabled, effective and eligible
\* from the creation of the operation on.
FirstVersions(t) ==
  {[policy |-> t.policy, version |-> 1, enabled |-> TRUE, effective |-> p.at,
    first |-> p.at] : p \in OperationOf(t)}

\* The operation has no stream yet, and the policy no other operation.
NewPolicy(t) == StreamsOf(t) = {} /\ \A u \in streams : u.policy # t.policy

\* The stream is there already, and a first version, if any, is the same.
SamePolicy(t) ==
  /\ t \in streams
  /\ \A v \in VersionsOf(versions, t.policy) :
       v.version = 1 => v \in FirstVersions(t)

-----------------------------------------------------------------------------
(* One whole step at a time *)

StoreInit == LedgerInit /\ streams = {} /\ versions = {} /\ decisions = {}

StreamKnown(q) == [policy |-> q.policy, operation |-> q.operation] \in streams

StoreDecision(q) ==
  /\ StreamKnown(q) /\ Eligible(q) /\ Admissible(q)
  /\ db' = db \cup {RunRow(q)}
  /\ decisions' = decisions \cup {NewDecision(q)}
  /\ UNCHANGED <<streams, versions>>

StorePolicy(t) ==
  /\ OperationOf(t) # {}
  /\ NewPolicy(t) \/ SamePolicy(t)
  /\ streams' = streams \cup {t}
  /\ versions' = versions \cup FirstVersions(t)
  /\ UNCHANGED <<db, decisions>>

StoreBundle(B) == Persist(B) /\ UNCHANGED <<streams, versions, decisions>>

\* An operator inserts another version with SQL, as the tests do and no other
\* code: the table only asks for a new number and a new effective time.
StoreAmendment(v) ==
  /\ \E t \in streams : t.policy = v.policy
  /\ VersionsOf(versions, v.policy) # {}
  /\ \A u \in VersionsOf(versions, v.policy) :
       u.version # v.version /\ u.effective # v.effective
  /\ versions' = versions \cup {v}
  /\ UNCHANGED <<db, streams, decisions>>

StoreNext ==
  \/ \E q \in Requests : StoreDecision(q)
  \/ \E t \in Streamable : StorePolicy(t)
  \/ \E B \in Bundles : StoreBundle(B)
  \/ \E v \in Amendments : StoreAmendment(v)

StoreSpec == StoreInit /\ [][StoreNext]_tables

-----------------------------------------------------------------------------
(* Properties *)

\* Nothing was committed since the decision with a time at or before its
\* evaluation: the history it rested on is still the history.
Undisturbed(D, d) == Prefix(D, d.operation, d.at, {d.run}) = d.manifest

\* A version was inserted since that owns the slot of decision d.
Overruled(d) ==
  Owner(versions, d.policy, ScheduledAt(Anchor(versions, d.policy), d.slot)).version
    > d.version

\* The run of a decision is created after every earlier scheduled run of the
\* operation has ended, by the times both carry.
ScheduledRunsDoNotOverlap ==
  \A d, e \in decisions :
    d.operation = e.operation /\ d.slot < e.slot =>
      \E t \in TerminalsOf(db, d.run) : t.at <= e.at

\* Decisions form one chain in slot order, whoever raced to append.
ChainIsInSlotOrder ==
  \A p \in Policies : \A d \in DecisionsOf(decisions, p) :
    LET earlier == {e.slot : e \in {c \in DecisionsOf(decisions, p) : c.slot < d.slot}}
    IN  IF earlier = {} THEN d.previous = None
        ELSE d.previous \in earlier /\ \A n \in earlier : n <= d.previous

\* A decision says MISSED_SLOT_COALESCED exactly when a slot before its own
\* was never used, and no later decision makes that untrue.
ReasonsStayTrue ==
  \A d \in decisions :
    LET used == {e.slot : e \in DecisionsOf(decisions, d.policy)}
    IN  (d.reason = "MISSED_SLOT_COALESCED") = (\E n \in 0 .. d.slot - 1 : n \notin used)

\* What a decision says of those before it stays true of all there are.
DecisionsStayTrue == ChainIsInSlotOrder /\ ReasonsStayTrue

=============================================================================
