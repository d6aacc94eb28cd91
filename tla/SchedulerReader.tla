---------------------------- MODULE SchedulerReader ----------------------------
(***************************************************************************)
(* verifySchedulerHistory (researchSchedulerPostgresReader.ts): readers    *)
(* that load a policy stream statement by statement, on one connection and *)
(* without a transaction, take a snapshot of the RCV-021 history on a      *)
(* second connection of the same pool, and judge what they have.  Between  *)
(* their statements the tables take whole steps of SchedulerLedger.        *)
(***************************************************************************)
EXTENDS SchedulerLedger

CONSTANTS
  Readers,
  Connections  \* The size of the pool.

ASSUME ReaderAssumption ==
  IsFiniteSet(Readers) /\ Connections \in Nat \ {0}

VARIABLES
  target,   \* The stream each reader verifies, or None.
  reading,  \* Where each reader stands.
  view,     \* What each reader has read.
  conns,    \* The connections each reader holds.
  verdict   \* What each reader answered last.

rvars == <<db, streams, versions, decisions, target, reading, view, conns, verdict>>

Empty == [versions |-> {}, decisions |-> {}, history |-> {}]

ReaderInit ==
  /\ StoreInit
  /\ target = [r \in Readers |-> None]
  /\ reading = [r \in Readers |-> "idle"]
  /\ view = [r \in Readers |-> Empty]
  /\ conns = [r \in Readers |-> 0]
  /\ verdict = [r \in Readers |-> "none"]

-----------------------------------------------------------------------------
(* What the reader recomputes from the rows it has *)

\* The slot, owner, past, manifest, reason and run of one decision.
DecisionVerifies(w, d) ==
  LET anchor == Anchor(w.versions, d.policy)
      owner  == Owner(w.versions, d.policy, ScheduledAt(anchor, d.slot))
      past   == Prefix(w.history, d.operation, d.at, {d.run})
      before == {e \in w.decisions : e.slot < d.slot}
  IN  /\ owner.version = d.version /\ owner.enabled
      /\ OutputAuthentic(w.history, d.operation, d.at, d.run)
      /\ VerifiedAt(w.history, d.operation, d.at, {d.run})
      /\ past = d.manifest
      /\ \E p \in Of(past, "operation") : p.at <= d.at
      /\ Of(past, "close") = {} /\ Nonterminal(past) = {}
      /\ Due(anchor, d.at) /\ DueSlot(anchor, d.at) = d.slot
      /\ Reason(before, d.policy, d.slot) = d.reason
      /\ d.run = SlotRunId[<<d.operation, d.policy, d.slot>>]

\* The history at the moment the first version took effect, without the runs
\* of decisions made at that moment.
InitialPastVerifies(w, t) ==
  LET cut     == Anchor(w.versions, t.policy).effective
      outputs == {d \in w.decisions : d.at = cut}
  IN  /\ \A d \in outputs : OutputAuthentic(w.history, t.operation, cut, d.run)
      /\ VerifiedAt(w.history, t.operation, cut, {d.run : d \in outputs})

\* The chain is authenticated as soon as it is read; the outcome is the same.
Verifies(w, t) ==
  /\ ChainAuthentic(w.decisions, t.policy)
  /\ InitialPastVerifies(w, t)
  /\ \A d \in w.decisions : DecisionVerifies(w, d)

-----------------------------------------------------------------------------
(* Steps *)

\* Mutant of FreeConnections: the pool has one less.
OneConnectionLess ==
  Connections - 1 - Cardinality({h \in Readers \X (1 .. 2) : h[2] <= conns[h[1]]})

\* Each reader holds connections 1 to conns[r] of its own.
FreeConnections ==
  Connections - Cardinality({h \in Readers \X (1 .. 2) : h[2] <= conns[h[1]]})

Verification(r, t) ==
  /\ reading[r] = "idle"
  /\ target' = [target EXCEPT ![r] = t]
  /\ reading' = [reading EXCEPT ![r] = "connect"]
  /\ verdict' = [verdict EXCEPT ![r] = "none"]
  /\ UNCHANGED <<tables, view, conns>>

\* On to the next statement with what this one returned.
Read(r, from, to, w) ==
  /\ reading[r] = from
  /\ reading' = [reading EXCEPT ![r] = to]
  /\ view' = [view EXCEPT ![r] = w]
  /\ UNCHANGED <<tables, target, verdict>>

\* The finally block of verifySchedulerHistory: an answer, or an error, and
\* the connection goes back to the pool.
Close(r, answer) ==
  /\ verdict' = [verdict EXCEPT ![r] = answer]
  /\ reading' = [reading EXCEPT ![r] = "idle"]
  /\ target' = [target EXCEPT ![r] = None]
  /\ view' = [view EXCEPT ![r] = Empty]
  /\ conns' = [conns EXCEPT ![r] = 0]
  /\ UNCHANGED tables

Connect(r) ==
  /\ FreeConnections > 0
  /\ Read(r, "connect", "stream", Empty)
  /\ conns' = [conns EXCEPT ![r] = 1]

ReadStream(r) ==
  /\ Read(r, "stream", "policies", view[r])
  /\ target[r] \in streams
  /\ UNCHANGED conns

StreamMissing(r) ==
  /\ reading[r] = "stream"
  /\ target[r] \notin streams
  /\ Close(r, "rejected")

LoadPolicies(r) ==
  /\ Read(r, "policies", "decisions",
          [view[r] EXCEPT !.versions = VersionsOf(versions, target[r].policy)])
  /\ PolicyHistory(versions, target[r].policy)
  /\ UNCHANGED conns

PoliciesInvalid(r) ==
  /\ reading[r] = "policies"
  /\ ~PolicyHistory(versions, target[r].policy)
  /\ Close(r, "rejected")

LoadDecisions(r) ==
  /\ Read(r, "decisions", "graph",
          [view[r] EXCEPT !.decisions = DecisionsOf(decisions, target[r].policy)])
  /\ UNCHANGED conns

\* A second connection, while the first is kept.
ConnectAgain(r) ==
  /\ FreeConnections > 0
  /\ Read(r, "graph", "snapshot", view[r])
  /\ conns' = [conns EXCEPT ![r] = 2]

LoadGraph(r) ==
  /\ Read(r, "snapshot", "judge", [view[r] EXCEPT !.history = db])
  /\ conns' = [conns EXCEPT ![r] = 1]

\* Mutant of Judge: the decisions are read after the history.
JudgeLaterDecisions(r) ==
  LET w == [view[r] EXCEPT !.decisions = DecisionsOf(decisions, target[r].policy)]
  IN  /\ reading[r] = "judge"
      /\ Close(r, IF Verifies(w, target[r]) THEN "verified" ELSE "rejected")

\* The manifests and bindings read on the way never change.
Judge(r) ==
  /\ reading[r] = "judge"
  /\ Close(r, IF Verifies(view[r], target[r]) THEN "verified" ELSE "rejected")

ReaderLost(r) == reading[r] # "idle" /\ Close(r, "failed")

ReaderStep(r) ==
  \/ Connect(r) \/ ReadStream(r) \/ StreamMissing(r)
  \/ LoadPolicies(r) \/ PoliciesInvalid(r)
  \/ LoadDecisions(r)
  \/ ConnectAgain(r) \/ LoadGraph(r) \/ Judge(r)

ReaderNext ==
  \/ StoreNext /\ UNCHANGED <<target, reading, view, conns, verdict>>
  \/ \E r \in Readers :
       \/ \E t \in Streamable : Verification(r, t)
       \/ ReaderStep(r)
       \/ ReaderLost(r)

\* Queries return, and the pool serves those who wait for it in turn.
ReaderFairness == \A r \in Readers : SF_rvars(ReaderStep(r))

ReaderSpec == ReaderInit /\ [][ReaderNext]_rvars /\ ReaderFairness

-----------------------------------------------------------------------------
(* Properties *)

Rejects(r) == reading[r] = "judge" /\ verdict'[r] = "rejected"

\* Rows were written into the past of a decision the reader holds, or a
\* version that owns its slot was inserted after it.
PastRewritten(r) ==
  \E d \in view[r].decisions : ~Undisturbed(view[r].history, d) \/ Overruled(d)

\* A version was inserted after the reader had read the versions.
PoliciesMoved(r) == view[r].versions # VersionsOf(versions, target[r].policy)

\* When the first version took effect, a run was over its deadline and had
\* not ended.
LateAtTheStart(r) ==
  LET cut == Anchor(view[r].versions, target[r].policy).effective
  IN  \E x \in RunsOf(view[r].history, target[r].operation) :
        /\ x.at <= cut /\ x.deadline <= cut
        /\ \A t \in TerminalsOf(view[r].history, x.id) : t.at > cut

\* A run ended before it had started, by the times its events carry.
EndedUnstarted(r) ==
  \E x \in RunsOf(view[r].history, target[r].operation) :
    \E s \in StartsOf(view[r].history, x.id), t \in TerminalsOf(view[r].history, x.id) :
      t.at < s.at

\* Whatever the writers committed in whatever order, and though the reader
\* reads without a transaction, a history with decisions verifies unless its
\* past was rewritten, a policy changed under the reader, a run was late
\* before the policy began, or one has its events in the wrong order.
WrittenHistoryVerifies ==
  [][\A r \in Readers :
       Rejects(r) /\ view[r].decisions # {} =>
         PastRewritten(r) \/ PoliciesMoved(r) \/ LateAtTheStart(r) \/ EndedUnstarted(r)]_rvars

\* Every verification ends, while the pool has a connection more than there
\* are readers.
VerificationsEnd ==
  \A r \in Readers : reading[r] # "idle" ~> reading[r] = "idle"

=============================================================================
