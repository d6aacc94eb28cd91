--------------------------- MODULE ObservationBinding ---------------------------
(***************************************************************************)
(* Callers of the Wave-5 seams over one connection pool: the integrated    *)
(* slice of RCV-021 (rcv021Wave5Integration.ts), whose bundles go through  *)
(* rcv021OwnedTransaction.ts and whose occurrence goes through rcv021-     *)
(* BindingAdapter.ts, and the operational slice of RCV-020 (rcv020Wave5-   *)
(* Integration.ts).  RCV-021 rows are those of the ledger, one step per    *)
(* bundle; RCV-020 rows are inserted, waited for and committed here.       *)
(*                                                                         *)
(* A session is what PostgreSQL knows of a pooled connection: it outlives  *)
(* the call that used it, and a connection that ends is replaced.          *)
(***************************************************************************)
EXTENDS ResearchLedger, ObservationHistory

CONSTANTS
  Procs,       \* Callers, each in its own chain of promises.
  Slots,       \* The connections of the pool.
  Tasks,       \* Which call each of them makes: sets of functions from Procs.
  MaxCalls,    \* How often a caller makes its call.
  MaxTroubles  \* How many connections break, statements fail, transactions
               \* are left open by others and restarts happen, all together.

ASSUME BindingAssumption ==
  /\ IsFiniteSet(Procs) /\ IsFiniteSet(Slots) /\ Slots # {}
  /\ {MaxCalls, MaxTroubles} \subseteq Nat
  /\ {"free", "lost"} \cap (Procs \cup Slots) = {}
  /\ \A t \in Tasks : \A p \in Procs :
       /\ \A i \in 1..Len(t[p].steps) : t[p].steps[i] \in Bundles
       /\ t[p].how \in {"none", "bind", "persist", "observe"}
       /\ t[p].how # "none" =>
            /\ t[p].observation \in Observations
       /\ t[p].how \in {"bind", "observe"} =>
            Known(t[p].observation, "occurrence", t[p].occurrence)

VARIABLES
  observed,   \* Committed rows of RCV-020.
  task,       \* What each caller has been asked to do.
  proc,       \* Where each call stands.
  holder,     \* Who holds each connection of the pool.
  session,    \* What the server knows of each connection.
  published,  \* Work of other users that a call of ours committed.
  leaked,     \* Connections whose lock or unlock query failed.
  troubles    \* How many there were so far.

vars == <<db, observed, task, proc, holder, session, published, leaked, troubles>>

\* Nobody, and nobody ever again, holds a connection.
Free == "free"
Lost == "lost"

Idle == [tx |-> "none", rows |-> {}, foreign |-> FALSE, locks |-> {}]

Answers == {"none", "answered", "refused", "soiled", "failed", "divergent",
            "unauthentic", "duplicate", "constraint", "unreadable", "uncovered"}
Points == {"idle", "next", "probe", "commit", "guard", "check", "insert",
           "store", "unlock", "again", "read"}

Start == [calls |-> 0, at |-> "idle", step |-> 1, slot |-> Free, answer |-> "none"]

Init ==
  /\ db = {} /\ observed = {}
  /\ task \in Tasks
  /\ proc = [p \in Procs |-> Start]
  /\ holder = [s \in Slots |-> Free]
  /\ session = [s \in Slots |-> Idle]
  /\ published = {} /\ leaked = {}
  /\ troubles = 0

At(p, point) == proc[p].at = point
Steps(p)     == task[p].steps
Bundle(p)    == Steps(p)[proc[p].step]
Seen(p)      == observed \cup session[proc[p].slot].rows
Place(p)     == task[p].occurrence

\* The call goes on; its answer so far is kept.
Go(p, point) == proc' = [proc EXCEPT ![p].at = point]

Doing(p, point, answer) ==
  proc' = [proc EXCEPT ![p].at = point, ![p].answer = answer]

\* The call returns or throws.
Return(p, answer) ==
  proc' = [proc EXCEPT ![p].at = "idle", ![p].slot = Free, ![p].answer = answer]

\* The connection goes back to the pool as s; a destroyed one is replaced.
Release(p, s) ==
  /\ holder' = [holder EXCEPT ![proc[p].slot] = Free]
  /\ session' = [session EXCEPT ![proc[p].slot] = s]

Session(p, s) == session' = [session EXCEPT ![proc[p].slot] = s]

Own(p) == session[proc[p].slot]

Trouble == troubles < MaxTroubles /\ troubles' = troubles + 1

-----------------------------------------------------------------------------
(* persistRcv021IntegratedSlice: one transaction per bundle, then the bind *)

Call(p) ==
  /\ At(p, "idle") /\ proc[p].calls < MaxCalls
  /\ proc' = [proc EXCEPT ![p] = [Start EXCEPT !.calls = proc[p].calls + 1,
                                               !.at = "next"]]
  /\ UNCHANGED <<db, observed, task, holder, session, published, leaked, troubles>>

\* Where the call goes with the connection it waited for.
Turn(p) ==
  CASE At(p, "again") -> "read"
    [] proc[p].step <= Len(Steps(p)) -> "probe"
    [] task[p].how = "bind" -> "guard"
    [] OTHER -> "insert"

\* pool.connect(): a free connection, when there is one.
Lease(p, s) ==
  /\ At(p, "next") \/ At(p, "again")
  /\ proc[p].step <= Len(Steps(p)) \/ task[p].how # "none"
  /\ holder[s] = Free
  /\ holder' = [holder EXCEPT ![s] = p]
  /\ proc' = [proc EXCEPT ![p].at = Turn(p), ![p].slot = s]
  /\ UNCHANGED <<db, observed, task, session, published, leaked, troubles>>

\* Nothing is left to do.
Done(p) ==
  /\ At(p, "next") /\ proc[p].step > Len(Steps(p)) /\ task[p].how = "none"
  /\ Return(p, "answered")
  /\ UNCHANGED <<db, observed, task, holder, session, published, leaked, troubles>>

-----------------------------------------------------------------------------
(* runRcv021OwnedTransaction *)

\* Mutant of ProbeIdle: BEGIN without the SAVEPOINT probe, which a
\* transaction that is open answers with a warning.
BeginAnyway(p) ==
  /\ At(p, "probe") /\ Own(p).tx # "aborted"
  /\ Session(p, [Own(p) EXCEPT !.tx = "open"])
  /\ Go(p, "commit")
  /\ UNCHANGED <<db, observed, task, holder, published, leaked, troubles>>

\* SAVEPOINT is refused outside a transaction: the connection is idle.
ProbeIdle(p) ==
  /\ At(p, "probe") /\ Own(p).tx = "none"
  /\ Session(p, [Own(p) EXCEPT !.tx = "open"])
  /\ Go(p, "commit")
  /\ UNCHANGED <<db, observed, task, holder, published, leaked, troubles>>

\* It is accepted, or refused because the transaction it is in has failed.
ProbeSoiled(p) ==
  /\ At(p, "probe") /\ Own(p).tx # "none"
  /\ Release(p, Idle)
  /\ Return(p, "soiled")
  /\ UNCHANGED <<db, observed, task, published, leaked, troubles>>

Publish(p) ==
  published' = published \cup (IF Own(p).foreign THEN {proc[p].slot} ELSE {})

\* The bundle is written and COMMIT is answered as such.
CommitOwned(p) ==
  /\ At(p, "commit") /\ Persist(Bundle(p))
  /\ Publish(p)
  /\ Release(p, Idle)
  /\ proc' = [proc EXCEPT ![p].at = "next", ![p].slot = Free, ![p].step = @ + 1]
  /\ UNCHANGED <<observed, task, leaked, troubles>>

RefuseOwned(p) ==
  /\ At(p, "commit") /\ ~Accepts(Bundle(p), db)
  /\ Release(p, Idle)
  /\ Return(p, "refused")
  /\ UNCHANGED <<db, observed, task, published, leaked, troubles>>

\* Mutant of CommitRolledBack: the tag of the answer is not looked at.
CommitTakenOnTrust(p) ==
  /\ At(p, "commit") /\ Trouble
  /\ Release(p, Idle)
  /\ proc' = [proc EXCEPT ![p].at = "next", ![p].slot = Free, ![p].step = @ + 1]
  /\ UNCHANGED <<db, observed, task, published, leaked>>

\* The server had given the transaction up and answers COMMIT with ROLLBACK.
CommitRolledBack(p) ==
  /\ At(p, "commit") /\ Trouble
  /\ Release(p, Idle)
  /\ Return(p, "failed")
  /\ UNCHANGED <<db, observed, task, published, leaked>>

\* The connection breaks before or after the server committed.
CommitLost(p) ==
  /\ At(p, "commit") /\ Trouble
  /\ UNCHANGED db \/ Persist(Bundle(p))
  /\ Release(p, Idle)
  /\ Return(p, "failed")
  /\ UNCHANGED <<observed, task, published, leaked>>

-----------------------------------------------------------------------------
(* bindRcv021SelectionToRcv020: under the advisory lock of the occurrence *)

\* Mutant of Unlocked: the lock is not asked for.
AlwaysUnlocked(p) == TRUE

Unlocked(p) ==
  \A s \in Slots \ {proc[p].slot} : Place(p) \notin session[s].locks

Guard(p) ==
  /\ At(p, "guard") /\ Own(p).tx # "aborted" /\ Unlocked(p)
  /\ Session(p, [Own(p) EXCEPT !.locks = @ \cup {Place(p)}])
  /\ Go(p, "check")
  /\ UNCHANGED <<db, observed, task, holder, published, leaked, troubles>>

\* The query fails outside the try block: nobody releases the connection.
Leak(p) ==
  /\ At(p, "guard")
  /\ holder' = [holder EXCEPT ![proc[p].slot] = Lost]
  /\ leaked' = leaked \cup {proc[p].slot}
  /\ Return(p, "failed")
  /\ UNCHANGED <<db, observed, task, published>>

GuardRefused(p) == Leak(p) /\ Own(p).tx = "aborted" /\ UNCHANGED <<session, troubles>>

GuardFails(p) == Leak(p) /\ Trouble /\ (UNCHANGED session \/ Session(p, Idle))

Stored(p) == {o \in All(Seen(p), "occurrence") : o.id = Place(p)}
Wanted(p) == {o \in All(task[p].observation, "occurrence") : o.id = Place(p)}

\* The occurrence may be stored already.
Check(p) ==
  /\ At(p, "check")
  /\ IF Stored(p) = {} THEN Go(p, "insert")
     ELSE Doing(p, "unlock",
                IF Stored(p) = Wanted(p) THEN "answered" ELSE "divergent")
  /\ UNCHANGED <<db, observed, task, holder, session, published, leaked, troubles>>

\* Mutant of Unlock: the connection is released, and its lock is not.
UnlockByRelease(p) ==
  /\ At(p, "unlock")
  /\ Release(p, Own(p))
  /\ Return(p, proc[p].answer)
  /\ UNCHANGED <<db, observed, task, published, leaked, troubles>>

\* unlock, and release in a finally block of its own.
Unlock(p) ==
  /\ At(p, "unlock")
  /\ Release(p, [Own(p) EXCEPT !.locks = @ \ {Place(p)}])
  /\ Return(p, proc[p].answer)
  /\ UNCHANGED <<db, observed, task, published, leaked, troubles>>

\* The connection has ended, or it lives and keeps the lock.
UnlockFails(p) ==
  /\ At(p, "unlock") /\ Trouble
  /\ \/ Release(p, Idle) /\ UNCHANGED leaked
     \/ Release(p, Own(p)) /\ leaked' = leaked \cup {proc[p].slot}
  /\ Return(p, "failed")
  /\ UNCHANGED <<db, observed, task, published>>

-----------------------------------------------------------------------------
(* persistRcv020Bundle, with or without the lock *)

\* After persistRcv020Authority: unlock, or release.
Leave(p, s, answer) ==
  IF task[p].how = "bind"
  THEN Session(p, s) /\ Doing(p, "unlock", answer) /\ UNCHANGED holder
  ELSE Release(p, s) /\ Return(p, answer)

\* COMMIT and ROLLBACK also end a transaction that another user began.
Ended(p) == [Own(p) EXCEPT !.tx = "none", !.rows = {}, !.foreign = FALSE]

NewRows(p) == Fresh(task[p].observation, Seen(p))

\* Rows another session inserted and has not committed: the insert waits.
InFlight(p) ==
  \E s \in Slots \ {proc[p].slot} : Clashes(NewRows(p), session[s].rows)

\* A key is taken, by a stored row or by a row of the bundle before it.
Taken(p) == Repeats(NewRows(p)) \/ Clashes(NewRows(p), Seen(p))

\* BEGIN joins a transaction that is open already.
Insert(p) ==
  /\ At(p, "insert") /\ Own(p).tx # "aborted"
  /\ Authentic(task[p].observation)
  /\ ~InFlight(p) /\ ~Taken(p)
  /\ ForeignKeys(NewRows(p), Seen(p) \cup NewRows(p))
  /\ Session(p, [Own(p) EXCEPT !.tx = "open", !.rows = @ \cup NewRows(p)])
  /\ Go(p, "store")
  /\ UNCHANGED <<db, observed, task, holder, published, leaked, troubles>>

\* The first of: the write verifier, the failed transaction it joins, a key
\* that is taken, a parent that is missing.
Rejection(p) ==
  CASE ~Authentic(task[p].observation) -> "unauthentic"
    [] Own(p).tx = "aborted" -> "soiled"
    [] Taken(p) -> "duplicate"
    [] OTHER -> "constraint"

\* Only a bundle that was not looked at leaves the transaction alone.
InsertFails(p) ==
  /\ At(p, "insert")
  /\ \/ Rejection(p) # "constraint"
     \/ ~InFlight(p) /\ ~ForeignKeys(NewRows(p), Seen(p) \cup NewRows(p))
  /\ Leave(p, IF Rejection(p) = "unauthentic" THEN Own(p) ELSE Ended(p),
           Rejection(p))
  /\ UNCHANGED <<db, observed, task, published, leaked, troubles>>

\* A statement fails for reasons of its own.
StatementFails(p) ==
  /\ At(p, "insert") /\ Trouble
  /\ Leave(p, Ended(p), "failed")
  /\ UNCHANGED <<db, observed, task, published, leaked>>

\* COMMIT fires the deferred triggers.  A bind goes on to unlock, an
\* operational slice releases its connection and leases another to read.
Store(p) ==
  /\ At(p, "store")
  /\ TriggersPass(Own(p).rows, Seen(p))
  /\ observed' = Seen(p)
  /\ Publish(p)
  /\ IF task[p].how = "observe"
     THEN /\ Release(p, Ended(p))
          /\ proc' = [proc EXCEPT ![p].at = "again", ![p].slot = Free]
     ELSE Leave(p, Ended(p), "answered")
  /\ UNCHANGED <<db, task, leaked, troubles>>

StoreFails(p) ==
  /\ At(p, "store")
  /\ ~TriggersPass(Own(p).rows, Seen(p))
  /\ Leave(p, Ended(p), "constraint")
  /\ UNCHANGED <<db, observed, task, published, leaked, troubles>>

\* readOccurrence and the coverage of the bundle.  BEGIN ISOLATION LEVEL is
\* refused inside a transaction, which is then rolled back.
Read(p) ==
  /\ At(p, "read")
  /\ \E o \in Wanted(p) :
       Return(p, IF Own(p).tx # "none" THEN "soiled"
                 ELSE IF ~Readable(observed, o) THEN "unreadable"
                 ELSE IF CoverageHolds(task[p].observation) THEN "answered"
                 ELSE "uncovered")
  /\ Release(p, Ended(p))
  /\ UNCHANGED <<db, observed, task, published, leaked, troubles>>

-----------------------------------------------------------------------------
(* The environment *)

\* The connection breaks; the pool replaces it.  The unlock of a bind then
\* fails as well.  A COMMIT under way may have been done.
ConnectionLost(p) ==
  /\ Trouble
  /\ proc[p].at \in {"probe", "check", "insert", "store", "read"}
  /\ \/ UNCHANGED observed
     \/ At(p, "store") /\ TriggersPass(Own(p).rows, Seen(p)) /\ observed' = Seen(p)
  /\ Release(p, Idle)
  /\ Return(p, "failed")
  /\ UNCHANGED <<db, task, published, leaked>>

\* Another user of the pool returns a connection inside its transaction.
Soil(s) ==
  /\ Trouble
  /\ holder[s] = Free /\ session[s].tx = "none"
  /\ \E tx \in {"open", "aborted"} :
       session' = [session EXCEPT ![s].tx = tx, ![s].foreign = (tx = "open")]
  /\ UNCHANGED <<db, observed, task, proc, holder, published, leaked>>

\* The process stops: its connections end and a new pool begins.
Crash ==
  /\ Trouble
  /\ proc' = [p \in Procs |-> [Start EXCEPT !.calls = proc[p].calls]]
  /\ holder' = [s \in Slots |-> Free]
  /\ session' = [s \in Slots |-> Idle]
  /\ leaked' = {}
  /\ UNCHANGED <<db, observed, task, published>>

Step(p) ==
  \/ \E s \in Slots : Lease(p, s)
  \/ Done(p)
  \/ ProbeIdle(p) \/ ProbeSoiled(p) \/ CommitOwned(p) \/ RefuseOwned(p)
  \/ Guard(p) \/ GuardRefused(p) \/ Check(p) \/ Unlock(p)
  \/ Insert(p) \/ InsertFails(p) \/ Store(p) \/ StoreFails(p) \/ Read(p)

Next ==
  \/ \E p \in Procs :
       \/ Call(p) \/ Step(p)
       \/ CommitRolledBack(p) \/ CommitLost(p) \/ ConnectionLost(p)
       \/ GuardFails(p) \/ UnlockFails(p) \/ StatementFails(p)
  \/ \E s \in Slots : Soil(s)
  \/ Crash

\* Database calls return, PostgreSQL and the pool serve their queues in
\* turn; nothing makes a caller call or a connection fail.
Fairness == \A p \in Procs : SF_vars(Step(p))

Spec == Init /\ [][Next]_vars /\ Fairness

-----------------------------------------------------------------------------
(* Properties *)

\* What a call was told is so, whatever broke, restarted or raced it: each
\* bundle it has passed is stored, and an occurrence it was told is bound is
\* stored with the whole of a bundle that passed the write verifier, but for
\* handoffs that repeat a stored one.
AnswersAreStored ==
  \A p \in Procs :
    /\ \A i \in 1..(proc[p].step - 1) : Steps(p)[i] \subseteq db
    /\ proc[p].answer = "answered" /\ task[p].how = "bind" =>
         \E B \in Observations :
           Wanted(p) \subseteq B /\ Authentic(B) /\ Fresh(B, observed) \subseteq observed

\* An owned transaction never commits what another user of the pool left
\* behind on its connection.
ForeignWorkStaysForeign ==
  [][\A p \in Procs :
       At(p, "commit") /\ proc'[p] # proc[p] => published' = published]_vars

\* A slice can be repeated after any crash, failure or race and goes on from
\* what is stored: it is refused only for an occurrence that another
\* selection has taken.
SlicesResume ==
  \A p \in Procs : proc[p].answer = "refused" =>
    \E r \in Of(Bundle(p), "selection"), t \in Of(db, "selection") :
      r # t /\ r.occurrence = t.occurrence

\* Everyone who writes anything binds the bundle of p under its occurrence.
Alone(p) ==
  \A q \in Procs : task[q].how # "none" =>
    /\ task[q].how = "bind"
    /\ task[q].observation = task[p].observation /\ Place(q) = Place(p)

\* The advisory lock is enough for those who name the same occurrence: the
\* plain inserts of RCV-020 then take no key twice, unless the bundle itself
\* does.
BindingsNeverCollide ==
  \A p \in Procs : task[p].how = "bind" /\ proc[p].answer = "duplicate" =>
    ~Alone(p) \/ Repeats(task[p].observation)

\* The limits of the reader: it wants a verdict, a lifecycle in the order of
\* its text, captures of the occurrence's own source, monitor and
\* configuration, no items in an empty one, comparisons with nothing, texts
\* that say what the columns say, and handoffs that agree with their capture.
\* The writer checks none of these.
Legible(D, o) ==
  /\ Loaded(D, o) \cap Garbled = {}
  /\ \A h \in All(Loaded(D, o), "handoff") : HandoffVerifies(Loaded(D, o), o, h)
  /\ VerdictsOf(D, o.id) # {}
  /\ EventsOf(D, o.configuration) # {}
  /\ SequencesAscend(EventsOf(D, o.configuration))
  /\ \A a \in TriesOf(D, o.id) : \A c \in CapturesOf(D, a.id) :
       /\ Lineage(c) = Lineage(o)
       /\ \A x \in ComparisonsOf(D, c.id) : x.prior = NoRow
       /\ \A r \in OutcomesOf(D, a.id) : r.outcome = "CAPTURED_EMPTY" => c.items = 0

\* A handoff or a retention event that came later and that the reader of o
\* refuses: the writer takes its hash and its lineage, or its text, unchecked,
\* and no constraint ties them to the capture.
Disputes(r, D, o) ==
  \/ r.kind \in {"retention", "handoff"} /\ r \in Garbled
  \/ r.kind = "handoff" /\ ~HandoffVerifies(Loaded(D, o), o, r)

\* The step takes o away from its readers only by such a row.
LostOnlyByAnnexes ==
  \A o \in All(observed, "occurrence") :
    Readable(observed, o) /\ ~Readable(observed', o) =>
      \E r \in Loaded(observed', o) \ observed : Disputes(r, observed', o)

\* Within the reader's limits, whatever the writer accepts and the triggers
\* let through reads back; and of all that is committed later, only a handoff
\* or a retention event that disagrees with its capture or with its own text
\* makes an occurrence unreadable (it then stays so: nothing is deleted).
WrittenIsReadable ==
  /\ [](\A o \in All(observed, "occurrence") :
          Legible(observed, o) => Readable(observed, o))
  /\ [][LostOnlyByAnnexes]_observed

\* Every call ends, unless a lock or unlock query has failed: then its
\* connection or the occurrence is out of reach until a restart.
ObservationCallsEnd ==
  \A p \in Procs : ~At(p, "idle") ~> At(p, "idle") \/ leaked # {}

=============================================================================
