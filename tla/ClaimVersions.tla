---------------------------- MODULE ClaimVersions ----------------------------
(***************************************************************************)
(* Concurrent creation and revision of claims over one PostgreSQL          *)
(* database: services/claimService.ts, services/claimVersionService.ts and *)
(* services/claimHistoricalAuthorityWriter.ts, with the RCV-009 and        *)
(* RCV-010 tables.                                                         *)
(*                                                                         *)
(* A request is one call of createClaimWithInitialVersion[AndAuthority] (a *)
(* member of Creators) or of createClaimVersion[WithAuthority] (a member   *)
(* of Revisers).  The ids the code draws with randomUUID are distinct, so  *)
(* a request stands for the version it writes and a creator for the claim. *)
(*                                                                         *)
(* One action is one database round trip with the code that follows it up  *)
(* to the next await.  The server's side of a transaction (tx, work, lock) *)
(* is separate from the client's (pc, lease, answer), because a connection *)
(* can die between the two.                                                *)
(***************************************************************************)
EXTENDS Integers, FiniteSets

CONSTANTS
  Creators,         \* Requests that create a claim; also the claim ids.
  Revisers,         \* Requests that append a version to a claim.
  MaxBase,          \* Largest basedOnVersionNumber a caller states.
  PoolSize,         \* Clients in the node-postgres pool.
  MaxFaults,        \* Bound on injected statement and connection failures.
  None

Requests == Creators \cup Revisers

ASSUME RequestAssumption ==
  /\ Creators \cap Revisers = {}
  /\ IsFiniteSet(Requests)
  /\ None \notin Requests
  /\ MaxBase \in Nat
  /\ PoolSize \in Nat \ {0}
  /\ MaxFaults \in Nat

VARIABLES
  db,      \* Committed rows of the four tables.
  work,    \* Rows written by a transaction and not yet committed.
  tx,      \* The server's view of a request's transaction.
  snap,    \* Snapshot of a REPEATABLE READ transaction, or None.
  lock,    \* Holder of each claim's FOR UPDATE row lock, or None.
  pc,      \* The statement a request sends next.
  req,     \* The caller's input.
  current, \* The version row read as current, or None.
  lease,   \* The request's pool client.
  answer,  \* The result, or the error on its way to the caller.
  faults,  \* Failures injected so far.
  repeatable  \* Whether the server's default isolation, which BEGIN does not
              \* override, is REPEATABLE READ rather than READ COMMITTED.

vars == <<db, work, tx, snap, lock, pc, req, current, lease, answer, faults,
          repeatable>>

-----------------------------------------------------------------------------
(* Rows and tables *)

Version   == [id : Requests, claim : Creators, number : Nat \ {0},
              basedOn : Requests \cup {None}]
Authority == [id : Requests, claim : Creators, number : Nat \ {0}]

\* The tables claims, claim_versions, claim_identity_authorities and
\* claim_version_authorities.
Database == [claims : SUBSET Creators, versions : SUBSET Version,
             identities : SUBSET Creators, authorities : SUBSET Authority]

NoRows == [claims |-> {}, versions |-> {}, identities |-> {},
           authorities |-> {}]

Merge(a, b) == [claims      |-> a.claims \cup b.claims,
                versions    |-> a.versions \cup b.versions,
                identities  |-> a.identities \cup b.identities,
                authorities |-> a.authorities \cup b.authorities]

VersionsOf(d, c) == {v \in d.versions : v.claim = c}

\* SELECT id, version_number ... ORDER BY version_number DESC LIMIT 1
IsLatest(d, v) == /\ v \in d.versions
                  /\ \A w \in VersionsOf(d, v.claim) : w.number <= v.number

\* The number of the row that query returns, 0 for no row.
LatestNumbers(d, c) ==
  IF VersionsOf(d, c) = {} THEN {0}
  ELSE {v.number : v \in {w \in VersionsOf(d, c) : IsLatest(d, w)}}

\* Mutant of Certificate: the number is the base's.
CertificateOfBase(v) == [id |-> v.id, claim |-> v.claim, number |-> v.number - 1]

\* The authority row built from a version row: it repeats the identity and
\* the semantic columns of its source.
Certificate(v) == [id |-> v.id, claim |-> v.claim, number |-> v.number]

\* The UNIQUE (claim_id, version_number) index sees committed rows and the
\* rows of transactions in flight, whatever the snapshot.
SameKey(v, w) == v.claim = w.claim /\ v.number = w.number

-----------------------------------------------------------------------------
(* Program counters and answers *)

Statements == {"insert_claim", "insert_first", "identity", "require_identity",
               "lock", "read", "insert", "authority", "commit"}

Pcs == Statements \cup {"new", "connect", "begin", "rollback", "refresh",
                        "release", "done"}

AnswerKinds == {"none", "created", "conflict", "not_found", "invariant",
                "missing_authority", "duplicate", "failed", "unknown"}

Answer(kind, n) == [kind |-> kind, current |-> n]

TypeOK ==
  /\ db \in Database
  /\ work \in [Requests -> Database]
  /\ tx \in [Requests ->
               {"none", "open", "failed", "orphan", "committing", "ended"}]
  /\ snap \in [Requests -> Database \cup {None}]
  /\ lock \in [Creators -> Requests \cup {None}]
  /\ pc \in [Requests -> Pcs]
  /\ req \in [Requests -> [claim : Creators \cup {None}, base : Nat,
                           authenticated : BOOLEAN]]
  /\ current \in [Requests -> Version \cup {None}]
  /\ lease \in [Requests ->
                  {"none", "held", "broken", "returned", "destroyed"}]
  /\ answer \in [Requests -> [kind : AnswerKinds, current : Nat]]
  /\ faults \in Nat
  /\ repeatable \in BOOLEAN

Init ==
  /\ db = NoRows
  /\ work = [r \in Requests |-> NoRows]
  /\ tx = [r \in Requests |-> "none"]
  /\ snap = [r \in Requests |-> None]
  /\ lock = [c \in Creators |-> None]
  /\ pc = [r \in Requests |-> "new"]
  /\ req = [r \in Requests |->
              [claim |-> None, base |-> 0, authenticated |-> FALSE]]
  /\ current = [r \in Requests |-> None]
  /\ lease = [r \in Requests |-> "none"]
  /\ answer = [r \in Requests |-> Answer("none", 0)]
  /\ faults = 0
  /\ repeatable \in BOOLEAN

-----------------------------------------------------------------------------
(* What a transaction sees and how it moves *)

\* A READ COMMITTED statement sees what is committed when it starts, a
\* REPEATABLE READ one what was committed at the transaction's first query.
Sees(r) == IF snap[r] = None THEN db ELSE snap[r]

TakeSnapshot(r) ==
  snap' = IF repeatable THEN [snap EXCEPT ![r] = Sees(r)] ELSE snap

Goto(r, label) == pc' = [pc EXCEPT ![r] = label]

Executing(r, label) == pc[r] = label /\ tx[r] = "open"

\* The work function threw inside the transaction: the catch block rolls back.
Raise(r, kind, n) ==
  /\ answer' = [answer EXCEPT ![r] = Answer(kind, n)]
  /\ Goto(r, "rollback")

\* Rows written inside the transaction.
Write(r, rows) == work' = [work EXCEPT ![r] = Merge(@, rows)]

Freed(r) == [c \in Creators |-> IF lock[c] = r THEN None ELSE lock[c]]

\* The server ends the transaction of r, keeping its rows or not.
EndTx(r, status, keep) ==
  /\ tx' = [tx EXCEPT ![r] = status]
  /\ db' = IF keep THEN Merge(db, work[r]) ELSE db
  /\ work' = [work EXCEPT ![r] = NoRows]
  /\ snap' = [snap EXCEPT ![r] = None]
  /\ lock' = Freed(r)

-----------------------------------------------------------------------------
(* Both kinds of request *)

Arrive(r) ==
  /\ pc[r] = "new"
  /\ \E a \in BOOLEAN :
       \/ /\ r \in Creators
          /\ req' = [req EXCEPT ![r] = [claim |-> r, base |-> 0,
                                        authenticated |-> a]]
       \/ /\ r \in Revisers
          /\ \E c \in Creators, b \in 1..MaxBase :
               req' = [req EXCEPT ![r] = [claim |-> c, base |-> b,
                                          authenticated |-> a]]
  /\ Goto(r, "connect")
  /\ UNCHANGED <<db, work, tx, snap, lock, current, lease, answer, faults>>

\* pool.connect() waits while every client is leased.
Connect(r) ==
  /\ pc[r] = "connect"
  /\ Cardinality({s \in Requests : lease[s] \in {"held", "broken"}}) < PoolSize
  /\ lease' = [lease EXCEPT ![r] = "held"]
  /\ Goto(r, "begin")
  /\ UNCHANGED <<db, work, tx, snap, lock, req, current, answer, faults>>

Begin(r) ==
  /\ pc[r] = "begin"
  /\ lease[r] = "held"
  /\ tx' = [tx EXCEPT ![r] = "open"]
  /\ Goto(r, IF r \in Creators THEN "insert_claim"
             ELSE IF req[r].authenticated THEN "require_identity"
             ELSE "lock")
  /\ UNCHANGED <<db, work, snap, lock, req, current, lease, answer, faults>>

Commit(r) ==
  /\ Executing(r, "commit")
  /\ EndTx(r, "ended", TRUE)
  /\ answer' = [answer EXCEPT ![r] = Answer("created", 0)]
  /\ Goto(r, "release")
  /\ UNCHANGED <<req, current, lease, faults>>

\* ROLLBACK acknowledged.  Only createClaimVersion looks at the constraint
\* name of a 23505 and re-reads the current version before it answers.
Rollback(r) ==
  /\ pc[r] = "rollback"
  /\ lease[r] = "held"
  /\ EndTx(r, "ended", FALSE)
  /\ Goto(r, IF answer[r].kind = "duplicate" THEN "refresh" ELSE "release")
  /\ UNCHANGED <<req, current, lease, answer, faults>>

\* Mutant of RollbackFails: the caller gets the original error.
RollbackFailureHidden(r) ==
  /\ pc[r] = "rollback"
  /\ lease[r] = "broken"
  /\ Goto(r, "release")
  /\ UNCHANGED <<db, work, tx, snap, lock, req, current, lease, answer, faults>>

\* ROLLBACK itself rejects: the combined error hides the outcome.
RollbackFails(r) ==
  /\ pc[r] = "rollback"
  /\ lease[r] = "broken"
  /\ answer' = [answer EXCEPT ![r] = Answer("unknown", 0)]
  /\ Goto(r, "release")
  /\ UNCHANGED <<db, work, tx, snap, lock, req, current, lease, faults>>

\* refreshConflictVersionNumber, outside any transaction; when it fails too
\* the error carries no version number.
Refresh(r) ==
  /\ pc[r] = "refresh"
  /\ \E n \in IF lease[r] = "held" THEN LatestNumbers(db, req[r].claim) ELSE {0} :
       answer' = [answer EXCEPT ![r] = Answer("conflict", n)]
  /\ Goto(r, "release")
  /\ UNCHANGED <<db, work, tx, snap, lock, req, current, lease, faults>>

\* Mutant of Release: a failed call keeps its client.
ReleaseForgotten(r) ==
  /\ pc[r] = "release"
  /\ lease' = [lease EXCEPT ![r] = IF @ = "held" /\ answer[r].kind # "created"
                                   THEN @ ELSE "returned"]
  /\ Goto(r, "done")
  /\ UNCHANGED <<db, work, tx, snap, lock, req, current, answer, faults>>

\* release() returns the client; release(true), or the pool on finding the
\* socket dead, discards it.
Release(r) ==
  /\ pc[r] = "release"
  /\ lease' = [lease EXCEPT ![r] = IF @ = "held" THEN "returned"
                                   ELSE "destroyed"]
  /\ Goto(r, "done")
  /\ UNCHANGED <<db, work, tx, snap, lock, req, current, answer, faults>>

-----------------------------------------------------------------------------
(* Historical authority, for either kind of request *)

\* requireExistingClaimIdentityAuthority: the transaction's own row counts.
IdentityIsCertified(r) ==
  req[r].claim \in Sees(r).identities \cup work[r].identities

\* persistClaimVersionAuthorityWithinTransaction reads the version back,
\* checks the parent and inserts a row that cannot exist yet.
PersistAuthority(r) ==
  /\ Executing(r, "authority")
  /\ IF IdentityIsCertified(r)
     THEN /\ Write(r, [NoRows EXCEPT !.authorities =
                         {Certificate(v) : v \in work[r].versions}])
          /\ Goto(r, "commit")
          /\ UNCHANGED answer
     ELSE /\ Raise(r, "missing_authority", 0)
          /\ UNCHANGED work
  /\ UNCHANGED <<db, tx, snap, lock, req, current, lease, faults>>

-----------------------------------------------------------------------------
(* Creating a claim *)

InsertClaim(r) ==
  /\ Executing(r, "insert_claim")
  /\ TakeSnapshot(r)
  /\ Write(r, [NoRows EXCEPT !.claims = {r}])
  /\ Goto(r, "insert_first")
  /\ UNCHANGED <<db, tx, lock, req, current, lease, answer, faults>>

InsertFirst(r) ==
  /\ Executing(r, "insert_first")
  /\ LET row == [id |-> r, claim |-> r, number |-> 1, basedOn |-> None]
     IN  Write(r, [NoRows EXCEPT !.versions = {row}])
  /\ Goto(r, IF req[r].authenticated THEN "identity" ELSE "commit")
  /\ UNCHANGED <<db, tx, snap, lock, req, current, lease, answer, faults>>

PersistIdentity(r) ==
  /\ Executing(r, "identity")
  /\ Write(r, [NoRows EXCEPT !.identities = {r}])
  /\ Goto(r, "authority")
  /\ UNCHANGED <<db, tx, snap, lock, req, current, lease, answer, faults>>

-----------------------------------------------------------------------------
(* Revising a claim *)

RequireIdentity(r) ==
  /\ Executing(r, "require_identity")
  /\ TakeSnapshot(r)
  /\ \/ /\ IdentityIsCertified(r)
        /\ Goto(r, "lock")
        /\ UNCHANGED answer
     \/ /\ ~IdentityIsCertified(r)
        /\ Raise(r, "missing_authority", 0)
  /\ UNCHANGED <<db, work, tx, lock, req, current, lease, faults>>

\* SELECT id FROM claims WHERE id = $1 FOR UPDATE: a statement that has to wait
\* for the row has taken its snapshot already.
AwaitLock(r) ==
  /\ Executing(r, "lock")
  /\ repeatable /\ snap[r] = None
  /\ req[r].claim \in db.claims
  /\ lock[req[r].claim] # None
  /\ TakeSnapshot(r)
  /\ UNCHANGED <<db, work, tx, lock, pc, req, current, lease, answer, faults>>

LockClaim(r) ==
  /\ Executing(r, "lock")
  /\ TakeSnapshot(r)
  /\ \/ /\ req[r].claim \in Sees(r).claims
        /\ lock[req[r].claim] = None
        /\ lock' = [lock EXCEPT ![req[r].claim] = r]
        /\ Goto(r, "read")
        /\ UNCHANGED answer
     \/ /\ req[r].claim \notin Sees(r).claims
        /\ Raise(r, "not_found", 0)
        /\ UNCHANGED lock
  /\ UNCHANGED <<db, work, tx, req, current, lease, faults>>

\* Mutant of StillCurrent: no check.
AlwaysCurrent(r, n) == TRUE

\* The optimistic check: the caller's base must still be the latest version.
StillCurrent(r, n) == req[r].base = n

ReadCurrent(r) ==
  /\ Executing(r, "read")
  /\ \/ \E v \in VersionsOf(Sees(r), req[r].claim) :
          /\ IsLatest(Sees(r), v)
          /\ StillCurrent(r, v.number)
          /\ current' = [current EXCEPT ![r] = v]
          /\ Goto(r, "insert")
          /\ UNCHANGED answer
     \/ \E n \in LatestNumbers(Sees(r), req[r].claim) :
          /\ ~StillCurrent(r, n)
          /\ Raise(r, IF n = 0 THEN "invariant" ELSE "conflict", n)
          /\ UNCHANGED current
  /\ UNCHANGED <<db, work, tx, snap, lock, req, lease, faults>>

\* Mutants of Revision: it counts down, or is based on the first version.
RevisionCountsDown(r) ==
  [id |-> r, claim |-> req[r].claim,
   number |-> current[r].number - 1, basedOn |-> current[r].id]
RevisionOfFirst(r) ==
  [id |-> r, claim |-> req[r].claim,
   number |-> current[r].number + 1, basedOn |-> req[r].claim]

Revision(r) == [id |-> r, claim |-> req[r].claim,
                number |-> current[r].number + 1, basedOn |-> current[r].id]

\* The insert waits for a transaction in flight that holds the same key, and
\* fails with 23505 when the key is committed.
InsertRevision(r) ==
  /\ Executing(r, "insert")
  /\ \A s \in Requests \ {r} :
       \A w \in work[s].versions : ~SameKey(w, Revision(r))
  /\ \/ /\ \A w \in db.versions : ~SameKey(w, Revision(r))
        /\ Write(r, [NoRows EXCEPT !.versions = {Revision(r)}])
        /\ Goto(r, IF req[r].authenticated THEN "authority" ELSE "commit")
        /\ UNCHANGED <<db, tx, snap, lock, answer>>
     \/ /\ \E w \in db.versions : SameKey(w, Revision(r))
        /\ Raise(r, IF req[r].authenticated THEN "failed" ELSE "duplicate", 0)
        /\ EndTx(r, "failed", FALSE)
  /\ UNCHANGED <<req, current, lease, faults>>

-----------------------------------------------------------------------------
(* Failures, and the server noticing them *)

\* A statement (COMMIT included) is rejected by the server: the transaction
\* aborts there and then, and its row locks go.
ServerError(r) ==
  /\ faults < MaxFaults
  /\ pc[r] \in Statements /\ tx[r] = "open"
  /\ EndTx(r, "failed", FALSE)
  /\ faults' = faults + 1
  /\ Raise(r, "failed", 0)
  /\ UNCHANGED <<req, current, lease>>

\* The connection dies under a statement.  The server has yet to find out: it
\* keeps the transaction and its locks, and a COMMIT may be on its way.
Disconnect(r) ==
  /\ faults < MaxFaults
  /\ lease[r] = "held"
  /\ faults' = faults + 1
  /\ lease' = [lease EXCEPT ![r] = "broken"]
  /\ \/ /\ pc[r] = "begin"
        /\ answer' = [answer EXCEPT ![r] = Answer("failed", 0)]
        /\ Goto(r, "release")
        /\ UNCHANGED tx
     \/ /\ pc[r] \in Statements
        /\ Raise(r, "failed", 0)
        /\ tx' = [tx EXCEPT ![r] = "orphan"]
     \/ /\ pc[r] = "commit"
        /\ Raise(r, "failed", 0)
        /\ tx' = [tx EXCEPT ![r] = "committing"]
     \/ /\ pc[r] = "rollback"
        /\ tx' = [tx EXCEPT ![r] = IF @ = "open" THEN "orphan" ELSE "ended"]
        /\ UNCHANGED <<pc, answer>>
     \/ /\ pc[r] = "refresh"
        /\ UNCHANGED <<pc, answer, tx>>
  /\ UNCHANGED <<db, work, snap, lock, req, current>>

ServerAborts(r) ==
  /\ tx[r] \in {"orphan", "committing"}
  /\ EndTx(r, "ended", FALSE)
  /\ UNCHANGED <<pc, req, current, lease, answer, faults>>

ServerCommits(r) ==
  /\ tx[r] = "committing"
  /\ EndTx(r, "ended", TRUE)
  /\ UNCHANGED <<pc, req, current, lease, answer, faults>>

-----------------------------------------------------------------------------

Client(r) ==
  /\ \/ Connect(r) \/ Begin(r) \/ Commit(r) \/ Rollback(r) \/ RollbackFails(r)
     \/ Refresh(r) \/ Release(r)
     \/ InsertClaim(r) \/ InsertFirst(r) \/ PersistIdentity(r)
     \/ RequireIdentity(r) \/ AwaitLock(r) \/ LockClaim(r) \/ ReadCurrent(r)
     \/ InsertRevision(r) \/ PersistAuthority(r)
  /\ UNCHANGED repeatable

Server(r) == (ServerAborts(r) \/ ServerCommits(r)) /\ UNCHANGED repeatable

\* Every call has been answered and every transaction has ended.
Finished ==
  /\ \A r \in Requests :
       pc[r] = "done" /\ tx[r] \notin {"orphan", "committing"}
  /\ UNCHANGED vars

Next ==
  \/ \E r \in Requests :
       \/ Client(r) \/ Server(r)
       \/ /\ Arrive(r) \/ ServerError(r) \/ Disconnect(r)
          /\ UNCHANGED repeatable
  \/ Finished

\* An awaited query is answered or rejected, and PostgreSQL ends what a dead
\* connection left behind; callers and failures owe nothing.
Fairness == \A r \in Requests : WF_vars(Client(r)) /\ WF_vars(Server(r))

Spec == Init /\ [][Next]_vars /\ Fairness

-----------------------------------------------------------------------------
(* Properties *)

\* What a version row says of its predecessor agrees with the table.
Follows(v) ==
  /\ v.number = 1 => v.id = v.claim /\ v.basedOn = None
  /\ v.number # 1 => \E w \in db.versions : /\ w.claim = v.claim
                                            /\ w.number = v.number - 1
                                            /\ v.basedOn = w.id

\* The versions of a claim are numbered 1, 2, 3 ... without gap or duplicate,
\* and each but the first is based on the version numbered one below it: no
\* interleaving of createClaimVersion calls forks or skips the history
\* (claimVersionService.ts, uq_claim_versions_claimid_version).
LinearHistory ==
  \A v \in db.versions :
    /\ \A w \in db.versions : SameKey(v, w) => v = w
    /\ Follows(v)

\* A committed version is certified only under a certified claim, and its
\* certificate repeats the row it certifies
\* (claimHistoricalAuthorityWriter.ts, rcv009 authority tables).
AuthorityParity ==
  /\ db.identities \subseteq db.claims
  /\ \A a \in db.authorities :
       /\ a.claim \in db.identities
       /\ \E v \in db.versions :
            a.id = v.id /\ a.claim = v.claim /\ a.number = v.number

\* A call that resolves has its version in the database, numbered one above
\* the base its caller stated, and certified exactly when the caller asked
\* for it: no update is lost and none is half done.
SuccessIsDurable ==
  \A r \in Requests :
    pc[r] = "done" /\ answer[r].kind = "created" =>
      /\ \E v \in db.versions :
           /\ v.id = r /\ v.claim = req[r].claim
           /\ v.number = req[r].base + 1
      /\ req[r].authenticated <=> \E a \in db.authorities : a.id = r

\* A call that rejects with anything but the combined rollback error has left
\* nothing behind, now or later; only that error leaves the outcome open.
FailureLeavesNothing ==
  \A r \in Requests :
    pc[r] = "done" /\ answer[r].kind \notin {"created", "unknown"} =>
      /\ \A v \in db.versions : v.id # r
      /\ r \notin db.claims

\* The version number a ClaimVersionConflictError reports is committed and is
\* not the one the caller based its revision on, also when it comes from the
\* re-read after a 23505.
ConflictIsInformative ==
  \A r \in Requests :
    answer[r].kind = "conflict" /\ answer[r].current # 0 =>
      /\ answer[r].current # req[r].base
      /\ \E v \in db.versions :
           v.claim = req[r].claim /\ v.number = answer[r].current

\* ClaimVersionInvariantError ("has no current version") cannot happen: a
\* claim is never visible without its first version.
ClaimsHaveAVersion ==
  /\ \A r \in Requests : answer[r].kind # "invariant"
  /\ \A c \in db.claims : VersionsOf(db, c) # {}

\* Callers are told what happened, whatever raced or failed.
AnswersAreTrue ==
  /\ SuccessIsDurable /\ FailureLeavesNothing
  /\ ConflictIsInformative /\ ClaimsHaveAVersion

\* Every call is answered: row locks, the unique index and the bounded pool
\* never leave requests waiting on each other.
EveryCallAnswered ==
  \A r \in Requests : pc[r] = "connect" ~> pc[r] = "done"

=============================================================================
