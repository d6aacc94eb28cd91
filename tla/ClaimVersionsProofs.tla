------------------------- MODULE ClaimVersionsProofs -------------------------
(***************************************************************************)
(* ClaimVersions keeps every claim's history linear, for any number of     *)
(* requests, claims and pool clients, under either isolation level and     *)
(* after any number of failures; it tells its callers what happened,       *)
(* certifies what it has written, and implements ClaimHistory.             *)
(*                                                                         *)
(* LinearHistory speaks of committed rows only, and is not inductive: a    *)
(* commit adds rows written long before.  The invariant Inv follows the    *)
(* rows from the read they derive from to the commit.  An answer relates   *)
(* to statements executed long before, too: the invariant Telling, in the  *)
(* second part, follows each request on its own, where it stands, what its *)
(* transaction holds and what of it is committed; Recorded counts what is  *)
(* committed.                                                              *)
(***************************************************************************)
EXTENDS MCClaimVersions, FiniteSetTheorems, SequenceTheorems, TLAPS

\* Only a request that creates a claim runs the creation's statements.
Roles ==
  \A r \in Requests :
    pc[r] \in {"insert_claim", "insert_first", "identity"} => r \in Creators

\* Up to its insert a request has no version, pending or committed.
BeforeInsert == {"new", "connect", "begin", "insert_claim", "insert_first",
                 "require_identity", "lock", "read", "insert"}

Fresh ==
  \A r \in Requests :
    pc[r] \in BeforeInsert =>
      work[r].versions = {} /\ \A v \in db.versions : v.id # r

\* The version a revision is about to follow is committed.
ReadIsCommitted ==
  \A r \in Requests :
    pc[r] = "insert" =>
      current[r] \in db.versions /\ current[r].claim = req[r].claim

\* A snapshot is old, never invented.
SnapshotIsPast ==
  \A r \in Requests : snap[r] # None => snap[r].versions \subseteq db.versions

\* A row in flight would extend the committed history, and no other row in
\* flight, nor a committed one, has its place.
PendingRows ==
  \A r \in Requests : \A v \in work[r].versions :
    /\ v.id = r
    /\ work[r].versions = {v}
    /\ \A w \in db.versions : ~SameKey(v, w)
    /\ \A s \in Requests \ {r} : \A w \in work[s].versions : ~SameKey(v, w)
    /\ Follows(v)

Inv == /\ TypeOK
       /\ Roles
       /\ Fresh
       /\ ReadIsCommitted
       /\ SnapshotIsPast
       /\ PendingRows
       /\ LinearHistory

-----------------------------------------------------------------------------
(* Types *)

LEMMA InitInv == Init => Inv
  <1>. SUFFICES ASSUME Init PROVE Inv
    OBVIOUS
  <1>1. TypeOK
    BY RequestAssumption
    DEF Init, TypeOK, NoRows, Database, Answer, AnswerKinds, Pcs, Requests
  <1>2. Roles /\ ReadIsCommitted /\ SnapshotIsPast
    BY DEF Init, Roles, ReadIsCommitted, SnapshotIsPast
  <1>3. Fresh /\ PendingRows /\ LinearHistory
    BY DEF Init, Fresh, PendingRows, LinearHistory, NoRows
  <1>. QED
    BY <1>1, <1>2, <1>3 DEF Inv

\* The end of a transaction preserves the types of what it changes.
LEMMA EndTxType ==
  ASSUME TypeOK, NEW r \in Requests, NEW keep \in BOOLEAN,
         NEW status \in {"failed", "ended"}, EndTx(r, status, keep)
  PROVE  /\ db' \in Database
         /\ work' \in [Requests -> Database]
         /\ tx' \in [Requests ->
                       {"none", "open", "failed", "orphan", "committing", "ended"}]
         /\ snap' \in [Requests -> Database \cup {None}]
         /\ lock' \in [Creators -> Requests \cup {None}]
  <1>1. NoRows \in Database
    BY DEF NoRows, Database
  <1>2. ASSUME NEW a \in Database, NEW b \in Database
        PROVE  Merge(a, b) \in Database
    BY DEF Merge, Database
  <1>. QED
    BY <1>1, <1>2 DEF EndTx, Freed, TypeOK

\* So does a write.
LEMMA WriteType ==
  ASSUME TypeOK, NEW r \in Requests, NEW rows \in Database, Write(r, rows)
  PROVE  work' \in [Requests -> Database]
  <1>1. Merge(work[r], rows) \in Database
    BY DEF Merge, Database, TypeOK
  <1>. QED
    BY <1>1 DEF Write, TypeOK

\* And an error on its way to the caller.
LEMMA RaiseType ==
  ASSUME TypeOK, NEW r \in Requests, NEW k \in AnswerKinds, NEW n \in Nat,
         Raise(r, k, n)
  PROVE  /\ answer' \in [Requests -> [kind : AnswerKinds, current : Nat]]
         /\ pc' \in [Requests -> Pcs]
  <1>1. Answer(k, n) \in [kind : AnswerKinds, current : Nat]
    BY DEF Answer
  <1>2. "rollback" \in Pcs
    BY DEF Pcs
  <1>. QED
    BY <1>1, <1>2 DEF Raise, Goto, TypeOK

LEMMA TypeStep == Inv /\ [Next]_vars => TypeOK'
  <1>. SUFFICES ASSUME Inv, [Next]_vars PROVE TypeOK'
    OBVIOUS
  <1>. USE DEF Inv
  <1>t. TypeOK
    OBVIOUS
  <1>0. repeatable' \in BOOLEAN
    <2>1. UNCHANGED repeatable
      <3>1. CASE UNCHANGED vars
        BY <3>1 DEF vars
      <3>2. CASE Finished
        BY <3>2 DEF Finished, vars
      <3>3. ASSUME NEW r \in Requests, Client(r) PROVE UNCHANGED repeatable
        BY <3>3 DEF Client
      <3>4. ASSUME NEW r \in Requests, Server(r) PROVE UNCHANGED repeatable
        BY <3>4 DEF Server
      <3>. QED
        BY <3>1, <3>2, <3>3, <3>4, Zenon DEF Next
    <2>. QED
      BY <1>t, <2>1 DEF TypeOK
  <1>. USE <1>0
  <1>1. ASSUME NEW r \in Requests, Arrive(r) PROVE TypeOK'
    <2>1. \E i \in [claim : Creators \cup {None}, base : Nat,
                    authenticated : BOOLEAN] : req' = [req EXCEPT ![r] = i]
      <3>1. CASE \E a \in BOOLEAN : /\ r \in Creators
                                   /\ req' = [req EXCEPT ![r] = [claim |-> r, base |-> 0,
                                                                authenticated |-> a]]
        BY <3>1
      <3>2. CASE \E a \in BOOLEAN, c \in Creators, b \in 1..MaxBase :
                   req' = [req EXCEPT ![r] = [claim |-> c, base |-> b,
                                              authenticated |-> a]]
        <4>1. PICK a \in BOOLEAN, c \in Creators, b \in 1..MaxBase :
                req' = [req EXCEPT ![r] = [claim |-> c, base |-> b,
                                           authenticated |-> a]]
          BY <3>2
        <4>2. b \in Nat
          BY RequestAssumption
        <4>. QED
          BY <4>1, <4>2
      <3>. QED
        BY <1>1, <3>1, <3>2, Zenon DEF Arrive
    <2>2. req' \in [Requests -> [claim : Creators \cup {None}, base : Nat,
                                authenticated : BOOLEAN]]
      BY <2>1 DEF TypeOK
    <2>3. pc' \in [Requests -> Pcs]
      BY <1>1 DEF Arrive, Goto, Pcs, TypeOK
    <2>. QED
      BY <1>1, <2>2, <2>3 DEF Arrive, TypeOK
  <1>2. ASSUME NEW r \in Requests, Connect(r) PROVE TypeOK'
    BY <1>2 DEF Connect, TypeOK, Goto, Pcs
  <1>3. ASSUME NEW r \in Requests, Begin(r) PROVE TypeOK'
    BY <1>3 DEF Begin, TypeOK, Goto, Pcs, Statements
  <1>4. ASSUME NEW r \in Requests, Commit(r) PROVE TypeOK'
    <2>1. EndTx(r, "ended", TRUE)
      BY <1>4 DEF Commit
    <2>. QED
      BY <1>4, <2>1, EndTxType DEF Commit, TypeOK, Goto, Pcs, Answer, AnswerKinds
  <1>5. ASSUME NEW r \in Requests, Rollback(r) PROVE TypeOK'
    <2>1. EndTx(r, "ended", FALSE)
      BY <1>5 DEF Rollback
    <2>. QED
      BY <1>5, <2>1, EndTxType DEF Rollback, TypeOK, Goto, Pcs
  <1>6. ASSUME NEW r \in Requests, RollbackFails(r) PROVE TypeOK'
    BY <1>6 DEF RollbackFails, TypeOK, Goto, Pcs, Answer, AnswerKinds
  <1>7. ASSUME NEW r \in Requests, Refresh(r) PROVE TypeOK'
    <2>1. LatestNumbers(db, req[r].claim) \subseteq Nat
      BY DEF LatestNumbers, VersionsOf, TypeOK, Database, Version
    <2>. QED
      BY <1>7, <2>1 DEF Refresh, TypeOK, Goto, Pcs, Answer, AnswerKinds
  <1>8. ASSUME NEW r \in Requests, Release(r) PROVE TypeOK'
    BY <1>8 DEF Release, TypeOK, Goto, Pcs
  <1>9. ASSUME NEW r \in Requests, InsertClaim(r) PROVE TypeOK'
    <2>1. r \in Creators
      BY <1>9 DEF InsertClaim, Executing, Roles
    <2>2. [NoRows EXCEPT !.claims = {r}] \in Database
      BY <2>1 DEF NoRows, Database
    <2>. QED
      BY <1>9, <2>2, WriteType DEF InsertClaim, TypeOK, Goto, TakeSnapshot, Sees,
                                   Pcs, Statements
  <1>10. ASSUME NEW r \in Requests, InsertFirst(r) PROVE TypeOK'
    <2>. DEFINE row == [id |-> r, claim |-> r, number |-> 1, basedOn |-> None]
    <2>1. r \in Creators
      BY <1>10 DEF InsertFirst, Executing, Roles
    <2>2. [NoRows EXCEPT !.versions = {row}] \in Database
      BY <2>1 DEF NoRows, Database, Version
    <2>3. work' \in [Requests -> Database]
      BY <1>10, <2>2, WriteType DEF InsertFirst
    <2>. QED
      BY <1>10, <2>3 DEF InsertFirst, TypeOK, Goto, Pcs, Statements
  <1>11. ASSUME NEW r \in Requests, PersistIdentity(r) PROVE TypeOK'
    <2>1. r \in Creators
      BY <1>11 DEF PersistIdentity, Executing, Roles
    <2>2. [NoRows EXCEPT !.identities = {r}] \in Database
      BY <2>1 DEF NoRows, Database
    <2>. QED
      BY <1>11, <2>2, WriteType DEF PersistIdentity, TypeOK, Goto, Pcs, Statements
  <1>12. ASSUME NEW r \in Requests, RequireIdentity(r) PROVE TypeOK'
    <2>1. "missing_authority" \in AnswerKinds
      BY DEF AnswerKinds
    <2>2. /\ answer' \in [Requests -> [kind : AnswerKinds, current : Nat]]
          /\ pc' \in [Requests -> Pcs]
      BY <1>12, <2>1, RaiseType DEF RequireIdentity, TypeOK, Goto, Pcs, Statements
    <2>. QED
      BY <1>12, <2>2 DEF RequireIdentity, TypeOK, TakeSnapshot, Sees
  <1>13. ASSUME NEW r \in Requests, AwaitLock(r) PROVE TypeOK'
    BY <1>13 DEF AwaitLock, TypeOK, TakeSnapshot, Sees
  <1>14. ASSUME NEW r \in Requests, LockClaim(r) PROVE TypeOK'
    <2>1. "not_found" \in AnswerKinds
      BY DEF AnswerKinds
    <2>2. /\ answer' \in [Requests -> [kind : AnswerKinds, current : Nat]]
          /\ pc' \in [Requests -> Pcs]
      BY <1>14, <2>1, RaiseType DEF LockClaim, TypeOK, Goto, Pcs, Statements
    <2>. QED
      BY <1>14, <2>2 DEF LockClaim, TypeOK, TakeSnapshot, Sees
  <1>15. ASSUME NEW r \in Requests, ReadCurrent(r) PROVE TypeOK'
    <2>1. VersionsOf(Sees(r), req[r].claim) \subseteq Version
      BY DEF VersionsOf, Sees, SnapshotIsPast, TypeOK, Database
    <2>2. LatestNumbers(Sees(r), req[r].claim) \subseteq Nat
      BY <2>1 DEF LatestNumbers, Version
    <2>3. /\ current' \in [Requests -> Version \cup {None}]
          /\ answer' \in [Requests -> [kind : AnswerKinds, current : Nat]]
          /\ pc' \in [Requests -> Pcs]
      <3>1. {"invariant", "conflict"} \subseteq AnswerKinds
        BY DEF AnswerKinds
      <3>2. CASE \E v \in VersionsOf(Sees(r), req[r].claim) :
                   /\ current' = [current EXCEPT ![r] = v]
                   /\ Goto(r, "insert")
                   /\ UNCHANGED answer
        BY <2>1, <3>2 DEF TypeOK, Goto, Pcs, Statements
      <3>3. CASE \E n \in LatestNumbers(Sees(r), req[r].claim) :
                   /\ Raise(r, IF n = 0 THEN "invariant" ELSE "conflict", n)
                   /\ UNCHANGED current
        <4>1. PICK n \in Nat :
                /\ Raise(r, IF n = 0 THEN "invariant" ELSE "conflict", n)
                /\ UNCHANGED current
          BY <2>2, <3>3
        <4>2. PICK k \in AnswerKinds : Raise(r, k, n)
          BY <3>1, <4>1
        <4>. QED
          BY <4>1, <4>2, RaiseType DEF TypeOK
      <3>. QED
        BY <1>15, <3>2, <3>3 DEF ReadCurrent
    <2>. QED
      BY <1>15, <2>3 DEF ReadCurrent, TypeOK
  <1>16. ASSUME NEW r \in Requests, InsertRevision(r) PROVE TypeOK'
    <2>1. current[r] \in Version /\ current[r].claim = req[r].claim
      BY <1>16 DEF InsertRevision, Executing, ReadIsCommitted, TypeOK, Database
    <2>2. Revision(r) \in Version
      BY <2>1 DEF Revision, Version
    <2>3. [NoRows EXCEPT !.versions = {Revision(r)}] \in Database
      BY <2>2 DEF NoRows, Database
    <2>4. CASE EndTx(r, "failed", FALSE) /\ \E k \in {"failed", "duplicate"} : Raise(r, k, 0)
      <3>1. /\ answer' \in [Requests -> [kind : AnswerKinds, current : Nat]]
            /\ pc' \in [Requests -> Pcs]
        <4>1. PICK k \in {"failed", "duplicate"} : Raise(r, k, 0)
          BY <2>4
        <4>. QED
          BY <4>1, RaiseType DEF AnswerKinds
      <3>2. UNCHANGED <<req, current, lease, faults>>
        BY <1>16 DEF InsertRevision
      <3>. QED
        BY <2>4, <3>1, <3>2, EndTxType DEF TypeOK
    <2>5. CASE /\ Write(r, [NoRows EXCEPT !.versions = {Revision(r)}])
               /\ Goto(r, IF req[r].authenticated THEN "authority" ELSE "commit")
               /\ UNCHANGED <<db, tx, snap, lock, answer>>
      <3>1. UNCHANGED <<req, current, lease, faults>>
        BY <1>16 DEF InsertRevision
      <3>. QED
        BY <2>3, <2>5, <3>1, WriteType DEF TypeOK, Goto, Pcs, Statements
    <2>. QED
      BY <1>16, <2>4, <2>5 DEF InsertRevision
  <1>17. ASSUME NEW r \in Requests, PersistAuthority(r) PROVE TypeOK'
    <2>. DEFINE rows == {Certificate(v) : v \in work[r].versions}
    <2>1. rows \subseteq Authority
      BY DEF Certificate, Authority, TypeOK, Database, Version
    <2>2. [NoRows EXCEPT !.authorities = rows] \in Database
      BY <2>1 DEF NoRows, Database
    <2>. HIDE DEF rows
    <2>3. /\ work' \in [Requests -> Database]
          /\ pc' \in [Requests -> Pcs]
          /\ answer' \in [Requests -> [kind : AnswerKinds, current : Nat]]
      <3>1. CASE IdentityIsCertified(r)
        BY <1>17, <2>2, <3>1, WriteType
        DEF PersistAuthority, rows, TypeOK, Goto, Pcs, Statements
      <3>2. CASE ~IdentityIsCertified(r)
        <4>1. "missing_authority" \in AnswerKinds
          BY DEF AnswerKinds
        <4>. QED
          BY <1>17, <3>2, <4>1, RaiseType DEF PersistAuthority, TypeOK
      <3>. QED
        BY <3>1, <3>2
    <2>. QED
      BY <1>17, <2>3 DEF PersistAuthority, TypeOK
  <1>18. ASSUME NEW r \in Requests, ServerError(r) PROVE TypeOK'
    <2>1. EndTx(r, "failed", FALSE) /\ Raise(r, "failed", 0)
      BY <1>18 DEF ServerError
    <2>2. /\ answer' \in [Requests -> [kind : AnswerKinds, current : Nat]]
          /\ pc' \in [Requests -> Pcs]
      BY <2>1, RaiseType DEF AnswerKinds
    <2>3. faults' \in Nat /\ UNCHANGED <<req, current, lease>>
      BY <1>18 DEF ServerError, TypeOK
    <2>. QED
      BY <2>1, <2>2, <2>3, EndTxType DEF TypeOK
  <1>19. ASSUME NEW r \in Requests, Disconnect(r) PROVE TypeOK'
    <2>1. /\ answer' \in [Requests -> [kind : AnswerKinds, current : Nat]]
          /\ pc' \in [Requests -> Pcs]
      <3>1. "failed" \in AnswerKinds /\ "release" \in Pcs
        BY DEF AnswerKinds, Pcs
      <3>2. Answer("failed", 0) \in [kind : AnswerKinds, current : Nat]
        BY <3>1 DEF Answer
      <3>3. CASE Raise(r, "failed", 0)
        BY <3>1, <3>3, RaiseType
      <3>4. CASE answer' = [answer EXCEPT ![r] = Answer("failed", 0)] /\ Goto(r, "release")
        BY <3>1, <3>2, <3>4 DEF TypeOK, Goto
      <3>5. CASE UNCHANGED <<pc, answer>>
        BY <3>5 DEF TypeOK
      <3>. QED
        BY <1>19, <3>3, <3>4, <3>5 DEF Disconnect
    <2>2. tx' \in [Requests ->
                     {"none", "open", "failed", "orphan", "committing", "ended"}]
      <3>1. PICK t \in {"orphan", "committing", "ended"} :
              tx' \in {tx, [tx EXCEPT ![r] = t]}
        BY <1>19, Zenon DEF Disconnect
      <3>. QED
        BY <3>1 DEF TypeOK
    <2>3. lease' \in [Requests -> {"none", "held", "broken", "returned", "destroyed"}]
      BY <1>19 DEF Disconnect, TypeOK
    <2>4. faults' \in Nat /\ UNCHANGED <<db, work, snap, lock, req, current>>
      BY <1>19 DEF Disconnect, TypeOK
    <2>. QED
      BY <2>1, <2>2, <2>3, <2>4 DEF TypeOK
  <1>20. ASSUME NEW r \in Requests, Server(r) PROVE TypeOK'
    <2>1. PICK keep \in BOOLEAN : EndTx(r, "ended", keep)
      BY <1>20 DEF Server, ServerAborts, ServerCommits
    <2>. QED
      BY <1>20, <2>1, EndTxType DEF Server, ServerAborts, ServerCommits, TypeOK
  <1>21. CASE UNCHANGED vars
    BY <1>21 DEF vars, TypeOK
  <1>. QED
    BY <1>1, <1>2, <1>3, <1>4, <1>5, <1>6, <1>7, <1>8, <1>9, <1>10, <1>11, <1>12,
       <1>13, <1>14, <1>15, <1>16, <1>17, <1>18, <1>19, <1>20, <1>21
    DEF Next, Client, Finished

-----------------------------------------------------------------------------
(* What a step can do to the version rows *)

\* No new version row: rows of a transaction may go.
Quiet ==
  /\ db'.versions = db.versions
  /\ \A s \in Requests : work'[s].versions \subseteq work[s].versions

Inserts(r, v) ==
  /\ db'.versions = db.versions
  /\ work'[r].versions = {v}
  /\ \A s \in Requests \ {r} : work'[s].versions = work[s].versions

Commits(r) ==
  /\ db'.versions = db.versions \cup work[r].versions
  /\ work'[r].versions = {}
  /\ \A s \in Requests \ {r} : work'[s].versions = work[s].versions

\* A row that may join the rows in flight.
Admissible(r, v) ==
  /\ v.id = r
  /\ \A w \in db.versions : ~SameKey(v, w)
  /\ \A s \in Requests \ {r} : \A w \in work[s].versions : ~SameKey(v, w)
  /\ Follows(v)

LEMMA EndTxEffect ==
  ASSUME Inv, NEW r \in Requests, NEW keep \in BOOLEAN, NEW status,
         EndTx(r, status, keep)
  PROVE  Quiet \/ Commits(r)
  BY DEF EndTx, Inv, TypeOK, Database, Merge, NoRows, Quiet, Commits

\* Rows of the other tables do not matter.
LEMMA OtherTables ==
  ASSUME Inv, NEW r \in Requests, NEW rows \in Database, rows.versions = {},
         Write(r, rows), UNCHANGED db
  PROVE  Quiet
  <1>1. Merge(work[r], rows).versions = work[r].versions
    BY DEF Merge
  <1>. QED
    BY <1>1 DEF Write, Inv, TypeOK, Quiet

LEMMA NewVersion ==
  ASSUME Inv, NEW r \in Requests, NEW v, work[r].versions = {},
         Write(r, [NoRows EXCEPT !.versions = {v}]), UNCHANGED db
  PROVE  Inserts(r, v)
  <1>1. Merge(work[r], [NoRows EXCEPT !.versions = {v}]).versions = {v}
    BY DEF Merge, NoRows
  <1>. QED
    BY <1>1 DEF Write, Inv, TypeOK, Inserts

LEMMA InsertFirstEffect ==
  ASSUME Inv, NEW r \in Requests, InsertFirst(r)
  PROVE  /\ \E v : Inserts(r, v) /\ Admissible(r, v)
         /\ pc'[r] \notin BeforeInsert
  <1>. DEFINE row == [id |-> r, claim |-> r, number |-> 1, basedOn |-> None]
  <1>. USE DEF Inv
  <1>1. pc[r] = "insert_first" /\ pc[r] \in BeforeInsert
    BY DEF InsertFirst, Executing, BeforeInsert
  <1>2. work[r].versions = {} /\ \A w \in db.versions : w.id # r
    BY <1>1 DEF Fresh
  <1>3. Write(r, [NoRows EXCEPT !.versions = {row}]) /\ UNCHANGED db
    BY DEF InsertFirst
  <1>4. Inserts(r, row)
    BY <1>2, <1>3, NewVersion
  <1>5. Admissible(r, row)
    <2>1. ASSUME NEW w \in db.versions PROVE ~SameKey(row, w)
      BY <1>2 DEF LinearHistory, Follows, SameKey
    <2>2. ASSUME NEW s \in Requests \ {r}, NEW w \in work[s].versions
          PROVE  ~SameKey(row, w)
      BY DEF PendingRows, Follows, SameKey
    <2>. QED
      BY <2>1, <2>2 DEF Admissible, Follows
  <1>6. pc'[r] \notin BeforeInsert
    BY DEF InsertFirst, Goto, TypeOK, BeforeInsert
  <1>. QED
    BY <1>4, <1>5, <1>6

LEMMA InsertRevisionEffect ==
  ASSUME Inv, NEW r \in Requests, InsertRevision(r)
  PROVE  /\ Quiet \/ \E v : Inserts(r, v) /\ Admissible(r, v)
         /\ pc'[r] \notin BeforeInsert
  <1>. USE DEF Inv
  <1>1. pc[r] = "insert" /\ pc[r] \in BeforeInsert
    BY DEF InsertRevision, Executing, BeforeInsert
  <1>2. work[r].versions = {} /\ current[r] \in db.versions
        /\ current[r].claim = req[r].claim
    BY <1>1 DEF Fresh, ReadIsCommitted
  <1>3. pc'[r] \notin BeforeInsert
    BY DEF InsertRevision, Raise, Goto, TypeOK, BeforeInsert
  <1>4. CASE EndTx(r, "failed", FALSE)
    <2>1. Quiet
      BY <1>4 DEF EndTx, TypeOK, NoRows, Quiet
    <2>. QED
      BY <1>3, <2>1
  <1>5. CASE /\ \A w \in db.versions : ~SameKey(w, Revision(r))
             /\ Write(r, [NoRows EXCEPT !.versions = {Revision(r)}])
             /\ UNCHANGED db
    <2>1. Inserts(r, Revision(r))
      BY <1>2, <1>5, NewVersion
    <2>2. /\ Revision(r).id = r
          /\ Revision(r).claim = current[r].claim
          /\ Revision(r).number = current[r].number + 1
          /\ Revision(r).basedOn = current[r].id
      BY <1>2 DEF Revision
    <2>3. current[r].number \in Nat \ {0}
      BY <1>2 DEF TypeOK, Database, Version
    <2>4. Follows(Revision(r))
      BY <1>2, <2>2, <2>3 DEF Follows
    <2>5. \A s \in Requests \ {r} : \A w \in work[s].versions :
            ~SameKey(w, Revision(r))
      BY DEF InsertRevision
    <2>6. Admissible(r, Revision(r))
      BY <1>5, <2>2, <2>4, <2>5 DEF Admissible, SameKey
    <2>. QED
      BY <1>3, <2>1, <2>6
  <1>. QED
    BY <1>4, <1>5 DEF InsertRevision

LEMMA VersionsStep ==
  ASSUME Inv, [Next]_vars
  PROVE  \/ Quiet
         \/ \E r \in Requests : Commits(r)
         \/ \E r \in Requests : \E v : Inserts(r, v) /\ Admissible(r, v)
                                     /\ pc'[r] \notin BeforeInsert
  <1>1. ASSUME UNCHANGED <<db, work>> PROVE Quiet
    BY <1>1 DEF Quiet
  <1>2. ASSUME NEW r \in Requests, NEW k \in BOOLEAN, NEW status,
               EndTx(r, status, k)
        PROVE  Quiet \/ Commits(r)
    BY <1>2, EndTxEffect
  <1>3. ASSUME NEW r \in Requests, Arrive(r) PROVE Quiet
    BY <1>1, <1>3 DEF Arrive
  <1>4. ASSUME NEW r \in Requests,
               \/ Connect(r) \/ Begin(r) \/ RollbackFails(r) \/ Refresh(r)
               \/ Release(r) \/ RequireIdentity(r) \/ AwaitLock(r)
               \/ LockClaim(r) \/ ReadCurrent(r) \/ Disconnect(r)
        PROVE  Quiet
    BY <1>1, <1>4 DEF Connect, Begin, RollbackFails, Refresh, Release,
         RequireIdentity, AwaitLock, LockClaim, ReadCurrent, Disconnect
  <1>5. ASSUME NEW r \in Requests,
               Commit(r) \/ Rollback(r) \/ ServerError(r) \/ Server(r)
        PROVE  Quiet \/ Commits(r)
    BY <1>2, <1>5 DEF Commit, Rollback, ServerError, Server, ServerAborts,
                      ServerCommits
  <1>6. ASSUME NEW r \in Requests, InsertClaim(r) PROVE Quiet
    <2>. DEFINE rows == [NoRows EXCEPT !.claims = {r}]
    <2>1. rows \in Database /\ rows.versions = {}
      BY <1>6 DEF InsertClaim, Executing, Inv, Roles, NoRows, Database
    <2>2. Write(r, rows) /\ UNCHANGED db
      BY <1>6 DEF InsertClaim
    <2>. HIDE DEF rows
    <2>. QED
      BY <2>1, <2>2, OtherTables
  <1>7. ASSUME NEW r \in Requests, PersistIdentity(r) PROVE Quiet
    <2>. DEFINE rows == [NoRows EXCEPT !.identities = {r}]
    <2>1. rows \in Database /\ rows.versions = {}
      BY <1>7 DEF PersistIdentity, Executing, Inv, Roles, NoRows, Database
    <2>2. Write(r, rows) /\ UNCHANGED db
      BY <1>7 DEF PersistIdentity
    <2>. HIDE DEF rows
    <2>. QED
      BY <2>1, <2>2, OtherTables
  <1>8. ASSUME NEW r \in Requests, PersistAuthority(r) PROVE Quiet
    <2>. DEFINE rows ==
           [NoRows EXCEPT !.authorities = {Certificate(v) : v \in work[r].versions}]
    <2>1. {Certificate(v) : v \in work[r].versions} \subseteq Authority
      BY DEF Certificate, Authority, Inv, TypeOK, Database, Version
    <2>2. rows \in Database /\ rows.versions = {}
      BY <2>1 DEF NoRows, Database
    <2>3. (Write(r, rows) \/ UNCHANGED work) /\ UNCHANGED db
      BY <1>8 DEF PersistAuthority
    <2>. HIDE DEF rows
    <2>. QED
      BY <1>1, <2>2, <2>3, OtherTables
  <1>9. CASE UNCHANGED vars
    BY <1>1, <1>9 DEF vars
  <1>. QED
    BY <1>3, <1>4, <1>5, <1>6, <1>7, <1>8, <1>9, InsertFirstEffect,
       InsertRevisionEffect
    DEF Next, Client, Finished

-----------------------------------------------------------------------------
(* What a step can do to the control of a request *)

\* A request that has not inserted yet had not before.
StaysBefore == \A s \in Requests : pc'[s] \in BeforeInsert => pc[s] \in BeforeInsert

\* A request at its insert was there, or has just read the latest version.
ReadsWell ==
  \A s \in Requests :
    pc'[s] = "insert" =>
      /\ req'[s] = req[s]
      /\ \/ pc[s] = "insert" /\ current'[s] = current[s]
         \/ current'[s] \in VersionsOf(Sees(s), req[s].claim)

SnapshotsWell ==
  \A s \in Requests : snap'[s] \in {snap[s], None, Sees(s)}

LEMMA ControlStep ==
  ASSUME Inv, [Next]_vars
  PROVE  StaysBefore /\ ReadsWell /\ SnapshotsWell /\ Roles'
  <1>. USE DEF Inv
  <1>. DEFINE Control == StaysBefore /\ ReadsWell /\ Roles'
  <1>1. ASSUME NEW r \in Requests, Arrive(r) PROVE Control /\ UNCHANGED snap
    BY <1>1 DEF Arrive, TypeOK, Goto, StaysBefore, ReadsWell, Roles, BeforeInsert
  <1>2. ASSUME NEW r \in Requests,
               \/ Connect(r) \/ Begin(r) \/ Commit(r) \/ RollbackFails(r)
               \/ Rollback(r) \/ Refresh(r) \/ Release(r)
        PROVE  Control
    BY <1>2 DEF Connect, Begin, Commit, Rollback, RollbackFails, Refresh, Release,
         TypeOK, Goto, StaysBefore, ReadsWell, Roles, BeforeInsert
  <1>3. ASSUME NEW r \in Requests,
               InsertClaim(r) \/ InsertFirst(r) \/ PersistIdentity(r)
        PROVE  Control
    BY <1>3 DEF InsertClaim, InsertFirst, PersistIdentity, Executing,
         TypeOK, Goto, StaysBefore, ReadsWell, Roles, BeforeInsert
  <1>4. ASSUME NEW r \in Requests, RequireIdentity(r) \/ AwaitLock(r) \/ LockClaim(r)
        PROVE  Control
    BY <1>4 DEF RequireIdentity, AwaitLock, LockClaim, Executing, Raise,
         TypeOK, Goto, StaysBefore, ReadsWell, Roles, BeforeInsert
  <1>5. ASSUME NEW r \in Requests, ReadCurrent(r) PROVE Control
    <2>1. CASE \E v \in VersionsOf(Sees(r), req[r].claim) :
                 current' = [current EXCEPT ![r] = v] /\ Goto(r, "insert")
      BY <1>5, <2>1 DEF ReadCurrent, Executing, TypeOK, Goto, StaysBefore,
                        ReadsWell, Roles, BeforeInsert
    <2>2. CASE Goto(r, "rollback") /\ UNCHANGED current
      BY <1>5, <2>2 DEF ReadCurrent, TypeOK, Goto, StaysBefore, ReadsWell, Roles,
                        BeforeInsert
    <2>. QED
      BY <1>5, <2>1, <2>2 DEF ReadCurrent, Raise
  <1>6. ASSUME NEW r \in Requests, InsertRevision(r) PROVE Control
    BY <1>6 DEF InsertRevision, Executing, Raise, TypeOK, Goto, StaysBefore,
                ReadsWell, Roles, BeforeInsert
  <1>7. ASSUME NEW r \in Requests, PersistAuthority(r) PROVE Control
    BY <1>7 DEF PersistAuthority, Raise, TypeOK, Goto, StaysBefore, ReadsWell,
                Roles, BeforeInsert
  <1>8. ASSUME NEW r \in Requests, ServerError(r) \/ Disconnect(r) PROVE Control
    BY <1>8 DEF ServerError, Disconnect, Raise, TypeOK, Goto, StaysBefore,
                ReadsWell, Roles, BeforeInsert
  <1>9. ASSUME NEW r \in Requests, Server(r) PROVE Control
    BY <1>9 DEF Server, ServerAborts, ServerCommits, StaysBefore, ReadsWell, Roles
  <1>10. CASE UNCHANGED vars
    BY <1>10 DEF vars, StaysBefore, ReadsWell, SnapshotsWell, Roles
  <1>11. ASSUME NEW r \in Requests,
                \/ UNCHANGED snap
                \/ TakeSnapshot(r)
                \/ \E status, keep : EndTx(r, status, keep)
         PROVE  SnapshotsWell
    BY <1>11 DEF TakeSnapshot, EndTx, TypeOK, SnapshotsWell
  <1>12. ASSUME NEW r \in Requests, Arrive(r) \/ Client(r) \/ Server(r) \/
                                    ServerError(r) \/ Disconnect(r)
         PROVE  SnapshotsWell
    <2>1. ASSUME \/ Arrive(r) \/ Connect(r) \/ Begin(r) \/ RollbackFails(r)
                 \/ Refresh(r) \/ Release(r) \/ InsertFirst(r)
                 \/ PersistIdentity(r) \/ ReadCurrent(r) \/ PersistAuthority(r)
                 \/ Disconnect(r)
          PROVE  UNCHANGED snap
      BY <2>1 DEF Arrive, Connect, Begin, RollbackFails, Refresh, Release,
           InsertFirst, PersistIdentity, ReadCurrent, PersistAuthority, Disconnect
    <2>2. ASSUME InsertClaim(r) \/ RequireIdentity(r) \/ AwaitLock(r) \/ LockClaim(r)
          PROVE  TakeSnapshot(r)
      BY <2>2 DEF InsertClaim, RequireIdentity, AwaitLock, LockClaim
    <2>3. ASSUME \/ Commit(r) \/ Rollback(r) \/ ServerError(r) \/ Server(r)
                 \/ InsertRevision(r)
          PROVE  UNCHANGED snap \/ \E status, keep : EndTx(r, status, keep)
      BY <2>3 DEF Commit, Rollback, ServerError, Server, ServerAborts,
                  ServerCommits, InsertRevision
    <2>. QED
      BY <1>11, <1>12, <2>1, <2>2, <2>3 DEF Client
  <1>. QED
    BY <1>1, <1>2, <1>3, <1>4, <1>5, <1>6, <1>7, <1>8, <1>9, <1>10, <1>12
    DEF Next, Client, Finished

-----------------------------------------------------------------------------
(* The invariant is inductive *)

LEMMA VersionsGrow ==
  ASSUME Inv, [Next]_vars
  PROVE  db.versions \subseteq db'.versions
  BY VersionsStep DEF Quiet, Inserts, Commits

\* A well-founded row stays so as the table grows.
LEMMA FollowsStays ==
  ASSUME db.versions \subseteq db'.versions, NEW v, Follows(v)
  PROVE  Follows(v)'
  BY DEF Follows

LEMMA FreshStep ==
  ASSUME Inv, [Next]_vars
  PROVE  Fresh'
  <1>. USE DEF Inv
  <1>. SUFFICES ASSUME NEW s \in Requests, pc'[s] \in BeforeInsert
                PROVE  work'[s].versions = {} /\ \A v \in db'.versions : v.id # s
    BY DEF Fresh, BeforeInsert
  <1>1. work[s].versions = {} /\ \A v \in db.versions : v.id # s
    BY ControlStep DEF StaysBefore, Fresh
  <1>2. CASE Quiet
    BY <1>1, <1>2 DEF Quiet
  <1>3. ASSUME NEW r \in Requests, Commits(r)
        PROVE  work'[s].versions = {} /\ \A v \in db'.versions : v.id # s
    BY <1>1, <1>3 DEF Commits, PendingRows
  <1>4. ASSUME NEW r \in Requests, NEW v, Inserts(r, v), pc'[r] \notin BeforeInsert
        PROVE  work'[s].versions = {} /\ \A w \in db'.versions : w.id # s
    BY <1>1, <1>4 DEF Inserts
  <1>. QED
    BY <1>2, <1>3, <1>4, VersionsStep

LEMMA ReadStep ==
  ASSUME Inv, [Next]_vars
  PROVE  ReadIsCommitted' /\ SnapshotIsPast'
  <1>. USE DEF Inv
  <1>1. \A s \in Requests : Sees(s).versions \subseteq db.versions
    BY DEF Sees, SnapshotIsPast
  <1>2. ReadIsCommitted'
    BY <1>1, ControlStep, VersionsGrow DEF ReadsWell, ReadIsCommitted, VersionsOf
  <1>3. SnapshotIsPast'
    BY <1>1, ControlStep, VersionsGrow DEF SnapshotsWell, SnapshotIsPast
  <1>. QED
    BY <1>2, <1>3

LEMMA RowsStep ==
  ASSUME Inv, [Next]_vars
  PROVE  PendingRows' /\ LinearHistory'
  <1>. USE DEF Inv
  <1>f. ASSUME NEW v, Follows(v) PROVE Follows(v)'
    BY <1>f, VersionsGrow, FollowsStays
  <1>1. CASE Quiet
    BY <1>1, <1>f DEF Quiet, PendingRows, LinearHistory
  <1>2. ASSUME NEW r \in Requests, Commits(r)
        PROVE  PendingRows' /\ LinearHistory'
    <2>1. PendingRows'
      BY <1>2, <1>f DEF Commits, PendingRows, SameKey
    <2>2. LinearHistory'
      BY <1>2, <1>f DEF Commits, PendingRows, LinearHistory, SameKey
    <2>. QED
      BY <2>1, <2>2
  <1>3. ASSUME NEW r \in Requests, NEW v, Inserts(r, v), Admissible(r, v)
        PROVE  PendingRows' /\ LinearHistory'
    <2>1. PendingRows'
      BY <1>3, <1>f DEF Inserts, Admissible, PendingRows, SameKey
    <2>2. LinearHistory'
      BY <1>3, <1>f DEF Inserts, LinearHistory
    <2>. QED
      BY <2>1, <2>2
  <1>. QED
    BY <1>1, <1>2, <1>3, VersionsStep

LEMMA InvStep == Inv /\ [Next]_vars => Inv'
  BY TypeStep, ControlStep, FreshStep, ReadStep, RowsStep DEF Inv

LEMMA Invariance == Spec => []Inv
  BY InitInv, InvStep, PTL DEF Spec

\* Every reachable state is of the declared types, at any size.
THEOREM TypeCorrect == Spec => []TypeOK
  <1>1. Inv => TypeOK
    BY DEF Inv
  <1>. QED
    BY <1>1, Invariance, PTL

\* Whatever the isolation level, the pool and the failures, the committed
\* versions of every claim form one gapless chain: createClaimVersion never
\* forks a history.
THEOREM HistoriesAreLinear == Spec => []LinearHistory
  <1>1. Inv => LinearHistory
    BY DEF Inv
  <1>. QED
    BY <1>1, Invariance, PTL

\* No step removes or rewrites a committed version.
THEOREM VersionsAreForever == Spec => [][db.versions \subseteq db'.versions]_vars
  <1>1. Inv /\ [Next]_vars => [db.versions \subseteq db'.versions]_vars
    BY VersionsGrow
  <1>. QED
    BY <1>1, Invariance, PTL DEF Spec

-----------------------------------------------------------------------------
(* Answers, certificates and the refinement of ClaimHistory *)

\* A claim comes with its first version.
Coherent(d) == \A c \in d.claims : \E v \in d.versions : v.claim = c

\* The caller's input is fixed on arrival.
Input(r) ==
  r \in Creators /\ pc[r] # "new" => req[r].claim = r /\ req[r].base = 0

\* Where a request stands says how its transaction and its client stand: a
\* transaction outlives its request only when ROLLBACK failed.
Stage(r) ==
  /\ pc[r] \in {"new", "connect", "begin"} =>
       tx[r] = "none" /\ answer[r].kind = "none"
  /\ pc[r] \in Statements =>
       tx[r] = "open" /\ lease[r] = "held" /\ answer[r].kind = "none"
  /\ pc[r] = "rollback" =>
       /\ answer[r].kind \notin {"none", "created", "unknown"}
       /\ \/ lease[r] = "held" /\ tx[r] \in {"open", "failed"}
          \/ lease[r] = "broken" /\ tx[r] \in {"orphan", "committing", "ended"}
  /\ pc[r] \in {"refresh", "release", "done"} =>
       /\ answer[r].kind # "none"
       /\ \/ tx[r] \in {"none", "ended"}
          \/ answer[r].kind = "unknown" /\ tx[r] \in {"orphan", "committing"}
  /\ pc[r] = "refresh" => answer[r].kind = "duplicate"

\* A transaction writes rows of its own request, and a certificate only of
\* the version beside it, under a claim that is or becomes certified.
OwnRows(r) ==
  /\ tx[r] \in {"none", "failed", "ended"} => work[r] = NoRows
  /\ work[r].claims \subseteq {r}
  /\ work[r].identities \subseteq work[r].claims
  /\ \A a \in work[r].authorities :
       /\ req[r].authenticated
       /\ a.claim \in db.identities \cup work[r].identities
       /\ \E v \in work[r].versions : a = Certificate(v)

Versioned(r) ==
  \E v \in work[r].versions :
    v.claim = req[r].claim /\ v.number = req[r].base + 1

\* What the statements executed so far have achieved.
Achieved(r) ==
  /\ pc[r] \in {"insert_first", "identity"} => work[r].claims = {r}
  /\ pc[r] \in {"identity", "authority"} => req[r].authenticated
  /\ pc[r] \in {"identity", "authority", "commit"} \/ tx[r] = "committing" =>
       Versioned(r)
  /\ pc[r] = "commit" \/ tx[r] = "committing" =>
       (req[r].authenticated <=> work[r].authorities # {})
  /\ pc[r] = "read" => req[r].claim \in Sees(r).claims
  /\ pc[r] = "insert" => current[r].number = req[r].base

\* Nothing of the request is committed.
Absent(r) == /\ \A v \in db.versions : v.id # r
             /\ r \notin db.claims
             /\ \A a \in db.authorities : a.id # r

\* All of it is.
Durable(r) ==
  /\ \E v \in db.versions :
       v.id = r /\ v.claim = req[r].claim /\ v.number = req[r].base + 1
  /\ req[r].authenticated <=> \E a \in db.authorities : a.id = r

\* Only a request whose ROLLBACK failed, or is bound to fail, may be committed
\* without having said so.
Fate(r) ==
  /\ tx[r] # "ended" => Absent(r)
  /\ \/ answer[r].kind \in {"created", "unknown"}
     \/ pc[r] = "rollback" /\ lease[r] = "broken"
     \/ Absent(r)
  /\ answer[r].kind = "created" => Durable(r)

\* An error tells something about the committed versions.
Report(r) ==
  /\ answer[r].kind # "invariant"
  /\ answer[r].kind = "duplicate" =>
       \E v \in db.versions :
         v.claim = req[r].claim /\ v.number = req[r].base + 1
  /\ answer[r].kind = "conflict" /\ answer[r].current # 0 =>
       /\ answer[r].current # req[r].base
       /\ \E v \in db.versions :
            v.claim = req[r].claim /\ v.number = answer[r].current

\* A snapshot is a database that was.
Past(r) ==
  snap[r] # None =>
    /\ snap[r].claims \subseteq db.claims
    /\ snap[r].versions \subseteq db.versions
    /\ snap[r].identities \subseteq db.identities
    /\ Coherent(snap[r])

Honest(r) == /\ Input(r) /\ Stage(r) /\ OwnRows(r) /\ Achieved(r)
             /\ Fate(r) /\ Report(r) /\ Past(r)

Telling == /\ \A r \in Requests : Honest(r)
           /\ Coherent(db)
           /\ AuthorityParity

-----------------------------------------------------------------------------
(* What the helpers of the machine do *)

LEMMA MergeFields ==
  ASSUME NEW a, NEW b
  PROVE  /\ Merge(a, b).claims = a.claims \cup b.claims
         /\ Merge(a, b).versions = a.versions \cup b.versions
         /\ Merge(a, b).identities = a.identities \cup b.identities
         /\ Merge(a, b).authorities = a.authorities \cup b.authorities
  BY DEF Merge

LEMMA WriteFields ==
  ASSUME TypeOK, NEW r \in Requests, NEW rows, Write(r, rows)
  PROVE  work'[r] = Merge(work[r], rows)
  BY DEF Write, TypeOK

LEMMA RaiseFields ==
  ASSUME TypeOK, NEW r \in Requests, NEW kind, NEW n, Raise(r, kind, n)
  PROVE  /\ answer'[r].kind = kind /\ answer'[r].current = n
         /\ pc'[r] = "rollback"
  BY DEF Raise, Goto, Answer, TypeOK

LEMMA EndFields ==
  ASSUME TypeOK, NEW r \in Requests, NEW status, NEW keep \in BOOLEAN,
         EndTx(r, status, keep)
  PROVE  /\ tx'[r] = status /\ work'[r] = NoRows /\ snap'[r] = None
         /\ keep => db' = Merge(db, work[r])
         /\ ~keep => db' = db
  BY DEF EndTx, TypeOK

LEMMA InitTelling == Init => Telling
  <1>. SUFFICES ASSUME Init PROVE Telling
    OBVIOUS
  <1>1. ASSUME NEW r \in Requests PROVE Honest(r)
    BY DEF Init, Honest, Input, Stage, OwnRows, Achieved, Fate, Absent, Report,
           Past, NoRows, Answer, Statements
  <1>2. Coherent(db) /\ AuthorityParity
    BY DEF Init, Coherent, AuthorityParity, NoRows
  <1>. QED
    BY <1>1, <1>2 DEF Telling

-----------------------------------------------------------------------------
(* A step of one request, seen by the others *)

Alone(r) ==
  /\ \A s \in Requests \ {r} :
       /\ pc'[s] = pc[s] /\ tx'[s] = tx[s] /\ work'[s] = work[s]
       /\ snap'[s] = snap[s] /\ req'[s] = req[s] /\ current'[s] = current[s]
       /\ lease'[s] = lease[s] /\ answer'[s] = answer[s]
  /\ db' = db \/ db' = Merge(db, work[r])

LEMMA AloneStep ==
  ASSUME Inv, NEW r \in Requests,
         Client(r) \/ Server(r) \/ Arrive(r) \/ ServerError(r) \/ Disconnect(r)
  PROVE  Alone(r)
  <1>. USE DEF Inv
  <1>1. CASE Arrive(r) \/ Connect(r) \/ Begin(r) \/ RollbackFails(r) \/ Refresh(r)
             \/ Release(r) \/ ReadCurrent(r)
    BY <1>1 DEF Arrive, Connect, Begin, RollbackFails, Refresh, Release,
                ReadCurrent, Raise, Goto, TypeOK, Alone
  <1>2. CASE Commit(r) \/ Rollback(r) \/ Server(r) \/ ServerError(r)
    BY <1>2 DEF Commit, Rollback, Server, ServerAborts, ServerCommits, ServerError,
                EndTx, Raise, Goto, TypeOK, Alone
  <1>3. CASE InsertClaim(r) \/ InsertFirst(r) \/ PersistIdentity(r)
             \/ RequireIdentity(r) \/ AwaitLock(r) \/ LockClaim(r)
    BY <1>3 DEF InsertClaim, InsertFirst, PersistIdentity, RequireIdentity,
                AwaitLock, LockClaim, Write, TakeSnapshot, Raise, Goto, TypeOK, Alone
  <1>4. CASE InsertRevision(r) \/ PersistAuthority(r)
    BY <1>4 DEF InsertRevision, PersistAuthority, Write, EndTx, Raise, Goto,
                TypeOK, Alone
  <1>5. CASE Disconnect(r)
    BY <1>5 DEF Disconnect, Raise, Goto, TypeOK, Alone
  <1>. QED
    BY <1>1, <1>2, <1>3, <1>4, <1>5 DEF Client

\* Whatever joins the database belongs to the request that commits it.
LEMMA Joins ==
  ASSUME Inv, Telling, NEW r \in Requests, db' = db \/ db' = Merge(db, work[r])
  PROVE  /\ db.claims \subseteq db'.claims /\ db'.claims \subseteq db.claims \cup {r}
         /\ db.versions \subseteq db'.versions
         /\ db.identities \subseteq db'.identities
         /\ db.authorities \subseteq db'.authorities
         /\ \A v \in db'.versions \ db.versions : v.id = r
         /\ \A a \in db'.authorities \ db.authorities : a.id = r
  <1>1. OwnRows(r)
    BY DEF Telling, Honest
  <1>2. \A a \in work[r].authorities : a.id = r
    BY <1>1 DEF OwnRows, Certificate, Inv, PendingRows
  <1>3. \A v \in work[r].versions : v.id = r
    BY DEF Inv, PendingRows
  <1>. QED
    BY <1>1, <1>2, <1>3, MergeFields DEF OwnRows

LEMMA OthersStayHonest ==
  ASSUME Inv, Telling, NEW r \in Requests, Alone(r), NEW s \in Requests \ {r}
  PROVE  Honest(s)'
  <1>1. Honest(s)
    BY DEF Telling
  <1>2. /\ pc'[s] = pc[s] /\ tx'[s] = tx[s] /\ work'[s] = work[s]
        /\ snap'[s] = snap[s] /\ req'[s] = req[s] /\ current'[s] = current[s]
        /\ lease'[s] = lease[s] /\ answer'[s] = answer[s]
    BY DEF Alone
  <1>3. /\ db.claims \subseteq db'.claims /\ db'.claims \subseteq db.claims \cup {r}
        /\ db.versions \subseteq db'.versions
        /\ db.identities \subseteq db'.identities
        /\ db.authorities \subseteq db'.authorities
        /\ \A v \in db'.versions \ db.versions : v.id = r
        /\ \A a \in db'.authorities \ db.authorities : a.id = r
    BY Joins DEF Alone
  <1>4. Input(s)' /\ Stage(s)'
    BY <1>1, <1>2 DEF Honest, Input, Stage
  <1>5. OwnRows(s)'
    BY <1>1, <1>2, <1>3 DEF Honest, OwnRows
  <1>6. Achieved(s)'
    BY <1>1, <1>2, <1>3 DEF Honest, Achieved, Versioned, Sees
  <1>7. Absent(s) => Absent(s)'
    BY <1>3 DEF Absent
  <1>8. Durable(s) => Durable(s)'
    BY <1>2, <1>3 DEF Durable
  <1>9. Fate(s)'
    BY <1>1, <1>2, <1>7, <1>8 DEF Honest, Fate
  <1>10. Report(s)'
    BY <1>1, <1>2, <1>3 DEF Honest, Report
  <1>11. Past(s)'
    BY <1>1, <1>2, <1>3 DEF Honest, Past, Coherent
  <1>. QED
    BY <1>4, <1>5, <1>6, <1>9, <1>10, <1>11 DEF Honest

-----------------------------------------------------------------------------
(* A step of a request, seen by itself *)

\* Steps that change no row.
LEMMA QuietSteps ==
  ASSUME Inv, Telling, NEW r \in Requests,
         Arrive(r) \/ Connect(r) \/ Begin(r) \/ RollbackFails(r) \/ Release(r)
  PROVE  Honest(r)'
  <1>. USE DEF Inv, TypeOK
  <1>1. Honest(r)
    BY DEF Telling
  <1>2. CASE Arrive(r)
    <2>1. UNCHANGED <<db, work, tx, snap, lock, current, lease, answer, faults>>
          /\ pc[r] = "new" /\ pc'[r] = "connect"
          /\ (r \in Creators => req'[r].claim = r /\ req'[r].base = 0)
      BY <1>2, RequestAssumption DEF Arrive, Goto
    <2>2. work[r] = NoRows /\ tx[r] = "none" /\ answer[r].kind = "none"
      BY <1>1, <2>1 DEF Honest, Stage, OwnRows
    <2>. QED
      BY <1>1, <2>1, <2>2 DEF Honest, Input, Stage, OwnRows, Achieved, Fate, Absent,
           Report, Past, Coherent, Versioned, Sees, NoRows, Statements
  <1>3. CASE Connect(r)
    BY <1>1, <1>3 DEF Connect, Goto, Honest, Input, Stage, OwnRows, Achieved, Fate,
         Absent, Report, Past, Coherent, Versioned, Sees, Statements
  <1>4. CASE Begin(r)
    BY <1>1, <1>4 DEF Begin, Goto, Honest, Input, Stage, OwnRows, Achieved, Fate,
         Absent, Report, Past, Coherent, Versioned, Sees, Statements, NoRows
  <1>5. CASE RollbackFails(r)
    BY <1>1, <1>5 DEF RollbackFails, Goto, Honest, Input, Stage, OwnRows, Achieved,
         Fate, Absent, Report, Past, Coherent, Versioned, Sees, Answer, Statements
  <1>6. CASE Release(r)
    BY <1>1, <1>6 DEF Release, Goto, Honest, Input, Stage, OwnRows, Achieved,
         Fate, Absent, Durable, Report, Past, Coherent, Versioned, Sees, Statements
  <1>. QED
    BY <1>2, <1>3, <1>4, <1>5, <1>6

\* The re-read after a 23505: the key the revision collided with is there, so
\* the latest number lies above the caller's base.
LEMMA RefreshStep ==
  ASSUME Inv, Telling, NEW r \in Requests, Refresh(r)
  PROVE  Honest(r)'
  <1>. USE DEF Inv, TypeOK
  <1>1. Honest(r)
    BY DEF Telling
  <1>2. PICK n \in IF lease[r] = "held" THEN LatestNumbers(db, req[r].claim) ELSE {0} :
          answer' = [answer EXCEPT ![r] = Answer("conflict", n)]
    BY DEF Refresh
  <1>3. n # 0 => /\ n # req[r].base
                 /\ \E v \in db.versions : v.claim = req[r].claim /\ v.number = n
    <2>. SUFFICES ASSUME n # 0
                  PROVE  /\ n # req[r].base
                         /\ \E v \in db.versions : v.claim = req[r].claim /\ v.number = n
      OBVIOUS
    <2>1. PICK v \in db.versions : /\ v.claim = req[r].claim /\ v.number = n
                                   /\ IsLatest(db, v)
      BY <1>2 DEF LatestNumbers, VersionsOf
    <2>2. PICK w \in db.versions : w.claim = req[r].claim /\ w.number = req[r].base + 1
      BY <1>1 DEF Refresh, Honest, Report, Achieved, Stage
    <2>. QED
      BY <2>1, <2>2 DEF IsLatest, VersionsOf, Database, Version
  <1>. QED
    BY <1>1, <1>2, <1>3 DEF Refresh, Goto, Honest, Input, Stage, OwnRows, Achieved,
         Fate, Absent, Report, Past, Coherent, Versioned, Sees, Answer, Statements

\* A transaction ends without its rows: by ROLLBACK, by a failed statement, or
\* when the server gives up a dead connection.
LEMMA AbortSteps ==
  ASSUME Inv, Telling, NEW r \in Requests,
         Rollback(r) \/ ServerError(r) \/ ServerAborts(r)
  PROVE  Honest(r)'
  <1>. USE DEF Inv
  <1>1. Honest(r)
    BY DEF Telling
  <1>2. PICK status \in {"failed", "ended"} : EndTx(r, status, FALSE)
    BY DEF Rollback, ServerError, ServerAborts
  <1>3. /\ tx'[r] = status /\ work'[r] = NoRows /\ snap'[r] = None /\ db' = db
        /\ UNCHANGED <<req, current, lease>>
    BY <1>2, EndFields DEF Rollback, ServerError, ServerAborts
  <1>4. CASE Rollback(r)
    BY <1>1, <1>2, <1>3, <1>4 DEF Rollback, Goto, EndTx, TypeOK, Honest, Input, Stage, OwnRows, Achieved,
         Fate, Absent, Report, Past, Coherent, Versioned, Sees, Statements, NoRows
  <1>5. CASE ServerError(r)
    <2>1. answer'[r].kind = "failed" /\ pc'[r] = "rollback"
      BY <1>5, RaiseFields DEF ServerError
    <2>2. status = "failed"
      BY <1>2, <1>3, <1>5 DEF ServerError, EndTx, TypeOK
    <2>. QED
      BY <1>1, <1>3, <1>5, <2>1, <2>2 DEF ServerError, Honest, Input, Stage, OwnRows, Achieved,
         Fate, Absent, Report, Past, Coherent, Versioned, Sees, Statements, NoRows
  <1>6. CASE ServerAborts(r)
    <2>1. /\ pc'[r] = pc[r] /\ answer'[r] = answer[r] /\ status = "ended"
          /\ tx[r] \in {"orphan", "committing"}
      BY <1>2, <1>3, <1>6 DEF ServerAborts, EndTx, TypeOK
    <2>a. Input(r)' /\ Stage(r)'
      BY <1>1, <1>3, <2>1 DEF Honest, Input, Stage, Statements
    <2>b. OwnRows(r)'
      BY <1>1, <1>3, <2>1 DEF Honest, OwnRows, NoRows
    <2>c. Achieved(r)'
      BY <1>1, <1>3, <2>1 DEF Honest, Achieved, Stage, Versioned, Sees, Statements
    <2>d. Fate(r)'
      BY <1>1, <1>3, <2>1 DEF Honest, Fate, Absent, Durable
    <2>e. Report(r)'
      BY <1>1, <1>3, <2>1 DEF Honest, Report
    <2>f. Past(r)'
      BY <1>1, <1>3, <2>1 DEF Honest, Past, Coherent
    <2>. QED
      BY <2>a, <2>b, <2>c, <2>d, <2>e, <2>f DEF Honest
  <1>. QED
    BY <1>4, <1>5, <1>6

\* A transaction ends with its rows: everything the caller asked for.
LEMMA CommitSteps ==
  ASSUME Inv, Telling, NEW r \in Requests, Commit(r) \/ ServerCommits(r)
  PROVE  Honest(r)'
  <1>. USE DEF Inv
  <1>1. Honest(r)
    BY DEF Telling
  <1>2. EndTx(r, "ended", TRUE) /\ UNCHANGED <<req, current, lease>>
    BY DEF Commit, ServerCommits
  <1>3. tx'[r] = "ended" /\ work'[r] = NoRows /\ snap'[r] = None
        /\ db' = Merge(db, work[r])
    BY <1>2, EndFields
  <1>4. pc[r] = "commit" \/ tx[r] = "committing"
    BY DEF Commit, ServerCommits, Executing
  <1>5. Durable(r)'
    <2>1. \A v \in work[r].versions : v.id = r
      BY DEF PendingRows
    <2>2. \A a \in work[r].authorities : a.id = r
      BY <1>1, <2>1 DEF Honest, OwnRows, Certificate
    <2>3. Absent(r) /\ Versioned(r)
          /\ (req[r].authenticated <=> work[r].authorities # {})
      BY <1>1, <1>4 DEF Honest, Achieved, Fate, Stage, Statements
    <2>. QED
      BY <1>2, <1>3, <2>1, <2>2, <2>3, MergeFields DEF Durable, Absent, Versioned
  <1>6. CASE Commit(r)
    <2>1. answer'[r].kind = "created" /\ pc'[r] = "release" /\ pc[r] = "commit"
      BY <1>6 DEF Commit, Executing, Answer, Goto, TypeOK
    <2>a. Input(r)' /\ Stage(r)'
      BY <1>1, <1>2, <1>3, <1>5, <2>1 DEF Honest, Input, Stage, Statements
    <2>b. OwnRows(r)'
      BY <1>1, <1>2, <1>3, <1>5, <2>1 DEF Honest, OwnRows, NoRows
    <2>c. Achieved(r)'
      BY <1>1, <1>2, <1>3, <1>5, <2>1 DEF Honest, Achieved, Stage, Versioned, Sees, Statements
    <2>d. Fate(r)'
      BY <1>1, <1>2, <1>3, <1>5, <2>1 DEF Honest, Fate, Absent, Stage
    <2>e. Report(r)'
      BY <1>1, <1>2, <1>3, <1>5, <2>1 DEF Honest, Report
    <2>f. Past(r)'
      BY <1>1, <1>2, <1>3, <1>5, <2>1 DEF Honest, Past, Coherent
    <2>. QED
      BY <2>a, <2>b, <2>c, <2>d, <2>e, <2>f DEF Honest
  <1>7. CASE ServerCommits(r)
    <2>1. pc'[r] = pc[r] /\ answer'[r] = answer[r] /\ tx[r] = "committing"
      BY <1>7 DEF ServerCommits
    <2>3. \/ answer[r].kind = "unknown"
          \/ pc[r] = "rollback" /\ lease[r] = "broken"
               /\ answer[r].kind \notin {"none", "created", "unknown"}
      BY <1>1, <2>1 DEF Honest, Stage, Statements, Pcs, TypeOK
    <2>2. db.versions \subseteq db'.versions
      BY <1>3, MergeFields
    <2>a. Input(r)' /\ Stage(r)'
      BY <1>1, <1>2, <1>3, <1>5, <2>1, <2>2 DEF Honest, Input, Stage, Statements
    <2>b. OwnRows(r)'
      BY <1>1, <1>2, <1>3, <1>5, <2>1, <2>2 DEF Honest, OwnRows, NoRows
    <2>c. Achieved(r)'
      BY <1>1, <1>2, <1>3, <1>5, <2>1, <2>2 DEF Honest, Achieved, Stage, Versioned, Sees, Statements
    <2>d. Fate(r)'
      BY <1>1, <1>2, <1>3, <1>5, <2>1, <2>2, <2>3 DEF Honest, Fate
    <2>e. Report(r)'
      BY <1>1, <1>2, <1>3, <1>5, <2>1, <2>2 DEF Honest, Report
    <2>f. Past(r)'
      BY <1>1, <1>2, <1>3, <1>5, <2>1, <2>2 DEF Honest, Past, Coherent
    <2>. QED
      BY <2>a, <2>b, <2>c, <2>d, <2>e, <2>f DEF Honest
  <1>. QED
    BY <1>6, <1>7

\* The statements of a creation, and the certificate of either kind of call.
LEMMA WriteSteps ==
  ASSUME Inv, Telling, NEW r \in Requests,
         InsertClaim(r) \/ InsertFirst(r) \/ PersistIdentity(r) \/ PersistAuthority(r)
  PROVE  Honest(r)'
  <1>. USE DEF Inv
  <1>1. Honest(r)
    BY DEF Telling
  <1>2. CASE InsertClaim(r)
    <2>1. r \in Creators /\ work'[r] = Merge(work[r], [NoRows EXCEPT !.claims = {r}])
      BY <1>2, WriteFields DEF InsertClaim, Executing, Roles
    <2>5. /\ UNCHANGED <<db, tx, req, current, lease, answer>>
          /\ pc[r] = "insert_claim" /\ pc'[r] = "insert_first" /\ tx[r] = "open"
      BY <1>2 DEF InsertClaim, Executing, Goto, TypeOK
    <2>2. /\ work'[r].claims = {r}
          /\ work'[r].versions = work[r].versions
          /\ work'[r].identities = work[r].identities
          /\ work'[r].authorities = work[r].authorities
      BY <1>1, <2>1 DEF Merge, NoRows, Honest, Achieved, OwnRows
    <2>3. snap'[r] \in {snap[r], Sees(r)}
      BY <1>2 DEF InsertClaim, TakeSnapshot, TypeOK
    <2>4. Past(r)'
      BY <1>1, <1>2, <2>3 DEF InsertClaim, Honest, Past, Sees, Telling, Coherent
    <2>a. Input(r)' /\ Stage(r)'
      BY <1>1, <2>2, <2>4, <2>5 DEF Honest, Input, Stage, Statements
    <2>b. OwnRows(r)'
      BY <1>1, <2>2, <2>4, <2>5 DEF Honest, OwnRows, NoRows
    <2>c. Achieved(r)'
      BY <1>1, <2>2, <2>4, <2>5 DEF Honest, Achieved, Stage, Versioned, Sees, Statements
    <2>d. Fate(r)'
      BY <1>1, <2>2, <2>4, <2>5 DEF Honest, Fate, Absent, Durable
    <2>e. Report(r)'
      BY <1>1, <2>2, <2>4, <2>5 DEF Honest, Report
    <2>f. Past(r)'
      BY <1>1, <2>2, <2>4, <2>5 DEF Honest, Past, Coherent
    <2>. QED
      BY <2>a, <2>b, <2>c, <2>d, <2>e, <2>f DEF Honest
  <1>3. CASE InsertFirst(r)
    <2>. DEFINE row == [id |-> r, claim |-> r, number |-> 1, basedOn |-> None]
    <2>1. r \in Creators /\ work'[r] = Merge(work[r], [NoRows EXCEPT !.versions = {row}])
      BY <1>3, WriteFields DEF InsertFirst, Executing, Roles
    <2>2. /\ work'[r].claims = work[r].claims
          /\ row \in work'[r].versions
          /\ work[r].versions \subseteq work'[r].versions
          /\ work'[r].identities = work[r].identities
          /\ work'[r].authorities = work[r].authorities
      BY <2>1 DEF Merge, NoRows
    <2>3. work[r].versions = {}
      BY <1>3 DEF InsertFirst, Executing, Fresh, BeforeInsert
    <2>4. row.claim = req[r].claim /\ row.number = req[r].base + 1
      BY <1>1, <1>3, <2>1 DEF InsertFirst, Executing, Honest, Input
    <2>5. Versioned(r)' /\ work[r].authorities = {}
      BY <1>1, <1>3, <2>2, <2>3, <2>4 DEF InsertFirst, Honest, OwnRows, Versioned
    <2>. HIDE DEF row
    <2>. QED
      BY <1>1, <1>3, <2>2, <2>5 DEF InsertFirst, Executing, Goto, TypeOK, Honest, Input, Stage, OwnRows, Achieved,
         Fate, Absent, Report, Past, Coherent, Versioned, Sees, Statements
  <1>4. CASE PersistIdentity(r)
    <2>1. r \in Creators /\ work'[r] = Merge(work[r], [NoRows EXCEPT !.identities = {r}])
      BY <1>4, WriteFields DEF PersistIdentity, Executing, Roles
    <2>2. /\ work'[r].claims = work[r].claims
          /\ work'[r].versions = work[r].versions
          /\ work'[r].identities = work[r].identities \cup {r}
          /\ work'[r].authorities = work[r].authorities
      BY <2>1 DEF Merge, NoRows
    <2>. QED
      BY <1>1, <1>4, <2>2 DEF PersistIdentity, Executing, Goto, TypeOK, Honest, Input, Stage, OwnRows, Achieved,
         Fate, Absent, Report, Past, Coherent, Versioned, Sees, Statements
  <1>5. CASE PersistAuthority(r) /\ IdentityIsCertified(r)
    <2>. DEFINE rows == {Certificate(v) : v \in work[r].versions}
    <2>1. work'[r] = Merge(work[r], [NoRows EXCEPT !.authorities = rows])
      BY <1>5, WriteFields DEF PersistAuthority
    <2>2. /\ work'[r].claims = work[r].claims
          /\ work'[r].versions = work[r].versions
          /\ work'[r].identities = work[r].identities
          /\ work'[r].authorities = work[r].authorities \cup rows
      BY <2>1 DEF Merge, NoRows
    <2>3. req[r].claim \in db.identities \cup work[r].identities
      BY <1>1, <1>5 DEF IdentityIsCertified, Honest, Past, Sees
    <2>4. Versioned(r) /\ req[r].authenticated
      BY <1>1, <1>5 DEF PersistAuthority, Executing, Honest, Achieved
    <2>8. \A v \in work[r].versions : v.claim = req[r].claim
      BY <2>4 DEF Versioned, PendingRows
    <2>5. /\ rows # {}
          /\ \A a \in rows : a.claim = req[r].claim
      <3>1. \A v \in work[r].versions : Certificate(v).claim = v.claim
        BY DEF Certificate
      <3>2. PICK v \in work[r].versions : TRUE
        BY <2>4 DEF Versioned
      <3>3. Certificate(v) \in rows
        BY <3>2
      <3>. QED
        BY <2>8, <3>1, <3>3
    <2>6. UNCHANGED <<db, tx, snap, req, current, lease, answer>> /\ pc'[r] = "commit"
          /\ pc[r] = "authority" /\ tx[r] = "open"
      BY <1>5 DEF PersistAuthority, Executing, Goto, TypeOK
    <2>7. OwnRows(r)'
      BY <1>1, <2>2, <2>3, <2>4, <2>5, <2>6 DEF Honest, OwnRows
    <2>. HIDE DEF rows
    <2>. QED
      BY <1>1, <2>2, <2>4, <2>5, <2>6, <2>7 DEF Honest, Input, Stage, OwnRows, Achieved,
         Fate, Absent, Report, Past, Coherent, Versioned, Sees, Statements
  <1>6. CASE PersistAuthority(r) /\ ~IdentityIsCertified(r)
    <2>1. answer'[r].kind = "missing_authority" /\ pc'[r] = "rollback"
          /\ UNCHANGED <<db, work, tx, snap, req, current, lease>>
          /\ pc[r] = "authority"
      BY <1>6, RaiseFields DEF PersistAuthority, Executing
    <2>. QED
      BY <1>1, <2>1 DEF Honest, Input, Stage, OwnRows, Achieved,
         Fate, Absent, Report, Past, Coherent, Versioned, Sees, Statements
  <1>. QED
    BY <1>2, <1>3, <1>4, <1>5, <1>6

\* The statements of a revision up to its lock.
LEMMA LockSteps ==
  ASSUME Inv, Telling, NEW r \in Requests,
         RequireIdentity(r) \/ AwaitLock(r) \/ LockClaim(r)
  PROVE  Honest(r)'
  <1>. USE DEF Inv
  <1>1. Honest(r)
    BY DEF Telling
  <1>2. /\ snap'[r] \in {snap[r], Sees(r)}
        /\ UNCHANGED <<db, work, tx, req, current, lease>>
    BY DEF RequireIdentity, AwaitLock, LockClaim, TakeSnapshot, TypeOK
  <1>3. Past(r)' /\ Sees(r)' = Sees(r)
    BY <1>1, <1>2 DEF Honest, Past, Sees, Telling, Coherent
  <1>4. pc[r] \in {"require_identity", "lock"}
    BY DEF RequireIdentity, AwaitLock, LockClaim, Executing
  <1>5. CASE \E kind \in {"missing_authority", "not_found"} : Raise(r, kind, 0)
    <2>1. answer'[r].kind \in {"missing_authority", "not_found"} /\ pc'[r] = "rollback"
      BY <1>5, RaiseFields
    <2>. QED
      BY <1>1, <1>2, <1>3, <1>4, <2>1 DEF Honest, Input, Stage, OwnRows, Achieved,
         Fate, Absent, Report, Past, Coherent, Versioned, Sees, Statements
  <1>6. CASE UNCHANGED answer /\ pc'[r] \in {"require_identity", "lock"}
    BY <1>1, <1>2, <1>3, <1>4, <1>6 DEF Honest, Input, Stage, OwnRows, Achieved,
         Fate, Absent, Report, Past, Coherent, Versioned, Sees, Statements
  <1>7. CASE UNCHANGED answer /\ pc'[r] = "read" /\ req[r].claim \in Sees(r).claims
    BY <1>1, <1>2, <1>3, <1>4, <1>7 DEF Honest, Input, Stage, OwnRows, Achieved,
         Fate, Absent, Report, Past, Coherent, Versioned, Sees, Statements
  <1>. QED
    BY <1>5, <1>6, <1>7 DEF RequireIdentity, AwaitLock, LockClaim, Goto, Executing, TypeOK

\* The optimistic check.
LEMMA ReadSteps ==
  ASSUME Inv, Telling, NEW r \in Requests, ReadCurrent(r)
  PROVE  Honest(r)'
  <1>. USE DEF Inv
  <1>1. Honest(r)
    BY DEF Telling
  <1>2. UNCHANGED <<db, work, tx, snap, req, lease>> /\ pc[r] = "read"
    BY DEF ReadCurrent, Executing
  <1>3. CASE \E v \in VersionsOf(Sees(r), req[r].claim) :
               /\ StillCurrent(r, v.number)
               /\ current' = [current EXCEPT ![r] = v]
               /\ Goto(r, "insert") /\ UNCHANGED answer
    <2>1. current'[r].number = req[r].base /\ pc'[r] = "insert" /\ UNCHANGED answer
      BY <1>3 DEF StillCurrent, Goto, TypeOK
    <2>. QED
      BY <1>1, <1>2, <2>1 DEF Honest, Input, Stage, OwnRows, Achieved,
         Fate, Absent, Report, Past, Coherent, Versioned, Sees, Statements
  <1>4. CASE \E n \in LatestNumbers(Sees(r), req[r].claim) :
               /\ ~StillCurrent(r, n)
               /\ Raise(r, IF n = 0 THEN "invariant" ELSE "conflict", n)
               /\ UNCHANGED current
    <2>1. PICK n \in LatestNumbers(Sees(r), req[r].claim) :
            /\ ~StillCurrent(r, n)
            /\ Raise(r, IF n = 0 THEN "invariant" ELSE "conflict", n)
            /\ UNCHANGED current
      BY <1>4
    <2>2. Coherent(Sees(r)) /\ req[r].claim \in Sees(r).claims
          /\ Sees(r).versions \subseteq db.versions
      BY <1>1, <1>2 DEF Honest, Achieved, Past, Sees, Telling
    <2>3. PICK v \in VersionsOf(Sees(r), req[r].claim) : v.number = n
      BY <2>1, <2>2 DEF Coherent, LatestNumbers, VersionsOf
    <2>4. n # 0 /\ n # req[r].base
          /\ \E w \in db.versions : w.claim = req[r].claim /\ w.number = n
      BY <2>1, <2>2, <2>3 DEF StillCurrent, VersionsOf, TypeOK, Database, Version
    <2>5. answer'[r].kind = "conflict" /\ answer'[r].current = n /\ pc'[r] = "rollback"
      BY <2>1, <2>4, RaiseFields
    <2>. QED
      BY <1>1, <1>2, <2>1, <2>4, <2>5 DEF Honest, Input, Stage, OwnRows, Achieved,
         Fate, Absent, Report, Past, Coherent, Versioned, Sees, Statements
  <1>. QED
    BY <1>3, <1>4 DEF ReadCurrent

LEMMA InsertSteps ==
  ASSUME Inv, Telling, NEW r \in Requests, InsertRevision(r)
  PROVE  Honest(r)'
  <1>. USE DEF Inv
  <1>1. Honest(r)
    BY DEF Telling
  <1>2. UNCHANGED <<req, current, lease>> /\ pc[r] = "insert" /\ tx[r] = "open"
    BY DEF InsertRevision, Executing
  <1>3. /\ Revision(r).claim = req[r].claim
        /\ Revision(r).number = req[r].base + 1
    BY <1>1, <1>2 DEF Revision, Honest, Achieved
  <1>4. CASE /\ Write(r, [NoRows EXCEPT !.versions = {Revision(r)}])
             /\ Goto(r, IF req[r].authenticated THEN "authority" ELSE "commit")
             /\ UNCHANGED <<db, tx, snap, lock, answer>>
    <2>. DEFINE row == Revision(r)
    <2>5. work'[r] = Merge(work[r], [NoRows EXCEPT !.versions = {row}])
      BY <1>4, WriteFields
    <2>. HIDE DEF row
    <2>6. /\ work'[r].claims = work[r].claims
          /\ row \in work'[r].versions
          /\ work'[r].identities = work[r].identities
          /\ work'[r].authorities = work[r].authorities
      BY <2>5 DEF Merge, NoRows
    <2>1. /\ work'[r].claims = work[r].claims
          /\ Revision(r) \in work'[r].versions
          /\ work'[r].identities = work[r].identities
          /\ work'[r].authorities = work[r].authorities
      BY <2>6 DEF row
    <2>2. work[r].authorities = {}
      BY <1>1, <1>2 DEF Fresh, BeforeInsert, Honest, OwnRows
    <2>3. pc'[r] = IF req[r].authenticated THEN "authority" ELSE "commit"
      BY <1>4 DEF Goto, TypeOK
    <2>4. Versioned(r)'
      BY <1>2, <1>3, <2>1 DEF Versioned
    <2>. QED
      BY <1>1, <1>2, <1>4, <2>1, <2>2, <2>3, <2>4 DEF Honest, Input, Stage, OwnRows, Achieved,
         Fate, Absent, Report, Past, Coherent, Versioned, Sees, Statements
  <1>5. CASE /\ \E w \in db.versions : SameKey(w, Revision(r))
             /\ Raise(r, IF req[r].authenticated THEN "failed" ELSE "duplicate", 0)
             /\ EndTx(r, "failed", FALSE)
    <2>1. /\ tx'[r] = "failed" /\ work'[r] = NoRows /\ snap'[r] = None /\ db' = db
      BY <1>5, EndFields
    <2>2. answer'[r].kind \in {"failed", "duplicate"} /\ pc'[r] = "rollback"
      BY <1>5, RaiseFields
    <2>3. \E v \in db.versions : v.claim = req[r].claim /\ v.number = req[r].base + 1
      BY <1>3, <1>5 DEF SameKey
    <2>. QED
      BY <1>1, <1>2, <2>1, <2>2, <2>3 DEF Honest, Input, Stage, OwnRows, Achieved,
         Fate, Absent, Report, Past, Coherent, Versioned, Sees, Statements, NoRows
  <1>. QED
    BY <1>4, <1>5 DEF InsertRevision

\* The connection dies, and only a COMMIT that was sent may still take effect.
LEMMA DisconnectSteps ==
  ASSUME Inv, Telling, NEW r \in Requests, Disconnect(r)
  PROVE  Honest(r)'
  <1>. USE DEF Inv
  <1>1. Honest(r)
    BY DEF Telling
  <1>2. UNCHANGED <<db, work, snap, req, current>>
        /\ lease[r] = "held" /\ lease'[r] = "broken"
    BY DEF Disconnect, TypeOK
  <1>3. CASE /\ pc[r] = "begin"
             /\ answer' = [answer EXCEPT ![r] = Answer("failed", 0)]
             /\ Goto(r, "release") /\ UNCHANGED tx
    BY <1>1, <1>2, <1>3 DEF Goto, Answer, TypeOK, Honest, Input, Stage, OwnRows, Achieved,
         Fate, Absent, Report, Past, Coherent, Versioned, Sees, Statements
  <1>4. CASE /\ pc[r] \in Statements /\ Raise(r, "failed", 0)
             /\ \/ tx' = [tx EXCEPT ![r] = "orphan"]
                \/ pc[r] = "commit" /\ tx' = [tx EXCEPT ![r] = "committing"]
    <2>1. answer'[r].kind = "failed" /\ pc'[r] = "rollback"
      BY <1>4, RaiseFields
    <2>3. PICK t \in {"orphan", "committing"} :
            /\ tx' = [tx EXCEPT ![r] = t]
            /\ t = "committing" => pc[r] = "commit"
      BY <1>4
    <2>4. tx'[r] = t
      BY <2>3 DEF TypeOK
    <2>2. tx'[r] = "orphan" \/ (pc[r] = "commit" /\ tx'[r] = "committing")
      BY <2>3, <2>4
    <2>. QED
      BY <1>1, <1>2, <1>4, <2>1, <2>2 DEF Honest, Input, Stage, OwnRows, Achieved,
         Fate, Absent, Report, Past, Coherent, Versioned, Sees, Statements
  <1>5. CASE /\ pc[r] = "rollback" /\ UNCHANGED <<pc, answer>>
             /\ tx' = [tx EXCEPT ![r] = IF @ = "open" THEN "orphan" ELSE "ended"]
    BY <1>1, <1>2, <1>5 DEF TypeOK, Honest, Input, Stage, OwnRows, Achieved,
         Fate, Absent, Report, Past, Coherent, Versioned, Sees, Statements
  <1>6. CASE pc[r] = "refresh" /\ UNCHANGED <<pc, answer, tx>>
    BY <1>1, <1>2, <1>6 DEF Honest, Input, Stage, OwnRows, Achieved,
         Fate, Absent, Report, Past, Coherent, Versioned, Sees, Statements
  <1>. QED
    BY <1>3, <1>4, <1>5, <1>6 DEF Disconnect, Statements

-----------------------------------------------------------------------------
(* The invariant is inductive *)

LEMMA StepsStayHonest ==
  ASSUME Inv, Telling, NEW r \in Requests,
         Client(r) \/ Server(r) \/ Arrive(r) \/ ServerError(r) \/ Disconnect(r)
  PROVE  Honest(r)'
  BY QuietSteps, RefreshStep, AbortSteps, CommitSteps, WriteSteps, LockSteps,
     ReadSteps, InsertSteps, DisconnectSteps
  DEF Client, Server

\* The rows a transaction commits are coherent by the time it may commit.
LEMMA DatabaseStep ==
  ASSUME Inv, Telling, NEW r \in Requests,
         Client(r) \/ Server(r) \/ Arrive(r) \/ ServerError(r) \/ Disconnect(r)
  PROVE  Coherent(db)' /\ AuthorityParity'
  <1>. USE DEF Inv
  <1>1. Honest(r) /\ Coherent(db) /\ AuthorityParity
    BY DEF Telling
  <1>2. CASE db' = db
    BY <1>1, <1>2 DEF Coherent, AuthorityParity
  <1>3. CASE Commit(r) \/ ServerCommits(r)
    <2>1. EndTx(r, "ended", TRUE)
      BY <1>3 DEF Commit, ServerCommits
    <2>2. db' = Merge(db, work[r])
      BY <2>1, EndFields
    <2>3. OwnRows(r) /\ Versioned(r) /\ pc[r] # "new"
      BY <1>1, <1>3 DEF Commit, ServerCommits, Executing, Honest, Achieved, Stage
    <2>4. \A c \in work[r].claims : \E v \in work[r].versions : v.claim = c
      <3>1. ASSUME r \in work[r].claims
            PROVE  \E v \in work[r].versions : v.claim = r
        <4>1. r \in Creators
          BY <3>1 DEF TypeOK, Database
        <4>2. req[r].claim = r
          BY <1>1, <2>3, <4>1 DEF Honest, Input
        <4>. QED
          BY <2>3, <4>2 DEF Versioned
      <3>. QED
        BY <2>3, <3>1 DEF OwnRows
    <2>5. Coherent(db)'
      BY <1>1, <2>2, <2>4, MergeFields DEF Coherent
    <2>6. AuthorityParity'
      BY <1>1, <2>2, <2>3, MergeFields DEF AuthorityParity, OwnRows, Certificate
    <2>. QED
      BY <2>5, <2>6
  <1>4. CASE ~(Commit(r) \/ ServerCommits(r))
    <2>1. db' = db
      BY <1>4 DEF Client, Connect, Begin, Rollback, RollbackFails, Refresh, Release,
           InsertClaim, InsertFirst, PersistIdentity, RequireIdentity, AwaitLock,
           LockClaim, ReadCurrent, InsertRevision, PersistAuthority, Server,
           ServerAborts, Arrive, ServerError, Disconnect, EndTx
    <2>. QED
      BY <1>2, <2>1
  <1>. QED
    BY <1>3, <1>4

LEMMA StaysTelling ==
  ASSUME Inv, Telling, UNCHANGED vars
  PROVE  Telling'
  <1>1. \A r \in Requests : Honest(r)'
    BY DEF Telling, vars, Honest, Input, Stage, OwnRows, Achieved, Fate, Absent,
           Durable, Report, Past, Coherent, Versioned, Sees
  <1>2. Coherent(db)' /\ AuthorityParity'
    BY DEF Telling, vars, Coherent, AuthorityParity
  <1>. QED
    BY <1>1, <1>2 DEF Telling

LEMMA TellingStep == Inv /\ Telling /\ [Next]_vars => Telling'
  <1>. SUFFICES ASSUME Inv, Telling, [Next]_vars PROVE Telling'
    OBVIOUS
  <1>1. ASSUME NEW r \in Requests,
               Client(r) \/ Server(r) \/ Arrive(r) \/ ServerError(r) \/ Disconnect(r)
        PROVE  Telling'
    <2>1. Honest(r)' /\ Coherent(db)' /\ AuthorityParity'
      BY <1>1, StepsStayHonest, DatabaseStep
    <2>2. \A s \in Requests \ {r} : Honest(s)'
      BY <1>1, AloneStep, OthersStayHonest
    <2>. QED
      BY <2>1, <2>2 DEF Telling
  <1>2. CASE UNCHANGED vars
    BY <1>2, StaysTelling
  <1>. QED
    BY <1>1, <1>2 DEF Next, Finished

LEMMA TellingInvariance == Spec => [](Inv /\ Telling)
  <1>1. Init => Inv /\ Telling
    BY InitInv, InitTelling
  <1>2. Inv /\ Telling /\ [Next]_vars => Inv' /\ Telling'
    BY InvStep, TellingStep
  <1>. QED
    BY <1>1, <1>2, PTL DEF Spec

\* Certificates are never orphaned and never disagree with their version,
\* however many requests race and wherever a certified call breaks off.
THEOREM CertificatesHold == Spec => []AuthorityParity
  <1>1. Telling => AuthorityParity
    BY DEF Telling
  <1>. QED
    BY <1>1, TellingInvariance, PTL

\* A resolved call is committed and complete; a rejected one left nothing,
\* unless it says that it cannot know; a conflict names a committed version
\* other than the caller's base; and no claim is ever seen without a version.
THEOREM CallersAreTold == Spec => []AnswersAreTrue
  <1>1. Inv /\ Telling => AnswersAreTrue
    <2>. SUFFICES ASSUME Inv, Telling PROVE AnswersAreTrue
      OBVIOUS
    <2>1. ASSUME NEW r \in Requests PROVE Honest(r)
      BY DEF Telling
    <2>2. SuccessIsDurable
      BY <2>1 DEF SuccessIsDurable, Honest, Fate, Durable
    <2>3. FailureLeavesNothing
      BY <2>1 DEF FailureLeavesNothing, Honest, Fate, Absent
    <2>4. ConflictIsInformative
      BY <2>1 DEF ConflictIsInformative, Honest, Report
    <2>5. ClaimsHaveAVersion
      BY <2>1 DEF ClaimsHaveAVersion, Honest, Report, Telling, Coherent, VersionsOf
    <2>. QED
      BY <2>2, <2>3, <2>4, <2>5 DEF AnswersAreTrue
  <1>. QED
    BY <1>1, TellingInvariance, PTL


-----------------------------------------------------------------------------
(* Refinement: a commit is one step of ClaimHistory *)

Numbers(c) == {v.number : v \in VersionsOf(db, c)}

\* The committed rows are what ClaimHistory records of them: the versions of a
\* claim are counted by their numbers, each was meant to follow the one before
\* it, and a certified claim is one whose first version has a certificate.
Recorded ==
  /\ \A c \in Creators : /\ IsFiniteSet(VersionsOf(db, c))
                         /\ Numbers(c) = 1..Cardinality(VersionsOf(db, c))
  /\ \A v, w \in db.versions : v.id = w.id => v = w
  /\ \A v \in db.versions : v.number = req[v.id].base + 1
  /\ \A r \in Requests : work[r].identities # {} => req[r].authenticated
  /\ \A c \in db.identities : \E a \in db.authorities : a.id = c

LEMMA InitRecorded == Init => Recorded
  <1>. SUFFICES ASSUME Init PROVE Recorded
    OBVIOUS
  <1>1. /\ db.versions = {} /\ db.identities = {}
        /\ \A r \in Requests : work[r].identities = {}
    BY DEF Init, NoRows
  <1>2. ASSUME NEW c \in Creators
        PROVE  VersionsOf(db, c) = {} /\ Numbers(c) = {}
    BY <1>1 DEF VersionsOf, Numbers
  <1>3. IsFiniteSet({}) /\ Cardinality({}) = 0
    BY FS_EmptySet
  <1>4. 1..0 = {}
    OBVIOUS
  <1>5. \A c \in Creators : /\ IsFiniteSet(VersionsOf(db, c))
                            /\ Numbers(c) = 1..Cardinality(VersionsOf(db, c))
    BY <1>2, <1>3, <1>4
  <1>. QED
    BY <1>1, <1>5 DEF Recorded

\* The row a transaction commits.
LEMMA CommittedRow ==
  ASSUME Inv, Telling, NEW r \in Requests, Commit(r) \/ ServerCommits(r)
  PROVE  \E v \in Version :
           /\ work[r].versions = {v} /\ v.id = r
           /\ v.claim = req[r].claim /\ v.number = req[r].base + 1
           /\ db' = Merge(db, work[r]) /\ work'[r] = NoRows /\ req' = req
           /\ db'.versions = db.versions \cup {v}
           /\ Follows(v) /\ \A w \in db.versions : w.id # r /\ ~SameKey(v, w)
           /\ req[r].authenticated <=> work[r].authorities # {}
  <1>. USE DEF Inv
  <1>1. Honest(r)
    BY DEF Telling
  <1>2. EndTx(r, "ended", TRUE) /\ req' = req
    BY DEF Commit, ServerCommits
  <1>3. db' = Merge(db, work[r]) /\ work'[r] = NoRows
    BY <1>2, EndFields
  <1>4. pc[r] = "commit" \/ tx[r] = "committing"
    BY DEF Commit, ServerCommits, Executing
  <1>5. PICK v \in work[r].versions :
          v.claim = req[r].claim /\ v.number = req[r].base + 1
    BY <1>1, <1>4 DEF Honest, Achieved, Versioned
  <1>6. /\ work[r].versions = {v} /\ v.id = r /\ Follows(v)
        /\ \A w \in db.versions : ~SameKey(v, w)
    BY <1>5 DEF PendingRows
  <1>7. tx[r] # "ended"
    BY <1>4 DEF Commit, ServerCommits, Executing
  <1>8. \A w \in db.versions : w.id # r
    BY <1>1, <1>7 DEF Honest, Fate, Absent
  <1>9. v \in Version
    BY <1>5 DEF TypeOK, Database
  <1>10. req[r].authenticated <=> work[r].authorities # {}
    BY <1>1, <1>4 DEF Honest, Achieved
  <1>11. db'.versions = db.versions \cup {v}
    BY <1>3, <1>6, MergeFields
  <1>. QED
    BY <1>2, <1>3, <1>5, <1>6, <1>8, <1>9, <1>10, <1>11

\* It is numbered one above the versions its claim has.
LEMMA NextNumber ==
  ASSUME Inv, Recorded, NEW v \in Version, Follows(v),
         \A w \in db.versions : ~SameKey(v, w)
  PROVE  v.number = Cardinality(VersionsOf(db, v.claim)) + 1
  <1>. DEFINE N == Cardinality(VersionsOf(db, v.claim))
  <1>1. v.claim \in Creators /\ v.number \in Nat \ {0}
    BY DEF Version
  <1>2. N \in Nat /\ Numbers(v.claim) = 1..N
    BY <1>1, FS_CardinalityType DEF Recorded
  <1>3. v.number \notin Numbers(v.claim)
    BY DEF Numbers, VersionsOf, SameKey
  <1>4. v.number # 1 => v.number - 1 \in Numbers(v.claim)
    BY DEF Follows, Numbers, VersionsOf
  <1>. HIDE DEF N
  <1>5. v.number = N + 1
    BY <1>1, <1>2, <1>3, <1>4
  <1>. QED
    BY <1>5 DEF N

\* Steps that commit nothing.
LEMMA NothingCommitted ==
  ASSUME Inv, Telling, Recorded, NEW r \in Requests,
         Client(r) \/ Server(r) \/ Arrive(r) \/ ServerError(r) \/ Disconnect(r),
         ~Commit(r), ~ServerCommits(r)
  PROVE  /\ db' = db
         /\ \A v \in db.versions : req'[v.id] = req[v.id]
         /\ work'[r].identities # {} => req'[r].authenticated
  <1>. USE DEF Inv
  <1>1. Honest(r) /\ (work[r].identities # {} => req[r].authenticated)
    BY DEF Telling, Recorded
  <1>2. \A v \in db.versions : v.id \in Requests
    BY DEF TypeOK, Database, Version
  <1>3. CASE Arrive(r)
    <2>1. /\ pc[r] = "new" /\ UNCHANGED <<db, work>>
          /\ \A s \in Requests \ {r} : req'[s] = req[s]
      BY <1>3 DEF Arrive, TypeOK
    <2>2. work[r].identities = {}
      BY <1>1, <2>1 DEF Honest, Stage, OwnRows, NoRows
    <2>3. \A v \in db.versions : v.id # r
      BY <2>1 DEF Fresh, BeforeInsert
    <2>. QED
      BY <1>2, <2>1, <2>2, <2>3
  <1>4. CASE PersistIdentity(r)
    BY <1>1, <1>4 DEF PersistIdentity, Executing, Honest, Achieved
  <1>5. CASE \/ Connect(r) \/ Begin(r) \/ RollbackFails(r) \/ Refresh(r)
             \/ Release(r) \/ ReadCurrent(r) \/ RequireIdentity(r)
             \/ AwaitLock(r) \/ LockClaim(r) \/ Disconnect(r)
    BY <1>1, <1>5 DEF Connect, Begin, RollbackFails, Refresh, Release, ReadCurrent,
                      RequireIdentity, AwaitLock, LockClaim, Disconnect
  <1>6. CASE Rollback(r) \/ ServerAborts(r) \/ ServerError(r)
    BY <1>1, <1>6 DEF Rollback, ServerAborts, ServerError, EndTx, NoRows, TypeOK
  <1>w. ASSUME NEW rows, Write(r, rows), rows.identities = {}
        PROVE  work'[r].identities = work[r].identities
    <2>1. work'[r] = Merge(work[r], rows)
      BY <1>w, WriteFields
    <2>. QED
      BY <1>w, <2>1 DEF Merge
  <1>7. CASE InsertClaim(r) \/ InsertFirst(r)
    BY <1>1, <1>7, <1>w DEF InsertClaim, InsertFirst, NoRows
  <1>8. CASE PersistAuthority(r)
    BY <1>1, <1>8, <1>w DEF PersistAuthority, NoRows
  <1>9. CASE InsertRevision(r)
    <2>1. CASE Write(r, [NoRows EXCEPT !.versions = {Revision(r)}]) /\ db' = db
      BY <1>1, <1>9, <1>w, <2>1 DEF InsertRevision, NoRows
    <2>2. CASE EndTx(r, "failed", FALSE)
      <3>1. db' = db /\ work'[r] = NoRows
        BY <2>2, EndFields
      <3>2. UNCHANGED req
        BY <1>9 DEF InsertRevision
      <3>. QED
        BY <3>1, <3>2 DEF NoRows
    <2>. QED
      BY <1>9, <2>1, <2>2 DEF InsertRevision
  <1>. QED
    BY <1>3, <1>4, <1>5, <1>6, <1>7, <1>8, <1>9 DEF Client, Server

LEMMA CommitIsRecorded ==
  ASSUME Inv, Telling, Recorded, NEW r \in Requests, Commit(r) \/ ServerCommits(r)
  PROVE  Recorded'
  <1>. USE DEF Inv
  <1>1. PICK v \in Version :
           /\ work[r].versions = {v} /\ v.id = r
           /\ v.claim = req[r].claim /\ v.number = req[r].base + 1
           /\ db' = Merge(db, work[r]) /\ work'[r] = NoRows /\ req' = req
           /\ db'.versions = db.versions \cup {v}
           /\ Follows(v) /\ \A w \in db.versions : w.id # r /\ ~SameKey(v, w)
           /\ req[r].authenticated <=> work[r].authorities # {}
    BY CommittedRow
  <1>2. ASSUME NEW c \in Creators
        PROVE  /\ IsFiniteSet(VersionsOf(db', c))
               /\ {w.number : w \in VersionsOf(db', c)}
                    = 1..Cardinality(VersionsOf(db', c))
    <2>1. IsFiniteSet(VersionsOf(db, c)) /\ Numbers(c) = 1..Cardinality(VersionsOf(db, c))
      BY DEF Recorded
    <2>2. CASE v.claim # c
      <3>1. VersionsOf(db', c) = VersionsOf(db, c)
        BY <1>1, <2>2 DEF VersionsOf
      <3>. QED
        BY <2>1, <3>1 DEF Numbers
    <2>3. CASE v.claim = c
      <3>1. VersionsOf(db', c) = VersionsOf(db, c) \cup {v} /\ v \notin VersionsOf(db, c)
        BY <1>1, <2>3 DEF VersionsOf
      <3>2. /\ IsFiniteSet(VersionsOf(db', c))
            /\ Cardinality(VersionsOf(db', c)) = Cardinality(VersionsOf(db, c)) + 1
        BY <2>1, <3>1, FS_AddElement
      <3>3. {w.number : w \in VersionsOf(db', c)} = Numbers(c) \cup {v.number}
        BY <3>1 DEF Numbers
      <3>4. v.number = Cardinality(VersionsOf(db, c)) + 1
        BY <1>1, <2>3, NextNumber
      <3>5. \A n \in Nat : 1..(n + 1) = (1..n) \cup {n + 1}
        OBVIOUS
      <3>6. Cardinality(VersionsOf(db, c)) \in Nat
        BY <2>1, FS_CardinalityType
      <3>. QED
        BY <2>1, <3>2, <3>3, <3>4, <3>5, <3>6
    <2>. QED
      BY <2>2, <2>3
  <1>3. \A u, w \in db'.versions : u.id = w.id => u = w
    BY <1>1 DEF Recorded
  <1>4. \A w \in db'.versions : w.number = req'[w.id].base + 1
    <2>1. \A w \in db.versions : w.number = req[w.id].base + 1
      BY DEF Recorded
    <2>. QED
      BY <1>1, <2>1
  <1>5. ASSUME NEW s \in Requests, work'[s].identities # {}
        PROVE  req'[s].authenticated
    <2>1. s # r => work'[s] = work[s]
      BY DEF Commit, ServerCommits, EndTx, TypeOK
    <2>. QED
      BY <1>1, <1>5, <2>1 DEF NoRows, Recorded
  <1>6. ASSUME NEW c \in db'.identities
        PROVE  \E a \in db'.authorities : a.id = c
    <2>1. Honest(r)
      BY DEF Telling
    <2>2. CASE c \in db.identities
      BY <1>1, <2>2, MergeFields DEF Recorded
    <2>3. CASE c \in work[r].identities
      <3>1. c = r /\ req[r].authenticated
        BY <2>1, <2>3 DEF Honest, OwnRows, Recorded
      <3>2. PICK a \in work[r].authorities : TRUE
        BY <1>1, <3>1
      <3>3. a.id = r
        BY <1>1, <2>1, <3>2 DEF Honest, OwnRows, Certificate
      <3>. QED
        BY <1>1, <3>1, <3>2, <3>3, MergeFields
    <2>. QED
      BY <1>1, <2>2, <2>3, MergeFields
  <1>. QED
    BY <1>2, <1>3, <1>4, <1>5, <1>6 DEF Recorded, Numbers

LEMMA RecordedStep == Inv /\ Telling /\ Recorded /\ [Next]_vars => Recorded'
  <1>. SUFFICES ASSUME Inv, Telling, Recorded, [Next]_vars PROVE Recorded'
    OBVIOUS
  <1>1. CASE UNCHANGED vars
    BY <1>1 DEF vars, Recorded, Numbers, VersionsOf
  <1>2. ASSUME NEW r \in Requests,
               Client(r) \/ Server(r) \/ Arrive(r) \/ ServerError(r) \/ Disconnect(r)
        PROVE  Recorded'
    <2>1. CASE Commit(r) \/ ServerCommits(r)
      BY <2>1, CommitIsRecorded
    <2>2. CASE ~Commit(r) /\ ~ServerCommits(r)
      <3>1. /\ db' = db
            /\ \A v \in db.versions : req'[v.id] = req[v.id]
            /\ work'[r].identities # {} => req'[r].authenticated
        BY <1>2, <2>2, NothingCommitted
      <3>2. Alone(r)
        BY <1>2, AloneStep
      <3>3. \A s \in Requests : work'[s].identities # {} => req'[s].authenticated
        BY <3>1, <3>2 DEF Alone, Recorded
      <3>. QED
        BY <3>1, <3>3 DEF Recorded, Numbers, VersionsOf
    <2>. QED
      BY <2>1, <2>2
  <1>. QED
    BY <1>1, <1>2 DEF Next, Finished

LEMMA RecordedInvariance == Spec => [](Inv /\ Telling /\ Recorded)
  <1>1. Init => Recorded
    BY InitRecorded
  <1>. QED
    BY <1>1, TellingInvariance, RecordedStep, PTL DEF Spec

\* What ClaimHistory knows of a claim.
HistoryOf(c) == [n \in 1..Cardinality(VersionsOf(db, c)) |-> Entry(c, n)]

Entries == [id : Requests, base : Nat]

\* A function on 1..N + 1 is one on 1..N with a further entry.
LEMMA Longer ==
  ASSUME NEW S, NEW N \in Nat, NEW s \in [1..N -> S], NEW t \in [1..(N + 1) -> S],
         \A i \in 1..N : t[i] = s[i]
  PROVE  s \in Seq(S) /\ Len(s) = N /\ t = Append(s, t[N + 1])
  <1>1. s \in Seq(S) /\ t \in Seq(S)
    BY SeqDef
  <1>2. Len(s) = N /\ Len(t) = N + 1
    BY <1>1, LenProperties
  <1>3. t[N + 1] \in S
    OBVIOUS
  <1>4. /\ Append(s, t[N + 1]) \in Seq(S) /\ Len(Append(s, t[N + 1])) = N + 1
        /\ \A i \in 1..N : Append(s, t[N + 1])[i] = s[i]
        /\ Append(s, t[N + 1])[N + 1] = t[N + 1]
    BY <1>1, <1>2, <1>3, AppendProperties
  <1>5. \A i \in 1..(N + 1) : t[i] = Append(s, t[N + 1])[i]
    BY <1>4
  <1>. QED
    BY <1>1, <1>2, <1>4, <1>5, SeqEqual

\* The n-th entry is that of the version numbered n.
InTurn ==
  \A c \in Creators : \A v \in VersionsOf(db, c) :
    /\ Entry(c, v.number) = [id |-> v.id, base |-> v.number - 1]
    /\ Entry(c, v.number) \in Entries

LEMMA EntryOfVersion == Inv /\ Recorded => InTurn
  <1>. SUFFICES ASSUME Inv, Recorded, NEW c \in Creators, NEW v \in VersionsOf(db, c)
                PROVE  /\ Entry(c, v.number) = [id |-> v.id, base |-> v.number - 1]
                       /\ Entry(c, v.number) \in Entries
    BY DEF InTurn
  <1>1. v \in db.versions /\ v \in Version
    BY DEF VersionsOf, Inv, TypeOK, Database
  <1>2. ASSUME NEW w \in VersionsOf(db, c), w.number = v.number PROVE w = v
    BY <1>2 DEF VersionsOf, Inv, LinearHistory, SameKey
  <1>3. (CHOOSE w \in VersionsOf(db, c) : w.number = v.number) = v
    BY <1>2
  <1>4. Entry(c, v.number) = [id |-> v.id, base |-> req[v.id].base]
    BY <1>3 DEF Entry
  <1>5. req[v.id].base \in Nat /\ v.id \in Requests
    BY <1>1 DEF Version, Inv, TypeOK
  <1>6. req[v.id].base = v.number - 1
    BY <1>1, <1>5 DEF Recorded, Version
  <1>. QED
    BY <1>4, <1>5, <1>6 DEF Entries

Typed ==
  \A c \in Creators :
    /\ Cardinality(VersionsOf(db, c)) \in Nat
    /\ HistoryOf(c) \in [1..Cardinality(VersionsOf(db, c)) -> Entries]

LEMMA HistoryType == Inv /\ Recorded => Typed
  <1>. SUFFICES ASSUME Inv, Recorded, NEW c \in Creators
                PROVE  /\ Cardinality(VersionsOf(db, c)) \in Nat
                       /\ HistoryOf(c) \in [1..Cardinality(VersionsOf(db, c)) -> Entries]
    BY DEF Typed
  <1>1. Cardinality(VersionsOf(db, c)) \in Nat
    BY FS_CardinalityType DEF Recorded
  <1>2. ASSUME NEW n \in 1..Cardinality(VersionsOf(db, c))
        PROVE  Entry(c, n) \in Entries
    <2>1. PICK v \in VersionsOf(db, c) : v.number = n
      BY DEF Recorded, Numbers
    <2>. QED
      BY <2>1, EntryOfVersion DEF InTurn
  <1>. QED
    BY <1>1, <1>2 DEF HistoryOf

\* Versions that are there keep their entry.
LEMMA EntryStays ==
  ASSUME Inv, Recorded, Inv', Recorded', NEW c \in Creators,
         db.versions \subseteq db'.versions,
         NEW n \in 1..Cardinality(VersionsOf(db, c))
  PROVE  Entry(c, n)' = Entry(c, n)
  <1>1. PICK v \in VersionsOf(db, c) : v.number = n
    BY DEF Recorded, Numbers
  <1>2. v \in VersionsOf(db, c)'
    BY <1>1 DEF VersionsOf
  <1>3. Entry(c, n) = [id |-> v.id, base |-> v.number - 1]
    BY <1>1, EntryOfVersion DEF InTurn
  <1>4. Entry(c, v.number)' = [id |-> v.id, base |-> v.number - 1]
    <2>1. InTurn'
      BY EntryOfVersion, PTL
    <2>. QED
      BY <1>2, <2>1 DEF InTurn
  <1>. QED
    BY <1>1, <1>3, <1>4

\* A claim without new versions keeps its history.
LEMMA HistoryStays ==
  ASSUME Inv, Recorded, Inv', Recorded', NEW c \in Creators,
         db.versions \subseteq db'.versions, VersionsOf(db, c)' = VersionsOf(db, c)
  PROVE  HistoryOf(c)' = HistoryOf(c)
  BY EntryStays DEF HistoryOf

\* A new version goes to the end of it, after the version its caller stated.
LEMMA HistoryGrows ==
  ASSUME Inv, Recorded, Inv', Recorded', NEW v \in Version, Follows(v),
         db'.versions = db.versions \cup {v}, \A w \in db.versions : ~SameKey(v, w)
  PROVE  LET N == Cardinality(VersionsOf(db, v.claim))
         IN  /\ HistoryOf(v.claim) \in Seq(Entries) /\ Len(HistoryOf(v.claim)) = N
             /\ HistoryOf(v.claim)' =
                  Append(HistoryOf(v.claim), [id |-> v.id, base |-> N])
             /\ v.number = N + 1
  <1>. DEFINE c == v.claim
              N == Cardinality(VersionsOf(db, c))
              s == HistoryOf(c)
              t == HistoryOf(c)'
  <1>1. c \in Creators /\ v.number = N + 1 /\ N \in Nat
    BY NextNumber, HistoryType DEF Version, Typed
  <1>2. Cardinality(VersionsOf(db, c)') = N + 1
    <2>1. VersionsOf(db, c)' = VersionsOf(db, c) \cup {v} /\ v \notin VersionsOf(db, c)
      BY DEF VersionsOf, SameKey
    <2>2. IsFiniteSet(VersionsOf(db, c))
      BY <1>1 DEF Recorded
    <2>. QED
      BY <2>1, <2>2, FS_AddElement
  <1>3. s \in [1..N -> Entries]
    BY <1>1, HistoryType DEF Typed
  <1>4. t \in [1..(N + 1) -> Entries]
    <2>1. Typed'
      BY HistoryType, PTL
    <2>2. HistoryOf(c)' \in [1..Cardinality(VersionsOf(db, c)') -> Entries]
      BY <1>1, <2>1 DEF Typed
    <2>. QED
      BY <1>2, <2>2
  <1>5. \A i \in 1..N : t[i] = s[i]
    <2>. SUFFICES ASSUME NEW i \in 1..N PROVE t[i] = s[i]
      OBVIOUS
    <2>1. Entry(c, i)' = Entry(c, i)
      BY <1>1, EntryStays
    <2>. QED
      BY <1>1, <1>2, <2>1 DEF HistoryOf
  <1>6. t[N + 1] = [id |-> v.id, base |-> N]
    <2>1. InTurn'
      BY EntryOfVersion, PTL
    <2>2. v \in VersionsOf(db, c)'
      BY DEF VersionsOf
    <2>3. Entry(c, v.number)' = [id |-> v.id, base |-> N]
      BY <1>1, <2>1, <2>2 DEF InTurn
    <2>. QED
      BY <1>1, <1>2, <2>3 DEF HistoryOf
  <1>. HIDE DEF s, t, N
  <1>7. s \in Seq(Entries) /\ Len(s) = N /\ t = Append(s, t[N + 1])
    BY <1>1, <1>3, <1>4, <1>5, Longer
  <1>. QED
    BY <1>1, <1>6, <1>7 DEF s, t, N

Histories == [c \in Creators |-> HistoryOf(c)]
Certified == {a.id : a \in db.authorities}

LEMMA EntriesAreCommitted ==
  ASSUME Inv, Recorded, NEW c \in Creators, NEW n \in DOMAIN Histories[c]
  PROVE  \E v \in VersionsOf(db, c) : v.number = n /\ Histories[c][n].id = v.id
  <1>1. n \in 1..Cardinality(VersionsOf(db, c)) /\ Histories[c][n] = Entry(c, n)
    BY DEF Histories, HistoryOf
  <1>2. PICK v \in VersionsOf(db, c) : v.number = n
    BY <1>1 DEF Recorded, Numbers
  <1>3. Entry(c, n).id = v.id
    <2>1. Entry(c, v.number) = [id |-> v.id, base |-> v.number - 1]
      BY EntryOfVersion DEF InTurn
    <2>. QED
      BY <1>2, <2>1
  <1>. QED
    BY <1>1, <1>2, <1>3

LEMMA CommitExtends ==
  ASSUME Inv, Telling, Recorded, Inv', Recorded',
         NEW r \in Requests, Commit(r) \/ ServerCommits(r)
  PROVE  \E c \in Creators :
           /\ Histories' = [Histories EXCEPT ![c] =
                              Append(@, [id |-> r, base |-> Len(@)])]
           /\ Certified' \in {Certified, Certified \cup {r}}
           /\ \/ r = c /\ Histories[c] = << >>
              \/ /\ r \in Revisers /\ Histories[c] # << >>
                 /\ \A d \in Creators : \A n \in DOMAIN Histories[d] :
                      Histories[d][n].id # r
                 /\ Certified' = Certified \/ Histories[c][1].id \in Certified
  <1>. USE DEF Inv
  <1>1. PICK v \in Version :
           /\ work[r].versions = {v} /\ v.id = r
           /\ v.claim = req[r].claim /\ v.number = req[r].base + 1
           /\ db' = Merge(db, work[r]) /\ work'[r] = NoRows /\ req' = req
           /\ db'.versions = db.versions \cup {v}
           /\ Follows(v) /\ \A w \in db.versions : w.id # r /\ ~SameKey(v, w)
           /\ req[r].authenticated <=> work[r].authorities # {}
    BY CommittedRow
  <1>. DEFINE c == v.claim
              N == Cardinality(VersionsOf(db, c))
  <1>2. c \in Creators /\ v.number \in Nat \ {0}
    BY DEF Version
  <1>3. /\ HistoryOf(c) \in Seq(Entries) /\ Len(HistoryOf(c)) = N
        /\ HistoryOf(c)' = Append(HistoryOf(c), [id |-> r, base |-> N])
        /\ v.number = N + 1
    BY <1>1, HistoryGrows
  <1>4. ASSUME NEW d \in Creators \ {c} PROVE HistoryOf(d)' = HistoryOf(d)
    <2>1. VersionsOf(db, d)' = VersionsOf(db, d)
      BY <1>1 DEF VersionsOf
    <2>. QED
      BY <1>1, <2>1, HistoryStays
  <1>5. Histories' = [Histories EXCEPT ![c] = Append(@, [id |-> r, base |-> Len(@)])]
    BY <1>2, <1>3, <1>4 DEF Histories
  <1>6. Honest(r)
    BY DEF Telling
  <1>7. \A a \in work[r].authorities : a.id = r /\ a.claim = c
    BY <1>1, <1>6 DEF Honest, OwnRows, Certificate
  <1>8. Certified' = Certified \cup {a.id : a \in work[r].authorities}
    BY <1>1, MergeFields DEF Certified
  <1>9. Certified' \in {Certified, Certified \cup {r}}
    BY <1>7, <1>8
  <1>10. CASE v.number = 1
    <2>1. r = c /\ HistoryOf(c) = << >>
      BY <1>1, <1>3, <1>10, EmptySeq DEF Follows
    <2>. QED
      BY <1>2, <1>5, <1>9, <2>1 DEF Histories
  <1>11. CASE v.number # 1
    <2>1. r \in Revisers /\ r \notin Creators
      <3>1. pc[r] # "new"
        BY <1>6 DEF Honest, Stage, Commit, ServerCommits, Executing
      <3>2. r \in Creators => v.number = 1
        BY <1>1, <1>6, <3>1 DEF Honest, Input
      <3>. QED
        BY <1>11, <3>2 DEF Requests
    <2>2. Histories[c] # << >>
      BY <1>2, <1>3, <1>11, EmptySeq DEF Histories
    <2>3. \A d \in Creators : \A n \in DOMAIN Histories[d] : Histories[d][n].id # r
      BY <1>1, EntriesAreCommitted DEF VersionsOf
    <2>4. ASSUME Certified' # Certified PROVE Histories[c][1].id \in Certified
      <3>1. PICK a \in work[r].authorities : TRUE
        BY <1>8, <2>4
      <3>2. c \in db.identities
        BY <1>6, <1>7, <2>1, <1>2, <3>1 DEF Honest, OwnRows
      <3>3. c \in Certified
        BY <3>2 DEF Recorded, Certified
      <3>4. 1 \in DOMAIN Histories[c]
        <4>1. HistoryOf(c) \in [1..N -> Entries] /\ N \in Nat
          BY <1>2, HistoryType DEF Typed
        <4>. QED
          BY <1>2, <1>3, <1>11, <4>1 DEF Histories
      <3>5. PICK w \in VersionsOf(db, c) : w.number = 1 /\ Histories[c][1].id = w.id
        BY <1>2, <3>4, EntriesAreCommitted
      <3>6. w.id = c
        BY <3>5 DEF VersionsOf, LinearHistory, Follows
      <3>. QED
        BY <3>3, <3>5, <3>6
    <2>. QED
      BY <1>2, <1>5, <1>9, <2>1, <2>2, <2>3, <2>4
  <1>. QED
    BY <1>10, <1>11

\* A commit of the transactional code, whichever statement it ends, is one
\* creation or one conditional append, and no other step shows at all:
\* ClaimVersions implements ClaimHistory.
THEOREM HistoriesAreAtomic == Spec => ImplementsClaimHistory
  <1>1. Init => History!Init
    <2>. SUFFICES ASSUME Init PROVE History!Init
      OBVIOUS
    <2>1. db.versions = {} /\ db.authorities = {}
      BY DEF Init, NoRows
    <2>2. ASSUME NEW c \in Creators
          PROVE  [n \in 1..Cardinality(VersionsOf(db, c)) |-> Entry(c, n)] = << >>
      <3>1. VersionsOf(db, c) = {}
        BY <2>1 DEF VersionsOf
      <3>2. 1..Cardinality(VersionsOf(db, c)) = {}
        BY <3>1, FS_EmptySet
      <3>. QED
        BY <3>2
    <2>. QED
      BY <2>1, <2>2 DEF History!Init
  <1>2. /\ Inv /\ Telling /\ Recorded /\ [Next]_vars
        /\ Inv' /\ Telling' /\ Recorded'
        => [History!Next]_<<[c \in Creators |->
                               [n \in 1..Cardinality(VersionsOf(db, c)) |-> Entry(c, n)]],
                            {a.id : a \in db.authorities}>>
    <2>. SUFFICES ASSUME Inv, Telling, Recorded, [Next]_vars, Inv', Recorded'
                  PROVE  History!Next \/ UNCHANGED <<Histories, Certified>>
      BY DEF Histories, HistoryOf, Certified
    <2>1. ASSUME db' = db PROVE UNCHANGED <<Histories, Certified>>
      <3>1. \A c \in Creators : HistoryOf(c)' = HistoryOf(c)
        BY <2>1, HistoryStays DEF VersionsOf
      <3>. QED
        BY <2>1, <3>1 DEF Histories, Certified
    <2>2. ASSUME NEW r \in Requests, Commit(r) \/ ServerCommits(r)
          PROVE  History!Next
      <3>1. PICK c \in Creators :
              /\ Histories' = [Histories EXCEPT ![c] =
                                 Append(@, [id |-> r, base |-> Len(@)])]
              /\ Certified' \in {Certified, Certified \cup {r}}
              /\ \/ r = c /\ Histories[c] = << >>
                 \/ /\ r \in Revisers /\ Histories[c] # << >>
                    /\ \A d \in Creators : \A n \in DOMAIN Histories[d] :
                         Histories[d][n].id # r
                    /\ Certified' = Certified \/ Histories[c][1].id \in Certified
        BY <2>2, CommitExtends
      <3>2. CASE r = c /\ Histories[c] = << >>
        <4>1. Append(Histories[c], [id |-> c, base |-> Len(Histories[c])])
                = <<[id |-> c, base |-> 0]>>
          BY <3>2
        <4>2. History!Create(c)
          BY <3>1, <3>2, <4>1
             DEF History!Create, History!Entry, Histories, HistoryOf, Certified
        <4>. QED
          BY <4>2 DEF History!Next
      <3>3. CASE /\ r \in Revisers /\ Histories[c] # << >>
                 /\ \A d \in Creators : \A n \in DOMAIN Histories[d] :
                      Histories[d][n].id # r
                 /\ Certified' = Certified \/ Histories[c][1].id \in Certified
        <4>1. r \notin History!Written
          <5>1. History!Written =
                  UNION {{Histories[d][n].id : n \in DOMAIN Histories[d]} : d \in Creators}
            BY DEF History!Written, Histories, HistoryOf
          <5>. QED
            BY <3>3, <5>1
        <4>2. \/ Certified' = Certified
              \/ Histories[c][1].id \in Certified /\ Certified' = Certified \cup {r}
          BY <3>1, <3>3
        <4>3. History!Revise(c, r)
          BY <3>1, <3>3, <4>1, <4>2
             DEF History!Revise, History!Entry, Histories, HistoryOf, Certified
        <4>. QED
          BY <3>3, <4>3 DEF History!Next
      <3>. QED
        BY <3>1, <3>2, <3>3
    <2>3. ASSUME NEW r \in Requests,
                 Client(r) \/ Server(r) \/ Arrive(r) \/ ServerError(r) \/ Disconnect(r),
                 ~Commit(r), ~ServerCommits(r)
          PROVE  db' = db
      BY <2>3, NothingCommitted
    <2>. QED
      BY <2>1, <2>2, <2>3 DEF Next, Finished, vars
  <1>. QED
    BY <1>1, <1>2, RecordedInvariance, PTL DEF Spec, ImplementsClaimHistory, History!Spec

==============================================================================
