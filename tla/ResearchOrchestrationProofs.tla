---------------------- MODULE ResearchOrchestrationProofs ----------------------
(***************************************************************************)
(* Row locks and unique indexes make each bundle of ResearchOrchestration  *)
(* one step of the ledger (BundlesAreAtomic), for any writers and any      *)
(* bundles; with ResearchHistoryProofs, what is stored stays coherent.     *)
(***************************************************************************)
EXTENDS ResearchOrchestration, ResearchHistoryProofs

\* Where a call stands says what its transaction holds and what it has
\* established, whatever was committed since.
Standing(w) ==
  /\ work[w] \subseteq bundle[w]
  /\ lock[w] \subseteq {p.id : p \in Of(Visible(w), "operation")}
  /\ pc[w] = "idle" => work[w] = {} /\ lock[w] = {}
  /\ pc[w] # "idle" => bundle[w] \in Bundles /\ answer[w] = "none"
  /\ pc[w] = "operations" => lock[w] = {}
  /\ pc[w] \in {"operations", "lock", "write"} =>
       \A r \in work[w] : r.kind = "operation"
  /\ pc[w] \in {"lock", "write", "select", "commit"} =>
       Of(bundle[w], "operation") \subseteq Visible(w)
  /\ pc[w] \in {"write", "select", "commit"} =>
       Known(bundle[w], db) /\ Affected(bundle[w], db) \subseteq lock[w]
  /\ pc[w] \in {"select", "commit"} =>
       /\ Writable(bundle[w], db)
       /\ \A r \in bundle[w] : r.kind # "selection" => r \in Visible(w)
  /\ pc[w] = "commit" => bundle[w] \subseteq Visible(w)

\* A row that is not committed shares no key with any other writer's.
Apart == \A w \in Writers : \A r \in work[w] : ~ Collides(r, db) /\ ~ InFlight(w, r)

Exclusive == \A v, w \in Writers : v # w => lock[v] \cap lock[w] = {}

\* Operations are inserted, and locked, by growing id.
InOrder(w) ==
  /\ pc[w] = "operations" =>
       \A x \in work[w], y \in NewOperations(w) : x.id <= y.id
  /\ pc[w] = "lock" /\ lock[w] # {} =>
       /\ Known(bundle[w], db)
       /\ \A x \in lock[w], y \in ToLock(w) : x < y

Guarded ==
  /\ TypeOK /\ Sound(db) /\ Apart /\ Exclusive
  /\ \A w \in Writers : Standing(w) /\ InOrder(w)

-----------------------------------------------------------------------------
(* What ends and what stays *)

LEMMA Ended ==
  ASSUME TypeOK, NEW w \in Writers, NEW kind, Ends(w, kind)
  PROVE  /\ work'[w] = {} /\ lock'[w] = {} /\ pc'[w] = "idle"
         /\ bundle'[w] = {} /\ answer'[w] = kind
         /\ \A u \in Writers \ {w} :
              /\ work'[u] = work[u] /\ lock'[u] = lock[u] /\ pc'[u] = pc[u]
              /\ bundle'[u] = bundle[u] /\ answer'[u] = answer[u]
  BY DEF Ends, TypeOK

\* A call stands where it stood while its own state and the stored rows stay.
LEMMA StandsStill ==
  ASSUME NEW u \in Writers, Standing(u), InOrder(u), db' = db,
         work'[u] = work[u], lock'[u] = lock[u], pc'[u] = pc[u],
         bundle'[u] = bundle[u], answer'[u] = answer[u]
  PROVE  Standing(u)' /\ InOrder(u)'
  <1>1. Visible(u)' = Visible(u)
    BY DEF Visible
  <1>2. Standing(u)'
    BY <1>1 DEF Standing
  <1>3. NewOperations(u)' = NewOperations(u) /\ ToLock(u)' = ToLock(u)
    BY <1>1 DEF NewOperations, ToLock
  <1>4. InOrder(u)'
    BY <1>3 DEF InOrder
  <1>. QED BY <1>2, <1>4

LEMMA CollidesEither ==
  ASSUME NEW r, NEW D, NEW E
  PROVE  Collides(r, D \cup E) <=> Collides(r, D) \/ Collides(r, E)
  BY DEF Collides

LEMMA InitTypeOK == Init => TypeOK
  BY DEF Init, TypeOK, Pcs, Answers

LEMMA EndsTypeOK ==
  ASSUME TypeOK, NEW w \in Writers, NEW kind \in Answers, Ends(w, kind),
         db' = db \/ db' = db \cup work[w]
  PROVE  TypeOK'
  BY DEF Ends, TypeOK, Pcs

LEMMA NextTypeOK == TypeOK /\ [Next]_vars => TypeOK'
  <1>. SUFFICES ASSUME TypeOK, Next PROVE TypeOK'
    BY DEF TypeOK, vars
  <1>1. ASSUME NEW w \in Writers, NEW B \in Bundles, Submit(w, B) PROVE TypeOK'
    BY <1>1 DEF Submit, TypeOK, Pcs, Answers
  <1>2. ASSUME NEW w \in Writers, ConnectionLost(w) PROVE TypeOK'
    BY <1>2, EndsTypeOK DEF ConnectionLost, Answers
  <1>3. ASSUME NEW w \in Writers, InsertOperation(w) PROVE TypeOK'
    <2>1. First(NewOperations(w)) \subseteq UNION Bundles
      BY DEF First, NewOperations, Of, TypeOK
    <2>. QED BY <1>3, <2>1 DEF InsertOperation, TypeOK
  <1>4. ASSUME NEW w \in Writers,
               OperationConflict(w) \/ ParentMissing(w) \/ Refuse(w)
               \/ \E r \in bundle[w] : SelectionConflict(w, r)
        PROVE  TypeOK'
    <2>1. Refused(w)
      BY <1>4 DEF OperationConflict, ParentMissing, Refuse, SelectionConflict
    <2>. QED BY <2>1, EndsTypeOK DEF Refused, Answers
  <1>5. ASSUME NEW w \in Writers, OperationsInserted(w) \/ Locked(w) \/ Selected(w)
        PROVE  TypeOK'
    BY <1>5 DEF OperationsInserted, Locked, Selected, TypeOK, Pcs
  <1>6. ASSUME NEW w \in Writers, LockOperation(w) PROVE TypeOK'
    <2>1. PICK o \in NextToLock(w) :
            /\ Exists(w, o)
            /\ lock' = [lock EXCEPT ![w] = @ \cup {o}]
      BY <1>6 DEF LockOperation
    <2>2. PICK r \in Of(Visible(w), "operation") : r.id = o
      BY <2>1 DEF Exists
    <2>3. o \in Operations
      <3>1. r \in UNION Bundles /\ r.kind = "operation"
        BY <2>2 DEF Of, Visible, TypeOK
      <3>. QED BY <3>1, <2>2, RowFields DEF Operations
    <2>. QED BY <1>6, <2>1, <2>3 DEF LockOperation, TypeOK
  <1>7. ASSUME NEW w \in Writers, Write(w) PROVE TypeOK'
    <2>1. bundle[w] \subseteq UNION Bundles
      BY DEF TypeOK
    <2>. QED BY <1>7, <2>1 DEF Write, TypeOK, Pcs
  <1>8. ASSUME NEW w \in Writers, NEW r \in bundle[w], InsertSelection(w, r)
        PROVE  TypeOK'
    <2>1. r \in UNION Bundles
      BY DEF TypeOK
    <2>. QED BY <1>8, <2>1 DEF InsertSelection, TypeOK
  <1>9. ASSUME NEW w \in Writers, Commit(w) PROVE TypeOK'
    BY <1>9, EndsTypeOK DEF Commit, Answers
  <1>10. ASSUME NEW w \in Writers, DeadlockVictim(w) PROVE TypeOK'
    BY <1>10, EndsTypeOK DEF DeadlockVictim, Answers
  <1>. QED BY <1>1, <1>2, <1>3, <1>4, <1>5, <1>6, <1>7, <1>8, <1>9, <1>10
           DEF Next, Step

-----------------------------------------------------------------------------
(* Every step keeps the calls apart *)

LEMMA InitGuarded == Init => Guarded
  <1>. SUFFICES ASSUME Init PROVE Guarded
    OBVIOUS
  <1>1. Sound(db)
    BY DEF Init, Sound, KeysUnique, Referenced, RunsSound, AttemptsSound,
           OrderingsSound, TerminalsSound, LifecyclesSound, Of
  <1>2. ASSUME NEW w \in Writers PROVE Standing(w) /\ InOrder(w)
    BY DEF Init, Standing, InOrder
  <1>3. Apart /\ Exclusive
    BY DEF Init, Apart, Exclusive
  <1>. QED BY InitTypeOK, <1>1, <1>2, <1>3 DEF Guarded

\* A rollback leaves nothing behind.
LEMMA RollbackGuarded ==
  ASSUME Guarded, NEW w \in Writers, NEW kind, Ends(w, kind), db' = db, TypeOK'
  PROVE  Guarded'
  <1>. USE DEF Guarded
  <1>1. \A u \in Writers : Standing(u)' /\ InOrder(u)'
    <2>1. Standing(w)' /\ InOrder(w)'
      BY Ended DEF Standing, InOrder
    <2>2. ASSUME NEW u \in Writers \ {w} PROVE Standing(u)' /\ InOrder(u)'
      BY Ended, StandsStill
    <2>. QED BY <2>1, <2>2
  <1>2. \A u \in Writers : work'[u] \subseteq work[u] /\ lock'[u] \subseteq lock[u]
    BY Ended
  <1>3. Apart'
    BY <1>2 DEF Apart, InFlight, Collides
  <1>4. Exclusive'
    BY <1>2 DEF Exclusive
  <1>. QED BY <1>1, <1>3, <1>4

\* A step of w that stores nothing and takes no lock, with new rows N.
LEMMA ApartGrows ==
  ASSUME TypeOK, Apart, NEW w \in Writers, NEW N,
         work' = [work EXCEPT ![w] = @ \cup N], db' = db,
         \A r \in N : ~ Collides(r, db) /\ ~ InFlight(w, r)
  PROVE  Apart'
  <1>1. \A u \in Writers : work'[u] = IF u = w THEN work[w] \cup N ELSE work[u]
    BY DEF TypeOK
  <1>2. ASSUME NEW u \in Writers, NEW r \in work'[u] PROVE ~ Collides(r, db')
    BY <1>1, <1>2 DEF Apart
  <1>3. ASSUME NEW u \in Writers, NEW r \in work'[u], NEW v \in Writers \ {u}
        PROVE  ~ Collides(r, work'[v])
    <2>1. CASE r \in work[u]
      <3>1. ~ Collides(r, work[v])
        BY <2>1 DEF Apart, InFlight
      <3>2. v = w => ~ Collides(r, N)
        BY <2>1 DEF InFlight, Collides
      <3>. QED BY <1>1, <3>1, <3>2, CollidesEither
    <2>2. CASE r \notin work[u]
      <3>1. u = w /\ r \in N /\ work'[v] = work[v]
        BY <1>1, <1>3, <2>2
      <3>. QED BY <3>1 DEF InFlight
    <2>. QED BY <2>1, <2>2
  <1>. QED BY <1>2, <1>3 DEF Apart, InFlight

LEMMA NewRowsGuarded ==
  ASSUME Guarded, TypeOK', NEW w \in Writers, NEW N,
         work' = [work EXCEPT ![w] = @ \cup N],
         UNCHANGED <<db, lock, bundle, answer>>,
         \A u \in Writers \ {w} : pc'[u] = pc[u],
         \A r \in N : ~ Collides(r, db) /\ ~ InFlight(w, r),
         Standing(w)', InOrder(w)'
  PROVE  Guarded'
  <1>. USE DEF Guarded
  <1>1. Apart'
    BY ApartGrows
  <1>2. ASSUME NEW u \in Writers \ {w} PROVE Standing(u)' /\ InOrder(u)'
    <2>1. work'[u] = work[u]
      BY DEF TypeOK
    <2>. QED BY <2>1, StandsStill
  <1>3. Exclusive'
    BY DEF Exclusive
  <1>. QED BY <1>1, <1>2, <1>3

LEMMA SubmitGuarded ==
  ASSUME Guarded, TypeOK', NEW w \in Writers, NEW B \in Bundles, Submit(w, B)
  PROVE  Guarded'
  <1>. USE DEF Guarded
  <1>1. /\ pc'[w] = "operations" /\ bundle'[w] = B /\ answer'[w] = "none"
        /\ work'[w] = {} /\ lock'[w] = {}
        /\ \A u \in Writers \ {w} :
             pc'[u] = pc[u] /\ bundle'[u] = bundle[u] /\ answer'[u] = answer[u]
        /\ UNCHANGED <<db, work, lock>>
    BY DEF Submit, Standing, TypeOK
  <1>2. Standing(w)' /\ InOrder(w)'
    BY <1>1 DEF Standing, InOrder
  <1>3. ASSUME NEW u \in Writers \ {w} PROVE Standing(u)' /\ InOrder(u)'
    BY <1>1, StandsStill
  <1>4. Apart' /\ Exclusive'
    BY <1>1 DEF Apart, Exclusive, InFlight
  <1>. QED BY <1>1, <1>2, <1>3, <1>4

LEMMA InsertOperationGuarded ==
  ASSUME Guarded, TypeOK', NEW w \in Writers, InsertOperation(w)
  PROVE  Guarded'
  <1>. USE DEF Guarded
  <1>1. PICK r \in First(NewOperations(w)) :
          /\ ~ InFlight(w, r) /\ ~ Collides(r, Visible(w))
          /\ work' = [work EXCEPT ![w] = @ \cup {r}]
    BY DEF InsertOperation
  <1>2. /\ r \in bundle[w] /\ r.kind = "operation"
        /\ \A y \in NewOperations(w) : r.id <= y.id
    BY DEF First, NewOperations, Of
  <1>3. /\ work'[w] = work[w] \cup {r} /\ pc[w] = "operations"
        /\ UNCHANGED <<db, lock, pc, bundle, answer>>
    BY <1>1 DEF InsertOperation, TypeOK
  <1>4. ~ Collides(r, db)
    BY <1>1, CollidesEither DEF Visible
  <1>5. Standing(w)'
    BY <1>2, <1>3 DEF Standing, Visible
  <1>6. InOrder(w)'
    BY <1>2, <1>3 DEF InOrder, NewOperations, Visible
  <1>. QED BY <1>1, <1>3, <1>4, <1>5, <1>6, NewRowsGuarded

LEMMA OperationsInsertedGuarded ==
  ASSUME Guarded, TypeOK', NEW w \in Writers, OperationsInserted(w)
  PROVE  Guarded'
  <1>. USE DEF Guarded
  <1>1. /\ pc[w] = "operations" /\ pc'[w] = "lock" /\ NewOperations(w) = {}
        /\ \A u \in Writers \ {w} : pc'[u] = pc[u]
        /\ UNCHANGED <<db, work, lock, bundle, answer>>
    BY DEF OperationsInserted, TypeOK
  <1>2. Standing(w)'
    BY <1>1 DEF Standing, Visible, NewOperations
  <1>3. InOrder(w)'
    BY <1>1 DEF InOrder, Standing
  <1>4. work' = [work EXCEPT ![w] = @ \cup {}]
    BY <1>1 DEF TypeOK
  <1>. QED BY <1>1, <1>2, <1>3, <1>4, NewRowsGuarded

LEMMA InsertSelectionGuarded ==
  ASSUME Guarded, TypeOK', NEW w \in Writers, NEW r \in bundle[w],
         InsertSelection(w, r)
  PROVE  Guarded'
  <1>. USE DEF Guarded
  <1>1. /\ work' = [work EXCEPT ![w] = @ \cup {r}]
        /\ ~ InFlight(w, r) /\ ~ Collides(r, Visible(w))
    BY DEF InsertSelection
  <1>2. /\ work'[w] = work[w] \cup {r} /\ pc[w] = "select"
        /\ UNCHANGED <<db, lock, pc, bundle, answer>>
    BY <1>1 DEF InsertSelection, TypeOK
  <1>3. ~ Collides(r, db)
    BY <1>1, CollidesEither DEF Visible
  <1>4. Standing(w)'
    <2>1. Visible(w) \subseteq Visible(w)'
      BY <1>2 DEF Visible
    <2>2. {p.id : p \in Of(Visible(w), "operation")}
            \subseteq {p.id : p \in Of(Visible(w)', "operation")}
      BY <2>1 DEF Of
    <2>. QED BY <1>2, <2>1, <2>2 DEF Standing
  <1>5. InOrder(w)'
    BY <1>2 DEF InOrder
  <1>. QED BY <1>1, <1>2, <1>3, <1>4, <1>5, NewRowsGuarded

LEMMA SelectedGuarded ==
  ASSUME Guarded, TypeOK', NEW w \in Writers, Selected(w)
  PROVE  Guarded'
  <1>. USE DEF Guarded
  <1>1. /\ pc[w] = "select" /\ pc'[w] = "commit" /\ Unselected(w) = {}
        /\ \A u \in Writers \ {w} : pc'[u] = pc[u]
        /\ UNCHANGED <<db, work, lock, bundle, answer>>
    BY DEF Selected, TypeOK
  <1>2. Standing(w)' /\ InOrder(w)'
    BY <1>1 DEF Standing, InOrder, Visible, Unselected, Of
  <1>3. work' = [work EXCEPT ![w] = @ \cup {}]
    BY <1>1 DEF TypeOK
  <1>. QED BY <1>1, <1>2, <1>3, NewRowsGuarded

\* What a call looks up of its owners is what is stored and its own rows.
LEMMA OwnersAsStored ==
  ASSUME NEW w \in Writers, work[w] \subseteq bundle[w]
  PROVE  /\ OwnersKnown(w) <=> Known(bundle[w], db)
         /\ ToLock(w) = Affected(bundle[w], db) \ lock[w]
  <1>1. /\ Visible(w) \cup bundle[w] = db \cup bundle[w]
        /\ Affected(bundle[w], Visible(w)) = Affected(bundle[w], db)
    BY OwnRows DEF Visible
  <1>. QED BY <1>1 DEF OwnersKnown, Known, ToLock

LEMMA LockOperationGuarded ==
  ASSUME Guarded, TypeOK', NEW w \in Writers, LockOperation(w)
  PROVE  Guarded'
  <1>. USE DEF Guarded
  <1>1. PICK o \in NextToLock(w) :
          Exists(w, o) /\ Free(w, o) /\ lock' = [lock EXCEPT ![w] = @ \cup {o}]
    BY DEF LockOperation
  <1>2. /\ lock'[w] = lock[w] \cup {o} /\ pc[w] = "lock" /\ OwnersKnown(w)
        /\ \A u \in Writers \ {w} : lock'[u] = lock[u]
        /\ UNCHANGED <<db, work, pc, bundle, answer>>
    BY <1>1 DEF LockOperation, TypeOK
  <1>3. work[w] \subseteq bundle[w] /\ bundle[w] \subseteq UNION Bundles
    BY DEF Standing, TypeOK
  <1>4. Known(bundle[w], db)
    BY <1>2, <1>3, OwnersAsStored
  <1>5. Standing(w)'
    <2>1. Visible(w)' = Visible(w)
      BY <1>2 DEF Visible
    <2>2. lock'[w] \subseteq {p.id : p \in Of(Visible(w), "operation")}
      BY <1>1, <1>2 DEF Exists, Standing
    <2>. QED BY <1>2, <2>1, <2>2 DEF Standing
  <1>6. InOrder(w)'
    <2>1. ToLock(w)' = ToLock(w) \ {o}
      BY <1>2 DEF ToLock, Visible
    <2>2. ToLock(w) \subseteq Nat
      BY <1>3, OwnersAsStored, AffectedAreOperations DEF Sound
    <2>3. o \in Nat /\ \A p \in ToLock(w) \ {o} : o < p
      BY <2>2 DEF NextToLock
    <2>4. \A x \in lock[w], y \in ToLock(w) : x < y
      BY <1>2 DEF InOrder
    <2>5. \A x \in lock'[w], y \in ToLock(w)' : x < y
      BY <1>2, <2>1, <2>3, <2>4
    <2>. QED BY <1>2, <1>4, <2>5 DEF InOrder
  <1>7. ASSUME NEW u \in Writers \ {w} PROVE Standing(u)' /\ InOrder(u)'
    BY <1>2, StandsStill
  <1>8. Exclusive'
    BY <1>1, <1>2 DEF Exclusive, Free
  <1>9. Apart'
    BY <1>2 DEF Apart, InFlight
  <1>. QED BY <1>2, <1>5, <1>6, <1>7, <1>8, <1>9

LEMMA LockedGuarded ==
  ASSUME Guarded, TypeOK', NEW w \in Writers, Locked(w)
  PROVE  Guarded'
  <1>. USE DEF Guarded
  <1>1. /\ pc[w] = "lock" /\ pc'[w] = "write"
        /\ OwnersKnown(w) /\ ToLock(w) = {}
        /\ \A u \in Writers \ {w} : pc'[u] = pc[u]
        /\ UNCHANGED <<db, work, lock, bundle, answer>>
    BY DEF Locked, TypeOK
  <1>2. Known(bundle[w], db) /\ Affected(bundle[w], db) \subseteq lock[w]
    BY <1>1, OwnersAsStored DEF Standing
  <1>3. Standing(w)'
    BY <1>1, <1>2 DEF Standing, Visible
  <1>4. InOrder(w)'
    BY <1>1 DEF InOrder
  <1>5. work' = [work EXCEPT ![w] = @ \cup {}]
    BY <1>1 DEF TypeOK
  <1>. QED BY <1>1, <1>3, <1>4, <1>5, NewRowsGuarded

\* Nobody else is inserting a row that belongs to an operation w has locked.
LEMMA LockedRowsAreFree ==
  ASSUME Guarded, NEW w \in Writers,
         pc[w] \in {"write", "select", "commit"},
         NEW r \in bundle[w], r.kind \notin {"operation", "selection"}
  PROVE  ~ InFlight(w, r)
  <1>. USE DEF Guarded
  <1>. SUFFICES ASSUME NEW v \in Writers \ {w}, NEW s \in work[v],
                       Keys(r) \cap Keys(s) # {}
                PROVE  FALSE
    BY DEF InFlight, Collides
  <1>1. r.kind = s.kind
    BY KeysTell
  <1>2. pc[v] \in {"select", "commit"}
    <2>1. pc[v] \in Pcs /\ pc[v] # "idle"
      BY DEF Standing, TypeOK
    <2>2. pc[v] \notin {"operations", "lock", "write"}
      BY <1>1 DEF Standing
    <2>. QED BY <2>1, <2>2 DEF Pcs
  <1>3. /\ s \in bundle[v] /\ Known(bundle[v], db) /\ Known(bundle[w], db)
        /\ Affected(bundle[v], db) \subseteq lock[v]
        /\ Affected(bundle[w], db) \subseteq lock[w]
    BY <1>2 DEF Standing
  <1>4. Affected(bundle[w], db) \cap Affected(bundle[v], db) # {}
    <2>1. /\ bundle[w] \subseteq UNION Bundles /\ bundle[v] \subseteq UNION Bundles
          /\ Referenced(db) /\ db \subseteq UNION Bundles
      BY DEF TypeOK, Sound
    <2>. QED BY <1>3, <2>1, CollidingRows
  <1>5. lock[w] \cap lock[v] = {}
    BY DEF Exclusive
  <1>. QED BY <1>3, <1>4, <1>5

LEMMA WriteGuarded ==
  ASSUME Guarded, TypeOK', NEW w \in Writers, Write(w)
  PROVE  Guarded'
  <1>. USE DEF Guarded
  <1>. DEFINE N == {r \in bundle[w] : r.kind # "selection"
                                      /\ ~ Collides(r, Visible(w))}
  <1>1. /\ pc[w] = "write" /\ pc'[w] = "select"
        /\ Writable(bundle[w], Visible(w))
        /\ work' = [work EXCEPT ![w] = @ \cup N] /\ work'[w] = work[w] \cup N
        /\ \A u \in Writers \ {w} : pc'[u] = pc[u]
        /\ UNCHANGED <<db, lock, bundle, answer>>
    BY DEF Write, TypeOK
  <1>2. Writable(bundle[w], db)
    <2>1. work[w] \subseteq Of(bundle[w], "operation")
      BY <1>1 DEF Standing, Of
    <2>2. \A r \in work[w] : ~ Collides(r, db)
      BY DEF Apart
    <2>. QED BY <1>1, <2>1, <2>2, OwnOperations DEF Visible
  <1>3. \A r \in bundle[w] : r.kind # "selection" => r \in Visible(w) \cup N
    BY <1>1 DEF Writable, Insertable
  <1>4. Standing(w)'
    <2>1. Visible(w)' = Visible(w) \cup N
      BY <1>1 DEF Visible
    <2>2. {p.id : p \in Of(Visible(w), "operation")}
            \subseteq {p.id : p \in Of(Visible(w)', "operation")}
      BY <2>1 DEF Of
    <2>. HIDE DEF N
    <2>3. N \subseteq bundle[w]
      BY DEF N
    <2>. QED BY <1>1, <1>2, <1>3, <2>1, <2>2, <2>3 DEF Standing
  <1>5. InOrder(w)'
    BY <1>1 DEF InOrder
  <1>6. ASSUME NEW r \in N PROVE ~ Collides(r, db) /\ ~ InFlight(w, r)
    <2>1. ~ Collides(r, db)
      BY CollidesEither DEF Visible
    <2>2. r.kind # "operation"
      <3>1. SUFFICES ASSUME r.kind = "operation" PROVE FALSE
        OBVIOUS
      <3>2. r \in Visible(w)
        BY <1>1, <3>1 DEF Standing, Of
      <3>3. Keys(r) \cap Keys(r) # {}
        BY DEF Keys
      <3>. QED BY <3>2, <3>3 DEF Collides
    <2>. QED BY <1>1, <2>1, <2>2, LockedRowsAreFree
  <1>. QED BY <1>1, <1>4, <1>5, <1>6, NewRowsGuarded

-----------------------------------------------------------------------------
(* A commit is one step of the ledger *)

LEMMA CommittedIsAccepted ==
  ASSUME Guarded, NEW w \in Writers, pc[w] = "commit"
  PROVE  /\ bundle[w] \in Bundles
         /\ db \cup work[w] = db \cup bundle[w]
         /\ Accepts(bundle[w], db)
  <1>. USE DEF Guarded
  <1>1. /\ bundle[w] \in Bundles /\ work[w] \subseteq bundle[w]
        /\ bundle[w] \subseteq db \cup work[w]
        /\ Known(bundle[w], db) /\ Writable(bundle[w], db)
        /\ Affected(bundle[w], db) \subseteq lock[w]
        /\ lock[w] \subseteq {p.id : p \in Of(db \cup work[w], "operation")}
    BY DEF Standing, Visible
  <1>2. db \cup work[w] = db \cup bundle[w]
    BY <1>1
  <1>3. \A r \in bundle[w] : Insertable(r, db)
    BY <1>1 DEF Insertable, Apart
  <1>4. Affected(bundle[w], db) \subseteq {p.id : p \in Of(db \cup bundle[w], "operation")}
    BY <1>1, <1>2
  <1>. QED BY <1>1, <1>2, <1>3, <1>4 DEF Accepts, Known

LEMMA CommitGuarded ==
  ASSUME Guarded, TypeOK', NEW w \in Writers, NEW kind, pc[w] = "commit",
         db' = db \cup work[w], Ends(w, kind)
  PROVE  Guarded'
  <1>. USE DEF Guarded
  <1>. DEFINE C == bundle[w]
  <1>1. C \in Bundles /\ db' = db \cup C /\ Accepts(C, db)
    BY CommittedIsAccepted
  <1>2. Sound(db')
    BY <1>1, AcceptedKeepsSound
  <1>3. Standing(w)' /\ InOrder(w)'
    BY Ended DEF Standing, InOrder
  <1>4. /\ Referenced(db) /\ db \subseteq UNION Bundles /\ C \subseteq UNION Bundles
        /\ db \subseteq db' /\ Affected(C, db) \subseteq lock[w]
    BY <1>1 DEF Sound, Standing
  <1>5. Apart'
    <2>1. work'[w] = {} /\ \A u \in Writers \ {w} : work'[u] = work[u]
      BY Ended
    <2>2. ASSUME NEW u \in Writers, NEW r \in work'[u]
          PROVE  /\ ~ Collides(r, db \cup work[w])
                 /\ \A v \in Writers \ {u} : ~ Collides(r, work'[v])
      <3>1. u # w /\ r \in work[u]
        BY <2>1, <2>2
      <3>2. /\ ~ Collides(r, db)
            /\ \A v \in Writers \ {u} : ~ Collides(r, work[v])
        BY <3>1 DEF Apart, InFlight
      <3>3. ~ Collides(r, db \cup work[w])
        BY <3>1, <3>2, CollidesEither
      <3>. QED BY <2>1, <3>2, <3>3 DEF Collides
    <2>. QED BY <2>2 DEF Apart, InFlight
  <1>6. Exclusive'
    BY Ended DEF Exclusive
  <1>7. ASSUME NEW u \in Writers \ {w} PROVE Standing(u)' /\ InOrder(u)'
    <2>1. /\ work'[u] = work[u] /\ lock'[u] = lock[u] /\ pc'[u] = pc[u]
          /\ bundle'[u] = bundle[u] /\ answer'[u] = answer[u]
      BY Ended
    <2>2. Visible(u) \subseteq Visible(u)'
      BY <1>4, <2>1 DEF Visible
    <2>3. bundle[u] \subseteq UNION Bundles /\ work[u] \subseteq bundle[u]
      BY DEF TypeOK, Standing
    <2>4. Known(bundle[u], db) =>
            /\ Known(bundle[u], db')
            /\ Affected(bundle[u], db') = Affected(bundle[u], db)
      <3>1. ASSUME Known(bundle[u], db) PROVE Known(bundle[u], db')
        <4>1. db \cup bundle[u] \subseteq db' \cup bundle[u]
          BY <1>4
        <4>. QED BY <3>1, <4>1, ReferencesGrow DEF Known
      <3>2. ASSUME Known(bundle[u], db)
            PROVE  Affected(bundle[u], db') = Affected(bundle[u], db)
        BY <1>1, <1>4, <2>3, <3>2, AffectedStays
      <3>. QED BY <3>1, <3>2
    <2>5. ASSUME pc[u] \in {"select", "commit"}
          PROVE  Writable(bundle[u], db')
      <3>1. /\ bundle[u] \in Bundles /\ Known(bundle[u], db)
            /\ Writable(bundle[u], db) /\ Affected(bundle[u], db) \subseteq lock[u]
            /\ \A r \in bundle[u] : r.kind # "selection" => r \in Visible(u)
        BY <2>5 DEF Standing
      <3>2. Affected(bundle[u], db) \cap Affected(C, db) = {}
        BY <1>4, <3>1 DEF Exclusive
      <3>3. ASSUME NEW r \in bundle[u], r.kind # "selection"
            PROVE  Insertable(r, db')
        <4>1. CASE r \in db
          BY <1>4, <4>1 DEF Insertable
        <4>2. CASE r \in work[u]
          <5>1. ~ Collides(r, db) /\ ~ Collides(r, work[w])
            BY <4>2 DEF Apart, InFlight
          <5>2. ~ Collides(r, db')
            BY <5>1, CollidesEither
          <5>. QED BY <5>2 DEF Insertable
        <4>. QED BY <3>1, <3>3, <4>1, <4>2 DEF Visible
      <3>4. Writable(bundle[u], db \cup C)
        <4>1. Sound(db) /\ \A r \in bundle[u] : r.kind # "selection"
                                                => Insertable(r, db \cup C)
          BY <1>1, <3>3
        <4>. HIDE DEF C, Guarded
        <4>. QED BY <1>1, <3>1, <3>2, <4>1, GatesCommute
      <3>. QED BY <1>1, <3>4
    <2>6. Standing(u)'
      <3>1. {p.id : p \in Of(Visible(u), "operation")}
              \subseteq {p.id : p \in Of(Visible(u)', "operation")}
        BY <2>2 DEF Of
      <3>. QED BY <2>1, <2>2, <2>4, <2>5, <3>1 DEF Standing
    <2>7. InOrder(u)'
      <3>1. NewOperations(u)' \subseteq NewOperations(u)
        BY <2>1, <2>2 DEF NewOperations
      <3>2. ToLock(u)' = Affected(bundle[u], db') \ lock[u]
        <4>1. Affected(bundle[u], db' \cup work[u]) = Affected(bundle[u], db')
          BY <2>3, OwnRows
        <4>. QED BY <2>1, <4>1 DEF ToLock, Visible
      <3>3. Known(bundle[u], db) => ToLock(u)' = ToLock(u)
        BY <2>3, <2>4, <3>2, OwnersAsStored
      <3>. QED BY <2>1, <2>4, <3>1, <3>3 DEF InOrder
    <2>. QED BY <2>6, <2>7
  <1>. QED BY <1>2, <1>3, <1>5, <1>6, <1>7

LEMMA NextGuarded == Guarded /\ [Next]_vars => Guarded'
  <1>. SUFFICES ASSUME Guarded, [Next]_vars PROVE Guarded'
    OBVIOUS
  <1>0. TypeOK'
    BY NextTypeOK DEF Guarded
  <1>1. ASSUME NEW w \in Writers, NEW B \in Bundles, Submit(w, B) PROVE Guarded'
    BY <1>0, <1>1, SubmitGuarded
  <1>2. ASSUME NEW w \in Writers, Step(w) \/ ConnectionLost(w) PROVE Guarded'
    <2>1. CASE \/ OperationConflict(w) \/ ParentMissing(w) \/ Refuse(w)
               \/ \E r \in bundle[w] : SelectionConflict(w, r)
               \/ DeadlockVictim(w)
      <3>1. \E kind \in Answers : Ends(w, kind) /\ db' = db
        BY <2>1 DEF OperationConflict, ParentMissing, Refuse, SelectionConflict,
                    DeadlockVictim, Refused, Answers
      <3>. QED BY <1>0, <3>1, RollbackGuarded
    <2>2. CASE Commit(w)
      BY <1>0, <2>2, CommitGuarded DEF Commit
    <2>3. CASE ConnectionLost(w)
      BY <1>0, <2>3, CommitGuarded, RollbackGuarded DEF ConnectionLost
    <2>4. CASE InsertOperation(w)
      BY <1>0, <2>4, InsertOperationGuarded
    <2>5. CASE OperationsInserted(w)
      BY <1>0, <2>5, OperationsInsertedGuarded
    <2>6. CASE LockOperation(w)
      BY <1>0, <2>6, LockOperationGuarded
    <2>7. CASE Locked(w)
      BY <1>0, <2>7, LockedGuarded
    <2>8. CASE Write(w)
      BY <1>0, <2>8, WriteGuarded
    <2>9. CASE \E r \in bundle[w] : InsertSelection(w, r)
      BY <1>0, <2>9, InsertSelectionGuarded
    <2>10. CASE Selected(w)
      BY <1>0, <2>10, SelectedGuarded
    <2>. QED BY <1>2, <2>1, <2>2, <2>3, <2>4, <2>5, <2>6, <2>7, <2>8, <2>9, <2>10
             DEF Step
  <1>3. CASE UNCHANGED vars
    <2>1. \A u \in Writers : Standing(u)' /\ InOrder(u)'
      BY <1>3, StandsStill DEF Guarded, vars
    <2>2. Apart' /\ Exclusive' /\ Sound(db)'
      BY <1>3 DEF Guarded, vars, Apart, Exclusive, InFlight
    <2>. QED BY <1>0, <2>1, <2>2 DEF Guarded
  <1>. QED BY <1>1, <1>2, <1>3 DEF Next

LEMMA GuardedAlways == Spec => []Guarded
  <1>. QED BY InitGuarded, NextGuarded, PTL DEF Spec

-----------------------------------------------------------------------------
(* The ledger *)

\* The gates of the ledger are the gates of the writers.
LEMMA SameGates ==
  ASSUME NEW B, NEW D
  PROVE  Ledger!Accepts(B, D) <=> Accepts(B, D)
  BY DEF Accepts, Insertable, Collides, Keys, OwnerKnown, PredecessorExists,
         Affected, Owners, TouchedRuns, Writable, RunsOfOpenOperations,
         ChildrenOfLiveRuns, TerminalContext, CreationContext, PendingContext,
         Verified, HistoryVerifies, DeadlinesVerified, OperationLifecycle,
         RunCreation, AttemptOrdering, StartedOnce, FirstOrRetry, Retry,
         AttemptSet, AttemptResolution, TerminalResolution, Manifest,
         DeadlineEvidence, Ancestry, Of, RunsOf, ClosesOf, StartsOf,
         AttemptsOf, ResultsOf, TerminalsOf, ResolutionsOf,
         Ledger!Accepts, Ledger!Insertable, Ledger!Collides, Ledger!Keys,
         Ledger!OwnerKnown, Ledger!PredecessorExists, Ledger!Affected,
         Ledger!Owners, Ledger!TouchedRuns, Ledger!Writable,
         Ledger!RunsOfOpenOperations, Ledger!ChildrenOfLiveRuns,
         Ledger!TerminalContext, Ledger!CreationContext,
         Ledger!PendingContext, Ledger!Verified, Ledger!HistoryVerifies,
         Ledger!DeadlinesVerified, Ledger!OperationLifecycle,
         Ledger!RunCreation, Ledger!AttemptOrdering, Ledger!StartedOnce,
         Ledger!FirstOrRetry, Ledger!Retry, Ledger!AttemptSet,
         Ledger!AttemptResolution, Ledger!TerminalResolution,
         Ledger!Manifest, Ledger!DeadlineEvidence, Ledger!Ancestry,
         Ledger!Of, Ledger!RunsOf, Ledger!ClosesOf, Ledger!StartsOf,
         Ledger!AttemptsOf, Ledger!ResultsOf, Ledger!TerminalsOf,
         Ledger!ResolutionsOf

\* A step that changes what is stored commits one accepted bundle.
LEMMA OneBundleAtATime ==
  ASSUME Guarded, [Next]_vars, db' # db
  PROVE  \E w \in Writers :
           /\ pc[w] = "commit" /\ bundle[w] \in Bundles
           /\ db' = db \cup bundle[w] /\ Accepts(bundle[w], db)
  <1>1. PICK w \in Writers : pc[w] = "commit" /\ db' = db \cup work[w]
    <2>1. PICK w \in Writers :
            (\E B \in Bundles : Submit(w, B)) \/ Step(w) \/ ConnectionLost(w)
      BY DEF Next, vars
    <2>2. Commit(w) \/ ConnectionLost(w)
      BY <2>1 DEF Step, Submit, InsertOperation, OperationConflict, Refused,
                  OperationsInserted, LockOperation, ParentMissing, Locked, Write,
                  Refuse, InsertSelection, SelectionConflict, Selected,
                  DeadlockVictim
    <2>. QED BY <2>2 DEF Commit, ConnectionLost
  <1>. QED BY <1>1, CommittedIsAccepted

\* Each bundle appears whole, and at that moment it passes every gate against
\* what is then stored: ResearchOrchestration implements ResearchLedger.
THEOREM BundlesAppearWhole == Spec => BundlesAreAtomic
  <1>1. Init => Ledger!LedgerInit
    BY DEF Init, Ledger!LedgerInit
  <1>2. Guarded /\ [Next]_vars => [Ledger!LedgerNext]_db
    <2>. SUFFICES ASSUME Guarded, [Next]_vars, db' # db PROVE Ledger!LedgerNext
      OBVIOUS
    <2>1. PICK w \in Writers :
            /\ bundle[w] \in Bundles
            /\ db' = db \cup bundle[w] /\ Accepts(bundle[w], db)
      BY OneBundleAtATime
    <2>2. Ledger!Persist(bundle[w])
      BY <2>1, SameGates DEF Ledger!Persist
    <2>. QED BY <2>1, <2>2 DEF Ledger!LedgerNext
  <1>. QED BY <1>1, <1>2, GuardedAlways, PTL
           DEF Spec, BundlesAreAtomic, Ledger!LedgerSpec

\* A closed operation gets no run and a finished run no further row, whoever
\* races the close or the terminal resolution.
THEOREM EndsStayFinal == Spec => EndsAreFinal
  <1>. DEFINE Final == /\ \A c \in Of(db, "close") :
                            RunsOf(db', c.operation) = RunsOf(db, c.operation)
                       /\ \A t \in Of(db, "terminal") :
                            Activity(db', t.run) = Activity(db, t.run)
  <1>1. Guarded /\ [Next]_vars => [Final]_vars
    <2>. SUFFICES ASSUME Guarded, [Next]_vars PROVE Final
      OBVIOUS
    <2>1. CASE db' = db
      BY <2>1
    <2>2. CASE db' # db
      <3>1. PICK B \in Bundles : db' = db \cup B /\ Accepts(B, db)
        BY <2>2, OneBundleAtATime
      <3>2. /\ \A c \in Of(db, "close") :
                 RunsOf(db \cup B, c.operation) = RunsOf(db, c.operation)
            /\ \A t \in Of(db, "terminal") : SameRun(db, db \cup B, t.run)
        BY <3>1, EndsStay DEF Guarded
      <3>3. ASSUME NEW t \in Of(db, "terminal")
            PROVE  Activity(db', t.run) = Activity(db, t.run)
        <4>1. SameRun(db, db', t.run)
          BY <3>1, <3>2
        <4>2. UNION {ResolutionsOf(db', a.id) : a \in AttemptsOf(db', t.run)}
                = UNION {ResolutionsOf(db, a.id) : a \in AttemptsOf(db, t.run)}
          BY <4>1 DEF SameRun
        <4>. QED BY <4>1, <4>2 DEF SameRun, Activity
      <3>. QED BY <3>1, <3>2, <3>3
    <2>. QED BY <2>1, <2>2
  <1>. QED BY <1>1, GuardedAlways, PTL DEF Spec, EndsAreFinal

\* A caller that is told its bundle was accepted finds every row of it stored,
\* with the content it submitted.
THEOREM AcceptanceIsKept == Spec => AcceptedIsStored
  <1>. DEFINE Kept == \A w \in Writers :
                        pc[w] # "idle" /\ answer'[w] = "accepted"
                          => bundle[w] \subseteq db'
  <1>1. Guarded /\ [Next]_vars => [Kept]_vars
    <2>. SUFFICES ASSUME Guarded, [Next]_vars,
                         NEW w \in Writers, pc[w] # "idle", answer'[w] = "accepted"
                  PROVE  bundle[w] \subseteq db'
      OBVIOUS
    <2>1. answer[w] = "none"
      BY DEF Guarded, Standing
    <2>2. PICK v \in Writers :
            (\E B \in Bundles : Submit(v, B)) \/ Step(v) \/ ConnectionLost(v)
      BY <2>1 DEF Next, vars
    <2>3. \A kind : Ends(v, kind) => v = w /\ kind = "accepted"
      BY <2>1, Ended DEF Guarded
    <2>4. answer' # answer
      BY <2>1
    <2>5. Commit(v) /\ v = w
      <3>1. \A B \in Bundles : ~ Submit(v, B)
        BY <2>1 DEF Submit, Guarded, TypeOK
      <3>. QED BY <2>2, <2>3, <2>4, <3>1
               DEF Step, InsertOperation, OperationConflict, Refused,
                   OperationsInserted, LockOperation, ParentMissing, Locked, Write,
                   Refuse, InsertSelection, SelectionConflict, Selected, Commit,
                   DeadlockVictim, ConnectionLost
    <2>. QED BY <2>5, CommittedIsAccepted DEF Commit
  <1>. QED BY <1>1, GuardedAlways, PTL DEF Spec, AcceptedIsStored

-----------------------------------------------------------------------------
(* What readers find *)

LEMMA SoundRunsAreCoherent ==
  ASSUME Sound(db)
  PROVE  RunsAreCoherent
  <1>1. ManifestsAreComplete
    <2>. SUFFICES ASSUME NEW t \in Of(db, "terminal")
                  PROVE  t.manifest = {x.id : x \in ResultsOf(db, t.run)}
      BY DEF ManifestsAreComplete
    <2>1. PICK r \in Of(db, "run") : r.id = t.run
      BY DEF Sound, Referenced, OwnerKnown, Of
    <2>2. Finished(db, r, t)
      BY <2>1 DEF Sound, TerminalsSound, TerminalsOf
    <2>. QED BY <2>2 DEF Finished, TerminalResolution, Manifest
  <1>2. AttemptsAreSequential
    <2>. SUFFICES ASSUME NEW a \in Of(db, "attempt"), NEW b \in Of(db, "attempt"),
                         a.run = b.run, a # b
                  PROVE  /\ a.number # b.number
                         /\ a.number < b.number =>
                              \E s \in ResolutionsOf(db, a.id) :
                                s.outcome = "FAILED" /\ s.at < b.at
      BY DEF AttemptsAreSequential
    <2>1. a \in db /\ b \in db /\ a.kind = "attempt" /\ b.kind = "attempt"
      BY DEF Of
    <2>2. a.number # b.number
      BY <2>1, KeyFacts DEF Sound
    <2>. QED BY <2>2, AttemptsFollowFailures
  <1>3. DeadlinesAreExplained
    <2>. SUFFICES ASSUME NEW r \in Of(db, "run"), NEW t \in TerminalsOf(db, r.id),
                         NEW a \in AttemptsOf(db, r.id)
                  PROVE  \E s \in ResolutionsOf(db, a.id) :
                           /\ a.at <= r.deadline
                           /\ s.at >= r.deadline =>
                                /\ s.outcome = "FAILED" /\ s.cause = "deadline"
                                /\ t.outcome = "TIMED_OUT"
      BY DEF DeadlinesAreExplained
    <2>1. Finished(db, r, t)
      BY DEF Sound, TerminalsSound
    <2>2. PICK s \in ResolutionsOf(db, a.id) : TRUE
      BY <2>1 DEF Finished, TerminalResolution, AttemptSet
    <2>3. \/ a.at <= r.deadline /\ s.at < r.deadline
          \/ /\ a.at <= r.deadline /\ t.outcome = "TIMED_OUT"
             /\ s.outcome = "FAILED" /\ s.cause = "deadline"
      BY <2>1 DEF Finished, DeadlineEvidence, ResolutionsOf
    <2>4. s.at \in Nat /\ r.deadline \in Nat
      BY RowFields DEF Sound, ResolutionsOf, Of
    <2>. QED BY <2>3, <2>4
  <1>4. RerunsFollowTerminals
    BY DEF Sound, RunsSound, RerunsFollowTerminals
  <1>. QED BY <1>1, <1>2, <1>3, <1>4 DEF RunsAreCoherent

\* The whole graph of an operation verifies, unless a close was backdated.
LEMMA OperationVerifies ==
  ASSUME Sound(db), NEW o, ~ Backdated(db, o)
  PROVE  HistoryVerifies(db, o, {r.id : r \in RunsOf(db, o)})
  <1>1. OperationLifecycle(db, o)
    <2>1. \A c, d \in ClosesOf(db, o) : c = d
      BY KeyFacts DEF Sound, ClosesOf, Of
    <2>. QED BY <2>1 DEF Sound, LifecyclesSound, OperationLifecycle
  <1>2. ASSUME NEW r \in RunsOf(db, o)
        PROVE  /\ RunCreation(db, r)
               /\ \A a \in AttemptsOf(db, r.id), s \in Of(db, "resolution") :
                    s.attempt = a.id => AttemptResolution(a, s)
               /\ \A t \in TerminalsOf(db, r.id) :
                    /\ TerminalResolution(db, r, t)
                    /\ StartsOf(db, r.id) # {}
                    /\ StartedOnce(db, r)
    <2>1. r \in Of(db, "run") /\ r.operation = o /\ r.at \in Nat
      BY RowFields DEF RunsOf, Of, Sound
    <2>2. \A c \in ClosesOf(db, r.operation) : c.at > r.at
      <3>1. \A c \in ClosesOf(db, o) : c.at \in Nat /\ ~ (c.at <= r.at)
        BY RowFields DEF Backdated, ClosesOf, Of, Sound
      <3>. QED BY <2>1, <3>1
    <2>3. RunCreation(db, r)
      BY <2>1, <2>2 DEF RunCreation, Sound, RunsSound
    <2>4. \A a \in AttemptsOf(db, r.id), s \in Of(db, "resolution") :
            s.attempt = a.id => AttemptResolution(a, s)
      BY DEF Sound, AttemptsSound, AttemptsOf, ResolutionsOf
    <2>5. \A t \in TerminalsOf(db, r.id) : Finished(db, r, t)
      BY <2>1 DEF Sound, TerminalsSound
    <2>. QED BY <2>3, <2>4, <2>5 DEF Finished
  <1>. QED BY <1>1, <1>2 DEF HistoryVerifies

\* Complete manifests, sequential attempts, explained deadlines and reruns that
\* follow finished runs, whoever wrote which row.
THEOREM RunsStayCoherent == Spec => []RunsAreCoherent
  <1>1. Guarded => RunsAreCoherent
    BY SoundRunsAreCoherent DEF Guarded
  <1>. QED BY <1>1, GuardedAlways, PTL

\* The historical verifier passes what the writers let grow, backdated closes
\* apart.
THEOREM ReadersAgree == Spec => []HistoriesStayReadable
  <1>1. Guarded => HistoriesStayReadable
    BY OperationVerifies DEF Guarded, HistoriesStayReadable
  <1>. QED BY <1>1, GuardedAlways, PTL

-----------------------------------------------------------------------------
(* No dead ends *)

\* The failure of a started run r whose attempts ended in time, as the next
\* bundle, an instant after the latest row q.
LEMMA FailureIsWritable ==
  ASSUME Sound(db), FailureIsFresh, NEW r \in Of(db, "run"),
         TerminalsOf(db, r.id) = {}, StartsOf(db, r.id) # {},
         ~ Unexplained(db, r), ~ Backdated(db, r.operation),
         \A a \in AttemptsOf(db, r.id) : ResolutionsOf(db, a.id) # {},
         NEW q \in db, \A x \in db : x.at <= q.at
  PROVE  Writable({Failure(db, r, q.at + 1)}, db)
  <1>. DEFINE f == Failure(db, r, q.at + 1)
              E == db \cup {f}
              o == r.operation
  <1>1. /\ f.kind = "terminal" /\ f.id = "failure" /\ f.run = r.id
        /\ f.outcome = "FAILED" /\ f.at = q.at + 1
        /\ f.manifest = {x.id : x \in ResultsOf(db, r.id)}
    BY DEF Failure
  <1>2. /\ \A x \in db : x.at \in Nat /\ x.at < q.at + 1 /\ x.at <= q.at + 1
        /\ r \in db /\ r.kind = "run" /\ r.deadline \in Nat
        /\ db \subseteq UNION Bundles /\ KeysUnique(db)
    BY RowFields DEF Sound, Of
  <1>. HIDE DEF f
  <1>3. ~ Collides(f, db)
    <2>. SUFFICES ASSUME NEW s \in db, Keys(f) \cap Keys(s) # {} PROVE FALSE
      BY DEF Collides
    <2>1. s.kind = "terminal" /\ (f.id = s.id \/ s.run = r.id)
      BY <1>1, KeysTell
    <2>. QED BY <1>1, <1>2, <2>1 DEF FailureIsFresh, TerminalsOf, Of
  <1>4. /\ db \subseteq E
        /\ \A k : k # "terminal" => Of(E, k) = Of(db, k)
        /\ \A j : RunsOf(E, j) = RunsOf(db, j) /\ ClosesOf(E, j) = ClosesOf(db, j)
        /\ \A j : j # r.id => SameRun(db, E, j)
        /\ StartsOf(E, r.id) = StartsOf(db, r.id)
        /\ AttemptsOf(E, r.id) = AttemptsOf(db, r.id)
        /\ ResultsOf(E, r.id) = ResultsOf(db, r.id)
        /\ \A j : ResolutionsOf(E, j) = ResolutionsOf(db, j)
        /\ TerminalsOf(E, r.id) = {f}
    BY <1>1 DEF SameRun, RunsOf, ClosesOf, StartsOf, AttemptsOf, ResultsOf,
                ResolutionsOf, TerminalsOf, Of
  <1>5. \A p \in Of(db, "run") : p.id = r.id => p = r
    BY <1>2, KeyFacts DEF Of
  <1>6. Owners({f}, db) = {r.id} /\ Affected({f}, db) = {o}
    <2>1. Owners({f}, db) = {r.id}
      BY <1>1 DEF Owners, TouchedRuns
    <2>2. /\ Of({f}, "operation") = {} /\ Of({f}, "close") = {}
          /\ Of(db \cup {f}, "run") = Of(db, "run")
      BY <1>1 DEF Of
    <2>. QED BY <1>5, <2>1, <2>2 DEF Affected
  <1>7. HistoryVerifies(db, o, {p.id : p \in RunsOf(db, o)})
    BY OperationVerifies
  <1>8. OperationLifecycle(E, o)
    BY <1>4, <1>7 DEF HistoryVerifies, OperationLifecycle
  <1>9. AttemptOrdering(E, r) /\ StartedOnce(E, r)
    <2>1. AttemptOrdering(db, r)
      BY DEF Sound, OrderingsSound
    <2>. QED BY <1>4, <2>1, RetriesGrow DEF AttemptOrdering, StartedOnce
  <1>10. TerminalResolution(E, r, f)
    <2>1. ASSUME NEW a \in AttemptsOf(E, r.id)
          PROVE  /\ FirstOrRetry(E, a)
                 /\ a.at < f.at
                 /\ \E s \in ResolutionsOf(E, a.id) :
                      AttemptResolution(a, s) /\ s.at <= f.at
      <3>1. a \in AttemptsOf(db, r.id) /\ a \in Of(db, "attempt") /\ a \in db
        BY <1>4 DEF AttemptsOf, Of
      <3>2. PICK s \in ResolutionsOf(db, a.id) : TRUE
        BY <3>1
      <3>3. AttemptResolution(a, s) /\ s \in db
        BY <3>1 DEF Sound, AttemptsSound, ResolutionsOf, Of
      <3>. QED BY <1>1, <1>2, <1>4, <1>9, <3>1, <3>2, <3>3 DEF AttemptOrdering
    <2>2. AttemptSet(E, r.id, f.at)
      BY <2>1 DEF AttemptSet
    <2>3. \A x \in ResultsOf(E, r.id) : x.at <= f.at
      BY <1>1, <1>2, <1>4 DEF ResultsOf, Of
    <2>. QED BY <1>1, <1>4, <2>2, <2>3 DEF TerminalResolution, Manifest
  <1>11. DeadlineEvidence(E, r, f)
    <2>. SUFFICES ASSUME NEW a \in AttemptsOf(E, r.id),
                         NEW s \in Of(E, "resolution"), s.attempt = a.id
                  PROVE  a.at <= r.deadline /\ s.at < r.deadline
      BY DEF DeadlineEvidence
    <2>1. /\ a \in AttemptsOf(db, r.id) /\ s \in Of(db, "resolution")
          /\ a \in db /\ s \in db
      BY <1>4 DEF AttemptsOf, Of
    <2>2. ~ (a.at > r.deadline \/ s.at >= r.deadline)
      BY <2>1 DEF Unexplained
    <2>. QED BY <1>2, <2>1, <2>2
  <1>12. ASSUME NEW I PROVE HistoryVerifies(E, o, I)
    <2>. SUFFICES ASSUME NEW p \in RunsOf(E, o)
                  PROVE  /\ RunCreation(E, p)
                         /\ \A a \in AttemptsOf(E, p.id), s \in Of(E, "resolution") :
                              s.attempt = a.id => AttemptResolution(a, s)
                         /\ \A t \in TerminalsOf(E, p.id) :
                              /\ TerminalResolution(E, p, t)
                              /\ StartsOf(E, p.id) # {}
                              /\ StartedOnce(E, p)
      BY <1>8 DEF HistoryVerifies
    <2>1. p \in RunsOf(db, o) /\ p \in Of(db, "run")
      BY <1>4 DEF RunsOf
    <2>2. /\ RunCreation(db, p)
          /\ \A a \in AttemptsOf(db, p.id), s \in Of(db, "resolution") :
               s.attempt = a.id => AttemptResolution(a, s)
          /\ \A t \in TerminalsOf(db, p.id) :
               /\ TerminalResolution(db, p, t)
               /\ StartsOf(db, p.id) # {}
               /\ StartedOnce(db, p)
      BY <1>7, <2>1 DEF HistoryVerifies
    <2>3. RunCreation(E, p)
      BY <1>4, <2>2 DEF RunCreation, TerminalsOf, Of
    <2>4. \A a \in AttemptsOf(E, p.id), s \in Of(E, "resolution") :
            s.attempt = a.id => AttemptResolution(a, s)
      BY <1>4, <2>2 DEF SameRun
    <2>5. CASE p.id = r.id
      BY <1>4, <1>5, <1>9, <1>10, <2>1, <2>3, <2>4, <2>5
    <2>6. CASE p.id # r.id
      <3>1. SameRun(db, E, p.id) /\ \A t \in TerminalsOf(E, p.id) :
                                      t \in TerminalsOf(db, p.id) /\ t.run = p.id
        BY <1>4, <2>6 DEF SameRun, TerminalsOf
      <3>2. ASSUME NEW t \in TerminalsOf(E, p.id)
            PROVE  /\ TerminalResolution(E, p, t)
                   /\ StartsOf(E, p.id) # {}
                   /\ StartedOnce(E, p)
        <4>1. TerminalResolution(E, p, t) /\ StartedOnce(E, p)
          BY <1>4, <2>2, <3>1, RunStays
        <4>. QED BY <2>2, <3>1, <4>1 DEF SameRun
      <3>. QED BY <2>3, <2>4, <3>2
    <2>. QED BY <2>5, <2>6
  <1>13. DeadlinesVerified(E, o, Ancestry(E, r.id))
    <2>. SUFFICES ASSUME NEW p \in RunsOf(E, o), p.id \in Ancestry(E, r.id)
                  PROVE  /\ \A t \in TerminalsOf(E, p.id) : DeadlineEvidence(E, p, t)
                         /\ TerminalsOf(E, p.id) # {}
      BY DEF DeadlinesVerified
    <2>1. p \in Of(db, "run") /\ p.id # None
      BY <1>2, <1>4, RowFields DEF RunsOf, Of
    <2>2. CASE p.id = r.id
      BY <1>4, <1>5, <1>11, <2>1, <2>2
    <2>3. CASE p.id # r.id
      <3>1. SameRun(db, E, p.id)
        BY <1>4, <2>3
      <3>2. PICK c \in Of(db, "run") : c.predecessor = p.id
        BY <1>4, <2>3 DEF Ancestry
      <3>3. TerminalsOf(db, p.id) # {}
        BY <2>1, <3>2 DEF Sound, RunsSound
      <3>4. ASSUME NEW t \in TerminalsOf(E, p.id) PROVE DeadlineEvidence(E, p, t)
        <4>1. t \in TerminalsOf(db, p.id) /\ t.run = p.id
          BY <3>1 DEF SameRun, TerminalsOf
        <4>2. DeadlineEvidence(db, p, t)
          BY <2>1, <4>1 DEF Sound, TerminalsSound, Finished
        <4>. QED BY <1>4, <3>1, <4>1, <4>2, RunStays
      <3>. QED BY <3>1, <3>3, <3>4 DEF SameRun
    <2>. QED BY <2>2, <2>3
  <1>14. TerminalContext(E, r) /\ PendingContext(E, r)
    BY <1>9, <1>12, <1>13 DEF TerminalContext, PendingContext, Verified
  <1>15. ASSUME NEW p \in Of(E, "run")
         PROVE  /\ p.id \in {t.run : t \in Of({f}, "terminal")} => TerminalContext(E, p)
                /\ p \in {f} \ db => CreationContext(E, p)
                /\ p.id \in Owners({f}, db) => PendingContext(E, p)
    <2>1. p \in Of(db, "run") /\ p # f
      BY <1>1, <1>4 DEF Of
    <2>2. p.id = r.id => TerminalContext(E, p) /\ PendingContext(E, p)
      BY <1>5, <1>14, <2>1
    <2>. HIDE DEF E
    <2>. QED BY <1>1, <1>6, <2>1, <2>2 DEF Of
  <1>16. /\ PredecessorExists(f, E) /\ Insertable(f, db)
         /\ RunsOfOpenOperations({f}, db) /\ ChildrenOfLiveRuns({f}, db)
    BY <1>1, <1>3 DEF PredecessorExists, Insertable, RunsOfOpenOperations,
                      ChildrenOfLiveRuns, Of
  <1>17. Writable({f}, db)
    BY <1>6, <1>8, <1>15, <1>16 DEF Writable
  <1>. QED BY <1>17 DEF f

\* A started run whose attempts are all over can be finished as FAILED, its
\* deadline and a backdated close apart: no accepted row leads to a dead end.
\* The caller of the failure draws a new id for it.
THEOREM NoDeadEnds ==
  ASSUME FailureIsFresh
  PROVE  Spec => []RunsCanFinish
  <1>1. Init => IsFiniteSet(db)
    BY FS_EmptySet DEF Init
  <1>2. Guarded /\ IsFiniteSet(db) /\ [Next]_vars => IsFiniteSet(db)'
    <2>. SUFFICES ASSUME Guarded, IsFiniteSet(db), [Next]_vars, db' # db
                  PROVE  IsFiniteSet(db')
      OBVIOUS
    <2>1. PICK B \in Bundles : db' = db \cup B
      BY OneBundleAtATime
    <2>2. IsFiniteSet(B)
      BY BundleAssumption
    <2>3. IsFiniteSet(db \cup B)
      BY <2>2, FS_Union
    <2>. QED BY <2>1, <2>3
  <1>3. Guarded /\ IsFiniteSet(db) => RunsCanFinish
    <2>. SUFFICES ASSUME Sound(db), IsFiniteSet(db), NEW r \in Of(db, "run"),
                         TerminalsOf(db, r.id) = {}, StartsOf(db, r.id) # {},
                         ~ Unexplained(db, r), ~ Backdated(db, r.operation),
                         \A a \in AttemptsOf(db, r.id) : ResolutionsOf(db, a.id) # {}
                  PROVE  \E q \in db : Writable({Failure(db, r, q.at + 1)}, db)
      BY DEF Guarded, RunsCanFinish
    <2>1. db # {} /\ \A x \in db : x.at \in Nat
      BY RowFields DEF Sound, Of
    <2>2. PICK q \in db : \A x \in db : x.at <= q.at
      BY <2>1, LatestRow
    <2>. QED BY <2>2, FailureIsWritable
  <1>. QED BY <1>1, <1>2, <1>3, GuardedAlways, PTL DEF Spec

-----------------------------------------------------------------------------
(* Waits *)

\* Who waits for a call that is not at its selections wants an operation that
\* the call has inserted or locked.
LEMMA WaitsForOperation ==
  ASSUME Guarded, NEW u \in Writers, NEW w \in Writers, Waits(u, w),
         pc[w] \in {"operations", "lock"}
  PROVE  \/ /\ pc[u] = "operations"
            /\ \E r \in First(NewOperations(u)), x \in work[w] : r.id = x.id
         \/ /\ pc[u] = "lock" /\ pc[w] = "lock"
            /\ \E o \in NextToLock(u) : o \in lock[w]
  <1>1. /\ \A x \in work[w] : x.kind = "operation"
        /\ pc[w] = "operations" => lock[w] = {}
    BY DEF Guarded, Standing
  <1>2. CASE WaitsAtLock(u, w)
    BY <1>1, <1>2 DEF WaitsAtLock
  <1>3. CASE WaitsAtInsert(u, w)
    <2>1. ASSUME NEW r \in Unselected(u), Collides(r, work[w]) PROVE FALSE
      <3>1. PICK x \in work[w] : Keys(r) \cap Keys(x) # {}
        BY <2>1 DEF Collides
      <3>2. r.kind = "selection"
        BY DEF Unselected, Of
      <3>. QED BY <1>1, <3>1, <3>2, KeysTell
    <2>2. /\ pc[u] = "operations"
          /\ \E r \in First(NewOperations(u)) : Collides(r, work[w])
      BY <1>3, <2>1 DEF WaitsAtInsert
    <2>3. PICK r \in First(NewOperations(u)), x \in work[w] : Keys(r) \cap Keys(x) # {}
      BY <2>2 DEF Collides
    <2>4. r.kind = "operation"
      BY DEF First, NewOperations, Of
    <2>5. r.id = x.id
      BY <2>3, <2>4, KeysTell
    <2>. QED BY <2>2, <2>5
  <1>. QED BY <1>2, <1>3 DEF Waits

\* Of the members of a cycle of waits that are at their operations, the one
\* that wants the least id is waited for by one that wants less; so is, when
\* there is none, the member at a lock that wants the least.
LEMMA GuardedNeverDeadlocks ==
  ASSUME Guarded
  PROVE  LocksNeverDeadlock
  <1>. USE DEF Guarded
  <1>. SUFFICES ASSUME NEW w0 \in Writers, Deadlocked(w0), pc[w0] # "select"
                PROVE  FALSE
    BY DEF LocksNeverDeadlock
  <1>1. PICK C \in SUBSET Writers :
          /\ w0 \in C
          /\ \A v \in C : (\E u \in C : Waits(v, u)) /\ (\E u \in C : Waits(u, v))
    BY DEF Deadlocked
  <1>2. \A v \in C : v \in Writers
    OBVIOUS
  <1>3. ASSUME NEW v \in C, pc[v] = "operations"
        PROVE  \E r \in First(NewOperations(v)) : ~ Collides(r, Visible(v))
    <2>1. PICK u \in C : Waits(v, u)
      BY <1>1
    <2>. QED BY <1>3, <2>1 DEF Waits, WaitsAtInsert, WaitsAtLock
  <1>4. ASSUME NEW v \in C, pc[v] = "operations" PROVE FALSE
    <2>. DEFINE Inserts == {u \in C : pc[u] = "operations"}
                Wanted == UNION {{r.id : r \in First(NewOperations(u))} : u \in Inserts}
    <2>1. Wanted \subseteq Nat /\ Wanted # {}
      <3>1. ASSUME NEW u \in Inserts, NEW r \in First(NewOperations(u))
            PROVE  r.id \in Nat
        <4>1. r \in UNION Bundles /\ r.kind = "operation"
          BY DEF First, NewOperations, Of, TypeOK
        <4>. QED BY <4>1, RowFields
      <3>2. PICK r \in First(NewOperations(v)) : TRUE
        BY <1>3, <1>4
      <3>. QED BY <1>4, <3>1, <3>2
    <2>2. PICK n \in Wanted : \A m \in Wanted : n <= m
      <3>. HIDE DEF Wanted
      <3>. QED BY <2>1, LeastNumber
    <2>3. PICK w \in Inserts : \E y \in First(NewOperations(w)) : y.id = n
      OBVIOUS
    <2>4. PICK y \in First(NewOperations(w)) : ~ Collides(y, Visible(w))
      BY <1>3, <2>3
    <2>5. y.id = n /\ y.kind = "operation"
      <3>1. \A x \in First(NewOperations(w)) :
              /\ x.id \in Wanted /\ x.id \in Nat
              /\ \A z \in NewOperations(w) : x.id <= z.id
        BY <2>1, <2>3 DEF First
      <3>2. \A x \in First(NewOperations(w)) : x \in NewOperations(w)
        BY DEF First
      <3>. QED BY <2>3, <3>1, <3>2 DEF NewOperations, Of
    <2>6. PICK u \in C : Waits(u, w)
      BY <1>1, <2>3
    <2>7. pc[u] = "operations"
          /\ \E r \in First(NewOperations(u)), x \in work[w] : r.id = x.id
      BY <1>2, <2>3, <2>6, WaitsForOperation
    <2>8. PICK r \in First(NewOperations(u)), x \in work[w] : r.id = x.id
      BY <2>7
    <2>9. x.kind = "operation" /\ x.id <= n
      <3>1. y \in NewOperations(w)
        BY DEF First
      <3>. QED BY <1>2, <2>3, <2>5, <3>1 DEF Standing, InOrder
    <2>10. n <= r.id /\ r.id \in Nat /\ n \in Nat
      BY <2>1, <2>2, <2>7
    <2>11. x.id = y.id
      BY <2>5, <2>8, <2>9, <2>10
    <2>12. Keys(x) \cap Keys(y) # {}
      BY <2>5, <2>9, <2>11 DEF Keys
    <2>. QED BY <2>4, <2>12 DEF Collides, Visible
  <1>5. ASSUME NEW v \in C, pc[v] = "lock"
        PROVE  /\ NextToLock(v) # {} /\ NextToLock(v) \subseteq Nat
               /\ NextToLock(v) \subseteq ToLock(v)
    <2>1. PICK u \in C : Waits(v, u)
      BY <1>1
    <2>2. NextToLock(v) # {}
      BY <1>5, <2>1 DEF Waits, WaitsAtInsert, WaitsAtLock
    <2>3. ToLock(v) \subseteq Nat
      <3>1. /\ Visible(v) \subseteq UNION Bundles /\ bundle[v] \subseteq UNION Bundles
        BY <1>2 DEF Visible, TypeOK
      <3>. QED BY <3>1, AffectedAreOperations DEF ToLock
    <2>. QED BY <2>2, <2>3 DEF NextToLock
  <1>6. ASSUME NEW v \in C, pc[v] = "lock" PROVE FALSE
    <2>. DEFINE Lockers == {u \in C : pc[u] = "lock"}
                Wanted == UNION {NextToLock(u) : u \in Lockers}
    <2>1. Wanted \subseteq Nat /\ Wanted # {}
      BY <1>5, <1>6
    <2>2. PICK n \in Wanted : \A m \in Wanted : n <= m
      <3>. HIDE DEF Wanted
      <3>. QED BY <2>1, LeastNumber
    <2>3. PICK w \in Lockers : n \in NextToLock(w)
      OBVIOUS
    <2>4. PICK u \in C : Waits(u, w)
      BY <1>1, <2>3
    <2>5. u \in Lockers /\ \E o \in NextToLock(u) : o \in lock[w]
      BY <1>2, <1>4, <2>3, <2>4, WaitsForOperation
    <2>6. PICK o \in NextToLock(u) : o \in lock[w]
      BY <2>5
    <2>7. o < n
      BY <1>2, <1>5, <2>3, <2>6 DEF InOrder
    <2>8. n <= o /\ o \in Nat /\ n \in Nat
      BY <2>1, <2>2, <2>5
    <2>. QED BY <2>7, <2>8
  <1>7. pc[w0] \in {"operations", "lock"}
    <2>1. PICK u \in C : Waits(w0, u)
      BY <1>1
    <2>. QED BY <2>1 DEF Waits, WaitsAtInsert, WaitsAtLock
  <1>. QED BY <1>1, <1>4, <1>6, <1>7

\* A call that PostgreSQL aborts as a deadlock victim is one of several that
\* insert selections: operations are inserted and locked in one order.
THEOREM OperationsNeverDeadlock == Spec => []LocksNeverDeadlock
  <1>1. Guarded => LocksNeverDeadlock
    BY GuardedNeverDeadlocks
  <1>. QED BY <1>1, GuardedAlways, PTL

================================================================================
