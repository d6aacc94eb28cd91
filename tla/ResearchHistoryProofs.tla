------------------------- MODULE ResearchHistoryProofs -------------------------
(***************************************************************************)
(* What the gates of a bundle are worth, for any set of bundles: a history *)
(* that grew by accepted bundles alone is sound (AcceptedKeepsSound), its  *)
(* ends are final (EndsStay), each attempt of a run follows a retryable    *)
(* failure of the one before (AttemptsFollowFailures), and bundles over    *)
(* different operations do not disturb each other's gates (GatesCommute).  *)
(***************************************************************************)
EXTENDS ResearchHistory, FiniteSetTheorems, WellFoundedInduction, TLAPS

KeysUnique(D) == \A r, s \in D : r = s \/ Keys(r) \cap Keys(s) = {}

Referenced(D) == \A r \in D : OwnerKnown(r, D) /\ PredecessorExists(r, D)

RunsSound(D) ==
  \A r \in Of(D, "run") :
    /\ r.deadline >= r.at
    /\ r.predecessor # None =>
         \E p \in RunsOf(D, r.operation) :
           p.id = r.predecessor /\ \E t \in TerminalsOf(D, p.id) : t.at < r.at

AttemptsSound(D) ==
  \A a \in Of(D, "attempt") :
    /\ FirstOrRetry(D, a)
    /\ \A s \in ResolutionsOf(D, a.id) : AttemptResolution(a, s)

Finished(D, r, t) ==
  /\ TerminalResolution(D, r, t) /\ DeadlineEvidence(D, r, t)
  /\ StartsOf(D, r.id) # {} /\ StartedOnce(D, r)

OrderingsSound(D) == \A r \in Of(D, "run") : AttemptOrdering(D, r)

TerminalsSound(D) ==
  \A r \in Of(D, "run") : \A t \in TerminalsOf(D, r.id) : Finished(D, r, t)

LifecyclesSound(D) ==
  \A p \in Of(D, "operation") : OperationLifecycle(D, p.id)

\* What accepted bundles leave behind, every part of it stable on its own
\* once the later rows of a run pass the gates of their own bundle.
Sound(D) ==
  /\ D \subseteq UNION Bundles
  /\ KeysUnique(D) /\ Referenced(D)
  /\ RunsSound(D) /\ AttemptsSound(D) /\ OrderingsSound(D)
  /\ TerminalsSound(D) /\ LifecyclesSound(D)

-----------------------------------------------------------------------------
(* Rows, keys and parents *)

LEMMA LeastNumber ==
  ASSUME NEW S, S \subseteq Nat, S # {}
  PROVE  \E n \in S : \A m \in S : n <= m
  <1>. DEFINE Less == {ss \in Nat \X Nat : ss[1] < ss[2]}
  <1>1. IsWellFoundedOn(Less, Nat)
    BY NatLessThanWellFounded DEF OpToRel
  <1>2. PICK n \in S : \A m \in S : <<m, n>> \notin Less
    <2>. HIDE DEF Less
    <2>. QED BY <1>1, WFMin, Zenon
  <1>3. ASSUME NEW m \in S PROVE n <= m
    <2>1. ~ (m < n)
      BY <1>2
    <2>. QED BY <2>1
  <1>. QED BY <1>3

\* A finite history has a latest row: by its least part that has none.
LEMMA LatestRow ==
  ASSUME NEW D, IsFiniteSet(D), D # {}, \A x \in D : x.at \in Nat
  PROVE  \E q \in D : \A x \in D : x.at <= q.at
  <1>. DEFINE Bounded(T) == \E q \in T : \A x \in T : x.at <= q.at
              Wrong == {T \in SUBSET D : T # {} /\ ~ Bounded(T)}
              Sizes == {Cardinality(T) : T \in Wrong}
  <1>1. SUFFICES ASSUME Wrong # {} PROVE FALSE
    OBVIOUS
  <1>2. \A T \in SUBSET D : IsFiniteSet(T) /\ Cardinality(T) \in Nat
    BY FS_Subset, FS_CardinalityType
  <1>3. PICK n \in Sizes : \A m \in Sizes : n <= m
    <2>1. Sizes \subseteq Nat /\ Sizes # {}
      BY <1>1, <1>2
    <2>. HIDE DEF Sizes
    <2>. QED BY <2>1, LeastNumber
  <1>4. PICK T \in Wrong : Cardinality(T) = n
    BY <1>3
  <1>5. PICK y \in T : TRUE
    BY <1>4
  <1>. DEFINE R == T \ {y}
  <1>6. R \in SUBSET D /\ Cardinality(R) < n
    <2>1. Cardinality(R) = Cardinality(T) - 1
      BY <1>2, <1>4, <1>5, FS_RemoveElement
    <2>. QED BY <1>2, <1>4, <2>1
  <1>7. R # {}
    <2>1. SUFFICES ASSUME R = {} PROVE Bounded(T)
      BY <1>4
    <2>2. T = {y} /\ y.at \in Nat
      BY <1>4, <1>5, <2>1
    <2>. QED BY <2>2
  <1>8. Bounded(R)
    <2>1. SUFFICES ASSUME R \in Wrong PROVE FALSE
      BY <1>6, <1>7
    <2>2. Cardinality(R) \in Sizes
      BY <2>1
    <2>3. n <= Cardinality(R)
      BY <1>3, <2>2
    <2>4. n \in Nat /\ Cardinality(R) \in Nat
      BY <1>2, <1>4, <1>6
    <2>. HIDE DEF R
    <2>. QED BY <1>6, <2>3, <2>4
  <1>9. PICK q \in R : \A x \in R : x.at <= q.at
    BY <1>8
  <1>10. \A x \in T : x.at \in Nat /\ (x \in R \/ x = y)
    BY <1>4
  <1>11. Bounded(T)
    <2>1. CASE y.at <= q.at
      <3>1. q \in T /\ \A x \in T : x.at <= q.at
        BY <1>9, <1>10, <2>1
      <3>. QED BY <3>1
    <2>2. CASE ~ (y.at <= q.at)
      <3>1. \A x \in T : x.at <= y.at
        BY <1>5, <1>9, <1>10, <2>2
      <3>. QED BY <3>1, <1>5
    <2>. QED BY <2>1, <2>2
  <1>. QED BY <1>4, <1>11

LEMMA RowFields ==
  ASSUME NEW r \in UNION Bundles
  PROVE  /\ r.kind \in {"operation", "close", "run", "start", "attempt",
                        "resolution", "result", "terminal", "selection"}
         /\ r.at \in Nat
         /\ r.kind = "operation" => r.id \in Nat
         /\ r.kind = "run" =>
              r.deadline \in Nat /\ r.operation \in Nat /\ r.id # None
         /\ r.kind = "close" => r.operation \in Nat
         /\ r.kind = "attempt" => r.number \in Nat \ {0}
  <1>1. r \in Row
    BY BundleAssumption
  <1>. QED BY <1>1, BundleAssumption DEF Row, Times, Operations

LEMMA SameParent ==
  ASSUME NEW r \in UNION Bundles, NEW s \in UNION Bundles,
         r.kind = s.kind, r.id = s.id
  PROVE  /\ r.kind \in {"run", "close"} => r.operation = s.operation
         /\ r.kind \in {"start", "attempt", "result", "terminal"} => r.run = s.run
         /\ r.kind = "resolution" => r.attempt = s.attempt
  <1>1. Parent(r) = Parent(s)
    BY BundleAssumption
  <1>. QED BY <1>1 DEF Parent

LEMMA KeyFacts ==
  ASSUME NEW D, KeysUnique(D), NEW r \in D, NEW s \in D, r.kind = s.kind
  PROVE  /\ r.id = s.id => r = s
         /\ r.kind = "close" /\ r.operation = s.operation => r = s
         /\ r.kind \in {"start", "terminal"} /\ r.run = s.run => r = s
         /\ r.kind = "attempt" /\ r.run = s.run /\ r.number = s.number => r = s
         /\ r.kind = "resolution" /\ r.attempt = s.attempt => r = s
  <1>1. r = s \/ Keys(r) \cap Keys(s) = {}
    BY DEF KeysUnique
  <1>. QED BY <1>1 DEF Keys

-----------------------------------------------------------------------------
(* Histories only grow *)

LEMMA ReferencesGrow ==
  ASSUME NEW D, NEW E, D \subseteq E, NEW r
  PROVE  /\ OwnerKnown(r, D) => OwnerKnown(r, E)
         /\ PredecessorExists(r, D) => PredecessorExists(r, E)
  BY DEF OwnerKnown, PredecessorExists, Of, AttemptsOf

LEMMA RetriesGrow ==
  ASSUME NEW D, NEW E, D \subseteq E, NEW a, FirstOrRetry(D, a)
  PROVE  FirstOrRetry(E, a)
  BY DEF FirstOrRetry, Retry, AttemptsOf, ResolutionsOf, Of

LEMMA OwnAncestor ==
  ASSUME NEW D, NEW i
  PROVE  i \in Ancestry(D, i)
  BY DEF Ancestry

\* The rows of run i are the same in D and in E.
SameRun(D, E, i) ==
  /\ StartsOf(E, i) = StartsOf(D, i)
  /\ AttemptsOf(E, i) = AttemptsOf(D, i)
  /\ ResultsOf(E, i) = ResultsOf(D, i)
  /\ TerminalsOf(E, i) = TerminalsOf(D, i)
  /\ \A a \in AttemptsOf(D, i) : ResolutionsOf(E, a.id) = ResolutionsOf(D, a.id)

\* A bundle leaves the runs it does not touch as they are.
LEMMA UntouchedRun ==
  ASSUME NEW C, NEW D, NEW E, D \subseteq E,
         C \subseteq UNION Bundles, E \subseteq UNION Bundles,
         \A s \in C : OwnerKnown(s, D \cup C),
         NEW i, i \notin Owners(C, D)
  PROVE  SameRun(E, E \cup C, i)
  <1>1. \A s \in C : i \notin TouchedRuns(s, D \cup C)
    BY DEF Owners
  <1>2. \A s \in C : s.kind \in {"start", "attempt", "result", "terminal"}
                       => s.run # i
    BY <1>1 DEF TouchedRuns
  <1>3. ASSUME NEW a \in AttemptsOf(E, i), NEW s \in C,
               s.kind = "resolution", s.attempt = a.id
        PROVE  FALSE
    <2>1. PICK b \in Of(D \cup C, "attempt") : b.id = s.attempt
      BY <1>3 DEF OwnerKnown
    <2>2. b.run = i
      <3>1. a \in UNION Bundles /\ b \in UNION Bundles
            /\ a.kind = "attempt" /\ b.kind = "attempt" /\ a.run = i
        BY <2>1 DEF Of, AttemptsOf
      <3>. QED BY <3>1, <2>1, <1>3, SameParent
    <2>3. i \in TouchedRuns(s, D \cup C)
      BY <2>1, <2>2, <1>3 DEF TouchedRuns, Of
    <2>. QED BY <2>3, <1>1
  <1>4. \A a \in AttemptsOf(E, i) :
          ResolutionsOf(E \cup C, a.id) = ResolutionsOf(E, a.id)
    BY <1>3 DEF ResolutionsOf, Of
  <1>. QED BY <1>2, <1>4 DEF SameRun, StartsOf, AttemptsOf, ResultsOf, TerminalsOf, Of

-----------------------------------------------------------------------------
(* An accepted bundle keeps the history sound *)

LEMMA AcceptedKeepsKeys ==
  ASSUME NEW D, KeysUnique(D), NEW B, Accepts(B, D)
  PROVE  KeysUnique(D \cup B)
  <1>1. \A r, s \in B : r = s \/ Keys(r) \cap Keys(s) = {}
    BY DEF Accepts, Writable
  <1>2. \A r \in B, s \in D : r \in D \/ Keys(r) \cap Keys(s) = {}
    BY DEF Accepts, Insertable, Collides
  <1>. QED BY <1>1, <1>2 DEF KeysUnique

LEMMA AcceptedKeepsReferences ==
  ASSUME NEW D, Referenced(D), NEW B, Accepts(B, D)
  PROVE  Referenced(D \cup B)
  <1>. DEFINE E == D \cup B
  <1>1. \A r \in B : OwnerKnown(r, E) /\ PredecessorExists(r, E)
    BY DEF Accepts, Writable
  <1>2. \A r \in D : OwnerKnown(r, E) /\ PredecessorExists(r, E)
    <2>1. D \subseteq E
      OBVIOUS
    <2>. HIDE DEF E
    <2>. QED BY <2>1, ReferencesGrow DEF Referenced
  <1>. QED BY <1>1, <1>2 DEF Referenced

\* What the gates say of a run that the bundle touches.
LEMMA TouchedRunIsVerified ==
  ASSUME NEW D, NEW B \in Bundles, Accepts(B, D),
         NEW r \in Of(D \cup B, "run"), r.id \in Owners(B, D)
  PROVE  /\ \A a \in AttemptsOf(D \cup B, r.id) :
              /\ FirstOrRetry(D \cup B, a)
              /\ \A s \in ResolutionsOf(D \cup B, a.id) : AttemptResolution(a, s)
         /\ \A t \in TerminalsOf(D \cup B, r.id) : Finished(D \cup B, r, t)
  <1>. DEFINE E == D \cup B
              I == Ancestry(E, r.id)
  <1>1. r.id \in I /\ r \in RunsOf(E, r.operation)
    BY OwnAncestor DEF RunsOf, Of
  <1>2. PendingContext(E, r)
    BY DEF Accepts, Writable
  <1>3. HistoryVerifies(E, r.operation, I) /\ AttemptOrdering(E, r)
        /\ (TerminalsOf(E, r.id) # {} => DeadlinesVerified(E, r.operation, I))
    BY <1>2 DEF PendingContext
  <1>4. \A a \in AttemptsOf(E, r.id) : FirstOrRetry(E, a)
    BY <1>3 DEF AttemptOrdering
  <1>5. /\ \A a \in AttemptsOf(E, r.id), s \in Of(E, "resolution") :
             s.attempt = a.id => AttemptResolution(a, s)
        /\ \A t \in TerminalsOf(E, r.id) :
             /\ TerminalResolution(E, r, t)
             /\ StartsOf(E, r.id) # {} /\ StartedOnce(E, r)
    <2>. HIDE DEF E, I
    <2>. QED BY <1>1, <1>3 DEF HistoryVerifies
  <1>6. \A t \in TerminalsOf(E, r.id) : DeadlineEvidence(E, r, t)
    <2>. HIDE DEF E, I
    <2>. QED BY <1>1, <1>3 DEF DeadlinesVerified
  <1>7. \A t \in TerminalsOf(E, r.id) : Finished(E, r, t)
    BY <1>5, <1>6 DEF Finished
  <1>8. \A a \in AttemptsOf(E, r.id) : \A s \in ResolutionsOf(E, a.id) :
          AttemptResolution(a, s)
    BY <1>5 DEF ResolutionsOf
  <1>. QED BY <1>4, <1>7, <1>8

\* What was derived of a run stays true when its rows stay the same.
LEMMA RunStays ==
  ASSUME NEW D, NEW E, D \subseteq E, NEW r, SameRun(D, E, r.id)
  PROVE  /\ StartedOnce(D, r) => StartedOnce(E, r)
         /\ AttemptOrdering(D, r) => AttemptOrdering(E, r)
         /\ \A t : t.run = r.id =>
              /\ TerminalResolution(D, r, t) => TerminalResolution(E, r, t)
              /\ DeadlineEvidence(D, r, t) => DeadlineEvidence(E, r, t)
  <1>1. StartedOnce(D, r) => StartedOnce(E, r)
    BY DEF SameRun, StartedOnce
  <1>2. AttemptOrdering(D, r) => AttemptOrdering(E, r)
    BY <1>1, RetriesGrow DEF SameRun, AttemptOrdering
  <1>3. ASSUME NEW t, t.run = r.id
        PROVE  TerminalResolution(D, r, t) => TerminalResolution(E, r, t)
    <2>1. AttemptSet(D, r.id, t.at) => AttemptSet(E, r.id, t.at)
      BY RetriesGrow DEF SameRun, AttemptSet
    <2>. QED BY <1>3, <2>1 DEF SameRun, TerminalResolution, Manifest
  <1>4. ASSUME NEW t PROVE DeadlineEvidence(D, r, t) => DeadlineEvidence(E, r, t)
    BY DEF SameRun, DeadlineEvidence, ResolutionsOf
  <1>. QED BY <1>1, <1>2, <1>3, <1>4

LEMMA FinishedStays ==
  ASSUME NEW D, NEW E, D \subseteq E, NEW r, NEW t, Finished(D, r, t),
         SameRun(D, E, r.id), t.run = r.id
  PROVE  Finished(E, r, t)
  BY RunStays DEF Finished, SameRun

LEMMA AcceptedKeepsRuns ==
  ASSUME NEW D, RunsSound(D), NEW B \in Bundles, Accepts(B, D)
  PROVE  RunsSound(D \cup B)
  <1>. DEFINE E == D \cup B
  <1>1. ASSUME NEW r \in Of(E, "run")
        PROVE  /\ r.deadline >= r.at
               /\ r.predecessor # None =>
                    \E p \in RunsOf(E, r.operation) :
                      p.id = r.predecessor
                      /\ \E t \in TerminalsOf(E, p.id) : t.at < r.at
    <2>1. CASE r \in D
      <3>1. r \in Of(D, "run")
        BY <2>1 DEF Of
      <3>. QED BY <3>1 DEF RunsSound, RunsOf, TerminalsOf, Of
    <2>2. CASE r \in B \ D
      <3>1. RunCreation(E, r)
        BY <2>2 DEF Accepts, Writable, CreationContext
      <3>. QED BY <3>1 DEF RunCreation
    <2>. QED BY <2>1, <2>2 DEF Of
  <1>. QED BY <1>1 DEF RunsSound

LEMMA AcceptedKeepsAttempts ==
  ASSUME NEW D, Sound(D), NEW B \in Bundles, Accepts(B, D)
  PROVE  AttemptsSound(D \cup B)
  <1>. DEFINE E == D \cup B
  <1>1. ASSUME NEW a \in Of(E, "attempt")
        PROVE  /\ FirstOrRetry(E, a)
               /\ \A s \in ResolutionsOf(E, a.id) : AttemptResolution(a, s)
    <2>1. PICK r \in Of(E, "run") : r.id = a.run
      <3>1. OwnerKnown(a, E)
        BY ReferencesGrow DEF Sound, Referenced, Accepts, Of
      <3>. QED BY <3>1 DEF OwnerKnown, Of
    <2>2. a \in AttemptsOf(E, r.id)
      BY <2>1 DEF AttemptsOf
    <2>3. CASE r.id \in Owners(B, D)
      BY <2>2, <2>3, TouchedRunIsVerified
    <2>4. CASE r.id \notin Owners(B, D)
      <3>1. SameRun(D, E, r.id)
        <4>1. /\ D \subseteq UNION Bundles /\ B \subseteq UNION Bundles
              /\ \A x \in B : OwnerKnown(x, D \cup B)
          BY DEF Sound, Accepts
        <4>. QED BY <4>1, <2>4, UntouchedRun
      <3>2. a \in Of(D, "attempt")
        BY <3>1, <2>2 DEF SameRun, AttemptsOf
      <3>. QED BY <3>1, <3>2, <2>2, RetriesGrow DEF SameRun, Sound, AttemptsSound
    <2>. QED BY <2>3, <2>4
  <1>. QED BY <1>1 DEF AttemptsSound

LEMMA AcceptedKeepsOrderings ==
  ASSUME NEW D, Sound(D), NEW B \in Bundles, Accepts(B, D)
  PROVE  OrderingsSound(D \cup B)
  <1>. DEFINE E == D \cup B
  <1>1. ASSUME NEW r \in Of(E, "run") PROVE AttemptOrdering(E, r)
    <2>1. CASE r.id \in Owners(B, D)
      BY <2>1 DEF Accepts, Writable, PendingContext
    <2>2. CASE r.id \notin Owners(B, D)
      <3>1. SameRun(D, E, r.id)
        <4>1. /\ D \subseteq UNION Bundles /\ B \subseteq UNION Bundles
              /\ \A x \in B : OwnerKnown(x, D \cup B)
          BY DEF Sound, Accepts
        <4>. QED BY <4>1, <2>2, UntouchedRun
      <3>2. r \in Of(D, "run")
        <4>1. r \notin B
          BY <2>2 DEF Owners, TouchedRuns, Of
        <4>. QED BY <4>1 DEF Of
      <3>3. AttemptOrdering(D, r)
        BY <3>2 DEF Sound, OrderingsSound
      <3>. QED BY <3>1, <3>3, RunStays
    <2>. QED BY <2>1, <2>2
  <1>. QED BY <1>1 DEF OrderingsSound

LEMMA AcceptedKeepsTerminals ==
  ASSUME NEW D, Sound(D), NEW B \in Bundles, Accepts(B, D)
  PROVE  TerminalsSound(D \cup B)
  <1>. DEFINE E == D \cup B
  <1>1. ASSUME NEW r \in Of(E, "run"), NEW t \in TerminalsOf(E, r.id)
        PROVE  Finished(E, r, t)
    <2>1. CASE r.id \in Owners(B, D)
      BY <2>1, TouchedRunIsVerified
    <2>2. CASE r.id \notin Owners(B, D)
      <3>1. SameRun(D, E, r.id)
        <4>1. /\ D \subseteq UNION Bundles /\ B \subseteq UNION Bundles
              /\ \A x \in B : OwnerKnown(x, D \cup B)
          BY DEF Sound, Accepts
        <4>. QED BY <4>1, <2>2, UntouchedRun
      <3>2. r \in Of(D, "run")
        <4>1. r \notin B
          BY <2>2 DEF Owners, TouchedRuns, Of
        <4>. QED BY <4>1 DEF Of
      <3>3. Finished(D, r, t) /\ t.run = r.id
        BY <3>1, <3>2 DEF SameRun, Sound, TerminalsSound, TerminalsOf
      <3>. QED BY <3>1, <3>3, FinishedStays
    <2>. QED BY <2>1, <2>2
  <1>. QED BY <1>1 DEF TerminalsSound

LEMMA AcceptedKeepsLifecycles ==
  ASSUME NEW D, Sound(D), NEW B \in Bundles, Accepts(B, D)
  PROVE  LifecyclesSound(D \cup B)
  <1>. DEFINE E == D \cup B
  <1>1. ASSUME NEW p \in Of(E, "operation") PROVE OperationLifecycle(E, p.id)
    <2>1. CASE p.id \in Affected(B, D)
      BY <2>1 DEF Accepts, Writable
    <2>2. CASE p.id \notin Affected(B, D)
      <3>1. /\ \A q \in Of(B, "operation") : q.id # p.id
            /\ \A c \in Of(B, "close") : c.operation # p.id
        BY <2>2 DEF Affected
      <3>2. OperationLifecycle(D, p.id)
        BY <3>1 DEF Sound, LifecyclesSound, Of
      <3>. QED BY <3>1, <3>2 DEF OperationLifecycle, ClosesOf, Of
    <2>. QED BY <2>1, <2>2
  <1>. QED BY <1>1 DEF LifecyclesSound

LEMMA AcceptedKeepsSound ==
  ASSUME NEW D, Sound(D), NEW B \in Bundles, Accepts(B, D)
  PROVE  Sound(D \cup B)
  <1>1. D \cup B \subseteq UNION Bundles
    BY DEF Sound
  <1>2. KeysUnique(D \cup B)
    BY AcceptedKeepsKeys DEF Sound
  <1>3. Referenced(D \cup B)
    BY AcceptedKeepsReferences DEF Sound
  <1>. QED BY <1>1, <1>2, <1>3, AcceptedKeepsRuns, AcceptedKeepsAttempts,
              AcceptedKeepsOrderings, AcceptedKeepsTerminals, AcceptedKeepsLifecycles DEF Sound

\* An accepted bundle adds no run to a closed operation and nothing to a
\* finished run.
LEMMA EndsStay ==
  ASSUME NEW D, Sound(D), NEW B \in Bundles, Accepts(B, D)
  PROVE  /\ \A c \in Of(D, "close") :
              RunsOf(D \cup B, c.operation) = RunsOf(D, c.operation)
         /\ \A t \in Of(D, "terminal") : SameRun(D, D \cup B, t.run)
  <1>. DEFINE E == D \cup B
  <1>1. ASSUME NEW c \in Of(D, "close")
        PROVE  RunsOf(E, c.operation) = RunsOf(D, c.operation)
    <2>1. c \in ClosesOf(E, c.operation)
      BY DEF ClosesOf, Of
    <2>2. \A r \in Of(B, "run") \ D : r.operation # c.operation
      BY <2>1 DEF Accepts, Writable, RunsOfOpenOperations
    <2>. QED BY <2>2 DEF RunsOf, Of
  <1>2. ASSUME NEW t \in Of(D, "terminal") PROVE SameRun(D, E, t.run)
    <2>1. t \in TerminalsOf(D, t.run)
      BY DEF TerminalsOf, Of
    <2>2. \A r \in B \ D : r.kind \in {"start", "attempt", "resolution", "result"}
            => t.run \notin TouchedRuns(r, E)
      <3>1. ChildrenOfLiveRuns(B, D)
        BY DEF Accepts, Writable
      <3>. QED BY <2>1, <3>1 DEF ChildrenOfLiveRuns
    <2>3. \A r \in B \ D : r.kind \in {"start", "attempt", "result"}
                             => r.run # t.run
      BY <2>2 DEF TouchedRuns
    <2>4. ASSUME NEW a \in AttemptsOf(D, t.run), NEW s \in B \ D,
                 s.kind = "resolution", s.attempt = a.id
          PROVE  FALSE
      <3>1. t.run \in TouchedRuns(s, E)
        BY <2>4 DEF TouchedRuns, AttemptsOf, Of
      <3>. QED BY <3>1, <2>2, <2>4
    <2>5. ASSUME NEW u \in B \ D, u.kind = "terminal", u.run = t.run
          PROVE  FALSE
      <3>1. ~ Collides(u, D)
        BY <2>5 DEF Accepts, Insertable
      <3>2. <<"terminal", "run", t.run>> \in Keys(u) \cap Keys(t)
        BY <2>5 DEF Keys, Of
      <3>. QED BY <3>1, <3>2 DEF Collides, Of
    <2>6. \A a \in AttemptsOf(D, t.run) :
            ResolutionsOf(E, a.id) = ResolutionsOf(D, a.id)
      BY <2>4 DEF ResolutionsOf, Of
    <2>. QED BY <2>3, <2>5, <2>6
             DEF SameRun, StartsOf, AttemptsOf, ResultsOf, TerminalsOf, Of
  <1>. QED BY <1>1, <1>2

-----------------------------------------------------------------------------
(* What a reader finds in a sound history *)

\* Every attempt with a lower number failed before this one began: by the
\* least number for which an attempt b has a counterexample.
LEMMA AttemptsFollowFailures ==
  ASSUME NEW D, Sound(D),
         NEW a \in Of(D, "attempt"), NEW b \in Of(D, "attempt"),
         a.run = b.run, a.number < b.number
  PROVE  \E s \in ResolutionsOf(D, a.id) : s.outcome = "FAILED" /\ s.at < b.at
  <1>. DEFINE Failed(x) == \E s \in ResolutionsOf(D, a.id) :
                             s.outcome = "FAILED" /\ s.at < x.at
              Later == {x \in AttemptsOf(D, a.run) : a.number < x.number}
              Wrong == {x \in Later : ~ Failed(x)}
              Numbers == {x.number : x \in Wrong}
  <1>1. SUFFICES ASSUME Numbers # {} PROVE FALSE
    <2>1. b \in Later
      BY DEF AttemptsOf
    <2>2. b \notin Wrong
      <3>1. SUFFICES ASSUME b \in Wrong PROVE b.number \in Numbers
        BY <1>1
      <3>. QED BY <3>1
    <2>. QED BY <2>1, <2>2
  <1>2. \A x \in AttemptsOf(D, a.run) :
          /\ x \in UNION Bundles /\ x \in Of(D, "attempt") /\ x \in D
          /\ x.kind = "attempt" /\ x.run = a.run
          /\ x.number \in Nat \ {0} /\ x.at \in Nat
    BY RowFields DEF Sound, AttemptsOf, Of
  <1>3. a \in AttemptsOf(D, a.run)
    BY DEF AttemptsOf
  <1>4. PICK n \in Numbers : \A m \in Numbers : n <= m
    <2>1. Numbers \subseteq Nat
      BY <1>2
    <2>. HIDE DEF Numbers
    <2>. QED BY <2>1, <1>1, LeastNumber
  <1>5. PICK c \in Wrong : c.number = n
    BY <1>4
  <1>6. c.predecessor # None /\ Retry(D, c)
    <2>1. FirstOrRetry(D, c)
      BY <1>2 DEF Sound, AttemptsSound
    <2>2. c.number # 1
      BY <1>2, <1>3
    <2>. QED BY <2>1, <2>2 DEF FirstOrRetry
  <1>7. PICK p \in AttemptsOf(D, a.run) :
          /\ c.number = p.number + 1
          /\ \E s \in ResolutionsOf(D, p.id) :
               s.outcome = "FAILED" /\ s.at >= p.at /\ c.at > s.at
    <2>1. c.run = a.run
      BY <1>2
    <2>. QED BY <1>6, <2>1 DEF Retry, AttemptResolution
  <1>8. PICK f \in ResolutionsOf(D, p.id) :
          f.outcome = "FAILED" /\ f.at >= p.at /\ c.at > f.at
    BY <1>7
  <1>9. f.at \in Nat
    BY RowFields DEF Sound, ResolutionsOf, Of
  <1>10. CASE p.number = a.number
    <2>1. p = a
      BY <1>10, <1>2, <1>3, KeyFacts DEF Sound
    <2>2. Failed(c)
      BY <2>1, <1>8, <1>9, <1>2
    <2>. QED BY <2>2
  <1>11. CASE p.number # a.number
    <2>1. p \in Later /\ p.number < n
      BY <1>11, <1>7, <1>5, <1>2, <1>3
    <2>2. Failed(p)
      <3>1. p \notin Wrong
        <4>1. p.number \notin Numbers
          BY <2>1, <1>4, <1>2, <1>5
        <4>. QED BY <4>1
      <3>. QED BY <3>1, <2>1
    <2>3. PICK s \in ResolutionsOf(D, a.id) : s.outcome = "FAILED" /\ s.at < p.at
      BY <2>2
    <2>4. s.at \in Nat
      BY RowFields DEF Sound, ResolutionsOf, Of
    <2>5. s.at < c.at
      BY <2>3, <2>4, <1>8, <1>9, <1>2
    <2>. QED BY <2>3, <2>5
  <1>. QED BY <1>10, <1>11

-----------------------------------------------------------------------------
(* Bundles over different operations *)

Known(B, D) == \A r \in B : OwnerKnown(r, D \cup B)

\* Every run that a known bundle touches is there.
LEMMA OwnerRunKnown ==
  ASSUME NEW D, Referenced(D), NEW B, Known(B, D), NEW i \in Owners(B, D)
  PROVE  \E r \in Of(D \cup B, "run") : r.id = i
  <1>. DEFINE E == D \cup B
  <1>1. \A r \in E : OwnerKnown(r, E)
    BY ReferencesGrow DEF Referenced, Known
  <1>2. PICK r \in B : i \in TouchedRuns(r, E)
    BY DEF Owners
  <1>3. CASE r.kind = "run"
    BY <1>2, <1>3 DEF TouchedRuns, Of
  <1>4. CASE r.kind \in {"start", "attempt", "result", "terminal"}
    <2>1. r.run = i
      BY <1>2, <1>4 DEF TouchedRuns
    <2>. QED BY <1>1, <1>4, <2>1 DEF OwnerKnown
  <1>5. CASE r.kind = "resolution"
    <2>1. PICK a \in Of(E, "attempt") : a.run = i
      BY <1>2, <1>5 DEF TouchedRuns
    <2>2. OwnerKnown(a, E)
      BY <1>1 DEF Of
    <2>. QED BY <2>1, <2>2 DEF OwnerKnown, Of
  <1>6. CASE r.kind = "selection"
    <2>1. PICK x \in Of(E, "result") : x.run = i
      BY <1>2, <1>6 DEF TouchedRuns
    <2>2. OwnerKnown(x, E)
      BY <1>1 DEF Of
    <2>. QED BY <2>1, <2>2 DEF OwnerKnown, Of
  <1>. QED BY <1>2, <1>3, <1>4, <1>5, <1>6 DEF TouchedRuns

\* The operations a known bundle affects are settled: rows of others do not
\* change them.
LEMMA AffectedStays ==
  ASSUME NEW D, Referenced(D), D \subseteq UNION Bundles,
         NEW B, B \subseteq UNION Bundles, Known(B, D),
         NEW C, C \subseteq UNION Bundles
  PROVE  /\ \A r \in B : TouchedRuns(r, (D \cup C) \cup B) = TouchedRuns(r, D \cup B)
         /\ Owners(B, D \cup C) = Owners(B, D)
         /\ Affected(B, D \cup C) = Affected(B, D)
  <1>. DEFINE E == D \cup B
              F == (D \cup C) \cup B
  <1>1. E \subseteq F /\ F \subseteq UNION Bundles
    OBVIOUS
  <1>2. ASSUME NEW r \in B
        PROVE  TouchedRuns(r, F) = TouchedRuns(r, E)
    <2>1. CASE r.kind = "resolution"
      <3>1. PICK a \in Of(E, "attempt") : a.id = r.attempt
        BY <2>1 DEF Known, OwnerKnown
      <3>2. \A b \in Of(F, "attempt") : b.id = r.attempt => b.run = a.run
        <4>. SUFFICES ASSUME NEW b \in Of(F, "attempt"), b.id = r.attempt
                      PROVE  b.run = a.run
          OBVIOUS
        <4>1. a \in UNION Bundles /\ b \in UNION Bundles
              /\ a.kind = "attempt" /\ b.kind = "attempt"
          BY <1>1 DEF Of
        <4>. QED BY <4>1, <3>1, SameParent
      <3>3. /\ TouchedRuns(r, F) = {b.run : b \in {x \in Of(F, "attempt") : x.id = r.attempt}}
            /\ TouchedRuns(r, E) = {b.run : b \in {x \in Of(E, "attempt") : x.id = r.attempt}}
        BY <2>1 DEF TouchedRuns
      <3>4. a \in Of(F, "attempt") /\ \A b \in Of(E, "attempt") : b \in Of(F, "attempt")
        BY <1>1 DEF Of
      <3>. HIDE DEF E, F
      <3>. QED BY <3>1, <3>2, <3>3, <3>4
    <2>2. CASE r.kind = "selection"
      <3>1. PICK a \in Of(E, "result") : a.id = r.result
        BY <2>2 DEF Known, OwnerKnown
      <3>2. \A b \in Of(F, "result") : b.id = r.result => b.run = a.run
        <4>. SUFFICES ASSUME NEW b \in Of(F, "result"), b.id = r.result
                      PROVE  b.run = a.run
          OBVIOUS
        <4>1. a \in UNION Bundles /\ b \in UNION Bundles
              /\ a.kind = "result" /\ b.kind = "result"
          BY <1>1 DEF Of
        <4>. QED BY <4>1, <3>1, SameParent
      <3>3. /\ TouchedRuns(r, F) = {b.run : b \in {x \in Of(F, "result") : x.id = r.result}}
            /\ TouchedRuns(r, E) = {b.run : b \in {x \in Of(E, "result") : x.id = r.result}}
        BY <2>2 DEF TouchedRuns
      <3>4. a \in Of(F, "result") /\ \A b \in Of(E, "result") : b \in Of(F, "result")
        BY <1>1 DEF Of
      <3>. HIDE DEF E, F
      <3>. QED BY <3>1, <3>2, <3>3, <3>4
    <2>3. CASE r.kind \notin {"resolution", "selection"}
      BY <2>3 DEF TouchedRuns
    <2>. QED BY <2>1, <2>2, <2>3
  <1>3. Owners(B, D \cup C) = Owners(B, D)
    BY <1>2 DEF Owners
  <1>4. {r.operation : r \in {s \in Of(F, "run") : s.id \in Owners(B, D)}}
          = {r.operation : r \in {s \in Of(E, "run") : s.id \in Owners(B, D)}}
    <2>1. ASSUME NEW r \in Of(F, "run"), r.id \in Owners(B, D)
          PROVE  \E s \in Of(E, "run") : s.id \in Owners(B, D)
                                         /\ s.operation = r.operation
      <3>1. PICK s \in Of(E, "run") : s.id = r.id
        BY <2>1, OwnerRunKnown
      <3>2. r \in UNION Bundles /\ s \in UNION Bundles
            /\ r.kind = "run" /\ s.kind = "run"
        BY <1>1 DEF Of
      <3>. QED BY <3>1, <3>2, <2>1, SameParent
    <2>2. \A s \in Of(E, "run") : s \in Of(F, "run")
      BY DEF Of
    <2>. HIDE DEF E, F
    <2>. QED BY <2>1, <2>2
  <1>. QED BY <1>2, <1>3, <1>4 DEF Affected

\* Another operation's runs are touched by none of C's rows.
LEMMA OtherOperation ==
  ASSUME NEW D, Referenced(D), D \subseteq UNION Bundles,
         NEW C, C \subseteq UNION Bundles, Known(C, D),
         NEW r \in UNION Bundles, r.kind = "run",
         r.operation \notin Affected(C, D)
  PROVE  r.id \notin Owners(C, D)
  <1>. SUFFICES ASSUME r.id \in Owners(C, D) PROVE FALSE
    OBVIOUS
  <1>1. PICK s \in Of(D \cup C, "run") : s.id = r.id
    BY OwnerRunKnown
  <1>2. s \in UNION Bundles /\ s.kind = "run"
    BY DEF Of
  <1>3. s.operation = r.operation
    BY <1>1, <1>2, SameParent
  <1>4. s.operation \in Affected(C, D)
    BY <1>1 DEF Affected
  <1>. QED BY <1>3, <1>4

\* The rows of operation o are the same in D and in E.
SameOperation(D, E, o) ==
  /\ RunsOf(E, o) = RunsOf(D, o)
  /\ ClosesOf(E, o) = ClosesOf(D, o)
  /\ \A p \in Of(E, "operation") : p.id = o => p \in D
  /\ \A r \in RunsOf(D, o) : SameRun(D, E, r.id)

LEMMA UntouchedOperation ==
  ASSUME NEW D, Referenced(D), NEW E, D \subseteq E, E \subseteq UNION Bundles,
         NEW C, C \subseteq UNION Bundles, Known(C, D),
         NEW o, o \notin Affected(C, D)
  PROVE  SameOperation(E, E \cup C, o)
  <1>1. /\ \A p \in Of(C, "operation") : p.id # o
        /\ \A c \in Of(C, "close") : c.operation # o
    BY DEF Affected
  <1>2. \A r \in Of(C, "run") : r.operation # o
    BY DEF Affected, Owners, TouchedRuns, Of
  <1>3. ASSUME NEW r \in RunsOf(E, o) PROVE SameRun(E, E \cup C, r.id)
    <2>1. r \in UNION Bundles /\ r.kind = "run" /\ r.operation = o
      BY DEF RunsOf, Of
    <2>2. r.id \notin Owners(C, D)
      BY <2>1, OtherOperation
    <2>. QED BY <2>2, UntouchedRun DEF Known
  <1>. QED BY <1>1, <1>2, <1>3 DEF SameOperation, RunsOf, ClosesOf, Of

\* What the verifier said of an operation it says of the same rows.
LEMMA OperationStays ==
  ASSUME NEW D, NEW E, D \subseteq E, NEW o, SameOperation(D, E, o),
         NEW I, NEW J, J \subseteq I
  PROVE  /\ OperationLifecycle(D, o) => OperationLifecycle(E, o)
         /\ HistoryVerifies(D, o, I) => HistoryVerifies(E, o, J)
         /\ DeadlinesVerified(D, o, I) => DeadlinesVerified(E, o, J)
         /\ \A r \in RunsOf(D, o) : RunCreation(D, r) => RunCreation(E, r)
  <1>1. OperationLifecycle(D, o) => OperationLifecycle(E, o)
    BY DEF SameOperation, OperationLifecycle, Of
  <1>2. ASSUME NEW r \in RunsOf(D, o), RunCreation(D, r) PROVE RunCreation(E, r)
    <2>1. r.operation = o
      BY DEF RunsOf
    <2>. QED BY <1>2, <2>1 DEF RunCreation, SameOperation, TerminalsOf, Of
  <1>3. ASSUME HistoryVerifies(D, o, I) PROVE HistoryVerifies(E, o, J)
    <2>1. OperationLifecycle(E, o)
      BY <1>1, <1>3 DEF HistoryVerifies
    <2>2. ASSUME NEW r \in RunsOf(E, o), r.id \in J
          PROVE  /\ RunCreation(E, r)
                 /\ \A a \in AttemptsOf(E, r.id), s \in Of(E, "resolution") :
                      s.attempt = a.id => AttemptResolution(a, s)
                 /\ \A t \in TerminalsOf(E, r.id) :
                      /\ TerminalResolution(E, r, t)
                      /\ StartsOf(E, r.id) # {}
                      /\ StartedOnce(E, r)
      <3>1. r \in RunsOf(D, o) /\ SameRun(D, E, r.id) /\ r.id \in I
        BY <2>2 DEF SameOperation
      <3>2. /\ RunCreation(D, r)
            /\ \A a \in AttemptsOf(D, r.id), s \in Of(D, "resolution") :
                 s.attempt = a.id => AttemptResolution(a, s)
            /\ \A t \in TerminalsOf(D, r.id) :
                 /\ TerminalResolution(D, r, t)
                 /\ StartsOf(D, r.id) # {}
                 /\ StartedOnce(D, r)
        BY <1>3, <3>1 DEF HistoryVerifies
      <3>3. RunCreation(E, r)
        BY <1>2, <3>1, <3>2
      <3>4. ASSUME NEW a \in AttemptsOf(E, r.id), NEW s \in Of(E, "resolution"),
                   s.attempt = a.id
            PROVE  AttemptResolution(a, s)
        <4>1. a \in AttemptsOf(D, r.id) /\ s \in ResolutionsOf(E, a.id)
          BY <3>1, <3>4 DEF SameRun, ResolutionsOf
        <4>2. s \in Of(D, "resolution")
          BY <3>1, <4>1 DEF SameRun, ResolutionsOf
        <4>. QED BY <4>1, <4>2, <3>2, <3>4
      <3>5. ASSUME NEW t \in TerminalsOf(E, r.id)
            PROVE  /\ TerminalResolution(E, r, t)
                   /\ StartsOf(E, r.id) # {}
                   /\ StartedOnce(E, r)
        <4>1. t \in TerminalsOf(D, r.id) /\ t.run = r.id
          BY <3>1 DEF SameRun, TerminalsOf
        <4>2. TerminalResolution(E, r, t) /\ StartedOnce(E, r)
          BY <3>1, <3>2, <4>1, RunStays
        <4>3. StartsOf(E, r.id) # {}
          BY <3>1, <3>2, <4>1 DEF SameRun
        <4>. QED BY <4>2, <4>3
      <3>. QED BY <3>3, <3>4, <3>5
    <2>. QED BY <2>1, <2>2 DEF HistoryVerifies
  <1>4. ASSUME DeadlinesVerified(D, o, I) PROVE DeadlinesVerified(E, o, J)
    <2>. SUFFICES ASSUME NEW r \in RunsOf(E, o), r.id \in J
                  PROVE  /\ \A t \in TerminalsOf(E, r.id) : DeadlineEvidence(E, r, t)
                         /\ TerminalsOf(E, r.id) = {} =>
                              \A a \in AttemptsOf(E, r.id) :
                                /\ a.at < r.deadline
                                /\ \E s \in ResolutionsOf(E, a.id) : s.at < r.deadline
      BY DEF DeadlinesVerified
    <2>1. r \in RunsOf(D, o) /\ SameRun(D, E, r.id) /\ r.id \in I
      BY DEF SameOperation
    <2>2. /\ \A t \in TerminalsOf(D, r.id) : DeadlineEvidence(D, r, t)
          /\ TerminalsOf(D, r.id) = {} =>
               \A a \in AttemptsOf(D, r.id) :
                 /\ a.at < r.deadline
                 /\ \E s \in ResolutionsOf(D, a.id) : s.at < r.deadline
      BY <1>4, <2>1 DEF DeadlinesVerified
    <2>3. \A t \in TerminalsOf(E, r.id) : DeadlineEvidence(E, r, t)
      <3>1. \A t \in TerminalsOf(E, r.id) : t \in TerminalsOf(D, r.id) /\ t.run = r.id
        BY <2>1 DEF SameRun, TerminalsOf
      <3>. QED BY <3>1, <2>1, <2>2, RunStays
    <2>. QED BY <2>1, <2>2, <2>3 DEF SameRun
  <1>. QED BY <1>1, <1>2, <1>3, <1>4

\* A chain of reruns leads to runs that exist.
LEMMA AncestorsAreRuns ==
  ASSUME NEW E, \A r \in E : PredecessorExists(r, E),
         NEW q \in Of(E, "run"), NEW j \in Ancestry(E, q.id)
  PROVE  \E r \in Of(E, "run") : r.id = j
  <1>1. j \in {q.id} \cup {r.predecessor : r \in Of(E, "run")}
    BY DEF Ancestry
  <1>2. CASE j = q.id
    BY <1>2
  <1>3. CASE j # q.id
    <2>1. PICK r \in Of(E, "run") : r.predecessor = j
      BY <1>1, <1>3
    <2>2. CASE j = None
      <3>. DEFINE named == {q.id} \cup {s.predecessor : s \in Of(E, "run")}
                  S == named \ {None}
      <3>1. S \in SUBSET named /\ q.id \in S
        BY <2>2, <1>3
      <3>2. \A s \in Of(E, "run") : s.id \in S /\ s.predecessor # None
                                      => s.predecessor \in S
        OBVIOUS
      <3>3. j \in S
        <4>. HIDE DEF S
        <4>. QED BY <3>1, <3>2 DEF Ancestry
      <3>. QED BY <3>3, <2>2
    <2>3. CASE j # None
      BY <2>1, <2>3 DEF PredecessorExists, Of
    <2>. QED BY <2>2, <2>3
  <1>. QED BY <1>2, <1>3

\* Runs of other bundles do not lengthen a chain of reruns.
LEMMA AncestryStays ==
  ASSUME NEW E, NEW C, NEW i,
         \A r \in Of(C, "run") : r.id \in Ancestry(E, i) => r \in E
  PROVE  Ancestry(E \cup C, i) \subseteq Ancestry(E, i)
  <1>. DEFINE A == Ancestry(E, i)
              named == {i} \cup {s.predecessor : s \in Of(E \cup C, "run")}
  <1>1. i \in A
    BY OwnAncestor
  <1>2. A \in SUBSET named
    BY DEF Ancestry, Of
  <1>3. ASSUME NEW r \in Of(E, "run"), r.id \in A, r.predecessor # None
        PROVE  r.predecessor \in A
    BY <1>3 DEF Ancestry
  <1>4. \A r \in Of(E \cup C, "run") : r.id \in A /\ r.predecessor # None
                                         => r.predecessor \in A
    BY <1>3 DEF Of
  <1>5. ASSUME NEW j \in Ancestry(E \cup C, i) PROVE j \in A
    <2>. HIDE DEF A
    <2>. QED BY <1>1, <1>2, <1>4 DEF Ancestry
  <1>. QED BY <1>5

\* A bundle that passed the gates still passes them after a bundle over other
\* operations was accepted.
LEMMA GatesCommute ==
  ASSUME NEW D, Sound(D), NEW B \in Bundles, NEW C \in Bundles,
         Known(B, D), Writable(B, D), Accepts(C, D),
         Affected(B, D) \cap Affected(C, D) = {},
         \A r \in B : r.kind # "selection" => Insertable(r, D \cup C)
  PROVE  Writable(B, D \cup C)
  <1>. DEFINE E == D \cup B
              F == (D \cup C) \cup B
  <1>1. /\ D \subseteq E /\ E \subseteq F /\ F = E \cup C
        /\ D \subseteq UNION Bundles /\ E \subseteq UNION Bundles
        /\ F \subseteq UNION Bundles /\ B \subseteq UNION Bundles
        /\ C \subseteq UNION Bundles
        /\ Referenced(D) /\ Known(C, D)
    BY DEF Sound, Accepts, Known
  <1>2. /\ \A r \in B : TouchedRuns(r, F) = TouchedRuns(r, E)
        /\ Owners(B, D \cup C) = Owners(B, D)
        /\ Affected(B, D \cup C) = Affected(B, D)
    BY <1>1, AffectedStays
  <1>3. ASSUME NEW o \in Affected(B, D)
        PROVE  SameOperation(E, F, o) /\ SameOperation(D, D \cup C, o)
    <2>1. o \notin Affected(C, D)
      OBVIOUS
    <2>2. SameOperation(E, E \cup C, o)
      <3>. HIDE DEF E
      <3>. QED BY <1>1, <2>1, UntouchedOperation
    <2>3. SameOperation(D, D \cup C, o)
      BY <1>1, <2>1, UntouchedOperation
    <2>. QED BY <1>1, <2>2, <2>3
  \* A run of the bundle's stands where it stood.
  <1>4. ASSUME NEW r \in Of(F, "run"), r.id \in Owners(B, D)
        PROVE  /\ r.operation \in Affected(B, D)
               /\ r \in Of(E, "run") /\ r \in RunsOf(E, r.operation)
               /\ SameRun(E, F, r.id)
               /\ Ancestry(F, r.id) \subseteq Ancestry(E, r.id)
    <2>1. r.operation \in Affected(B, D \cup C)
      BY <1>2, <1>4 DEF Affected
    <2>2. r.operation \in Affected(B, D)
      BY <2>1, <1>2
    <2>3. r \in RunsOf(E, r.operation)
      <3>1. r \in RunsOf(F, r.operation)
        BY DEF RunsOf
      <3>. QED BY <3>1, <2>2, <1>3 DEF SameOperation
    <2>4. r \in Of(E, "run")
      BY <2>3 DEF RunsOf
    <2>5. SameRun(E, F, r.id)
      BY <2>2, <2>3, <1>3 DEF SameOperation
    <2>6. ASSUME NEW s \in Of(C, "run"), s.id \in Ancestry(E, r.id)
          PROVE  s \in E
      <3>1. \A x \in E : PredecessorExists(x, E)
        BY <1>1, ReferencesGrow DEF Referenced, Writable
      <3>2. PICK p \in Of(E, "run") : p.id = s.id
        <4>. HIDE DEF E
        <4>. QED BY <3>1, <2>4, <2>6, AncestorsAreRuns
      <3>3. /\ s \in UNION Bundles /\ p \in UNION Bundles
            /\ s.kind = "run" /\ p.kind = "run" /\ s \in C
        BY <1>1 DEF Of
      <3>4. s.operation = p.operation
        BY <3>2, <3>3, SameParent
      <3>5. CASE p \in D
        <4>1. KeysUnique(D \cup C)
          BY AcceptedKeepsKeys DEF Sound
        <4>2. s = p
          <5>. DEFINE K == D \cup C
          <5>1. s \in K /\ p \in K /\ KeysUnique(K)
            BY <4>1, <3>3, <3>5
          <5>. HIDE DEF K
          <5>. QED BY <5>1, <3>2, <3>3, KeyFacts
        <4>. QED BY <4>2, <3>5
      <3>6. CASE p \notin D
        <4>1. p.operation \in Affected(B, D)
          BY <3>3, <3>6 DEF Affected, Owners, TouchedRuns, Of
        <4>2. s.operation \in Affected(C, D)
          BY <3>3 DEF Affected, Owners, TouchedRuns, Of
        <4>. QED BY <4>1, <4>2, <3>4
      <3>. QED BY <3>5, <3>6
    <2>7. Ancestry(E \cup C, r.id) \subseteq Ancestry(E, r.id)
      <3>. HIDE DEF E
      <3>. QED BY <2>6, AncestryStays
    <2>. QED BY <2>2, <2>3, <2>4, <2>5, <2>7, <1>1
  <1>5. ASSUME NEW r \in Of(F, "run"), r.id \in Owners(B, D)
         PROVE  /\ AttemptOrdering(E, r) => AttemptOrdering(F, r)
                /\ RunCreation(E, r) => RunCreation(F, r)
                /\ \A I, J : J \subseteq I =>
                     /\ HistoryVerifies(E, r.operation, I)
                          => HistoryVerifies(F, r.operation, J)
                     /\ DeadlinesVerified(E, r.operation, I)
                          => DeadlinesVerified(F, r.operation, J)
    <2>. HIDE DEF E, F
    <2>1. /\ SameRun(E, F, r.id) /\ SameOperation(E, F, r.operation)
          /\ r \in RunsOf(E, r.operation) /\ E \subseteq F
      BY <1>1, <1>3, <1>4, <1>5
    <2>2. AttemptOrdering(E, r) => AttemptOrdering(F, r)
      BY <2>1, RunStays
    <2>3. RunCreation(E, r) => RunCreation(F, r)
      BY <2>1, OperationStays
    <2>4. ASSUME NEW I, NEW J, J \subseteq I
          PROVE  /\ HistoryVerifies(E, r.operation, I)
                      => HistoryVerifies(F, r.operation, J)
                 /\ DeadlinesVerified(E, r.operation, I)
                      => DeadlinesVerified(F, r.operation, J)
      BY <2>1, <2>4, OperationStays
    <2>. QED BY <2>2, <2>3, <2>4
  <1>6. RunsOfOpenOperations(B, D \cup C)
    <2>. SUFFICES ASSUME NEW r \in Of(B, "run") \ (D \cup C)
                  PROVE  ClosesOf(F, r.operation) = {}
      BY DEF RunsOfOpenOperations
    <2>1. ClosesOf(E, r.operation) = {}
      BY DEF Writable, RunsOfOpenOperations
    <2>2. r.operation \in Affected(B, D)
      BY DEF Affected, Owners, TouchedRuns, Of
    <2>. QED BY <2>1, <2>2, <1>3 DEF SameOperation
  <1>7. ChildrenOfLiveRuns(B, D \cup C)
    <2>. SUFFICES ASSUME NEW r \in B \ (D \cup C),
                         r.kind \in {"start", "attempt", "resolution", "result"},
                         NEW i \in TouchedRuns(r, F)
                  PROVE  TerminalsOf(D \cup C, i) = {}
      BY DEF ChildrenOfLiveRuns
    <2>1. i \in TouchedRuns(r, E)
      BY <1>2
    <2>2. TerminalsOf(D, i) = {}
      BY <2>1 DEF Writable, ChildrenOfLiveRuns
    <2>3. i \in Owners(B, D)
      BY <2>1 DEF Owners
    <2>4. i \notin Owners(C, D)
      <3>1. PICK s \in Of(E, "run") : s.id = i
        BY <1>1, <2>3, OwnerRunKnown
      <3>2. s.operation \in Affected(B, D)
        BY <2>3, <3>1 DEF Affected
      <3>3. s \in UNION Bundles /\ s.kind = "run"
        BY <1>1 DEF Of
      <3>. QED BY <3>1, <3>2, <3>3, <1>1, OtherOperation
    <2>5. SameRun(D, D \cup C, i)
      BY <2>4, <1>1, UntouchedRun DEF Known
    <2>. QED BY <2>2, <2>5 DEF SameRun
  <1>8. \A o \in Affected(B, D \cup C) : OperationLifecycle(F, o)
    <2>. SUFFICES ASSUME NEW o \in Affected(B, D) PROVE OperationLifecycle(F, o)
      BY <1>2
    <2>1. OperationLifecycle(E, o)
      BY DEF Writable
    <2>. QED BY <2>1, <1>1, <1>3, OperationStays
  <1>9. ASSUME NEW r \in Of(F, "run"), r.id \in {t.run : t \in Of(B, "terminal")}
        PROVE  TerminalContext(F, r)
    <2>1. r.id \in Owners(B, D)
      BY <1>9 DEF Owners, TouchedRuns, Of
    <2>2. TerminalContext(E, r)
      BY <1>4, <1>9, <2>1 DEF Writable
    <2>3. Verified(E, r.operation, Ancestry(E, r.id)) /\ AttemptOrdering(E, r)
      BY <2>2 DEF TerminalContext
    <2>4. AttemptOrdering(F, r)
      BY <2>1, <2>3, <1>5
    <2>5. Verified(F, r.operation, Ancestry(F, r.id))
      BY <2>1, <2>3, <1>4, <1>5 DEF Verified
    <2>. QED BY <2>4, <2>5 DEF TerminalContext
  <1>10. ASSUME NEW r \in Of(F, "run"), r \in B \ (D \cup C)
        PROVE  CreationContext(F, r)
    <2>1. r.id \in Owners(B, D)
      BY <1>10 DEF Owners, TouchedRuns, Of
    <2>2. CreationContext(E, r)
      BY <1>4, <1>10, <2>1 DEF Writable
    <2>3. Ancestry(F, r.id) \ {r.id} \subseteq Ancestry(E, r.id) \ {r.id}
      BY <1>4, <2>1
    <2>4. RunCreation(F, r)
      BY <2>1, <2>2, <1>5 DEF CreationContext
    <2>5. Verified(F, r.operation, Ancestry(F, r.id) \ {r.id})
      BY <2>1, <2>2, <2>3, <1>5 DEF CreationContext, Verified
    <2>. QED BY <2>4, <2>5 DEF CreationContext
  <1>11. ASSUME NEW r \in Of(F, "run"), r.id \in Owners(B, D)
         PROVE  PendingContext(F, r)
    <2>1. PendingContext(E, r)
      BY <1>4, <1>11 DEF Writable
    <2>2. TerminalsOf(F, r.id) = TerminalsOf(E, r.id)
      BY <1>4, <1>11 DEF SameRun
    <2>3. HistoryVerifies(F, r.operation, Ancestry(F, r.id))
      BY <2>1, <1>4, <1>11, <1>5 DEF PendingContext
    <2>4. AttemptOrdering(F, r)
      BY <2>1, <1>11, <1>5 DEF PendingContext
    <2>5. TerminalsOf(F, r.id) # {}
            => DeadlinesVerified(F, r.operation, Ancestry(F, r.id))
      BY <2>1, <2>2, <1>4, <1>11, <1>5 DEF PendingContext
    <2>. QED BY <2>3, <2>4, <2>5 DEF PendingContext
  <1>12. \A r \in B : PredecessorExists(r, F)
    BY <1>1, ReferencesGrow DEF Writable
  <1>13. \A r, s \in B : r = s \/ Keys(r) \cap Keys(s) = {}
    BY DEF Writable
  <1>. QED BY <1>2, <1>6, <1>7, <1>8, <1>9, <1>10, <1>11, <1>12, <1>13
           DEF Writable

LEMMA OwnRows ==
  ASSUME NEW D, NEW B, NEW W, W \subseteq B
  PROVE  /\ (D \cup W) \cup B = D \cup B
         /\ Affected(B, D \cup W) = Affected(B, D)
  <1>. DEFINE V == D \cup W
  <1>1. V \cup B = D \cup B
    OBVIOUS
  <1>2. Owners(B, V) = Owners(B, D) /\ Affected(B, V) = Affected(B, D)
    <2>. HIDE DEF V
    <2>. QED BY <1>1 DEF Owners, Affected
  <1>. QED BY <1>1, <1>2

\* Operation rows that a transaction inserted ahead of the rest of its bundle
\* do not matter to the gates.
LEMMA OwnOperations ==
  ASSUME NEW D, NEW B, NEW W, W \subseteq Of(B, "operation"),
         \A r \in W : ~ Collides(r, D), Writable(B, D \cup W)
  PROVE  Writable(B, D)
  <1>. DEFINE V == D \cup W
  <1>1. /\ V \cup B = D \cup B /\ Affected(B, V) = Affected(B, D)
        /\ Owners(B, V) = Owners(B, D)
        /\ \A r \in W : r.kind = "operation"
    <2>1. W \subseteq B /\ \A r \in W : r.kind = "operation"
      BY DEF Of
    <2>2. V \cup B = D \cup B /\ Affected(B, V) = Affected(B, D)
      BY <2>1, OwnRows
    <2>. HIDE DEF V
    <2>. QED BY <2>1, <2>2 DEF Owners
  <1>2. \A r \in B : r.kind # "selection" => Insertable(r, D)
    <2>. SUFFICES ASSUME NEW r \in B, Insertable(r, V), r \notin D
                  PROVE  ~ Collides(r, D)
      BY DEF Writable, Insertable
    <2>. QED BY DEF Insertable, Collides
  <1>3. \A r \in B : r.kind # "operation" /\ r \notin D => r \notin V
    BY <1>1
  <1>4. \A i : TerminalsOf(V, i) = TerminalsOf(D, i)
    BY <1>1 DEF TerminalsOf, Of
  <1>. HIDE DEF V
  <1>5. Writable(B, V)
    BY DEF V
  <1>6. RunsOfOpenOperations(B, D)
    BY <1>1, <1>3, <1>5 DEF Writable, RunsOfOpenOperations, Of
  <1>7. ChildrenOfLiveRuns(B, D)
    BY <1>1, <1>3, <1>4, <1>5 DEF Writable, ChildrenOfLiveRuns
  <1>8. \A r \in Of(D \cup B, "run") : r \in B \ D => r \in B \ V
    BY <1>3 DEF Of
  <1>. QED BY <1>1, <1>2, <1>5, <1>6, <1>7, <1>8 DEF Writable

LEMMA AffectedAreOperations ==
  ASSUME NEW D, D \subseteq UNION Bundles, NEW B, B \subseteq UNION Bundles
  PROVE  Affected(B, D) \subseteq Nat
  BY RowFields DEF Affected, Of

LEMMA KeysTell ==
  ASSUME NEW r, NEW s, Keys(r) \cap Keys(s) # {}
  PROVE  /\ r.kind = s.kind
         /\ r.kind = "operation" => r.id = s.id
         /\ \/ r.id = s.id
            \/ r.kind = "close" /\ r.operation = s.operation
            \/ r.kind \in {"start", "attempt", "terminal"} /\ r.run = s.run
            \/ r.kind = "resolution" /\ r.attempt = s.attempt
            \/ r.kind = "selection"
  BY DEF Keys

\* Two bundles whose rows share a key, an operation or selection apart, affect
\* one operation.
LEMMA CollidingRows ==
  ASSUME NEW D, Referenced(D), D \subseteq UNION Bundles,
         NEW B, B \subseteq UNION Bundles, Known(B, D),
         NEW C, C \subseteq UNION Bundles, Known(C, D),
         NEW r \in B, NEW s \in C, r.kind \notin {"operation", "selection"},
         Keys(r) \cap Keys(s) # {}
  PROVE  Affected(B, D) \cap Affected(C, D) # {}
  <1>1. /\ r.kind = s.kind
        /\ \/ r.id = s.id
           \/ r.kind = "close" /\ r.operation = s.operation
           \/ r.kind \in {"start", "attempt", "terminal"} /\ r.run = s.run
           \/ r.kind = "resolution" /\ r.attempt = s.attempt
    BY KeysTell
  <1>2. r \in UNION Bundles /\ s \in UNION Bundles
    OBVIOUS
  <1>3. /\ r.kind \in {"run", "close"} => r.operation = s.operation
        /\ r.kind \in {"start", "attempt", "result", "terminal"} => r.run = s.run
        /\ r.kind = "resolution" => r.attempt = s.attempt
        /\ r.kind = "run" => r.id = s.id
    BY <1>1, <1>2, SameParent
  <1>4. ASSUME NEW i \in Owners(B, D), i \in Owners(C, D)
        PROVE  Affected(B, D) \cap Affected(C, D) # {}
    <2>1. PICK p \in Of(D \cup B, "run") : p.id = i
      BY OwnerRunKnown
    <2>2. PICK q \in Of(D \cup C, "run") : q.id = i
      BY <1>4, OwnerRunKnown
    <2>3. /\ p \in UNION Bundles /\ q \in UNION Bundles
          /\ p.kind = "run" /\ q.kind = "run"
      BY DEF Of
    <2>4. p.operation = q.operation
      BY <2>1, <2>2, <2>3, SameParent
    <2>5. p.operation \in Affected(B, D) /\ q.operation \in Affected(C, D)
      BY <2>1, <2>2, <1>4 DEF Affected
    <2>. QED BY <2>4, <2>5
  <1>5. CASE r.kind = "close"
    <2>1. r.operation \in Affected(B, D) /\ s.operation \in Affected(C, D)
      BY <1>1, <1>5 DEF Affected, Of
    <2>. QED BY <2>1, <1>3, <1>5
  <1>6. CASE r.kind = "run"
    <2>1. r.id \in Owners(B, D) /\ s.id \in Owners(C, D)
      BY <1>1, <1>6 DEF Owners, TouchedRuns
    <2>. QED BY <2>1, <1>3, <1>4, <1>6
  <1>7. CASE r.kind \in {"start", "attempt", "result", "terminal"}
    <2>1. r.run \in Owners(B, D) /\ s.run \in Owners(C, D)
      BY <1>1, <1>7 DEF Owners, TouchedRuns
    <2>. QED BY <2>1, <1>3, <1>4, <1>7
  <1>8. CASE r.kind = "resolution"
    <2>1. PICK a \in Of(D \cup B, "attempt") : a.id = r.attempt
      BY <1>8 DEF Known, OwnerKnown
    <2>2. PICK b \in Of(D \cup C, "attempt") : b.id = s.attempt
      BY <1>1, <1>8 DEF Known, OwnerKnown
    <2>3. /\ a \in UNION Bundles /\ b \in UNION Bundles
          /\ a.kind = "attempt" /\ b.kind = "attempt"
      BY DEF Of
    <2>4. a.run = b.run
      BY <2>1, <2>2, <2>3, <1>3, <1>8, SameParent
    <2>5. a.run \in Owners(B, D)
      BY <2>1, <1>8 DEF Owners, TouchedRuns
    <2>6. b.run \in Owners(C, D)
      <3>1. s.kind = "resolution"
        BY <1>1, <1>8
      <3>2. b.run \in TouchedRuns(s, D \cup C)
        BY <2>2, <3>1 DEF TouchedRuns
      <3>. QED BY <3>2 DEF Owners
    <2>. QED BY <2>4, <2>5, <2>6, <1>4
  <1>. QED BY <1>2, <1>5, <1>6, <1>7, <1>8, RowFields

================================================================================
