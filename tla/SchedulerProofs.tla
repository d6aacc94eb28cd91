---------------------------- MODULE SchedulerProofs ----------------------------
(***************************************************************************)
(* The research scheduler, for any callers, readers, requests, bundles and *)
(* policies.                                                               *)
(*                                                                         *)
(* The tables that change by whole steps keep their decisions true         *)
(* (LedgerInv): a new decision's slot lies after all slots of its policy,  *)
(* because it lies after the tail and the tail is the last slot; so what   *)
(* was said of earlier slots and of earlier runs stays as it was.          *)
(*                                                                         *)
(* The concurrent callers take such whole steps and no others              *)
(* (SchedulerInv): what a caller found before it inserted is still what it *)
(* would find when it commits, since it holds the rows of its policy and   *)
(* of its operation, and the others change nothing of these (Spared).      *)
(*                                                                         *)
(* What a decision rests on can be read back later (GroundInv): all runs   *)
(* of its manifest have ended, so the gates let nothing in that belongs to *)
(* them, and a history whose manifest is the same is the same.  So a       *)
(* repeated request finds its decision (RetriesFindTheirDecision), and a   *)
(* reader that took its rows one query at a time accepts them (ReadersInv, *)
(* ReadersAcceptWhatIsWritten).                                            *)
(***************************************************************************)
EXTENDS ResearchScheduler, SchedulerReader, ResearchHistoryProofs

-----------------------------------------------------------------------------
(* Slots, versions and the chain *)

LEMMA Quotients ==
  ASSUME NEW a \in Nat, NEW b \in Nat, NEW i \in Nat \ {0}, a <= b
  PROVE  a \div i \in Nat /\ a \div i <= b \div i
  OBVIOUS

\* A bounded set of numbers has a largest: its least upper bound.
LEMMA LargestNumber ==
  ASSUME NEW S, S \subseteq Nat, S # {}, NEW b \in Nat, \A m \in S : m <= b
  PROVE  \E n \in S : \A m \in S : m <= n
  <1>. DEFINE Bounds == {n \in Nat : \A m \in S : m <= n}
  <1>1. PICK n \in Bounds : \A m \in Bounds : n <= m
    <2>1. Bounds \subseteq Nat /\ Bounds # {}
      OBVIOUS
    <2>. HIDE DEF Bounds
    <2>. QED BY <2>1, LeastNumber
  <1>2. n \in S
    <2>1. SUFFICES ASSUME n \notin S PROVE FALSE
      OBVIOUS
    <2>2. \A m \in S : m <= n - 1
      BY <2>1
    <2>3. n - 1 \in Bounds
      <3>1. PICK m \in S : TRUE
        OBVIOUS
      <3>. QED BY <2>2, <3>1
    <2>. QED BY <1>1, <2>3
  <1>. QED BY <1>2

LEMMA AnchorExists ==
  ASSUME NEW V, V \subseteq Version, NEW p, PolicyHistory(V, p)
  PROVE  Anchor(V, p) \in VersionsOf(V, p) /\ Anchor(V, p).first \in Nat
  <1>. DEFINE Numbers == {v.version : v \in VersionsOf(V, p)}
  <1>1. \A v \in VersionsOf(V, p) : v \in V /\ v.version \in Nat /\ v.first \in Nat
    BY DEF VersionsOf, Version, Times
  <1>2. PICK n \in Numbers : \A m \in Numbers : n <= m
    <2>1. Numbers \subseteq Nat /\ Numbers # {}
      BY <1>1 DEF PolicyHistory
    <2>. HIDE DEF Numbers
    <2>. QED BY <2>1, LeastNumber
  <1>3. \E v \in VersionsOf(V, p) : \A u \in VersionsOf(V, p) : v.version <= u.version
    BY <1>2
  <1>4. Anchor(V, p) \in VersionsOf(V, p)
    BY <1>3 DEF Anchor
  <1>. QED BY <1>1, <1>4

-----------------------------------------------------------------------------
(* What the tables of the scheduler are like after any whole steps *)

StreamsPair ==
  \A u, w \in streams : u.policy = w.policy \/ u.operation = w.operation => u = w

RowsTimed ==
  /\ \A p \in Of(db, "operation") : p.at \in Nat
  /\ streams \subseteq Stream /\ versions \subseteq Version

\* A decision has its stream, its run and a version that made its slot due.
Backed(d) ==
  /\ d.slot \in Slots /\ d.at \in Nat
  /\ [policy |-> d.policy, operation |-> d.operation] \in streams
  /\ \E r \in RunsOf(db, d.operation) : r.id = d.run /\ r.at = d.at
  /\ \E v \in VersionsOf(versions, d.policy) : d.at >= v.first /\ d.slot = DueSlot(v, d.at)

SlotsUsedOnce ==
  \A d, e \in decisions : d.policy = e.policy /\ d.slot = e.slot => d = e

SlotsBounded == \E n \in Nat : \A d \in decisions : d.slot <= n

\* The inductive invariant of the tables.
LedgerInv ==
  /\ RowsTimed /\ StreamsPair
  /\ \A d \in decisions : Backed(d)
  /\ SlotsUsedOnce /\ SlotsBounded
  /\ ChainIsInSlotOrder /\ ReasonsStayTrue
  /\ ScheduledRunsDoNotOverlap

\* The tail of a chain is its last slot: of two decisions the earlier has a
\* successor, the next one by slot.
LEMMA TailIsLast ==
  ASSUME LedgerInv, NEW p \in Policies, DecisionsOf(decisions, p) # {}
  PROVE  \E m \in DecisionsOf(decisions, p) :
           /\ ChainTail(decisions, p) = {m}
           /\ \A d \in DecisionsOf(decisions, p) : d.slot <= m.slot
  <1>. DEFINE C == DecisionsOf(decisions, p)
              S == {d.slot : d \in C}
              Earlier(d) == {e.slot : e \in {c \in C : c.slot < d.slot}}
  <1>1. \A d \in C : d \in decisions /\ d.policy = p /\ d.slot \in Slots /\ d.slot \in Nat
    BY SchedulerAssumption DEF LedgerInv, Backed, DecisionsOf
  <1>2. PICK n \in S : \A i \in S : i <= n
    <2>1. PICK b \in Nat : \A d \in decisions : d.slot <= b
      BY DEF LedgerInv, SlotsBounded
    <2>2. S \subseteq Nat /\ S # {} /\ \A i \in S : i <= b
      BY <1>1, <2>1
    <2>. HIDE DEF S
    <2>. QED BY <2>2, LargestNumber
  <1>3. PICK m \in C : m.slot = n
    BY <1>2
  <1>4. \A d \in C : d.slot <= m.slot
    BY <1>2, <1>3
  <1>5. \A d \in C : IF Earlier(d) = {} THEN d.previous = None
                     ELSE d.previous \in Earlier(d) /\ \A i \in Earlier(d) : i <= d.previous
    BY DEF LedgerInv, ChainIsInSlotOrder
  <1>6. m \in ChainTail(decisions, p)
    <2>. SUFFICES ASSUME NEW e \in C, e.previous = m.slot PROVE FALSE
      BY DEF ChainTail
    <2>1. e.previous # None
      BY <1>1, SchedulerAssumption
    <2>2. e.previous \in Earlier(e)
      BY <2>1, <1>5
    <2>3. m.slot < e.slot
      BY <2>2
    <2>. QED BY <2>3, <1>1, <1>4
  <1>7. ASSUME NEW d \in ChainTail(decisions, p) PROVE d = m
    <2>1. d \in C
      BY DEF ChainTail
    <2>2. SUFFICES ASSUME d # m PROVE FALSE
      OBVIOUS
    <2>3. d.slot < m.slot
      <3>1. d.slot # m.slot
        BY <1>1, <2>1, <2>2 DEF LedgerInv, SlotsUsedOnce
      <3>. QED BY <3>1, <1>1, <1>4, <2>1
    <2>. DEFINE L == {i \in S : d.slot < i}
    <2>4. PICK k \in L : \A i \in L : k <= i
      <3>1. L \subseteq Nat /\ L # {}
        BY <1>1, <2>3
      <3>. HIDE DEF L
      <3>. QED BY <3>1, LeastNumber
    <2>5. PICK e \in C : e.slot = k
      BY <2>4
    <2>6. d.slot < e.slot
      BY <2>4, <2>5
    <2>7. d.slot \in Earlier(e)
      BY <2>1, <2>6
    <2>8. e.previous \in Earlier(e) /\ d.slot <= e.previous
      BY <1>5, <2>7
    <2>9. PICK f \in C : f.slot = e.previous /\ f.slot < e.slot
      BY <2>8
    <2>10. f.slot = d.slot
      <3>1. ~ (d.slot < f.slot)
        <4>1. SUFFICES ASSUME d.slot < f.slot PROVE FALSE
          OBVIOUS
        <4>2. f.slot \in L
          BY <4>1
        <4>. QED BY <4>2, <2>4, <2>5, <2>9, <1>1
      <3>. QED BY <3>1, <2>1, <2>8, <2>9, <1>1
    <2>11. e.previous = d.slot
      BY <2>9, <2>10
    <2>. QED BY <2>5, <2>11 DEF ChainTail
  <1>. QED BY <1>4, <1>6, <1>7

-----------------------------------------------------------------------------
(* The steps of the tables *)

\* The slot of a request lies within its first eligibility and itself.
LEMMA RequestSlot ==
  ASSUME versions \subseteq Version, NEW q \in Requests,
         PolicyHistory(versions, q.policy), Due(DueVersion(q), q.at)
  PROVE  /\ DueVersion(q) \in VersionsOf(versions, q.policy)
         /\ DueVersion(q).first \in Nat /\ q.at \in Nat
         /\ SlotOf(q) \in Slots /\ SlotOf(q) \in Nat /\ RunOf(q) \in Id
  <1>1. DueVersion(q) \in VersionsOf(versions, q.policy) /\ DueVersion(q).first \in Nat
    BY AnchorExists DEF DueVersion
  <1>2. q \in Request /\ q.at \in Nat
    BY SchedulerAssumption DEF Request, Times
  <1>. DEFINE f == DueVersion(q).first
  <1>3. f \in Nat /\ f <= q.at
    BY <1>1 DEF Due
  <1>4. /\ q.at - f \in Nat /\ q.at - f <= q.at /\ Interval \in Nat \ {0}
        /\ SlotOf(q) = (q.at - f) \div Interval
    BY <1>2, <1>3, SchedulerAssumption DEF SlotOf, DueSlot
  <1>. HIDE DEF f
  <1>5. SlotOf(q) \in Nat /\ SlotOf(q) <= q.at \div Interval
    BY <1>2, <1>4, Quotients
  <1>6. q.at \div Interval \in Nat
    BY <1>2, <1>4, Quotients
  <1>7. SlotOf(q) \in 0 .. q.at \div Interval
    BY <1>5, <1>6
  <1>8. SlotOf(q) \in Slots
    BY <1>7, SchedulerAssumption
  <1>9. <<q.operation, q.policy, SlotOf(q)>> \in DOMAIN SlotRunId
    BY <1>8, SchedulerAssumption
  <1>10. RunOf(q) \in Id
    BY <1>9, SchedulerAssumption DEF RunOf
  <1>. QED BY <1>1, <1>2, <1>5, <1>8, <1>10

\* What a new decision finds: its slot lies after those of its policy, and
\* their runs have ended.
LEMMA NewSlotIsLast ==
  ASSUME LedgerInv, NEW q \in Requests, StreamKnown(q), Eligible(q), Admissible(q)
  PROVE  /\ \A d \in DecisionsOf(decisions, q.policy) : d.slot < SlotOf(q)
         /\ \A d \in decisions : d.operation = q.operation => d.policy = q.policy
         /\ \A d \in DecisionsOf(decisions, q.policy) :
              \E t \in TerminalsOf(db, d.run) : t.at <= q.at
  <1>1. /\ DueVersion(q) \in VersionsOf(versions, q.policy)
        /\ DueVersion(q).first \in Nat /\ q.at \in Nat /\ SlotOf(q) \in Nat
    BY RequestSlot DEF LedgerInv, RowsTimed, Eligible
  <1>2. q.policy \in Policies
    BY SchedulerAssumption DEF Request
  <1>3. \A d \in DecisionsOf(decisions, q.policy) :
          d.slot \in Nat /\ d \in decisions /\ d.policy = q.policy
    BY SchedulerAssumption DEF LedgerInv, Backed, DecisionsOf
  <1>4. ASSUME NEW d \in DecisionsOf(decisions, q.policy) PROVE d.slot < SlotOf(q)
    <2>1. PICK m \in DecisionsOf(decisions, q.policy) :
            /\ ChainTail(decisions, q.policy) = {m}
            /\ \A e \in DecisionsOf(decisions, q.policy) : e.slot <= m.slot
      BY <1>2, TailIsLast
    <2>2. m.slot < SlotOf(q)
      BY <2>1 DEF Admissible
    <2>. QED BY <1>1, <1>3, <2>1, <2>2
  <1>5. ASSUME NEW d \in decisions
        PROVE  d.operation = q.operation <=> d.policy = q.policy
    <2>. DEFINE u == [policy |-> d.policy, operation |-> d.operation]
                w == [policy |-> q.policy, operation |-> q.operation]
    <2>1. u \in streams /\ w \in streams
      BY DEF LedgerInv, Backed, StreamKnown
    <2>2. u.policy = w.policy \/ u.operation = w.operation => u = w
      <3>. HIDE DEF u, w
      <3>. QED BY <2>1 DEF LedgerInv, StreamsPair
    <2>. QED BY <2>2
  <1>6. ASSUME NEW d \in DecisionsOf(decisions, q.policy)
        PROVE  \E t \in TerminalsOf(db, d.run) : t.at <= q.at
    <2>1. d \in decisions /\ d.policy = q.policy /\ d.operation = q.operation
          /\ d.at \in Nat /\ d.slot \in Nat
      BY <1>3, <1>5 DEF LedgerInv, Backed
    <2>2. PICK r \in RunsOf(db, q.operation) : r.id = d.run /\ r.at = d.at
      BY <2>1 DEF LedgerInv, Backed
    <2>3. d.at <= q.at
      <3>1. PICK v \in VersionsOf(versions, q.policy) :
              d.at >= v.first /\ d.slot = DueSlot(v, d.at)
        BY <2>1 DEF LedgerInv, Backed
      <3>2. v.first = DueVersion(q).first
        BY <1>1, <3>1 DEF Eligible, PolicyHistory
      <3>. DEFINE f == DueVersion(q).first
      <3>3. SUFFICES ASSUME q.at < d.at PROVE FALSE
        BY <1>1, <2>1
      <3>4. q.at >= f
        BY DEF Eligible, Due
      <3>5. /\ d.slot = (d.at - f) \div Interval /\ SlotOf(q) = (q.at - f) \div Interval
            /\ d.at - f \in Nat /\ q.at - f \in Nat /\ q.at - f <= d.at - f
        BY <1>1, <2>1, <3>1, <3>2, <3>3, <3>4 DEF SlotOf, DueSlot
      <3>6. Interval \in Nat \ {0}
        BY SchedulerAssumption
      <3>. HIDE DEF f
      <3>7. SlotOf(q) <= d.slot
        BY <3>5, <3>6, Quotients
      <3>. QED BY <1>1, <1>4, <2>1, <3>7
    <2>. DEFINE P == Prefix(db, q.operation, q.at, {})
    <2>4. r \in Of(P, "run")
      BY <2>1, <2>2, <2>3 DEF Prefix, AtCutoff, RunsOf, Of
    <2>5. PICK t \in Of(P, "terminal") : t.run = r.id
      BY <2>4 DEF Admissible, Nonterminal
    <2>6. t \in AtCutoff(db, q.operation, q.at, {}) /\ t.kind = "terminal"
      BY <2>5 DEF Prefix, Of
    <2>7. t \in db /\ t.at <= q.at
      BY <2>6 DEF AtCutoff, RunsOf, ClosesOf, Of
    <2>. QED BY <2>2, <2>5, <2>6, <2>7 DEF TerminalsOf, Of
  <1>. QED BY <1>4, <1>5, <1>6

\* What is backed stays backed: no step takes a row away.
LEMMA BackedStays ==
  ASSUME NEW d, Backed(d), db \subseteq db', streams \subseteq streams',
         versions \subseteq versions'
  PROVE  Backed(d)'
  <1>1. \A o : RunsOf(db, o) \subseteq RunsOf(db', o)
    BY DEF RunsOf, Of
  <1>2. \A p : VersionsOf(versions, p) \subseteq VersionsOf(versions', p)
    BY DEF VersionsOf
  <1>. QED BY <1>1, <1>2 DEF Backed

\* Steps that decide nothing.
LEMMA NothingDecided ==
  ASSUME LedgerInv, decisions' = decisions, db \subseteq db',
         streams \subseteq streams', versions \subseteq versions',
         RowsTimed', StreamsPair'
  PROVE  LedgerInv'
  <1>1. \A d \in decisions' : Backed(d)'
    BY BackedStays DEF LedgerInv
  <1>2. SlotsUsedOnce' /\ SlotsBounded' /\ ChainIsInSlotOrder' /\ ReasonsStayTrue'
    BY DEF LedgerInv, SlotsUsedOnce, SlotsBounded, ChainIsInSlotOrder, ReasonsStayTrue
  <1>3. ScheduledRunsDoNotOverlap'
    BY DEF LedgerInv, ScheduledRunsDoNotOverlap, TerminalsOf, Of
  <1>. QED BY <1>1, <1>2, <1>3 DEF LedgerInv

LEMMA DecisionKeepsLedger ==
  ASSUME LedgerInv, NEW q \in Requests, StoreDecision(q)
  PROVE  LedgerInv'
  <1>. DEFINE p == q.policy
              n == NewDecision(q)
              C == DecisionsOf(decisions, p)
  <1>1. /\ StreamKnown(q) /\ Eligible(q) /\ Admissible(q)
        /\ db' = db \cup {RunRow(q)} /\ decisions' = decisions \cup {n}
        /\ streams' = streams /\ versions' = versions
    BY DEF StoreDecision
  <1>2. /\ \A d \in C : d.slot < SlotOf(q)
        /\ \A d \in decisions : d.operation = q.operation => d.policy = p
        /\ \A d \in C : \E t \in TerminalsOf(db, d.run) : t.at <= q.at
    BY <1>1, NewSlotIsLast
  <1>3. /\ DueVersion(q) \in VersionsOf(versions, p)
        /\ DueVersion(q).first \in Nat /\ q.at \in Nat /\ q.at >= DueVersion(q).first
        /\ SlotOf(q) \in Slots /\ SlotOf(q) \in Nat
    BY <1>1, RequestSlot DEF LedgerInv, RowsTimed, Eligible, Due
  <1>4. p \in Policies
    BY SchedulerAssumption DEF Request
  <1>5. /\ n.policy = p /\ n.operation = q.operation /\ n.slot = SlotOf(q)
        /\ n.at = q.at /\ n.run = RunOf(q) /\ n.reason = Reason(decisions, p, SlotOf(q))
        /\ n.previous = IF ChainTail(decisions, p) = {} THEN None
                        ELSE (CHOOSE d \in ChainTail(decisions, p) : TRUE).slot
    BY DEF NewDecision
  <1>. HIDE DEF n
  <1>6. /\ \A d \in C : d \in decisions /\ d.policy = p
        /\ \A d \in decisions : d.slot \in Nat /\ d.slot \in Slots
        /\ \A d \in decisions : d.policy = p => d \in C
    BY SchedulerAssumption DEF LedgerInv, Backed, DecisionsOf
  <1>7. RowsTimed' /\ StreamsPair'
    <2>1. Of(db', "operation") = Of(db, "operation")
      BY <1>1 DEF Of, RunRow
    <2>. QED BY <1>1, <2>1 DEF LedgerInv, RowsTimed, StreamsPair
  <1>8. ASSUME NEW d \in decisions' PROVE Backed(d)'
    <2>1. CASE d \in decisions
      BY <1>1, <2>1, BackedStays DEF LedgerInv
    <2>2. CASE d = n
      <3>1. [policy |-> d.policy, operation |-> d.operation] \in streams'
        BY <1>1, <1>5, <2>2 DEF StreamKnown
      <3>2. RunRow(q) \in RunsOf(db', d.operation)
            /\ RunRow(q).id = d.run /\ RunRow(q).at = d.at
        BY <1>1, <1>5, <2>2 DEF RunsOf, Of, RunRow
      <3>3. DueVersion(q) \in VersionsOf(versions', d.policy)
            /\ d.at >= DueVersion(q).first /\ d.slot = DueSlot(DueVersion(q), d.at)
        BY <1>1, <1>3, <1>5, <2>2 DEF SlotOf
      <3>4. d.slot \in Slots /\ d.at \in Nat
        BY <1>3, <1>5, <2>2
      <3>. QED BY <3>1, <3>2, <3>3, <3>4 DEF Backed
    <2>. QED BY <1>1, <2>1, <2>2
  <1>9. SlotsUsedOnce'
    <2>1. \A d \in decisions : d.policy = n.policy => d.slot # n.slot
      BY <1>2, <1>3, <1>5, <1>6
    <2>. QED BY <1>1, <2>1 DEF LedgerInv, SlotsUsedOnce
  <1>10. SlotsBounded'
    <2>1. PICK b \in Nat : \A d \in decisions : d.slot <= b
      BY DEF LedgerInv, SlotsBounded
    <2>2. \A d \in decisions' : d.slot <= b + SlotOf(q)
      BY <1>1, <1>3, <1>5, <1>6, <2>1
    <2>. QED BY <1>3, <2>2 DEF SlotsBounded
  <1>11. ChainIsInSlotOrder'
    <2>. DEFINE Earlier(S, r, d) == {e.slot : e \in {c \in DecisionsOf(S, r) : c.slot < d.slot}}
                InOrder(S, r, d) == IF Earlier(S, r, d) = {} THEN d.previous = None
                                    ELSE /\ d.previous \in Earlier(S, r, d)
                                         /\ \A i \in Earlier(S, r, d) : i <= d.previous
    <2>1. ASSUME NEW r \in Policies, NEW d \in DecisionsOf(decisions, r)
          PROVE  InOrder(decisions', r, d)
      <3>1. InOrder(decisions, r, d)
        BY DEF LedgerInv, ChainIsInSlotOrder
      <3>2. \A c \in DecisionsOf(decisions', r) :
              c.slot < d.slot => c \in DecisionsOf(decisions, r)
        BY <1>1, <1>2, <1>3, <1>5, <1>6 DEF DecisionsOf
      <3>3. DecisionsOf(decisions, r) \subseteq DecisionsOf(decisions', r)
        BY <1>1 DEF DecisionsOf
      <3>4. Earlier(decisions', r, d) = Earlier(decisions, r, d)
        BY <3>2, <3>3
      <3>. QED BY <3>1, <3>4
    <2>2. InOrder(decisions', p, n)
      <3>1. Earlier(decisions', p, n) = {e.slot : e \in C}
        <4>1. {c \in DecisionsOf(decisions', p) : c.slot < n.slot} = C
          BY <1>1, <1>2, <1>3, <1>5, <1>6 DEF DecisionsOf
        <4>. QED BY <4>1
      <3>2. CASE C = {}
        <4>1. ChainTail(decisions, p) = {}
          BY <3>2 DEF ChainTail
        <4>. QED BY <3>1, <3>2, <4>1, <1>5
      <3>3. CASE C # {}
        <4>1. PICK m \in C : ChainTail(decisions, p) = {m} /\ \A d \in C : d.slot <= m.slot
          BY <1>4, <3>3, TailIsLast
        <4>2. n.previous = m.slot
          BY <1>5, <4>1
        <4>. QED BY <3>1, <3>3, <4>1, <4>2
      <3>. QED BY <3>2, <3>3
    <2>3. \A r \in Policies : \A d \in DecisionsOf(decisions', r) :
            d \in DecisionsOf(decisions, r) \/ (r = p /\ d = n)
      BY <1>1, <1>5 DEF DecisionsOf
    <2>4. \A r \in Policies : \A d \in DecisionsOf(decisions', r) : InOrder(decisions', r, d)
      <3>. HIDE DEF InOrder
      <3>. QED BY <2>1, <2>2, <2>3
    <2>. QED BY <2>4 DEF ChainIsInSlotOrder
  <1>12. ReasonsStayTrue'
    <2>. DEFINE Used(S, d) == {e.slot : e \in DecisionsOf(S, d.policy)}
                True(S, d) == (d.reason = "MISSED_SLOT_COALESCED")
                              = (\E i \in 0 .. d.slot - 1 : i \notin Used(S, d))
    <2>1. ASSUME NEW d \in decisions PROVE True(decisions', d)
      <3>1. True(decisions, d)
        BY DEF LedgerInv, ReasonsStayTrue
      <3>2. \A i \in 0 .. d.slot - 1 : i \in Used(decisions', d) <=> i \in Used(decisions, d)
        BY <1>1, <1>2, <1>3, <1>5, <1>6 DEF DecisionsOf
      <3>. HIDE DEF Used
      <3>. QED BY <3>1, <3>2
    <2>2. True(decisions', n)
      <3>1. \A i \in 0 .. n.slot - 1 :
              i \in Used(decisions', n) <=> i \in {d.slot : d \in C}
        BY <1>1, <1>3, <1>5 DEF DecisionsOf
      <3>2. (n.reason = "MISSED_SLOT_COALESCED")
              = (\E i \in 0 .. n.slot - 1 : i \notin {d.slot : d \in C})
        <4>. DEFINE U == {d.slot : d \in C}
        <4>1. n.slot \in Nat
          BY <1>3, <1>5
        <4>2. ASSUME n.slot = 0
              PROVE  (n.reason = "MISSED_SLOT_COALESCED") = (\E i \in 0 .. n.slot - 1 : i \notin U)
          <5>1. n.reason = "INITIAL_ELIGIBILITY"
            BY <1>5, <4>2 DEF Reason
          <5>2. ~ \E i \in 0 .. n.slot - 1 : i \notin U
            BY <4>2
          <5>3. ~ (n.reason = "MISSED_SLOT_COALESCED")
            BY <5>1
          <5>. QED BY <5>2, <5>3, Zenon
        <4>3. ASSUME n.slot > 0 /\ 0 .. n.slot - 1 \subseteq U
              PROVE  (n.reason = "MISSED_SLOT_COALESCED") = (\E i \in 0 .. n.slot - 1 : i \notin U)
          <5>1. n.reason = "INTERVAL_ELIGIBILITY"
            BY <1>5, <4>1, <4>3 DEF Reason
          <5>2. ~ \E i \in 0 .. n.slot - 1 : i \notin U
            BY <4>3
          <5>3. ~ (n.reason = "MISSED_SLOT_COALESCED")
            BY <5>1
          <5>. QED BY <5>2, <5>3, Zenon
        <4>4. ASSUME n.slot # 0 /\ ~ (0 .. n.slot - 1 \subseteq U)
              PROVE  (n.reason = "MISSED_SLOT_COALESCED") = (\E i \in 0 .. n.slot - 1 : i \notin U)
          <5>1. n.reason = "MISSED_SLOT_COALESCED"
            BY <1>5, <4>1, <4>4 DEF Reason
          <5>2. \E i \in 0 .. n.slot - 1 : i \notin U
            BY <4>4
          <5>. QED BY <5>1, <5>2, Zenon
        <4>5. (n.reason = "MISSED_SLOT_COALESCED") = (\E i \in 0 .. n.slot - 1 : i \notin U)
          <5>1. \/ n.slot = 0
                \/ n.slot > 0 /\ 0 .. n.slot - 1 \subseteq U
                \/ n.slot # 0 /\ ~ (0 .. n.slot - 1 \subseteq U)
            BY <4>1
          <5>. QED BY <5>1, <4>2, <4>3, <4>4, Zenon
        <4>. QED BY <4>5
      <3>. HIDE DEF Used
      <3>. QED BY <3>1, <3>2
    <2>. HIDE DEF True
    <2>3. \A d \in decisions' : True(decisions', d)
      BY <1>1, <2>1, <2>2
    <2>. QED BY <2>3 DEF True, ReasonsStayTrue
  <1>13. ScheduledRunsDoNotOverlap'
    <2>1. \A i : TerminalsOf(db, i) \subseteq TerminalsOf(db', i)
      BY <1>1 DEF TerminalsOf, Of
    <2>2. ASSUME NEW d \in decisions', NEW e \in decisions',
                 d.operation = e.operation, d.slot < e.slot
          PROVE  \E t \in TerminalsOf(db', d.run) : t.at <= e.at
      <3>1. CASE d \in decisions /\ e \in decisions
        BY <3>1, <2>1, <2>2 DEF LedgerInv, ScheduledRunsDoNotOverlap
      <3>2. CASE d \in decisions /\ e = n
        BY <3>2, <1>2, <1>5, <1>6, <2>1, <2>2
      <3>3. CASE d = n
        BY <3>3, <1>1, <1>2, <1>3, <1>5, <1>6, <2>2
      <3>. QED BY <1>1, <3>1, <3>2, <3>3
    <2>. QED BY <2>2 DEF ScheduledRunsDoNotOverlap
  <1>. QED BY <1>7, <1>8, <1>9, <1>10, <1>11, <1>12, <1>13 DEF LedgerInv

LEMMA PolicyKeepsLedger ==
  ASSUME LedgerInv, NEW t \in Streamable, StorePolicy(t)
  PROVE  LedgerInv'
  <1>1. /\ NewPolicy(t) \/ SamePolicy(t)
        /\ streams' = streams \cup {t} /\ versions' = versions \cup FirstVersions(t)
        /\ db' = db /\ decisions' = decisions
    BY DEF StorePolicy
  <1>2. RowsTimed'
    <2>1. t \in Stream
      BY SchedulerAssumption
    <2>2. FirstVersions(t) \subseteq Version
      <3>1. \A x \in OperationOf(t) : x.at \in Nat
        BY DEF OperationOf, LedgerInv, RowsTimed
      <3>2. t.policy \in Policies
        BY <2>1 DEF Stream
      <3>3. ASSUME NEW x \in OperationOf(t)
            PROVE  [policy |-> t.policy, version |-> 1, enabled |-> TRUE,
                    effective |-> x.at, first |-> x.at] \in Version
        <4>1. x.at \in Times /\ 1 \in Nat \ {0} /\ TRUE \in BOOLEAN
          BY <3>1 DEF Times
        <4>. QED BY <3>2, <4>1, Zenon DEF Version
      <3>. QED BY <3>3 DEF FirstVersions
    <2>. QED BY <1>1, <2>1, <2>2 DEF LedgerInv, RowsTimed
  <1>3. StreamsPair'
    BY <1>1 DEF LedgerInv, StreamsPair, NewPolicy, SamePolicy, StreamsOf
  <1>. QED BY <1>1, <1>2, <1>3, NothingDecided

LEMMA BundleKeepsLedger ==
  ASSUME LedgerInv, NEW B \in Bundles, StoreBundle(B)
  PROVE  LedgerInv'
  <1>1. /\ db' = db \cup B /\ streams' = streams /\ versions' = versions
        /\ decisions' = decisions
    BY DEF StoreBundle, Persist
  <1>2. RowsTimed'
    <2>1. \A p \in B : p.at \in Nat
      BY RowFields
    <2>. QED BY <1>1, <2>1 DEF LedgerInv, RowsTimed, Of
  <1>3. StreamsPair'
    BY <1>1 DEF LedgerInv, StreamsPair
  <1>. QED BY <1>1, <1>2, <1>3, NothingDecided

LEMMA AmendmentKeepsLedger ==
  ASSUME LedgerInv, NEW v \in Amendments, StoreAmendment(v)
  PROVE  LedgerInv'
  <1>1. /\ db' = db /\ streams' = streams /\ versions' = versions \cup {v}
        /\ decisions' = decisions
    BY DEF StoreAmendment
  <1>2. RowsTimed'
    BY <1>1, SchedulerAssumption DEF LedgerInv, RowsTimed
  <1>3. StreamsPair'
    BY <1>1 DEF LedgerInv, StreamsPair
  <1>. QED BY <1>1, <1>2, <1>3, NothingDecided

LEMMA LedgerStays ==
  ASSUME LedgerInv, [StoreNext]_tables
  PROVE  LedgerInv'
  <1>1. CASE UNCHANGED tables
    <2>1. /\ db' = db /\ streams' = streams /\ versions' = versions
          /\ decisions' = decisions
      BY <1>1 DEF tables
    <2>2. RowsTimed' /\ StreamsPair'
      BY <2>1 DEF LedgerInv, RowsTimed, StreamsPair
    <2>. QED BY <2>1, <2>2, NothingDecided
  <1>. QED BY <1>1, DecisionKeepsLedger, PolicyKeepsLedger, BundleKeepsLedger,
              AmendmentKeepsLedger DEF StoreNext

LEMMA LedgerInvInit == StoreInit => LedgerInv
  BY DEF StoreInit, LedgerInit, LedgerInv, RowsTimed, StreamsPair, Of, SlotsUsedOnce,
         SlotsBounded, ChainIsInSlotOrder, ReasonsStayTrue, ScheduledRunsDoNotOverlap,
         DecisionsOf

LEMMA StoreKeepsLedger == StoreSpec => []LedgerInv
  <1>1. LedgerInv /\ [StoreNext]_tables => LedgerInv'
    BY LedgerStays
  <1>. QED BY <1>1, LedgerInvInit, PTL DEF StoreSpec

-----------------------------------------------------------------------------
(* Operations that a bundle does not affect *)

\* What the scheduler reads of operation o is the same in D and in E.
Unmoved(D, E, o) ==
  /\ RunsOf(E, o) = RunsOf(D, o) /\ ClosesOf(E, o) = ClosesOf(D, o)
  /\ {p \in Of(E, "operation") : p.id = o} = {p \in Of(D, "operation") : p.id = o}
  /\ \A n, X : AtCutoff(E, o, n, X) = AtCutoff(D, o, n, X)

\* Row c belongs to no run, attempt or closure that E has of operation o.
Foreign(c, E, o) ==
  /\ c.kind = "operation" => c.id # o
  /\ c.kind \in {"close", "run"} => c.operation # o
  /\ c.kind \in {"start", "attempt", "result", "terminal"} =>
       \A r \in RunsOf(E, o) : c.run # r.id
  /\ c.kind = "resolution" =>
       \A r \in RunsOf(E, o) : \A a \in Of(E, "attempt") :
         a.run = r.id => a.id # c.attempt

LEMMA ForeignRows ==
  ASSUME NEW D, NEW C, NEW o, o \notin Affected(C, D), NEW c \in C
  PROVE  Foreign(c, D \cup C, o)
  <1>. DEFINE E == D \cup C
  <1>1. \A r \in RunsOf(E, o) : r.id \notin Owners(C, D)
    BY DEF Affected, RunsOf, Of
  <1>2. \A i \in TouchedRuns(c, E) : i \in Owners(C, D)
    BY DEF Owners
  <1>3. c.kind = "operation" => c.id # o
    BY DEF Affected, Of
  <1>4. c.kind = "close" => c.operation # o
    BY DEF Affected, Of
  <1>5. c.kind = "run" => c.operation # o
    <2>. SUFFICES ASSUME c.kind = "run", c.operation = o PROVE FALSE
      OBVIOUS
    <2>1. c \in RunsOf(E, o) /\ c.id \in TouchedRuns(c, E)
      BY DEF RunsOf, Of, TouchedRuns
    <2>. QED BY <1>1, <1>2, <2>1
  <1>6. ASSUME c.kind \in {"start", "attempt", "result", "terminal"},
               NEW r \in RunsOf(E, o)
        PROVE  c.run # r.id
    <2>1. c.run \in TouchedRuns(c, E)
      BY <1>6 DEF TouchedRuns
    <2>. QED BY <1>1, <1>2, <2>1
  <1>7. ASSUME c.kind = "resolution", NEW r \in RunsOf(E, o),
               NEW a \in Of(E, "attempt"), a.run = r.id
        PROVE  a.id # c.attempt
    <2>1. SUFFICES ASSUME a.id = c.attempt PROVE FALSE
      OBVIOUS
    <2>2. a.run \in TouchedRuns(c, E)
      BY <1>7, <2>1 DEF TouchedRuns
    <2>. QED BY <1>1, <1>2, <1>7, <2>2
  <1>. QED BY <1>3, <1>4, <1>5, <1>6, <1>7 DEF Foreign

LEMMA OthersMoveNothing ==
  ASSUME NEW D, NEW C, NEW o, o \notin Affected(C, D)
  PROVE  Unmoved(D, D \cup C, o)
  <1>. DEFINE E == D \cup C
  <1>1. \A c \in C : Foreign(c, E, o)
    BY ForeignRows
  <1>2. /\ RunsOf(E, o) = RunsOf(D, o) /\ ClosesOf(E, o) = ClosesOf(D, o)
        /\ {p \in Of(E, "operation") : p.id = o} = {p \in Of(D, "operation") : p.id = o}
    BY <1>1 DEF Foreign, RunsOf, ClosesOf, Of
  <1>3. ASSUME NEW n, NEW X PROVE AtCutoff(E, o, n, X) = AtCutoff(D, o, n, X)
    <2>. DEFINE ids == {r.id : r \in {x \in RunsOf(D, o) : x.at <= n /\ x.id \notin X}}
                Attempts(F) == {a \in Of(F, "attempt") : a.run \in ids /\ a.at <= n}
                Rest(F) == {x \in F : x.kind \in {"start", "result", "terminal"}
                                        /\ x.run \in ids /\ x.at <= n}
                Resolved(F) == {s \in Of(F, "resolution") : s.at <= n
                                  /\ s.attempt \in {a.id : a \in Attempts(F)}}
    <2>1. \A c \in C : c.kind \in {"start", "attempt", "result", "terminal"}
                         => c.run \notin ids
      BY <1>1, <1>2 DEF Foreign
    <2>2. Attempts(E) = Attempts(D) /\ Rest(E) = Rest(D)
      <3>. HIDE DEF ids
      <3>. QED BY <2>1 DEF Of
    <2>3. \A c \in C : c.kind = "resolution"
                         => c.attempt \notin {a.id : a \in Attempts(E)}
      <3>. SUFFICES ASSUME NEW c \in C, c.kind = "resolution", NEW a \in Attempts(E),
                           c.attempt = a.id
                    PROVE  FALSE
        OBVIOUS
      <3>1. PICK r \in RunsOf(D, o) : a.run = r.id
        OBVIOUS
      <3>2. r \in RunsOf(E, o) /\ a \in Of(E, "attempt")
        BY <1>2, <3>1
      <3>. QED BY <3>1, <3>2, <1>1 DEF Foreign
    <2>4. Resolved(E) = Resolved(D)
      <3>. HIDE DEF Attempts
      <3>. QED BY <2>2, <2>3 DEF Of
    <2>5. \A F : RunsOf(F, o) = RunsOf(D, o) =>
            AtCutoff(F, o, n, X) =
              {p \in Of(F, "operation") : p.id = o} \cup {c \in ClosesOf(F, o) : c.at <= n}
              \cup {r \in RunsOf(D, o) : r.at <= n /\ r.id \notin X}
              \cup Attempts(F) \cup Rest(F) \cup Resolved(F)
      BY DEF AtCutoff
    <2>. HIDE DEF E, Attempts, Rest, Resolved
    <2>. QED BY <1>2, <2>2, <2>4, <2>5
  <1>. QED BY <1>2, <1>3 DEF Unmoved

\* A run without predecessor has no other ancestor.
LEMMA RootAncestry ==
  ASSUME NEW D, NEW r \in Of(D, "run"), r.predecessor = None,
         \A s \in Of(D, "run") : s.id = r.id => s = r
  PROVE  Ancestry(D, r.id) = {r.id}
  <1>. DEFINE named == {r.id} \cup {s.predecessor : s \in Of(D, "run")}
              S == {r.id}
  <1>1. S \in SUBSET named /\ r.id \in S
    OBVIOUS
  <1>2. \A s \in Of(D, "run") :
          s.id \in S /\ s.predecessor # None => s.predecessor \in S
    OBVIOUS
  <1>3. \A j \in Ancestry(D, r.id) : j \in S
    <2>. HIDE DEF S
    <2>. QED BY <1>1, <1>2 DEF Ancestry
  <1>. QED BY <1>3, OwnAncestor

LEMMA RunAffects ==
  ASSUME NEW D, KeysUnique(D), NEW r, r.kind = "run", Insertable(r, D)
  PROVE  /\ \A s \in D \cup {r} : s.kind = "run" /\ s.id = r.id => s = r
         /\ Owners({r}, D) = {r.id} /\ Affected({r}, D) = {r.operation}
  <1>1. \A s \in D : s.kind = "run" /\ s.id = r.id => Keys(r) \cap Keys(s) # {}
    BY DEF Keys
  <1>2. \A s \in D : s.kind = "run" /\ s.id = r.id => s = r
    BY <1>1 DEF Insertable, Collides, KeysUnique
  <1>3. Owners({r}, D) = {r.id}
    BY DEF Owners, TouchedRuns
  <1>4. Of({r}, "operation") = {} /\ Of({r}, "close") = {}
    BY DEF Of
  <1>5. {s \in Of(D \cup {r}, "run") : s.id \in Owners({r}, D)} = {r}
    BY <1>2, <1>3 DEF Of
  <1>. QED BY <1>2, <1>3, <1>4, <1>5 DEF Affected

\* A root run passes the gates beside rows that do not affect its operation.
LEMMA RootRunCommutes ==
  ASSUME NEW D, KeysUnique(D), Referenced(D),
         NEW C, KeysUnique(D \cup C), Referenced(D \cup C),
         NEW r, r.kind = "run", r.predecessor = None, Accepts({r}, D),
         r.operation \notin Affected(C, D),
         \A c \in C : c.kind = "run" /\ c.id = r.id => c.operation = r.operation
  PROVE  Accepts({r}, D \cup C)
  <1>. DEFINE o == r.operation
              F == D \cup C
              A == D \cup {r}
              G == F \cup {r}
  <1>1. \A c \in C : Foreign(c, F, o)
    BY ForeignRows
  <1>2. \A c \in C : c.kind = "run" => c.operation # o /\ c.id # r.id
    BY <1>1 DEF Foreign
  <1>3. Insertable(r, F)
    <2>1. r \in D \/ ~ Collides(r, D)
      BY DEF Accepts, Insertable
    <2>2. \A c \in C : Keys(r) \cap Keys(c) = {}
      BY <1>2, KeysTell
    <2>. QED BY <2>1, <2>2 DEF Insertable, Collides
  <1>4. \A s \in G : s.kind = "run" /\ s.id = r.id => s = r
    BY <1>3, RunAffects
  <1>5. A \subseteq G /\ r \in Of(A, "run") /\ r \in Of(G, "run")
    BY DEF Of
  <1>6. ASSUME NEW c \in C, NEW i \in {s.id : s \in RunsOf(A, o)}
        PROVE  /\ c.kind \in {"start", "attempt", "result", "terminal"} => c.run # i
               /\ c.kind = "resolution" =>
                    \A a \in AttemptsOf(G, i) : a.id # c.attempt
    <2>1. PICK s \in RunsOf(A, o) : s.id = i
      OBVIOUS
    <2>2. CASE s \in F
      <3>1. s \in RunsOf(F, o)
        BY <2>2 DEF RunsOf, Of
      <3>2. \A a \in AttemptsOf(G, i) : a \in Of(F, "attempt") /\ a.run = i
        BY DEF AttemptsOf, Of
      <3>. HIDE DEF F, G
      <3>. QED BY <2>1, <3>1, <3>2, <1>1 DEF Foreign
    <2>3. CASE s \notin F
      <3>1. s = r /\ r.id = i /\ \A x \in F : ~ (x.kind = "run" /\ x.id = i)
        BY <1>4, <2>1, <2>3 DEF RunsOf, Of
      <3>2. \A x \in F : x.kind \in {"start", "attempt", "result", "terminal"} => x.run # i
        BY <3>1 DEF Referenced, OwnerKnown, Of
      <3>3. AttemptsOf(G, i) = {}
        BY <3>2 DEF AttemptsOf, Of
      <3>. QED BY <3>2, <3>3
    <2>. QED BY <2>2, <2>3
  <1>7. SameOperation(A, G, o)
    <2>1. RunsOf(G, o) = RunsOf(A, o) /\ ClosesOf(G, o) = ClosesOf(A, o)
      BY <1>1 DEF Foreign, RunsOf, ClosesOf, Of
    <2>2. \A p \in Of(G, "operation") : p.id = o => p \in A
      BY <1>1 DEF Foreign, Of
    <2>3. ASSUME NEW s \in RunsOf(A, o) PROVE SameRun(A, G, s.id)
      <3>. DEFINE i == s.id
      <3>1. \A c \in C :
               /\ c.kind \in {"start", "attempt", "result", "terminal"} => c.run # i
               /\ c.kind = "resolution" => \A a \in AttemptsOf(G, i) : a.id # c.attempt
        BY <1>6
      <3>2. /\ StartsOf(G, i) = StartsOf(A, i) /\ AttemptsOf(G, i) = AttemptsOf(A, i)
            /\ ResultsOf(G, i) = ResultsOf(A, i) /\ TerminalsOf(G, i) = TerminalsOf(A, i)
        BY <3>1 DEF StartsOf, AttemptsOf, ResultsOf, TerminalsOf, Of
      <3>3. ASSUME NEW a \in AttemptsOf(A, i)
            PROVE  ResolutionsOf(G, a.id) = ResolutionsOf(A, a.id)
        <4>1. \A c \in C : c.kind = "resolution" => c.attempt # a.id
          BY <3>1, <3>2
        <4>. QED BY <4>1 DEF ResolutionsOf, Of
      <3>. QED BY <3>2, <3>3 DEF SameRun
    <2>. QED BY <2>1, <2>2, <2>3 DEF SameOperation
  <1>8. Insertable(r, D)
    BY DEF Accepts
  <1>9. /\ Owners({r}, F) = {r.id} /\ Owners({r}, D) = {r.id}
        /\ Affected({r}, F) = {o} /\ Affected({r}, D) = {o}
    BY <1>3, <1>8, RunAffects
  <1>10. Ancestry(A, r.id) = {r.id} /\ Ancestry(G, r.id) = {r.id}
    <2>1. \A s \in Of(A, "run") : s.id = r.id => s = r
      BY <1>4, <1>5 DEF Of
    <2>2. \A s \in Of(G, "run") : s.id = r.id => s = r
      BY <1>4 DEF Of
    <2>. HIDE DEF A, G
    <2>. QED BY <1>5, <2>1, <2>2, RootAncestry
  <1>. HIDE DEF A, F, G
  <1>11. /\ OperationLifecycle(A, o) /\ PendingContext(A, r)
         /\ r \notin D => ClosesOf(A, o) = {} /\ CreationContext(A, r)
         /\ o \in {p.id : p \in Of(A, "operation")}
    <2>1. Writable({r}, D) /\ Affected({r}, D) \subseteq {p.id : p \in Of(A, "operation")}
      BY DEF Accepts, A
    <2>2. /\ \A x \in Affected({r}, D) : OperationLifecycle(A, x)
          /\ \A s \in Of(A, "run") : /\ s \in {r} \ D => CreationContext(A, s)
                                     /\ s.id \in Owners({r}, D) => PendingContext(A, s)
          /\ \A s \in Of({r}, "run") \ D : ClosesOf(A, s.operation) = {}
      BY <2>1 DEF Writable, RunsOfOpenOperations, A
    <2>3. r \in Of({r}, "run")
      BY DEF Of
    <2>. QED BY <1>5, <1>9, <2>1, <2>2, <2>3
  <1>12. /\ \A r1, s \in {r} : r1 = s \/ Keys(r1) \cap Keys(s) = {}
         /\ \A s \in {r} : PredecessorExists(s, G) /\ OwnerKnown(s, G)
         /\ ChildrenOfLiveRuns({r}, F)
    BY DEF PredecessorExists, OwnerKnown, ChildrenOfLiveRuns
  <1>13. RunsOfOpenOperations({r}, F)
    <2>1. r \notin F => ClosesOf(G, o) = {}
      BY <1>7, <1>11 DEF SameOperation, F
    <2>. QED BY <2>1 DEF RunsOfOpenOperations, Of, G
  <1>14. OperationLifecycle(G, o)
    BY <1>5, <1>7, <1>11, OperationStays
  <1>15. r \in RunsOf(A, o) /\ SameRun(A, G, r.id)
    BY <1>5, <1>7 DEF SameOperation, RunsOf
  <1>16. r \notin D => CreationContext(G, r)
    <2>1. SUFFICES ASSUME r \notin D PROVE CreationContext(G, r)
      OBVIOUS
    <2>. DEFINE I == Ancestry(A, r.id) \ {r.id}
    <2>2. I = Ancestry(G, r.id) \ {r.id} /\ I \subseteq I
      BY <1>10
    <2>3. RunCreation(A, r) /\ HistoryVerifies(A, o, I) /\ DeadlinesVerified(A, o, I)
      BY <1>11, <2>1 DEF CreationContext, Verified
    <2>. HIDE DEF I
    <2>4. RunCreation(G, r) /\ HistoryVerifies(G, o, I) /\ DeadlinesVerified(G, o, I)
      BY <1>5, <1>7, <1>15, <2>2, <2>3, OperationStays
    <2>. QED BY <2>2, <2>4 DEF CreationContext, Verified
  <1>17. PendingContext(G, r)
    <2>. DEFINE I == Ancestry(A, r.id)
    <2>1. I = Ancestry(G, r.id) /\ I \subseteq I
      BY <1>10
    <2>2. /\ HistoryVerifies(A, o, I) /\ AttemptOrdering(A, r)
          /\ TerminalsOf(A, r.id) # {} => DeadlinesVerified(A, o, I)
      BY <1>11 DEF PendingContext
    <2>. HIDE DEF I
    <2>3. /\ HistoryVerifies(A, o, I) => HistoryVerifies(G, o, I)
          /\ DeadlinesVerified(A, o, I) => DeadlinesVerified(G, o, I)
      BY <1>5, <1>7, <2>1, OperationStays
    <2>4. AttemptOrdering(G, r)
      BY <1>5, <1>15, <2>2, RunStays
    <2>5. TerminalsOf(G, r.id) = TerminalsOf(A, r.id)
      BY <1>15 DEF SameRun
    <2>. QED BY <2>1, <2>2, <2>3, <2>4, <2>5 DEF PendingContext
  <1>18. ASSUME NEW s \in Of(G, "run")
         PROVE  /\ s.id \in {t.run : t \in Of({r}, "terminal")} => TerminalContext(G, s)
                /\ s \in {r} \ F => CreationContext(G, s)
                /\ s.id \in Owners({r}, F) => PendingContext(G, s)
    <2>1. Of({r}, "terminal") = {}
      BY DEF Of
    <2>2. s \in {r} \ F => s = r /\ r \notin D
      BY DEF F
    <2>3. s.id \in Owners({r}, F) => s = r
      BY <1>4, <1>9 DEF Of
    <2>. QED BY <1>16, <1>17, <2>1, <2>2, <2>3
  <1>19. Writable({r}, F)
    <2>1. \A x \in Affected({r}, F) : OperationLifecycle(G, x)
      BY <1>9, <1>14
    <2>. QED BY <1>3, <1>12, <1>13, <1>18, <2>1 DEF Writable, G
  <1>20. Affected({r}, F) \subseteq {p.id : p \in Of(G, "operation")}
    <2>1. \A p \in Of(A, "operation") : p \in Of(G, "operation")
      BY <1>5 DEF Of
    <2>. QED BY <1>9, <1>11, <2>1
  <1>21. Accepts({r}, F)
    BY <1>3, <1>12, <1>19, <1>20 DEF Accepts, G
  <1>. QED BY <1>21 DEF F

-----------------------------------------------------------------------------
(* What a transaction found stays true while it holds its rows *)

\* Request q finds what it found: its rows are as they were, and its run
\* passes the gates it passed.
RequestSpared(q) ==
  /\ Unmoved(db, db', q.operation)
  /\ VersionsOf(versions', q.policy) = VersionsOf(versions, q.policy)
  /\ DecisionsOf(decisions', q.policy) = DecisionsOf(decisions, q.policy)
  /\ Accepts({RunRow(q)}, db) => Accepts({RunRow(q)}, db')

LEMMA RequestStays ==
  ASSUME NEW q \in Requests, RequestSpared(q)
  PROVE  /\ Eligible(q) => Eligible(q)'
         /\ Admissible(q) => Admissible(q)'
         /\ NewDecision(q)' = NewDecision(q) /\ RunRow(q)' = RunRow(q)
  <1>. DEFINE p == q.policy
              o == q.operation
  <1>1. /\ VersionsOf(versions', p) = VersionsOf(versions, p)
        /\ DecisionsOf(decisions', p) = DecisionsOf(decisions, p)
        /\ RunsOf(db', o) = RunsOf(db, o) /\ ClosesOf(db', o) = ClosesOf(db, o)
        /\ {x \in Of(db', "operation") : x.id = o} = {x \in Of(db, "operation") : x.id = o}
        /\ \A n, X : AtCutoff(db', o, n, X) = AtCutoff(db, o, n, X)
    BY DEF RequestSpared, Unmoved
  <1>2. Anchor(versions', p) = Anchor(versions, p)
        /\ \A n : Owner(versions', p, n) = Owner(versions, p, n)
    BY <1>1 DEF Anchor, Owner
  <1>3. /\ DueVersion(q)' = DueVersion(q) /\ SlotOf(q)' = SlotOf(q)
        /\ OwnerOf(q)' = OwnerOf(q) /\ RunOf(q)' = RunOf(q)
    BY <1>2 DEF DueVersion, SlotOf, OwnerOf, RunOf
  <1>4. RunRow(q)' = RunRow(q)
    BY <1>3 DEF RunRow
  <1>5. /\ ChainTail(decisions', p) = ChainTail(decisions, p)
        /\ \A n : Reason(decisions', p, n) = Reason(decisions, p, n)
        /\ ChainAuthentic(decisions', p) = ChainAuthentic(decisions, p)
        /\ Existing(q)' = Existing(q)
    BY <1>1, <1>3 DEF ChainTail, Reason, ChainAuthentic, Existing
  <1>6. /\ \A n, X : Prefix(db', o, n, X) = Prefix(db, o, n, X)
        /\ \A n, X : VerifiedAt(db, o, n, X) => VerifiedAt(db', o, n, X)
        /\ \A n, i : OutputAuthentic(db, o, n, i) => OutputAuthentic(db', o, n, i)
    BY <1>1 DEF Prefix, VerifiedAt, OutputAuthentic
  <1>7. NewDecision(q)' = NewDecision(q)
    BY <1>3, <1>5, <1>6 DEF NewDecision
  <1>8. ASSUME Eligible(q) PROVE Eligible(q)'
    <2>1. PolicyHistory(versions', p)
      BY <1>1, <1>2, <1>8 DEF Eligible, PolicyHistory
    <2>2. ChainAuthentic(decisions', p) /\ ClosesOf(db', o) = {}
      BY <1>1, <1>5, <1>8 DEF Eligible
    <2>3. Due(DueVersion(q)', q.at) /\ OwnerOf(q)'.enabled
      BY <1>3, <1>8 DEF Eligible
    <2>4. \A r \in RunsOf(db', o) : r.id = RunOf(q)' => OutputAuthentic(db', o, q.at, r.id)
      BY <1>1, <1>3, <1>6, <1>8 DEF Eligible
    <2>5. VerifiedAt(db', o, q.at, {RunOf(q)'})
      BY <1>3, <1>6, <1>8 DEF Eligible
    <2>. QED BY <2>1, <2>2, <2>3, <2>4, <2>5 DEF Eligible
  <1>9. ASSUME Admissible(q) PROVE Admissible(q)'
    <2>1. Accepts({RunRow(q)'}, db')
      BY <1>4, <1>9 DEF Admissible, RequestSpared
    <2>2. \E x \in Of(db', "operation") : x.id = o /\ x.at <= q.at
      BY <1>1, <1>9 DEF Admissible
    <2>3. Existing(q)' = {} /\ \A d \in ChainTail(decisions', p) : d.slot < SlotOf(q)'
      BY <1>3, <1>5, <1>9 DEF Admissible
    <2>4. Nonterminal(Prefix(db', o, q.at, {})) = {}
      BY <1>6, <1>9 DEF Admissible
    <2>. QED BY <2>1, <2>2, <2>3, <2>4 DEF Admissible
  <1>. QED BY <1>4, <1>7, <1>8, <1>9

\* Every slot of a request has its run id.
LEMMA SlotIsNamed ==
  ASSUME versions \subseteq Version, NEW q \in Requests,
         PolicyHistory(versions, q.policy), Due(DueVersion(q), q.at)
  PROVE  /\ <<q.operation, q.policy, SlotOf(q)>> \in DOMAIN SlotRunId
         /\ RunOf(q) = SlotRunId[<<q.operation, q.policy, SlotOf(q)>>]
  <1>1. SlotOf(q) \in Slots
    BY RequestSlot
  <1>. QED BY <1>1, SchedulerAssumption DEF RunOf

-----------------------------------------------------------------------------
(* Where the callers stand *)

HistoryInv == KeysUnique(db) /\ Referenced(db)

Shaped ==
  /\ call = [x \in Callers |-> call[x]] /\ at = [x \in Callers |-> at[x]]
  /\ held = [x \in Callers |-> held[x]] /\ draft = [x \in Callers |-> draft[x]]

LocksExclusive == \A x, y \in Callers : x # y => held[x] \cap held[y] = {}

\* The decision a caller has inserted is the one it would make now.
DecisionDrafted(q, f) ==
  /\ Eligible(q) /\ Admissible(q)
  /\ f.decisions = {NewDecision(q)} /\ f.runs = {RunRow(q)}
  /\ f.streams = {} /\ f.versions = {}

\* So with a policy: a new stream, or a first version for one that is there.
PolicyDrafted(t, f, locks) ==
  /\ f.decisions = {} /\ f.runs = {}
  /\ \/ /\ NewPolicy(t)
        /\ f.streams = {t} /\ f.versions = FirstVersions(t)
     \/ /\ SamePolicy(t) /\ StreamRow(t.policy) \in locks
        /\ f.streams = {} /\ f.versions \subseteq FirstVersions(t)
        /\ FirstVersions(t) \subseteq versions \cup f.versions

SchedulerStands(s) ==
  /\ at[s] \in {"idle", "stream", "operation", "decide", "commit"}
  /\ at[s] # "idle" => call[s] \in Requests
  /\ at[s] \in {"operation", "decide", "commit"} =>
       StreamKnown(call[s]) /\ StreamRow(call[s].policy) \in held[s]
  /\ at[s] \in {"decide", "commit"} => OperationRow(call[s].operation) \in held[s]
  /\ at[s] = "commit" => draft[s] = Nothing \/ DecisionDrafted(call[s], draft[s])

AdministratorStands(a) ==
  /\ at[a] \in {"idle", "operation", "stream", "commit"}
  /\ at[a] # "idle" => call[a] \in Streamable
  /\ at[a] \in {"stream", "commit"} =>
       OperationOf(call[a]) # {} /\ OperationRow(call[a].operation) \in held[a]
  /\ at[a] = "commit" => PolicyDrafted(call[a], draft[a], held[a])

\* Outside of a transaction's last step nothing is inserted, and no two
\* inserted streams are of one policy.
DraftsApart ==
  /\ \A x \in Callers : at[x] # "commit" => draft[x] = Nothing
  /\ \A x, y \in Callers : x # y =>
       \A u \in draft[x].streams, w \in draft[y].streams : u.policy # w.policy

CallsInv ==
  /\ Shaped /\ LocksExclusive /\ DraftsApart
  /\ \A s \in Schedulers : SchedulerStands(s)
  /\ \A a \in Administrators : AdministratorStands(a)

\* The tables only grow, and leave caller y what it has locked.
Spared(y) ==
  /\ db \subseteq db' /\ streams \subseteq streams' /\ versions \subseteq versions'
  /\ \A o : OperationRow(o) \in held[y] => Unmoved(db, db', o)
  /\ \A p : StreamRow(p) \in held[y] /\ (\E u \in streams : u.policy = p) =>
       /\ VersionsOf(versions', p) = VersionsOf(versions, p)
       /\ DecisionsOf(decisions', p) = DecisionsOf(decisions, p)
  /\ \A q \in Requests :
       OperationRow(q.operation) \in held[y] /\ Eligible(q) /\ Accepts({RunRow(q)}, db)
         => Accepts({RunRow(q)}, db')
  /\ \A u \in streams' \ streams :
       /\ OperationRow(u.operation) \notin held[y]
       /\ \A w \in draft[y].streams : u.policy # w.policy

\* What caller y has of its own does not change.
Keeps(y) ==
  /\ call'[y] = call[y] /\ at'[y] = at[y] /\ held'[y] = held[y] /\ draft'[y] = draft[y]

LEMMA SchedulerStillStands ==
  ASSUME NEW s \in Schedulers, SchedulerStands(s), Spared(s), Keeps(s)
  PROVE  SchedulerStands(s)'
  <1>1. PICK q : q = call[s]
    OBVIOUS
  <1>2. call'[s] = q /\ at'[s] = at[s] /\ held'[s] = held[s] /\ draft'[s] = draft[s]
    BY <1>1 DEF Keeps
  <1>3. /\ at[s] \in {"idle", "stream", "operation", "decide", "commit"}
        /\ at[s] # "idle" => q \in Requests
        /\ at[s] \in {"operation", "decide", "commit"} =>
             StreamKnown(q) /\ StreamRow(q.policy) \in held[s]
        /\ at[s] \in {"decide", "commit"} => OperationRow(q.operation) \in held[s]
        /\ at[s] = "commit" => draft[s] = Nothing \/ DecisionDrafted(q, draft[s])
    BY <1>1 DEF SchedulerStands
  <1>4. StreamKnown(q) => [policy |-> q.policy, operation |-> q.operation] \in streams'
    BY DEF StreamKnown, Spared
  <1>5. ASSUME at[s] = "commit", DecisionDrafted(q, draft[s])
        PROVE  /\ Eligible(q)' /\ Admissible(q)'
               /\ draft'[s].decisions = {NewDecision(q)'} /\ draft'[s].runs = {RunRow(q)'}
               /\ draft'[s].streams = {} /\ draft'[s].versions = {}
    <2>1. /\ q \in Requests /\ OperationRow(q.operation) \in held[s]
          /\ StreamRow(q.policy) \in held[s] /\ Eligible(q) /\ Admissible(q)
          /\ \E u \in streams : u.policy = q.policy
          /\ draft[s].decisions = {NewDecision(q)} /\ draft[s].runs = {RunRow(q)}
          /\ draft[s].streams = {} /\ draft[s].versions = {}
      BY <1>3, <1>5 DEF DecisionDrafted, StreamKnown
    <2>2. RequestSpared(q)
      BY <2>1 DEF Spared, RequestSpared, Admissible
    <2>3. /\ Eligible(q) => Eligible(q)'
          /\ Admissible(q) => Admissible(q)'
          /\ NewDecision(q)' = NewDecision(q) /\ RunRow(q)' = RunRow(q)
      BY <2>1, <2>2, RequestStays
    <2>. QED BY <1>2, <2>1, <2>3
  <1>. QED BY <1>1, <1>2, <1>3, <1>4, <1>5 DEF SchedulerStands, DecisionDrafted, StreamKnown

LEMMA AdministratorStillStands ==
  ASSUME NEW a \in Administrators, AdministratorStands(a), Spared(a), Keeps(a)
  PROVE  AdministratorStands(a)'
  <1>1. PICK t : t = call[a]
    OBVIOUS
  <1>2. call'[a] = t /\ at'[a] = at[a] /\ held'[a] = held[a] /\ draft'[a] = draft[a]
    BY <1>1 DEF Keeps
  <1>3. /\ at[a] \in {"idle", "operation", "stream", "commit"}
        /\ at[a] # "idle" => t \in Streamable
        /\ at[a] \in {"stream", "commit"} =>
             OperationOf(t) # {} /\ OperationRow(t.operation) \in held[a]
        /\ at[a] = "commit" => PolicyDrafted(t, draft[a], held[a])
    BY <1>1 DEF AdministratorStands
  <1>4. at[a] \in {"stream", "commit"} =>
          OperationOf(t)' = OperationOf(t) /\ FirstVersions(t)' = FirstVersions(t)
    <2>1. SUFFICES ASSUME at[a] \in {"stream", "commit"}
                   PROVE  OperationOf(t)' = OperationOf(t)
      BY DEF FirstVersions
    <2>2. Unmoved(db, db', t.operation)
      BY <1>3, <2>1 DEF Spared
    <2>. QED BY <2>2 DEF Unmoved, OperationOf
  <1>5. ASSUME at[a] = "commit"
        PROVE  \A f, locks : f = draft[a] /\ locks = held[a] => PolicyDrafted(t, f, locks)'
    <2>. SUFFICES ASSUME NEW f, NEW locks, f = draft[a], locks = held[a]
                  PROVE  PolicyDrafted(t, f, locks)'
      OBVIOUS
    <2>1. /\ PolicyDrafted(t, f, locks) /\ FirstVersions(t)' = FirstVersions(t)
          /\ OperationRow(t.operation) \in held[a]
      BY <1>3, <1>4, <1>5
    <2>2. CASE NewPolicy(t) /\ f.streams = {t} /\ f.versions = FirstVersions(t)
      <3>1. \A u \in streams' \ streams : u.operation # t.operation /\ u.policy # t.policy
        BY <2>1, <2>2 DEF Spared
      <3>2. NewPolicy(t)'
        BY <2>2, <3>1 DEF NewPolicy, StreamsOf
      <3>. QED BY <2>1, <2>2, <3>2 DEF PolicyDrafted
    <2>3. CASE /\ SamePolicy(t) /\ StreamRow(t.policy) \in locks
               /\ f.streams = {} /\ f.versions \subseteq FirstVersions(t)
               /\ FirstVersions(t) \subseteq versions \cup f.versions
      <3>1. VersionsOf(versions', t.policy) = VersionsOf(versions, t.policy)
        BY <2>3 DEF Spared, SamePolicy
      <3>2. SamePolicy(t)'
        BY <2>1, <2>3, <3>1 DEF SamePolicy, Spared
      <3>3. FirstVersions(t)' \subseteq versions' \cup f.versions
        BY <2>1, <2>3 DEF Spared
      <3>. QED BY <2>1, <2>3, <3>2, <3>3 DEF PolicyDrafted
    <2>. QED BY <2>1, <2>2, <2>3 DEF PolicyDrafted
  <1>. QED BY <1>1, <1>2, <1>3, <1>4, <1>5 DEF AdministratorStands, PolicyDrafted

\* A step of the callers in A spares the others: what is left to show is about
\* the callers in A.
LEMMA StepKeepsCalls ==
  ASSUME CallsInv, NEW A \in SUBSET Callers,
         \A y \in Callers \ A : Spared(y) /\ Keeps(y),
         Shaped',
         \A x \in A : \A y \in Callers : x # y =>
           /\ held'[x] \cap held'[y] = {}
           /\ \A u \in draft'[x].streams, w \in draft'[y].streams : u.policy # w.policy,
         \A x \in A : at'[x] # "commit" => draft'[x] = Nothing,
         \A x \in A : /\ x \in Schedulers => SchedulerStands(x)'
                      /\ x \in Administrators => AdministratorStands(x)'
  PROVE  CallsInv'
  <1>1. LocksExclusive'
    <2>1. ASSUME NEW x \in Callers, NEW y \in Callers, x # y
          PROVE  held'[x] \cap held'[y] = {}
      <3>1. CASE x \notin A /\ y \notin A
        BY <2>1, <3>1 DEF Keeps, CallsInv, LocksExclusive
      <3>. QED BY <2>1, <3>1
    <2>. QED BY <2>1 DEF LocksExclusive
  <1>2. DraftsApart'
    <2>1. ASSUME NEW x \in Callers, at'[x] # "commit" PROVE draft'[x] = Nothing
      BY <2>1 DEF Keeps, CallsInv, DraftsApart
    <2>2. ASSUME NEW x \in Callers, NEW y \in Callers, x # y,
                 NEW u \in draft'[x].streams, NEW w \in draft'[y].streams
          PROVE  u.policy # w.policy
      <3>1. CASE x \notin A /\ y \notin A
        BY <2>2, <3>1 DEF Keeps, CallsInv, DraftsApart
      <3>2. CASE x \in A
        BY <2>2, <3>2
      <3>3. CASE y \in A
        BY <2>2, <3>3
      <3>. QED BY <3>1, <3>2, <3>3
    <2>3. Nothing' = Nothing
      BY DEF Nothing
    <2>. QED BY <2>1, <2>2, <2>3 DEF DraftsApart
  <1>3. \A s \in Schedulers : SchedulerStands(s)'
    BY SchedulerStillStands DEF CallsInv, Callers
  <1>4. \A a \in Administrators : AdministratorStands(a)'
    BY AdministratorStillStands DEF CallsInv, Callers
  <1>. QED BY <1>1, <1>2, <1>3, <1>4 DEF CallsInv

-----------------------------------------------------------------------------
(* Each step of a table spares those who hold other rows *)

\* The inductive invariant of the concurrent callers.
SchedulerInv == LedgerInv /\ HistoryInv /\ CallsInv

LEMMA QuietSpares ==
  ASSUME UNCHANGED tables, NEW y
  PROVE  Spared(y)
  <1>1. /\ db' = db /\ streams' = streams /\ versions' = versions
        /\ decisions' = decisions
    BY DEF tables
  <1>. QED BY <1>1 DEF Spared, Unmoved

\* The gates of a drafted run beside rows that do not affect its operation.
LEMMA DraftedRunCommutes ==
  ASSUME LedgerInv, HistoryInv, NEW C, Accepts(C, db),
         NEW q \in Requests, Eligible(q), Accepts({RunRow(q)}, db),
         q.operation \notin Affected(C, db),
         \A c \in C : c.kind = "run" /\ c.id = RunOf(q) => c.operation = q.operation
  PROVE  Accepts({RunRow(q)}, db \cup C)
  <1>1. KeysUnique(db \cup C) /\ Referenced(db \cup C)
    BY AcceptedKeepsKeys, AcceptedKeepsReferences DEF HistoryInv
  <1>. DEFINE r == RunRow(q)
  <1>2. /\ r.kind = "run" /\ r.predecessor = None /\ r.id = RunOf(q)
        /\ r.operation = q.operation
    BY DEF RunRow
  <1>. HIDE DEF r
  <1>3. Accepts({r}, db)
    BY DEF r
  <1>4. Accepts({r}, db \cup C)
    BY <1>1, <1>2, <1>3, RootRunCommutes DEF HistoryInv
  <1>. QED BY <1>4 DEF r

LEMMA EligibleIsNamed ==
  ASSUME LedgerInv, NEW q \in Requests, Eligible(q)
  PROVE  /\ <<q.operation, q.policy, SlotOf(q)>> \in DOMAIN SlotRunId
         /\ RunOf(q) = SlotRunId[<<q.operation, q.policy, SlotOf(q)>>]
  <1>1. versions \subseteq Version /\ PolicyHistory(versions, q.policy)
        /\ Due(DueVersion(q), q.at)
    BY DEF LedgerInv, RowsTimed, Eligible
  <1>. QED BY <1>1, SlotIsNamed

LEMMA BundleSpares ==
  ASSUME SchedulerInv, NEW B \in Bundles, PersistBundle(B), NEW y \in Callers
  PROVE  Spared(y)
  <1>1. /\ \A o \in Affected(B, db) : OperationRow(o) \notin held[y]
        /\ Accepts(B, db) /\ db' = db \cup B
        /\ streams' = streams /\ versions' = versions /\ decisions' = decisions
    BY DEF PersistBundle, Free, StoreBundle, Persist
  <1>2. \A o : OperationRow(o) \in held[y] => Unmoved(db, db', o)
    BY <1>1, OthersMoveNothing
  <1>3. ASSUME NEW q \in Requests, OperationRow(q.operation) \in held[y],
               Eligible(q), Accepts({RunRow(q)}, db)
        PROVE  Accepts({RunRow(q)}, db')
    <2>1. q.operation \notin Affected(B, db)
      BY <1>1, <1>3
    <2>2. \A c \in B : c.kind = "run" /\ c.id = RunOf(q) => c.operation = q.operation
      <3>1. \A c \in B : c \in UNION Bundles
        OBVIOUS
      <3>. DEFINE x == <<q.operation, q.policy, SlotOf(q)>>
      <3>2. x \in DOMAIN SlotRunId /\ RunOf(q) = SlotRunId[x] /\ x[1] = q.operation
        BY <1>3, EligibleIsNamed DEF SchedulerInv
      <3>. HIDE DEF x
      <3>3. \A c \in B : c.kind = "run" /\ c.id = SlotRunId[x] => c.operation = x[1]
        BY <3>1, <3>2, SchedulerAssumption
      <3>. QED BY <3>2, <3>3
    <2>3. Accepts({RunRow(q)}, db \cup B)
      BY <1>1, <1>3, <2>1, <2>2, DraftedRunCommutes DEF SchedulerInv
    <2>. QED BY <1>1, <2>3
  <1>. QED BY <1>1, <1>2, <1>3 DEF Spared

LEMMA AmendmentSpares ==
  ASSUME SchedulerInv, NEW v \in Amendments, Amend(v), NEW y \in Callers
  PROVE  Spared(y)
  <1>1. /\ StreamRow(v.policy) \notin held[y]
        /\ db' = db /\ streams' = streams /\ versions' = versions \cup {v}
        /\ decisions' = decisions
    BY DEF Amend, Free, StoreAmendment
  <1>2. \A p : StreamRow(p) \in held[y] => VersionsOf(versions', p) = VersionsOf(versions, p)
    BY <1>1 DEF VersionsOf
  <1>. QED BY <1>1, <1>2 DEF Spared, Unmoved

LEMMA DecisionSpares ==
  ASSUME SchedulerInv, NEW s \in Schedulers, NEW q \in Requests, StoreDecision(q),
         StreamRow(q.policy) \in held[s], OperationRow(q.operation) \in held[s],
         NEW y \in Callers, y # s
  PROVE  Spared(y)
  <1>1. /\ StreamRow(q.policy) \notin held[y] /\ OperationRow(q.operation) \notin held[y]
    BY DEF SchedulerInv, CallsInv, LocksExclusive, Callers
  <1>2. /\ db' = db \cup {RunRow(q)} /\ decisions' = decisions \cup {NewDecision(q)}
        /\ streams' = streams /\ versions' = versions
        /\ Accepts({RunRow(q)}, db) /\ Eligible(q)
    BY DEF StoreDecision, Admissible
  <1>3. Affected({RunRow(q)}, db) = {q.operation}
    <2>. DEFINE r == RunRow(q)
    <2>1. r.kind = "run" /\ r.operation = q.operation /\ Insertable(r, db)
      BY <1>2 DEF RunRow, Accepts
    <2>. HIDE DEF r
    <2>2. Affected({r}, db) = {q.operation}
      BY <2>1, RunAffects DEF SchedulerInv, HistoryInv
    <2>. QED BY <2>2 DEF r
  <1>4. \A o : OperationRow(o) \in held[y] => Unmoved(db, db', o)
    BY <1>1, <1>2, <1>3, OthersMoveNothing
  <1>5. \A p : StreamRow(p) \in held[y] =>
          DecisionsOf(decisions', p) = DecisionsOf(decisions, p)
    <2>1. NewDecision(q).policy = q.policy
      BY DEF NewDecision
    <2>. QED BY <1>1, <1>2, <2>1 DEF DecisionsOf
  <1>6. ASSUME NEW w \in Requests, OperationRow(w.operation) \in held[y],
               Eligible(w), Accepts({RunRow(w)}, db)
        PROVE  Accepts({RunRow(w)}, db')
    <2>1. w.operation # q.operation
      BY <1>1, <1>6
    <2>2. RunOf(w) # RunOf(q)
      <3>. DEFINE x == <<q.operation, q.policy, SlotOf(q)>>
                  z == <<w.operation, w.policy, SlotOf(w)>>
      <3>1. /\ x \in DOMAIN SlotRunId /\ z \in DOMAIN SlotRunId
            /\ RunOf(q) = SlotRunId[x] /\ RunOf(w) = SlotRunId[z]
        BY <1>2, <1>6, EligibleIsNamed DEF SchedulerInv
      <3>2. x # z
        BY <2>1
      <3>. HIDE DEF x, z
      <3>. QED BY <3>1, <3>2, SchedulerAssumption
    <2>3. \A c \in {RunRow(q)} :
            c.kind = "run" /\ c.id = RunOf(w) => c.operation = w.operation
      BY <2>2 DEF RunRow
    <2>4. Accepts({RunRow(w)}, db \cup {RunRow(q)})
      BY <1>2, <1>3, <1>6, <2>1, <2>3, DraftedRunCommutes DEF SchedulerInv
    <2>. QED BY <1>2, <2>4
  <1>. QED BY <1>2, <1>4, <1>5, <1>6 DEF Spared

LEMMA PolicySpares ==
  ASSUME SchedulerInv, NEW a \in Administrators, NEW t \in Streamable, StorePolicy(t),
         OperationRow(t.operation) \in held[a], t = call[a], at[a] = "commit",
         PolicyDrafted(t, draft[a], held[a]), NEW y \in Callers, y # a
  PROVE  Spared(y)
  <1>1. OperationRow(t.operation) \notin held[y]
    BY DEF SchedulerInv, CallsInv, LocksExclusive, Callers
  <1>2. /\ db' = db /\ decisions' = decisions
        /\ streams' = streams \cup {t} /\ versions' = versions \cup FirstVersions(t)
        /\ \A v \in FirstVersions(t) : v.policy = t.policy
    BY DEF StorePolicy, FirstVersions
  <1>3. ASSUME NEW p, StreamRow(p) \in held[y], NEW u \in streams, u.policy = p
        PROVE  VersionsOf(versions', p) = VersionsOf(versions, p)
    <2>1. p # t.policy
      <3>1. CASE NewPolicy(t)
        BY <1>3, <3>1 DEF NewPolicy
      <3>2. CASE StreamRow(t.policy) \in held[a]
        BY <1>3, <3>2 DEF SchedulerInv, CallsInv, LocksExclusive, Callers
      <3>. QED BY <3>1, <3>2 DEF PolicyDrafted
    <2>. QED BY <1>2, <2>1 DEF VersionsOf
  <1>4. ASSUME NEW u \in streams' \ streams
        PROVE  /\ OperationRow(u.operation) \notin held[y]
               /\ \A w \in draft[y].streams : u.policy # w.policy
    <2>1. u = t /\ t \notin streams
      BY <1>2
    <2>2. t \in draft[a].streams
      BY <2>1 DEF PolicyDrafted, SamePolicy
    <2>. QED BY <1>1, <2>1, <2>2 DEF SchedulerInv, CallsInv, DraftsApart, Callers
  <1>. QED BY <1>2, <1>3, <1>4 DEF Spared, Unmoved

-----------------------------------------------------------------------------
(* The steps of the callers *)

\* A commit is one whole step of the tables, and spares the others.
LEMMA CommitIsWhole ==
  ASSUME SchedulerInv, NEW x \in Callers, at[x] = "commit", Published(x)
  PROVE  [StoreNext]_tables /\ \A y \in Callers \ {x} : Spared(y)
  <1>1. /\ db' = db \cup draft[x].runs /\ decisions' = decisions \cup draft[x].decisions
        /\ streams' = streams \cup draft[x].streams
        /\ versions' = versions \cup draft[x].versions
    BY DEF Published
  <1>2. CASE x \in Schedulers
    <2>1. PICK q : q = call[x]
      OBVIOUS
    <2>2. /\ q \in Requests /\ StreamKnown(q)
          /\ StreamRow(q.policy) \in held[x] /\ OperationRow(q.operation) \in held[x]
          /\ draft[x] = Nothing \/ DecisionDrafted(q, draft[x])
      BY <1>2, <2>1 DEF SchedulerInv, CallsInv, SchedulerStands
    <2>3. CASE draft[x] = Nothing
      <3>1. UNCHANGED tables
        BY <1>1, <2>3 DEF Nothing, tables
      <3>. QED BY <3>1, QuietSpares
    <2>4. CASE DecisionDrafted(q, draft[x])
      <3>1. StoreDecision(q)
        BY <1>1, <2>2, <2>4 DEF DecisionDrafted, StoreDecision
      <3>2. StoreNext
        BY <2>2, <3>1 DEF StoreNext
      <3>. QED BY <1>2, <2>2, <3>1, <3>2, DecisionSpares
    <2>. QED BY <2>2, <2>3, <2>4
  <1>3. CASE x \in Administrators
    <2>1. PICK t : t = call[x]
      OBVIOUS
    <2>2. /\ t \in Streamable /\ OperationOf(t) # {} /\ OperationRow(t.operation) \in held[x]
          /\ PolicyDrafted(t, draft[x], held[x])
      BY <1>3, <2>1 DEF SchedulerInv, CallsInv, AdministratorStands
    <2>3. StorePolicy(t)
      <3>1. db' = db /\ decisions' = decisions
        BY <1>1, <2>2 DEF PolicyDrafted
      <3>2. CASE NewPolicy(t) /\ draft[x].streams = {t} /\ draft[x].versions = FirstVersions(t)
        BY <1>1, <2>2, <3>1, <3>2 DEF StorePolicy
      <3>3. CASE /\ SamePolicy(t) /\ draft[x].streams = {}
                 /\ draft[x].versions \subseteq FirstVersions(t)
                 /\ FirstVersions(t) \subseteq versions \cup draft[x].versions
        <4>1. streams' = streams \cup {t}
          BY <1>1, <3>3 DEF SamePolicy
        <4>2. versions' = versions \cup FirstVersions(t)
          BY <1>1, <3>3
        <4>. QED BY <2>2, <3>1, <3>3, <4>1, <4>2 DEF StorePolicy
      <3>. QED BY <2>2, <3>2, <3>3 DEF PolicyDrafted
    <2>4. StoreNext
      BY <2>2, <2>3 DEF StoreNext
    <2>. QED BY <1>3, <2>1, <2>2, <2>3, <2>4, PolicySpares
  <1>. QED BY <1>2, <1>3 DEF Callers

LEMMA HistoryStays ==
  ASSUME HistoryInv, [StoreNext]_tables
  PROVE  HistoryInv'
  <1>1. CASE db' = db
    BY <1>1 DEF HistoryInv
  <1>2. ASSUME NEW C, Accepts(C, db), db' = db \cup C PROVE HistoryInv'
    BY <1>2, AcceptedKeepsKeys, AcceptedKeepsReferences DEF HistoryInv
  <1>3. ASSUME NEW q \in Requests, StoreDecision(q) PROVE HistoryInv'
    BY <1>2, <1>3 DEF StoreDecision, Admissible
  <1>4. ASSUME NEW B \in Bundles, StoreBundle(B) PROVE HistoryInv'
    BY <1>2, <1>4 DEF StoreBundle, Persist
  <1>. QED BY <1>1, <1>3, <1>4 DEF StoreNext, StorePolicy, StoreAmendment, tables

LEMMA AnswerKeepsCalls ==
  ASSUME CallsInv, NEW x \in Callers, NEW kind, Answer(x, kind),
         \A y \in Callers \ {x} : Spared(y)
  PROVE  CallsInv'
  <1>1. /\ call' = [call EXCEPT ![x] = None] /\ at' = [at EXCEPT ![x] = "idle"]
        /\ held' = [held EXCEPT ![x] = {}] /\ draft' = [draft EXCEPT ![x] = Nothing]
    BY DEF Answer
  <1>2. Shaped'
    BY <1>1 DEF CallsInv, Shaped
  <1>3. /\ at'[x] = "idle" /\ held'[x] = {} /\ draft'[x] = Nothing
        /\ \A y \in Callers \ {x} : Keeps(y)
    BY <1>1 DEF CallsInv, Shaped, Keeps
  <1>4. SchedulerStands(x)' /\ AdministratorStands(x)'
    BY <1>3 DEF SchedulerStands, AdministratorStands
  <1>5. Nothing.streams = {}
    BY DEF Nothing
  <1>. DEFINE A == {x}
  <1>6. /\ A \in SUBSET Callers /\ \A y \in Callers \ A : Spared(y) /\ Keeps(y)
        /\ \A z \in A : \A y \in Callers : z # y =>
             /\ held'[z] \cap held'[y] = {}
             /\ \A u \in draft'[z].streams, w \in draft'[y].streams : u.policy # w.policy
        /\ \A z \in A : at'[z] # "commit" => draft'[z] = Nothing
        /\ \A z \in A : /\ z \in Schedulers => SchedulerStands(z)'
                        /\ z \in Administrators => AdministratorStands(z)'
    BY <1>3, <1>4, <1>5
  <1>. HIDE DEF A
  <1>. QED BY <1>2, <1>6, StepKeepsCalls

\* A step of caller x that changes no table.
LEMMA QuietStepKeepsCalls ==
  ASSUME CallsInv, UNCHANGED tables, NEW x \in Callers, Shaped',
         \A y \in Callers \ {x} : Keeps(y),
         \A y \in Callers \ {x} :
           /\ held'[x] \cap held[y] = {}
           /\ \A u \in draft'[x].streams, w \in draft[y].streams : u.policy # w.policy,
         at'[x] # "commit" => draft'[x] = Nothing,
         x \in Schedulers => SchedulerStands(x)',
         x \in Administrators => AdministratorStands(x)'
  PROVE  CallsInv'
  <1>. DEFINE A == {x}
  <1>1. /\ A \in SUBSET Callers /\ \A y \in Callers \ A : Spared(y) /\ Keeps(y)
        /\ \A z \in A : \A y \in Callers : z # y =>
             /\ held'[z] \cap held'[y] = {}
             /\ \A u \in draft'[z].streams, w \in draft'[y].streams : u.policy # w.policy
        /\ \A z \in A : at'[z] # "commit" => draft'[z] = Nothing
        /\ \A z \in A : /\ z \in Schedulers => SchedulerStands(z)'
                        /\ z \in Administrators => AdministratorStands(z)'
    BY QuietSpares DEF Keeps
  <1>. HIDE DEF A
  <1>. QED BY <1>1, StepKeepsCalls

LEMMA NothingHolds ==
  /\ DOMAIN Nothing = {"decisions", "runs", "streams", "versions"}
  /\ Nothing.decisions = {} /\ Nothing.runs = {}
  /\ Nothing.streams = {} /\ Nothing.versions = {}
  BY DEF Nothing

LEMMA TurnedKeepsCalls ==
  ASSUME CallsInv, NEW x \in Callers, NEW kind, Answer(x, kind), UNCHANGED tables
  PROVE  CallsInv'
  BY AnswerKeepsCalls, QuietSpares

LEMMA BeginKeepsCalls ==
  ASSUME CallsInv, NEW x \in Callers, NEW q, NEW point, Begin(x, q, point),
         \/ x \in Schedulers /\ q \in Requests /\ point = "stream"
         \/ x \in Administrators /\ q \in Streamable /\ point = "operation"
  PROVE  CallsInv'
  <1>1. /\ at[x] = "idle" /\ UNCHANGED tables
        /\ call' = [call EXCEPT ![x] = q] /\ at' = [at EXCEPT ![x] = point]
        /\ held' = held /\ draft' = draft
    BY DEF Begin
  <1>2. Shaped'
    BY <1>1 DEF CallsInv, Shaped
  <1>3. /\ call'[x] = q /\ at'[x] = point /\ draft'[x] = Nothing /\ held'[x] = held[x]
        /\ \A y \in Callers \ {x} : Keeps(y)
    BY <1>1 DEF CallsInv, Shaped, Keeps, DraftsApart
  <1>4. \A y \in Callers \ {x} :
          /\ held'[x] \cap held[y] = {}
          /\ \A u \in draft'[x].streams, w \in draft[y].streams : u.policy # w.policy
    BY <1>3 DEF CallsInv, LocksExclusive, Nothing
  <1>5. /\ x \in Schedulers => SchedulerStands(x)'
        /\ x \in Administrators => AdministratorStands(x)'
    BY <1>3, CallerAssumption DEF SchedulerStands, AdministratorStands
  <1>. QED BY <1>1, <1>2, <1>3, <1>4, <1>5, QuietStepKeepsCalls

\* Taking a row.
LEMMA LockKeepsCalls ==
  ASSUME CallsInv, NEW x \in Callers, NEW l, NEW point, Lock(x, l, point),
         at[x] # "commit", point # "commit",
         \A q : call'[x] = q /\ call[x] = q /\ at'[x] = point
                  /\ held'[x] = held[x] \cup {l} =>
           /\ x \in Schedulers => SchedulerStands(x)'
           /\ x \in Administrators => AdministratorStands(x)'
  PROVE  CallsInv'
  <1>1. /\ FreeFor(x, l) /\ UNCHANGED tables
        /\ held' = [held EXCEPT ![x] = @ \cup {l}] /\ at' = [at EXCEPT ![x] = point]
        /\ call' = call /\ draft' = draft
    BY DEF Lock
  <1>2. Shaped'
    BY <1>1 DEF CallsInv, Shaped
  <1>3. /\ call'[x] = call[x] /\ at'[x] = point /\ held'[x] = held[x] \cup {l}
        /\ draft'[x] = Nothing /\ \A y \in Callers \ {x} : Keeps(y)
    BY <1>1 DEF CallsInv, Shaped, Keeps, DraftsApart
  <1>4. \A y \in Callers \ {x} :
          /\ held'[x] \cap held[y] = {}
          /\ \A u \in draft'[x].streams, w \in draft[y].streams : u.policy # w.policy
    BY <1>1, <1>3 DEF CallsInv, LocksExclusive, Nothing, FreeFor
  <1>5. /\ x \in Schedulers => SchedulerStands(x)'
        /\ x \in Administrators => AdministratorStands(x)'
    BY <1>3
  <1>. QED BY <1>1, <1>2, <1>3, <1>4, <1>5, QuietStepKeepsCalls

LEMMA LockStreamKeepsCalls ==
  ASSUME CallsInv, NEW s \in Schedulers, LockStream(s)
  PROVE  CallsInv'
  <1>1. /\ at[s] = "stream" /\ StreamKnown(call[s]) /\ streams' = streams
        /\ Lock(s, StreamRow(call[s].policy), "operation")
    BY DEF LockStream, Lock, tables
  <1>2. s \in Callers /\ s \notin Administrators
    BY CallerAssumption DEF Callers
  <1>3. PICK l : l = StreamRow(call[s].policy)
    OBVIOUS
  <1>4. call[s] \in Requests
    BY <1>1 DEF CallsInv, SchedulerStands
  <1>5. ASSUME NEW q, call'[s] = q, call[s] = q, at'[s] = "operation",
               held'[s] = held[s] \cup {l}
        PROVE  SchedulerStands(s)'
    BY <1>1, <1>3, <1>4, <1>5 DEF SchedulerStands, StreamKnown, StreamRow
  <1>. QED BY <1>1, <1>2, <1>3, <1>5, LockKeepsCalls

LEMMA LockOperationKeepsCalls ==
  ASSUME CallsInv, NEW s \in Schedulers, LockOperation(s)
  PROVE  CallsInv'
  <1>1. /\ at[s] = "operation" /\ streams' = streams
        /\ Lock(s, OperationRow(call[s].operation), "decide")
    BY DEF LockOperation, Lock, tables
  <1>2. s \in Callers /\ s \notin Administrators
    BY CallerAssumption DEF Callers
  <1>3. PICK l : l = OperationRow(call[s].operation)
    OBVIOUS
  <1>4. /\ call[s] \in Requests /\ StreamKnown(call[s])
        /\ StreamRow(call[s].policy) \in held[s]
    BY <1>1 DEF CallsInv, SchedulerStands
  <1>5. ASSUME NEW q, call'[s] = q, call[s] = q, at'[s] = "decide",
               held'[s] = held[s] \cup {l}
        PROVE  SchedulerStands(s)'
    BY <1>1, <1>3, <1>4, <1>5 DEF SchedulerStands, StreamKnown, StreamRow, OperationRow
  <1>. QED BY <1>1, <1>2, <1>3, <1>5, LockKeepsCalls

LEMMA LockAuthorizedOperationKeepsCalls ==
  ASSUME CallsInv, NEW a \in Administrators, LockAuthorizedOperation(a)
  PROVE  CallsInv'
  <1>1. /\ at[a] = "operation" /\ OperationOf(call[a]) # {} /\ db' = db
        /\ Lock(a, OperationRow(call[a].operation), "stream")
    BY DEF LockAuthorizedOperation, Lock, tables
  <1>2. a \in Callers /\ a \notin Schedulers
    BY CallerAssumption DEF Callers
  <1>3. PICK l : l = OperationRow(call[a].operation)
    OBVIOUS
  <1>4. call[a] \in Streamable
    BY <1>1 DEF CallsInv, AdministratorStands
  <1>5. ASSUME NEW q, call'[a] = q, call[a] = q, at'[a] = "stream",
               held'[a] = held[a] \cup {l}
        PROVE  AdministratorStands(a)'
    BY <1>1, <1>3, <1>4, <1>5 DEF AdministratorStands, OperationOf, OperationRow
  <1>. QED BY <1>1, <1>2, <1>3, <1>5, LockKeepsCalls

LEMMA DecideKeepsCalls ==
  ASSUME CallsInv, NEW s \in Schedulers, Decide(s)
  PROVE  CallsInv'
  <1>1. PICK q : q = call[s]
    OBVIOUS
  <1>2. /\ at[s] = "decide" /\ Eligible(q) /\ Admissible(q) /\ UNCHANGED tables
        /\ draft' = [draft EXCEPT ![s].decisions = {NewDecision(q)},
                                  ![s].runs = {RunRow(q)}]
        /\ at' = [at EXCEPT ![s] = "commit"] /\ call' = call /\ held' = held
    BY <1>1 DEF Decide
  <1>3. s \in Callers /\ s \notin Administrators
    BY CallerAssumption DEF Callers
  <1>4. Shaped'
    BY <1>2, <1>3 DEF CallsInv, Shaped
  <1>5. /\ call'[s] = q /\ at'[s] = "commit" /\ held'[s] = held[s]
        /\ \A y \in Callers \ {s} : Keeps(y)
    BY <1>1, <1>2, <1>3 DEF CallsInv, Shaped, Keeps
  <1>6. /\ draft'[s].decisions = {NewDecision(q)} /\ draft'[s].runs = {RunRow(q)}
        /\ draft'[s].streams = {} /\ draft'[s].versions = {}
    <2>1. draft[s] = Nothing
      BY <1>2, <1>3 DEF CallsInv, DraftsApart
    <2>2. draft'[s] = [draft[s] EXCEPT !.decisions = {NewDecision(q)}, !.runs = {RunRow(q)}]
      BY <1>2, <1>3 DEF CallsInv, Shaped
    <2>. QED BY <2>1, <2>2, NothingHolds
  <1>7. /\ q \in Requests /\ StreamKnown(q) /\ StreamRow(q.policy) \in held[s]
        /\ OperationRow(q.operation) \in held[s]
    BY <1>1, <1>2 DEF CallsInv, SchedulerStands
  <1>8. SchedulerStands(s)'
    <2>1. RequestSpared(q)
      BY <1>2 DEF RequestSpared, Unmoved, tables
    <2>2. /\ Eligible(q)' /\ Admissible(q)'
          /\ NewDecision(q)' = NewDecision(q) /\ RunRow(q)' = RunRow(q)
      BY <1>2, <1>7, <2>1, RequestStays
    <2>3. StreamKnown(q)'
      BY <1>2, <1>7 DEF StreamKnown, tables
    <2>4. \A f : f = draft'[s] => DecisionDrafted(q, f)'
      BY <1>6, <2>2 DEF DecisionDrafted
    <2>. QED BY <1>5, <1>7, <2>2, <2>3, <1>6
             DEF SchedulerStands, DecisionDrafted, StreamRow, OperationRow, StreamKnown
  <1>9. \A y \in Callers \ {s} :
          /\ held'[s] \cap held[y] = {}
          /\ \A u \in draft'[s].streams, w \in draft[y].streams : u.policy # w.policy
    BY <1>3, <1>5, <1>6 DEF CallsInv, LocksExclusive
  <1>. QED BY <1>2, <1>3, <1>4, <1>5, <1>8, <1>9, QuietStepKeepsCalls

LEMMA ReplayKeepsCalls ==
  ASSUME CallsInv, NEW s \in Schedulers, Replay(s)
  PROVE  CallsInv'
  <1>1. PICK q : q = call[s]
    OBVIOUS
  <1>2. /\ at[s] = "decide" /\ UNCHANGED tables /\ at' = [at EXCEPT ![s] = "commit"]
        /\ call' = call /\ held' = held /\ draft' = draft
    BY DEF Replay
  <1>3. s \in Callers /\ s \notin Administrators
    BY CallerAssumption DEF Callers
  <1>4. Shaped'
    BY <1>2, <1>3 DEF CallsInv, Shaped
  <1>5. /\ call'[s] = q /\ at'[s] = "commit" /\ held'[s] = held[s] /\ draft'[s] = Nothing
        /\ \A y \in Callers \ {s} : Keeps(y)
    BY <1>1, <1>2, <1>3 DEF CallsInv, Shaped, Keeps, DraftsApart
  <1>6. SchedulerStands(s)'
    <2>1. /\ q \in Requests /\ StreamKnown(q) /\ StreamRow(q.policy) \in held[s]
          /\ OperationRow(q.operation) \in held[s] /\ streams' = streams
      BY <1>1, <1>2 DEF CallsInv, SchedulerStands, tables
    <2>2. Nothing' = Nothing
      BY DEF Nothing
    <2>. QED BY <1>5, <2>1, <2>2 DEF SchedulerStands, StreamRow, OperationRow, StreamKnown
  <1>7. \A y \in Callers \ {s} :
          /\ held'[s] \cap held[y] = {}
          /\ \A u \in draft'[s].streams, w \in draft[y].streams : u.policy # w.policy
    BY <1>3, <1>5 DEF CallsInv, LocksExclusive, Nothing
  <1>. QED BY <1>2, <1>3, <1>4, <1>5, <1>6, <1>7, QuietStepKeepsCalls

LEMMA InsertPolicyKeepsCalls ==
  ASSUME CallsInv, NEW a \in Administrators, InsertPolicy(a)
  PROVE  CallsInv'
  <1>1. PICK t : t = call[a]
    OBVIOUS
  <1>2. /\ at[a] = "stream" /\ NewPolicy(t) /\ ~ PolicyInFlight(a) /\ UNCHANGED tables
        /\ draft' = [draft EXCEPT ![a].streams = {t}, ![a].versions = FirstVersions(t)]
        /\ at' = [at EXCEPT ![a] = "commit"] /\ call' = call /\ held' = held
    BY <1>1 DEF InsertPolicy
  <1>3. a \in Callers /\ a \notin Schedulers
    BY CallerAssumption DEF Callers
  <1>4. Shaped'
    BY <1>2, <1>3 DEF CallsInv, Shaped
  <1>5. /\ call'[a] = t /\ at'[a] = "commit" /\ held'[a] = held[a]
        /\ \A y \in Callers \ {a} : Keeps(y)
    BY <1>1, <1>2, <1>3 DEF CallsInv, Shaped, Keeps
  <1>6. /\ draft'[a].streams = {t} /\ draft'[a].versions = FirstVersions(t)
        /\ draft'[a].decisions = {} /\ draft'[a].runs = {}
    <2>1. draft[a] = Nothing
      BY <1>2, <1>3 DEF CallsInv, DraftsApart
    <2>2. draft'[a] = [draft[a] EXCEPT !.streams = {t}, !.versions = FirstVersions(t)]
      BY <1>2, <1>3 DEF CallsInv, Shaped
    <2>. QED BY <2>1, <2>2, NothingHolds
  <1>7. /\ t \in Streamable /\ OperationOf(t) # {} /\ OperationRow(t.operation) \in held[a]
    BY <1>1, <1>2 DEF CallsInv, AdministratorStands
  <1>8. AdministratorStands(a)'
    <2>1. db' = db /\ streams' = streams /\ versions' = versions
      BY <1>2 DEF tables
    <2>2. OperationOf(t)' = OperationOf(t) /\ NewPolicy(t)'
      BY <1>2, <2>1 DEF OperationOf, NewPolicy, StreamsOf
    <2>3. FirstVersions(t)' = FirstVersions(t)
      BY <2>2 DEF FirstVersions
    <2>. QED BY <1>5, <1>6, <1>7, <2>2, <2>3
             DEF AdministratorStands, PolicyDrafted, OperationRow
  <1>9. \A y \in Callers \ {a} :
          /\ held'[a] \cap held[y] = {}
          /\ \A u \in draft'[a].streams, w \in draft[y].streams : u.policy # w.policy
    BY <1>1, <1>2, <1>3, <1>5, <1>6 DEF CallsInv, LocksExclusive, PolicyInFlight
  <1>. QED BY <1>2, <1>3, <1>4, <1>5, <1>8, <1>9, QuietStepKeepsCalls

LEMMA AuthenticatePolicyKeepsCalls ==
  ASSUME CallsInv, NEW a \in Administrators, AuthenticatePolicy(a)
  PROVE  CallsInv'
  <1>1. PICK t : t = call[a]
    OBVIOUS
  <1>2. /\ at[a] = "stream" /\ SamePolicy(t) /\ FreeFor(a, StreamRow(t.policy))
        /\ UNCHANGED tables
        /\ held' = [held EXCEPT ![a] = @ \cup {StreamRow(t.policy)}]
        /\ draft' = [draft EXCEPT ![a].versions = FirstVersions(t) \ versions]
        /\ at' = [at EXCEPT ![a] = "commit"] /\ call' = call
    BY <1>1 DEF AuthenticatePolicy
  <1>3. a \in Callers /\ a \notin Schedulers
    BY CallerAssumption DEF Callers
  <1>4. Shaped'
    BY <1>2, <1>3 DEF CallsInv, Shaped
  <1>5. /\ call'[a] = t /\ at'[a] = "commit" /\ held'[a] = held[a] \cup {StreamRow(t.policy)}
        /\ \A y \in Callers \ {a} : Keeps(y)
    BY <1>1, <1>2, <1>3 DEF CallsInv, Shaped, Keeps
  <1>6. /\ draft'[a].versions = FirstVersions(t) \ versions /\ draft'[a].streams = {}
        /\ draft'[a].decisions = {} /\ draft'[a].runs = {}
    <2>1. draft[a] = Nothing
      BY <1>2, <1>3 DEF CallsInv, DraftsApart
    <2>2. draft'[a] = [draft[a] EXCEPT !.versions = FirstVersions(t) \ versions]
      BY <1>2, <1>3 DEF CallsInv, Shaped
    <2>. QED BY <2>1, <2>2, NothingHolds
  <1>7. /\ t \in Streamable /\ OperationOf(t) # {} /\ OperationRow(t.operation) \in held[a]
    BY <1>1, <1>2 DEF CallsInv, AdministratorStands
  <1>8. AdministratorStands(a)'
    <2>1. db' = db /\ streams' = streams /\ versions' = versions
      BY <1>2 DEF tables
    <2>2. OperationOf(t)' = OperationOf(t)
      BY <2>1 DEF OperationOf
    <2>3. FirstVersions(t)' = FirstVersions(t)
      BY <2>2 DEF FirstVersions
    <2>4. SamePolicy(t)'
      BY <1>2, <2>1, <2>3 DEF SamePolicy
    <2>. QED BY <1>5, <1>6, <1>7, <2>1, <2>2, <2>3, <2>4
             DEF AdministratorStands, PolicyDrafted, OperationRow, StreamRow
  <1>9. \A y \in Callers \ {a} :
          /\ held'[a] \cap held[y] = {}
          /\ \A u \in draft'[a].streams, w \in draft[y].streams : u.policy # w.policy
    BY <1>2, <1>3, <1>5, <1>6 DEF CallsInv, LocksExclusive, FreeFor
  <1>. QED BY <1>2, <1>3, <1>4, <1>5, <1>8, <1>9, QuietStepKeepsCalls

-----------------------------------------------------------------------------
(* The theorems *)

\* A step of one caller, whatever it is.
LEMMA CallerStep ==
  ASSUME SchedulerInv, NEW x \in Callers,
         \/ x \in Schedulers /\ ((\E q \in Requests : RunNow(x, q)) \/ SchedulerStep(x))
         \/ /\ x \in Administrators
            /\ (\E t \in Streamable : CreatePolicy(x, t)) \/ AdministratorStep(x)
         \/ CallLost(x)
  PROVE  [StoreNext]_tables /\ CallsInv'
  <1>1. ASSUME NEW kind, Answer(x, kind), UNCHANGED tables
        PROVE  [StoreNext]_tables /\ CallsInv'
    BY <1>1, TurnedKeepsCalls DEF SchedulerInv
  <1>2. ASSUME NEW kind, at[x] = "commit", Published(x), Answer(x, kind)
        PROVE  [StoreNext]_tables /\ CallsInv'
    BY <1>2, CommitIsWhole, AnswerKeepsCalls DEF SchedulerInv
  <1>3. CASE CommitCall(x) \/ CallLost(x)
    BY <1>1, <1>2, <1>3 DEF CommitCall, CallLost
  <1>4. CASE DeadlockVictim(x) \/ Turned(x)
    BY <1>1, <1>4 DEF DeadlockVictim, Turned
  <1>5. CASE x \in Schedulers /\ \E q \in Requests : RunNow(x, q)
    <2>1. PICK q \in Requests : Begin(x, q, "stream")
      BY <1>5 DEF RunNow
    <2>. QED BY <1>5, <2>1, BeginKeepsCalls DEF Begin, SchedulerInv
  <1>6. CASE x \in Administrators /\ \E t \in Streamable : CreatePolicy(x, t)
    <2>1. PICK t \in Streamable : Begin(x, t, "operation")
      BY <1>6 DEF CreatePolicy
    <2>. QED BY <1>6, <2>1, BeginKeepsCalls DEF Begin, SchedulerInv
  <1>7. CASE x \in Schedulers /\ SchedulerStep(x)
    <2>1. CASE LockStream(x)
      BY <1>7, <2>1, LockStreamKeepsCalls DEF LockStream, Lock, SchedulerInv
    <2>2. CASE LockOperation(x)
      BY <1>7, <2>2, LockOperationKeepsCalls DEF LockOperation, Lock, SchedulerInv
    <2>3. CASE Decide(x)
      BY <1>7, <2>3, DecideKeepsCalls DEF Decide, SchedulerInv
    <2>4. CASE Replay(x)
      BY <1>7, <2>4, ReplayKeepsCalls DEF Replay, SchedulerInv
    <2>5. CASE StreamUnknown(x) \/ Refuse(x)
      BY <1>4, <2>5 DEF StreamUnknown, Refuse
    <2>. QED BY <1>3, <1>4, <1>7, <2>1, <2>2, <2>3, <2>4, <2>5 DEF SchedulerStep
  <1>8. CASE x \in Administrators /\ AdministratorStep(x)
    <2>1. CASE LockAuthorizedOperation(x)
      BY <1>8, <2>1, LockAuthorizedOperationKeepsCalls
         DEF LockAuthorizedOperation, Lock, SchedulerInv
    <2>2. CASE InsertPolicy(x)
      BY <1>8, <2>2, InsertPolicyKeepsCalls DEF InsertPolicy, SchedulerInv
    <2>3. CASE AuthenticatePolicy(x)
      BY <1>8, <2>3, AuthenticatePolicyKeepsCalls DEF AuthenticatePolicy, SchedulerInv
    <2>4. CASE OperationMissing(x) \/ PolicyConflict(x)
      BY <1>4, <2>4 DEF OperationMissing, PolicyConflict
    <2>. QED BY <1>3, <1>4, <1>8, <2>1, <2>2, <2>3, <2>4 DEF AdministratorStep
  <1>. QED BY <1>3, <1>5, <1>6, <1>7, <1>8

LEMMA SchedulerInvInit == SchedulerInit => SchedulerInv
  <1>. SUFFICES ASSUME SchedulerInit PROVE SchedulerInv
    OBVIOUS
  <1>1. LedgerInv
    BY LedgerInvInit DEF SchedulerInit
  <1>2. HistoryInv
    BY DEF SchedulerInit, StoreInit, LedgerInit, HistoryInv, KeysUnique, Referenced
  <1>3. /\ \A x \in Callers : at[x] = "idle" /\ held[x] = {} /\ draft[x] = Nothing
        /\ Shaped
    BY DEF SchedulerInit, Shaped
  <1>4. CallsInv
    BY <1>3, NothingHolds DEF CallsInv, LocksExclusive, DraftsApart, SchedulerStands,
                              AdministratorStands, Callers
  <1>. QED BY <1>1, <1>2, <1>4 DEF SchedulerInv

LEMMA SchedulerInvNext ==
  ASSUME SchedulerInv, [SchedulerNext]_svars
  PROVE  [StoreNext]_tables /\ SchedulerInv'
  <1>1. [StoreNext]_tables /\ CallsInv'
    <2>1. CASE UNCHANGED svars
      <3>1. UNCHANGED tables /\ \A y : Keeps(y)
        BY <2>1 DEF svars, tables, Keeps
      <3>2. Shaped'
        BY <2>1 DEF svars, SchedulerInv, CallsInv, Shaped
      <3>. DEFINE A == {}
      <3>3. /\ A \in SUBSET Callers /\ \A x : x \notin A
            /\ \A y \in Callers \ A : Spared(y) /\ Keeps(y)
        BY <3>1, QuietSpares
      <3>. HIDE DEF A
      <3>. QED BY <3>1, <3>2, <3>3, StepKeepsCalls DEF SchedulerInv
    <2>2. ASSUME NEW B \in Bundles, PersistBundle(B)
          PROVE  [StoreNext]_tables /\ CallsInv'
      <3>1. StoreNext /\ \A y \in Callers : Spared(y) /\ Keeps(y)
        BY <2>2, BundleSpares DEF PersistBundle, StoreNext, Keeps
      <3>2. Shaped'
        BY <2>2 DEF PersistBundle, SchedulerInv, CallsInv, Shaped
      <3>. DEFINE A == {}
      <3>3. /\ A \in SUBSET Callers /\ \A x : x \notin A
            /\ \A y \in Callers \ A : Spared(y) /\ Keeps(y)
        BY <3>1
      <3>. HIDE DEF A
      <3>. QED BY <3>1, <3>2, <3>3, StepKeepsCalls DEF SchedulerInv
    <2>3. ASSUME NEW v \in Amendments, Amend(v)
          PROVE  [StoreNext]_tables /\ CallsInv'
      <3>1. StoreNext /\ \A y \in Callers : Spared(y) /\ Keeps(y)
        BY <2>3, AmendmentSpares DEF Amend, StoreNext, Keeps
      <3>2. Shaped'
        BY <2>3 DEF Amend, SchedulerInv, CallsInv, Shaped
      <3>. DEFINE A == {}
      <3>3. /\ A \in SUBSET Callers /\ \A x : x \notin A
            /\ \A y \in Callers \ A : Spared(y) /\ Keeps(y)
        BY <3>1
      <3>. HIDE DEF A
      <3>. QED BY <3>1, <3>2, <3>3, StepKeepsCalls DEF SchedulerInv
    <2>. QED BY <2>1, <2>2, <2>3, CallerStep DEF SchedulerNext, Callers
  <1>2. LedgerInv' /\ HistoryInv'
    BY <1>1, LedgerStays, HistoryStays DEF SchedulerInv
  <1>. QED BY <1>1, <1>2 DEF SchedulerInv

LEMMA SchedulerKeepsInv == SchedulerSpec => []SchedulerInv
  <1>1. SchedulerInv /\ [SchedulerNext]_svars => SchedulerInv'
    BY SchedulerInvNext
  <1>. QED BY <1>1, SchedulerInvInit, PTL DEF SchedulerSpec

\* DecisionsAreAtomic: the concurrent callers implement the tables that change
\* by whole steps.  What createSchedulerRunNow and createResearchScheduler-
\* PolicyV1 found under their row locks still holds when they commit, whatever
\* the others commit in between, and a lost connection commits all or nothing.
THEOREM TransactionsAreAtomic == SchedulerSpec => DecisionsAreAtomic
  <1>1. SchedulerInit => StoreInit
    BY DEF SchedulerInit
  <1>2. SchedulerInv /\ [SchedulerNext]_svars => [StoreNext]_tables
    BY SchedulerInvNext
  <1>. QED BY <1>1, <1>2, SchedulerKeepsInv, PTL
           DEF SchedulerSpec, DecisionsAreAtomic, StoreSpec

\* ScheduledRunsDoNotOverlap: the run of a decision is created after every
\* earlier scheduled run of its operation has ended, though createSchedulerRunNow
\* looks only at the history up to the time its caller brings.
THEOREM ScheduledRunsNeverOverlap == StoreSpec => []ScheduledRunsDoNotOverlap
  <1>1. LedgerInv => ScheduledRunsDoNotOverlap
    BY DEF LedgerInv
  <1>. QED BY <1>1, StoreKeepsLedger, PTL

\* DecisionsStayTrue: the decisions of a policy form one chain in slot order,
\* and the reason each gives for its slot is true of all decisions there ever
\* are, also after amendments of the policy and rows written into the past.
THEOREM DecisionsStayTrueForever == StoreSpec => []DecisionsStayTrue
  <1>1. LedgerInv => DecisionsStayTrue
    BY DEF LedgerInv, DecisionsStayTrue
  <1>. QED BY <1>1, StoreKeepsLedger, PTL

\* Both hold among concurrent callers too.
THEOREM SchedulersKeepTheLedger ==
  SchedulerSpec => [](ScheduledRunsDoNotOverlap /\ DecisionsStayTrue)
  <1>1. LedgerInv => ScheduledRunsDoNotOverlap /\ DecisionsStayTrue
    BY DEF LedgerInv, DecisionsStayTrue
  <1>. QED BY <1>1, SchedulerKeepsInv, PTL DEF SchedulerInv


-----------------------------------------------------------------------------
(* What a decision rests on stays what it was *)

LEMMA CutoffGrows ==
  ASSUME NEW D, NEW E, D \subseteq E, NEW o, NEW n, NEW X
  PROVE  /\ AtCutoff(D, o, n, X) \subseteq AtCutoff(E, o, n, X)
         /\ Prefix(D, o, n, X) \subseteq Prefix(E, o, n, X)
  <1>1. RunsOf(D, o) \subseteq RunsOf(E, o) /\ ClosesOf(D, o) \subseteq ClosesOf(E, o)
        /\ \A k : Of(D, k) \subseteq Of(E, k)
    BY DEF RunsOf, ClosesOf, Of
  <1>2. AtCutoff(D, o, n, X) \subseteq AtCutoff(E, o, n, X)
    BY <1>1 DEF AtCutoff
  <1>. QED BY <1>2 DEF Prefix

\* The rows of a cut by their kinds.
LEMMA CutoffRows ==
  ASSUME NEW D, NEW o, NEW n, NEW X, NEW x
  PROVE  LET runs == {r \in RunsOf(D, o) : r.at <= n /\ r.id \notin X}
         IN  x \in AtCutoff(D, o, n, X) <=>
               \/ x \in Of(D, "operation") /\ x.id = o
               \/ x \in ClosesOf(D, o) /\ x.at <= n
               \/ x \in runs
               \/ /\ x \in D /\ x.kind \in {"start", "attempt", "result", "terminal"}
                  /\ x.at <= n /\ \E r \in runs : x.run = r.id
               \/ /\ x \in Of(D, "resolution") /\ x.at <= n
                  /\ \E a \in Of(D, "attempt") :
                       /\ a.id = x.attempt /\ a.at <= n
                       /\ \E r \in runs : a.run = r.id
  BY DEF AtCutoff, Of

\* When all runs of a cut have ended in it, and later bundles add nothing to
\* its lifecycle, they add nothing to it at all.
LEMMA CutStands ==
  ASSUME NEW D, NEW B, Accepts(B, D), NEW o, NEW n, NEW X,
         Prefix(D \cup B, o, n, X) = Prefix(D, o, n, X),
         Nonterminal(Prefix(D, o, n, X)) = {}
  PROVE  AtCutoff(D \cup B, o, n, X) = AtCutoff(D, o, n, X)
  <1>. DEFINE E == D \cup B
              runs(F) == {r \in RunsOf(F, o) : r.at <= n /\ r.id \notin X}
  <1>1. \A x : x.kind \in {"operation", "close", "run", "start", "terminal"} =>
          (x \in AtCutoff(E, o, n, X) <=> x \in AtCutoff(D, o, n, X))
    <2>. SUFFICES ASSUME NEW x, x.kind \in {"operation", "close", "run", "start", "terminal"}
                  PROVE  x \in AtCutoff(E, o, n, X) <=> x \in AtCutoff(D, o, n, X)
      OBVIOUS
    <2>1. x \in Prefix(E, o, n, X) <=> x \in Prefix(D, o, n, X)
      OBVIOUS
    <2>. HIDE DEF E
    <2>. QED BY <2>1 DEF Prefix
  <1>2. runs(E) = runs(D)
    <2>1. \A x : x \in runs(E) <=> x.kind = "run" /\ x \in AtCutoff(E, o, n, X)
      BY CutoffRows DEF RunsOf, ClosesOf, Of
    <2>2. \A x : x \in runs(D) <=> x.kind = "run" /\ x \in AtCutoff(D, o, n, X)
      BY CutoffRows DEF RunsOf, ClosesOf, Of
    <2>. HIDE DEF E, runs
    <2>3. \A x \in runs(E) : x \in runs(D)
      BY <1>1, <2>1, <2>2
    <2>4. \A x \in runs(D) : x \in runs(E)
      BY <1>1, <2>1, <2>2
    <2>. QED BY <2>3, <2>4
  <1>3. ASSUME NEW r \in runs(D) PROVE TerminalsOf(D, r.id) # {}
    <2>. DEFINE P == Prefix(D, o, n, X)
    <2>1. r \in Of(P, "run")
      BY <1>3, CutoffRows DEF Prefix, RunsOf, Of
    <2>2. PICK t \in Of(P, "terminal") : t.run = r.id
      BY <2>1 DEF Nonterminal
    <2>3. t \in D /\ t.kind = "terminal"
      BY <2>2, CutoffRows DEF Prefix, Of, RunsOf, ClosesOf
    <2>. QED BY <2>2, <2>3 DEF TerminalsOf, Of
  <1>4. ASSUME NEW x \in B \ D, NEW r \in runs(D), r.id \in TouchedRuns(x, E)
        PROVE  x.kind \notin {"start", "attempt", "resolution", "result"}
    BY <1>3, <1>4 DEF Accepts, Writable, ChildrenOfLiveRuns
  <1>5. ASSUME NEW x \in B \ D, x \in AtCutoff(E, o, n, X) PROVE x \in AtCutoff(D, o, n, X)
    <2>1. CASE x.kind \in {"attempt", "result"}
      <3>1. PICK r \in runs(E) : x.run = r.id
        BY <1>5, <2>1, CutoffRows DEF RunsOf, ClosesOf, Of
      <3>2. r.id \in TouchedRuns(x, E)
        BY <2>1, <3>1 DEF TouchedRuns
      <3>. QED BY <1>2, <1>4, <2>1, <3>1, <3>2
    <2>2. CASE x.kind = "resolution"
      <3>1. PICK a \in Of(E, "attempt") : a.id = x.attempt /\ \E r \in runs(E) : a.run = r.id
        BY <1>5, <2>2, CutoffRows DEF RunsOf, ClosesOf, Of
      <3>2. a.run \in TouchedRuns(x, E)
        BY <2>2, <3>1 DEF TouchedRuns
      <3>. QED BY <1>2, <1>4, <2>2, <3>1, <3>2
    <2>3. CASE x.kind \in {"operation", "close", "run", "start", "terminal"}
      BY <1>1, <1>5, <2>3
    <2>4. x.kind \in {"operation", "close", "run", "start", "attempt", "result",
                      "terminal", "resolution"}
      BY <1>5, CutoffRows DEF RunsOf, ClosesOf, Of
    <2>. QED BY <2>1, <2>2, <2>3, <2>4
  <1>6. ASSUME NEW x \in D, x \in AtCutoff(E, o, n, X) PROVE x \in AtCutoff(D, o, n, X)
    <2>1. CASE x.kind \in {"operation", "close", "run", "start", "terminal"}
      BY <1>1, <1>6, <2>1
    <2>2. CASE x.kind \in {"attempt", "result"}
      <3>1. x.at <= n /\ \E r \in runs(E) : x.run = r.id
        BY <1>6, <2>2, CutoffRows DEF RunsOf, ClosesOf, Of
      <3>2. \E r \in runs(D) : x.run = r.id
        BY <1>2, <3>1
      <3>. QED BY <2>2, <3>1, <3>2, CutoffRows
    <2>3. CASE x.kind = "resolution"
      <3>1. PICK a \in Of(E, "attempt") : /\ a.id = x.attempt /\ a.at <= n
                                          /\ \E r \in runs(E) : a.run = r.id
        BY <1>6, <2>3, CutoffRows DEF RunsOf, ClosesOf, Of
      <3>2. a \in D
        <4>1. SUFFICES ASSUME a \in B \ D PROVE FALSE
          BY <3>1 DEF Of
        <4>2. a.kind = "attempt" /\ a.run \in TouchedRuns(a, E)
          BY <3>1 DEF TouchedRuns, Of
        <4>. QED BY <1>2, <1>4, <3>1, <4>1, <4>2
      <3>3. a \in Of(D, "attempt") /\ \E r \in runs(D) : a.run = r.id
        BY <1>2, <3>1, <3>2 DEF Of
      <3>4. x.at <= n /\ x \in Of(D, "resolution")
        BY <1>6, <2>3, CutoffRows DEF RunsOf, ClosesOf, Of
      <3>. QED BY <3>1, <3>3, <3>4, CutoffRows
    <2>4. x.kind \in {"operation", "close", "run", "start", "attempt", "result",
                      "terminal", "resolution"}
      BY <1>6, CutoffRows DEF RunsOf, ClosesOf, Of
    <2>. QED BY <2>1, <2>2, <2>3, <2>4
  <1>7. AtCutoff(E, o, n, X) \subseteq E
    BY CutoffRows DEF RunsOf, ClosesOf, Of
  <1>8. AtCutoff(D, o, n, X) \subseteq AtCutoff(E, o, n, X)
    BY CutoffGrows
  <1>. QED BY <1>5, <1>6, <1>7, <1>8

\* Decision d as it can be read back from the rows D.
Grounded(D, d) ==
  /\ \E p \in Of(d.manifest, "operation") : p.at <= d.at
  /\ Of(d.manifest, "close") = {} /\ Nonterminal(d.manifest) = {}
  /\ \E r \in RunsOf(D, d.operation) :
       r.id = d.run /\ r.at = d.at /\ r.predecessor = None
  /\ d.manifest \subseteq Prefix(D, d.operation, d.at, {})
  /\ Undisturbed(D, d) => VerifiedAt(D, d.operation, d.at, {d.run})

\* The rows of run i are what Prefix leaves out when i is excluded.
LEMMA ExcludedRows ==
  ASSUME NEW D, NEW o, NEW n, NEW i, NEW M, M \subseteq Prefix(D, o, n, {}),
         NEW E, M \subseteq Prefix(E, o, n, {i})
  PROVE  M \subseteq Prefix(D, o, n, {i})
  <1>. SUFFICES ASSUME NEW x \in M PROVE x \in Prefix(D, o, n, {i})
    OBVIOUS
  <1>1. x \in AtCutoff(D, o, n, {}) /\ x \in AtCutoff(E, o, n, {i})
        /\ x.kind \in {"operation", "close", "run", "start", "terminal"}
    BY DEF Prefix
  <1>2. x.kind = "run" => x.id # i
    BY <1>1, CutoffRows DEF RunsOf, ClosesOf, Of
  <1>3. x.kind \in {"start", "terminal"} => x.run # i
    BY <1>1, CutoffRows DEF RunsOf, ClosesOf, Of
  <1>4. x \in AtCutoff(D, o, n, {i})
    <2>1. CASE x.kind \in {"operation", "close"}
      BY <1>1, <2>1, CutoffRows DEF RunsOf, ClosesOf, Of
    <2>2. CASE x.kind = "run"
      <3>1. x \in RunsOf(D, o) /\ x.at <= n
        BY <1>1, <2>2, CutoffRows DEF RunsOf, ClosesOf, Of
      <3>. QED BY <1>2, <2>2, <3>1, CutoffRows
    <2>3. CASE x.kind \in {"start", "terminal"}
      <3>1. x \in D /\ x.at <= n /\ \E r \in RunsOf(D, o) : r.at <= n /\ x.run = r.id
        BY <1>1, <2>3, CutoffRows DEF RunsOf, ClosesOf, Of
      <3>. QED BY <1>3, <2>3, <3>1, CutoffRows
    <2>. QED BY <1>1, <2>1, <2>2, <2>3
  <1>. QED BY <1>1, <1>4 DEF Prefix

LEMMA GroundedStays ==
  ASSUME NEW D, NEW B, Accepts(B, D), NEW d, Grounded(D, d)
  PROVE  Grounded(D \cup B, d)
  <1>1. PICK E : E = D \cup B
    OBVIOUS
  <1>2. D \subseteq E /\ RunsOf(D, d.operation) \subseteq RunsOf(E, d.operation)
    BY <1>1 DEF RunsOf, Of
  <1>3. d.manifest \subseteq Prefix(E, d.operation, d.at, {})
    BY <1>2, CutoffGrows DEF Grounded
  <1>4. ASSUME Undisturbed(E, d) PROVE VerifiedAt(E, d.operation, d.at, {d.run})
    <2>1. Prefix(E, d.operation, d.at, {d.run}) = d.manifest
      BY <1>4 DEF Undisturbed
    <2>2. d.manifest \subseteq Prefix(D, d.operation, d.at, {d.run})
      <3>1. /\ d.manifest \subseteq Prefix(E, d.operation, d.at, {d.run})
            /\ d.manifest \subseteq Prefix(D, d.operation, d.at, {})
        BY <2>1 DEF Grounded
      <3>. QED BY <3>1, ExcludedRows
    <2>3. Prefix(D, d.operation, d.at, {d.run}) \subseteq d.manifest
      BY <1>2, <2>1, CutoffGrows
    <2>4. Prefix(D, d.operation, d.at, {d.run}) = d.manifest
      BY <2>2, <2>3
    <2>5. AtCutoff(E, d.operation, d.at, {d.run}) = AtCutoff(D, d.operation, d.at, {d.run})
      <3>1. Nonterminal(Prefix(D, d.operation, d.at, {d.run})) = {}
        BY <2>4 DEF Grounded
      <3>. QED BY <1>1, <2>1, <2>4, <3>1, CutStands
    <2>6. VerifiedAt(D, d.operation, d.at, {d.run})
      BY <2>4 DEF Grounded, Undisturbed
    <2>. QED BY <2>5, <2>6 DEF VerifiedAt
  <1>5. \E r \in RunsOf(E, d.operation) : r.id = d.run /\ r.at = d.at /\ r.predecessor = None
    BY <1>2 DEF Grounded
  <1>6. Grounded(E, d)
    BY <1>3, <1>4, <1>5 DEF Grounded
  <1>. QED BY <1>1, <1>6

-----------------------------------------------------------------------------
(* Who owns a slot *)

LEMMA OwnerExists ==
  ASSUME NEW V, V \subseteq Version, NEW p, PolicyHistory(V, p),
         NEW n \in Nat, Anchor(V, p).effective <= n
  PROVE  /\ Owner(V, p, n) \in VersionsOf(V, p) /\ Owner(V, p, n).effective <= n
         /\ \A u \in VersionsOf(V, p) : u.effective <= n => u.version <= Owner(V, p, n).version
  <1>. DEFINE Effect == {v \in VersionsOf(V, p) : v.effective <= n}
              Since == {v.effective : v \in Effect}
  <1>1. \A v \in VersionsOf(V, p) : v.version \in Nat /\ v.effective \in Nat
    BY DEF VersionsOf, Version, Times
  <1>2. PICK k \in Since : \A m \in Since : m <= k
    <2>1. Anchor(V, p) \in Effect
      BY AnchorExists
    <2>2. Since \subseteq Nat /\ Since # {} /\ \A m \in Since : m <= n
      BY <1>1, <2>1
    <2>. HIDE DEF Since
    <2>. QED BY <2>2, LargestNumber
  <1>3. PICK w \in Effect : w.effective = k
    BY <1>2
  <1>4. \A u \in VersionsOf(V, p) : u.effective <= n => u.version <= w.version
    <2>. SUFFICES ASSUME NEW u \in VersionsOf(V, p), u.effective <= n,
                         w.version < u.version
                  PROVE  FALSE
      BY <1>1, <1>3
    <2>1. w.effective < u.effective
      BY <1>3 DEF PolicyHistory
    <2>. QED BY <2>1, <1>1, <1>2, <1>3
  <1>5. \E v \in VersionsOf(V, p) :
          /\ v.effective <= n
          /\ \A u \in VersionsOf(V, p) : u.effective <= n => u.version <= v.version
    BY <1>3, <1>4
  <1>. QED BY <1>5, Zenon DEF Owner

LEMMA ScheduledLater ==
  ASSUME NEW f \in Nat, NEW s \in Nat
  PROVE  f + s * Interval \in Nat /\ f <= f + s * Interval
  <1>1. Interval \in Nat
    BY SchedulerAssumption
  <1>2. s * Interval \in Nat
    BY <1>1
  <1>. QED BY <1>2

\* The version decision d was made under.
Owned(V, d) ==
  \E v \in VersionsOf(V, d.policy) :
    /\ v.version = d.version /\ v.enabled
    /\ v.effective <= ScheduledAt(v, d.slot)
    /\ d.at >= v.first /\ d.slot = DueSlot(v, d.at)

VersionsKept(V, S) ==
  /\ \A v \in V : \E u \in S : u.policy = v.policy
  /\ \A u, v \in V : u.policy = v.policy /\ u.version = v.version => u = v

\* Unless a later version took the slot, it is still due under the same
\* version.
LEMMA OwnerStays ==
  ASSUME NEW V, V \subseteq Version, NEW S, VersionsKept(V, S), NEW d, Owned(V, d),
         PolicyHistory(V, d.policy), d.slot \in Nat,
         LET a == Anchor(V, d.policy)
         IN  ~ (Owner(V, d.policy, ScheduledAt(a, d.slot)).version > d.version)
  PROVE  LET a == Anchor(V, d.policy)
             w == Owner(V, d.policy, ScheduledAt(a, d.slot))
         IN  /\ w.version = d.version /\ w.enabled
             /\ Due(a, d.at) /\ DueSlot(a, d.at) = d.slot
  <1>. DEFINE a == Anchor(V, d.policy)
              m == ScheduledAt(a, d.slot)
              w == Owner(V, d.policy, m)
  <1>1. PICK v \in VersionsOf(V, d.policy) :
          /\ v.version = d.version /\ v.enabled
          /\ v.effective <= ScheduledAt(v, d.slot)
          /\ d.at >= v.first /\ d.slot = DueSlot(v, d.at)
    BY DEF Owned
  <1>2. a \in VersionsOf(V, d.policy) /\ a.first \in Nat
    BY AnchorExists
  <1>3. v.first = a.first
    BY <1>1, <1>2 DEF PolicyHistory
  <1>4. m \in Nat /\ a.effective <= m
    <2>1. a.effective <= a.first /\ a.effective \in Nat
      BY <1>2 DEF PolicyHistory, VersionsOf, Version, Times
    <2>2. m \in Nat /\ a.first <= m
      BY <1>2, ScheduledLater DEF ScheduledAt
    <2>. HIDE DEF m
    <2>. QED BY <2>1, <2>2, <1>2
  <1>5. w \in VersionsOf(V, d.policy) /\ v.version <= w.version
    <2>1. v.effective <= m
      BY <1>1, <1>3 DEF ScheduledAt
    <2>. HIDE DEF m, a
    <2>. QED BY <2>1, <1>1, <1>4, OwnerExists DEF a
  <1>6. w.version \in Nat /\ v.version \in Nat
    BY <1>1, <1>5 DEF VersionsOf, Version
  <1>7. w.version = v.version
    <2>. HIDE DEF w
    <2>1. ~ (w.version > d.version)
      BY DEF w
    <2>. QED BY <2>1, <1>1, <1>5, <1>6
  <1>8. w = v
    BY <1>1, <1>5, <1>7 DEF VersionsKept, VersionsOf
  <1>9. Due(a, d.at) /\ DueSlot(a, d.at) = d.slot
    BY <1>1, <1>3 DEF Due, DueSlot
  <1>. HIDE DEF w
  <1>10. w.version = d.version /\ w.enabled
    BY <1>1, <1>8
  <1>. QED BY <1>9, <1>10 DEF w

-----------------------------------------------------------------------------
(* What each decision keeps *)

RowsTimely(D) ==
  /\ \A x \in D : x.at \in Nat
  /\ \A r \in Of(D, "run") : r.deadline \in Nat /\ r.at <= r.deadline

DecisionKept(d) ==
  /\ d.run = SlotRunId[<<d.operation, d.policy, d.slot>>]
  /\ d.reason = Reason(decisions, d.policy, d.slot)
  /\ Owned(versions, d) /\ Grounded(db, d)

\* What replays and readers rely on, beside LedgerInv and HistoryInv.
GroundInv ==
  /\ VersionsKept(versions, streams) /\ RowsTimely(db)
  /\ \A d \in decisions : DecisionKept(d)

\* The reason of a slot is about the slots before it.
LEMMA ReasonRestsOnEarlier ==
  ASSUME NEW S, NEW T, NEW p, NEW slot \in Nat,
         \A d \in DecisionsOf(S, p) : d.slot < slot => d \in DecisionsOf(T, p),
         \A d \in DecisionsOf(T, p) : d.slot < slot => d \in DecisionsOf(S, p)
  PROVE  Reason(S, p, slot) = Reason(T, p, slot)
  <1>. DEFINE Used(F) == {d.slot : d \in DecisionsOf(F, p)}
              Filled(F) == 0 .. slot - 1 \subseteq Used(F)
  <1>1. \A i \in 0 .. slot - 1 : i < slot
    OBVIOUS
  <1>2. \A i \in 0 .. slot - 1 : i \in Used(S) <=> i \in Used(T)
    BY <1>1
  <1>3. Filled(S) <=> Filled(T)
    <2>. HIDE DEF Used
    <2>. QED BY <1>2
  <1>4. \A F : Reason(F, p, slot) =
          IF slot = 0 THEN "INITIAL_ELIGIBILITY"
          ELSE IF Filled(F) THEN "INTERVAL_ELIGIBILITY" ELSE "MISSED_SLOT_COALESCED"
    <2>. SUFFICES ASSUME NEW F
                  PROVE  Reason(F, p, slot) =
                           IF slot = 0 THEN "INITIAL_ELIGIBILITY"
                           ELSE IF Filled(F) THEN "INTERVAL_ELIGIBILITY"
                           ELSE "MISSED_SLOT_COALESCED"
      OBVIOUS
    <2>1. Reason(F, p, slot) =
            CASE slot = 0 -> "INITIAL_ELIGIBILITY"
              [] slot > 0 /\ Filled(F) -> "INTERVAL_ELIGIBILITY"
              [] OTHER -> "MISSED_SLOT_COALESCED"
      BY DEF Reason
    <2>. HIDE DEF Filled
    <2>. QED BY <2>1
  <1>. HIDE DEF Filled
  <1>. QED BY <1>3, <1>4

LEMMA GroundInvInit == StoreInit => GroundInv
  BY DEF StoreInit, LedgerInit, GroundInv, VersionsKept, RowsTimely, Of

\* Steps that decide nothing.
LEMMA NothingGrounded ==
  ASSUME GroundInv, decisions' = decisions, versions \subseteq versions',
         VersionsKept(versions', streams'), RowsTimely(db'),
         \A d \in decisions : Grounded(db', d)
  PROVE  GroundInv'
  <1>1. \A p : VersionsOf(versions, p) \subseteq VersionsOf(versions', p)
    BY DEF VersionsOf
  <1>2. \A d \in decisions : Owned(versions', d)
    BY <1>1 DEF GroundInv, DecisionKept, Owned
  <1>. QED BY <1>2 DEF GroundInv, DecisionKept

LEMMA AcceptedIsTimely ==
  ASSUME RowsTimely(db), NEW C, Accepts(C, db), \A x \in C : x.at \in Nat,
         \A r \in Of(C, "run") : r.deadline \in Nat
  PROVE  RowsTimely(db \cup C)
  <1>1. ASSUME NEW r \in Of(C, "run") PROVE r.at <= r.deadline
    <2>1. CASE r \in db
      BY <2>1, <1>1 DEF RowsTimely, Of
    <2>2. CASE r \notin db
      <3>1. r \in Of(db \cup C, "run") /\ r \in C \ db
        BY <1>1, <2>2 DEF Of
      <3>2. RunCreation(db \cup C, r)
        BY <3>1 DEF Accepts, Writable, CreationContext
      <3>3. r.at \in Nat /\ r.deadline \in Nat /\ r.deadline >= r.at
        BY <1>1, <3>2 DEF RunCreation, Of
      <3>. QED BY <3>3
    <2>. QED BY <2>1, <2>2
  <1>. QED BY <1>1 DEF RowsTimely, Of

LEMMA BundleKeepsGround ==
  ASSUME GroundInv, NEW B \in Bundles, StoreBundle(B)
  PROVE  GroundInv'
  <1>1. /\ Accepts(B, db) /\ db' = db \cup B /\ streams' = streams
        /\ versions' = versions /\ decisions' = decisions
    BY DEF StoreBundle, Persist
  <1>2. /\ \A x \in B : x.at \in Nat
        /\ \A r \in Of(B, "run") : r.deadline \in Nat
    BY RowFields DEF Of
  <1>3. RowsTimely(db')
    BY <1>1, <1>2, AcceptedIsTimely DEF GroundInv
  <1>4. \A d \in decisions : Grounded(db', d)
    BY <1>1, GroundedStays DEF GroundInv, DecisionKept
  <1>. QED BY <1>1, <1>3, <1>4, NothingGrounded DEF GroundInv

LEMMA AmendmentKeepsGround ==
  ASSUME GroundInv, NEW v \in Amendments, StoreAmendment(v)
  PROVE  GroundInv'
  <1>1. /\ db' = db /\ streams' = streams /\ decisions' = decisions
        /\ versions' = versions \cup {v}
        /\ \E t \in streams : t.policy = v.policy
        /\ \A u \in versions : u.policy = v.policy => u.version # v.version
    BY DEF StoreAmendment, VersionsOf
  <1>2. VersionsKept(versions', streams')
    BY <1>1 DEF GroundInv, VersionsKept
  <1>. QED BY <1>1, <1>2, NothingGrounded DEF GroundInv, DecisionKept

LEMMA PolicyKeepsGround ==
  ASSUME GroundInv, HistoryInv, NEW t \in Streamable, StorePolicy(t)
  PROVE  GroundInv'
  <1>1. /\ NewPolicy(t) \/ SamePolicy(t)
        /\ db' = db /\ decisions' = decisions
        /\ streams' = streams \cup {t} /\ versions' = versions \cup FirstVersions(t)
    BY DEF StorePolicy
  <1>2. \A x, y \in OperationOf(t) : x = y
    <2>. SUFFICES ASSUME NEW x \in OperationOf(t), NEW y \in OperationOf(t) PROVE x = y
      OBVIOUS
    <2>1. x \in db /\ y \in db /\ x.kind = y.kind /\ x.id = y.id
      BY DEF OperationOf, Of
    <2>. QED BY <2>1, KeyFacts DEF HistoryInv
  <1>3. /\ \A v \in FirstVersions(t) : v.policy = t.policy /\ v.version = 1
        /\ \A u, v \in FirstVersions(t) : u = v
    <2>1. \A v \in FirstVersions(t) : v.policy = t.policy /\ v.version = 1
      BY DEF FirstVersions
    <2>2. \A u, v \in FirstVersions(t) : u = v
      <3>. SUFFICES ASSUME NEW u \in FirstVersions(t), NEW v \in FirstVersions(t)
                    PROVE  u = v
        OBVIOUS
      <3>1. PICK x \in OperationOf(t) :
              u = [policy |-> t.policy, version |-> 1, enabled |-> TRUE,
                   effective |-> x.at, first |-> x.at]
        BY DEF FirstVersions
      <3>2. PICK y \in OperationOf(t) :
              v = [policy |-> t.policy, version |-> 1, enabled |-> TRUE,
                   effective |-> y.at, first |-> y.at]
        BY DEF FirstVersions
      <3>3. x = y
        BY <1>2
      <3>. QED BY <3>1, <3>2, <3>3
    <2>. QED BY <2>1, <2>2
  <1>4. \A u \in versions, v \in FirstVersions(t) :
          u.policy = v.policy /\ u.version = v.version => u = v
    <2>1. CASE NewPolicy(t)
      BY <2>1, <1>3 DEF NewPolicy, GroundInv, VersionsKept
    <2>2. CASE SamePolicy(t)
      BY <2>2, <1>3 DEF SamePolicy, VersionsOf
    <2>. QED BY <1>1, <2>1, <2>2
  <1>5. VersionsKept(versions', streams')
    BY <1>1, <1>3, <1>4 DEF GroundInv, VersionsKept
  <1>. QED BY <1>1, <1>5, NothingGrounded DEF GroundInv, DecisionKept

\* The run of a new decision is no part of what the decision rests on.
LEMMA OwnRunExcluded ==
  ASSUME NEW D, NEW r, r.kind = "run", NEW o, NEW n
  PROVE  AtCutoff(D \cup {r}, o, n, {r.id}) = AtCutoff(D, o, n, {r.id})
  <1>. DEFINE E == D \cup {r}
              runs(F) == {x \in RunsOf(F, o) : x.at <= n /\ x.id \notin {r.id}}
  <1>1. /\ runs(E) = runs(D) /\ ClosesOf(E, o) = ClosesOf(D, o)
        /\ \A k : k # "run" => Of(E, k) = Of(D, k)
        /\ \A x : x.kind # "run" => (x \in E <=> x \in D)
    BY DEF RunsOf, ClosesOf, Of
  <1>2. ASSUME NEW x PROVE x \in AtCutoff(E, o, n, {r.id}) <=> x \in AtCutoff(D, o, n, {r.id})
    <2>. HIDE DEF E, runs
    <2>. QED BY <1>1, CutoffRows DEF runs
  <1>3. \A F, x : x \in AtCutoff(F, o, n, {r.id}) => x \in F
    BY CutoffRows DEF RunsOf, ClosesOf, Of
  <1>. QED BY <1>2, <1>3

LEMMA DecisionKeepsGround ==
  ASSUME LedgerInv, HistoryInv, GroundInv, NEW q \in Requests, StoreDecision(q)
  PROVE  GroundInv'
  <1>. DEFINE p == q.policy
              x == RunRow(q)
  <1>0. PICK n : n = NewDecision(q)
    OBVIOUS
  <1>1. /\ StreamKnown(q) /\ Eligible(q) /\ Admissible(q)
        /\ db' = db \cup {x} /\ decisions' = decisions \cup {n}
        /\ streams' = streams /\ versions' = versions
    BY <1>0 DEF StoreDecision
  <1>2. /\ n.policy = p /\ n.operation = q.operation /\ n.slot = SlotOf(q)
        /\ n.at = q.at /\ n.run = RunOf(q) /\ n.reason = Reason(decisions, p, SlotOf(q))
        /\ n.version = OwnerOf(q).version
        /\ n.manifest = Prefix(db, q.operation, q.at, {})
    BY <1>0 DEF NewDecision
  <1>3. /\ x.kind = "run" /\ x.id = RunOf(q) /\ x.operation = q.operation
        /\ x.at = q.at /\ x.deadline = q.deadline /\ x.predecessor = None
    BY DEF RunRow
  <1>4. /\ \A d \in DecisionsOf(decisions, p) : d.slot < SlotOf(q)
        /\ Accepts({x}, db)
    BY <1>1, NewSlotIsLast DEF Admissible
  <1>5. /\ DueVersion(q) \in VersionsOf(versions, p)
        /\ DueVersion(q).first \in Nat /\ q.at \in Nat /\ q.deadline \in Nat
        /\ SlotOf(q) \in Nat /\ versions \subseteq Version
        /\ PolicyHistory(versions, p) /\ Due(DueVersion(q), q.at)
    <2>1. q.deadline \in Nat
      BY SchedulerAssumption DEF Request, Times
    <2>. QED BY <1>1, <2>1, RequestSlot DEF LedgerInv, RowsTimed, Eligible
  <1>6. \A d \in decisions : d.slot \in Nat
    BY SchedulerAssumption DEF LedgerInv, Backed
  <1>. HIDE DEF x
  <1>7. RowsTimely(db')
    <2>1. \A y \in {x} : y.at \in Nat
      BY <1>3, <1>5
    <2>2. \A r \in Of({x}, "run") : r.deadline \in Nat
      BY <1>3, <1>5 DEF Of
    <2>. QED BY <1>1, <1>4, <2>1, <2>2, AcceptedIsTimely DEF GroundInv
  <1>8. ASSUME NEW d \in decisions PROVE DecisionKept(d)'
    <2>1. DecisionKept(d)
      BY DEF GroundInv
    <2>2. Grounded(db', d)
      BY <1>1, <1>4, <2>1, GroundedStays DEF DecisionKept
    <2>3. Reason(decisions', d.policy, d.slot) = Reason(decisions, d.policy, d.slot)
      <3>1. \A c \in DecisionsOf(decisions', d.policy) :
              c.slot < d.slot => c \in DecisionsOf(decisions, d.policy)
        BY <1>1, <1>2, <1>4, <1>5, <1>6 DEF DecisionsOf
      <3>2. \A c \in DecisionsOf(decisions, d.policy) :
              c.slot < d.slot => c \in DecisionsOf(decisions', d.policy)
        BY <1>1 DEF DecisionsOf
      <3>. QED BY <3>1, <3>2, <1>6, ReasonRestsOnEarlier
    <2>. QED BY <1>1, <2>1, <2>2, <2>3 DEF DecisionKept
  <1>9. Grounded(db', n)
    <2>1. \E y \in Of(n.manifest, "operation") : y.at <= n.at
      <3>1. PICK y \in Of(db, "operation") : y.id = q.operation /\ y.at <= q.at
        BY <1>1 DEF Admissible
      <3>2. y \in AtCutoff(db, q.operation, q.at, {}) /\ y.kind = "operation"
        BY <3>1, CutoffRows DEF Of
      <3>. QED BY <1>2, <3>1, <3>2 DEF Prefix, Of
    <2>2. Of(n.manifest, "close") = {}
      <3>1. ClosesOf(db, q.operation) = {}
        BY <1>1 DEF Eligible
      <3>2. \A y \in AtCutoff(db, q.operation, q.at, {}) : y.kind # "close"
        BY <3>1, CutoffRows DEF RunsOf, ClosesOf, Of
      <3>. QED BY <1>2, <3>2 DEF Prefix, Of
    <2>3. Nonterminal(n.manifest) = {}
      BY <1>1, <1>2 DEF Admissible
    <2>4. x \in RunsOf(db', n.operation) /\ x.id = n.run /\ x.at = n.at
      BY <1>1, <1>2, <1>3 DEF RunsOf, Of
    <2>5. n.manifest \subseteq Prefix(db', n.operation, n.at, {})
      <3>1. db \subseteq db'
        BY <1>1
      <3>. QED BY <1>2, <3>1, CutoffGrows
    <2>6. VerifiedAt(db', n.operation, n.at, {n.run})
      <3>1. VerifiedAt(db, q.operation, q.at, {RunOf(q)})
        BY <1>1 DEF Eligible
      <3>2. AtCutoff(db', q.operation, q.at, {RunOf(q)})
              = AtCutoff(db, q.operation, q.at, {RunOf(q)})
        BY <1>1, <1>3, OwnRunExcluded
      <3>. QED BY <1>2, <3>1, <3>2 DEF VerifiedAt
    <2>. QED BY <1>3, <2>1, <2>2, <2>3, <2>4, <2>5, <2>6 DEF Grounded
  <1>10. Owned(versions', n)
    <2>. DEFINE a == DueVersion(q)
                m == ScheduledAt(a, SlotOf(q))
                w == OwnerOf(q)
    <2>1. a = Anchor(versions, p) /\ w = Owner(versions, p, m)
      BY DEF DueVersion, OwnerOf
    <2>2. m \in Nat /\ a.effective <= m
      <3>1. a.effective <= a.first /\ a.effective \in Nat
        BY <1>5, <2>1 DEF PolicyHistory, VersionsOf, Version, Times
      <3>2. m \in Nat /\ a.first <= m
        BY <1>5, ScheduledLater DEF ScheduledAt
      <3>. HIDE DEF m
      <3>. QED BY <3>1, <3>2, <1>5
    <2>. HIDE DEF m, a, w
    <2>3. w \in VersionsOf(versions, p) /\ w.effective <= m
      BY <1>5, <2>1, <2>2, OwnerExists
    <2>4. w.first = a.first /\ w.enabled
      BY <1>1, <1>5, <2>3 DEF a, w, PolicyHistory, Eligible
    <2>5. w.effective <= ScheduledAt(w, n.slot)
      BY <1>2, <2>3, <2>4 DEF m, ScheduledAt
    <2>6. n.at >= w.first /\ n.slot = DueSlot(w, n.at)
      BY <1>2, <1>5, <2>4 DEF a, Due, SlotOf, DueSlot
    <2>7. n.version = w.version
      BY <1>2 DEF w
    <2>. QED BY <1>1, <1>2, <2>3, <2>4, <2>5, <2>6, <2>7 DEF Owned
  <1>11. n.run = SlotRunId[<<n.operation, n.policy, n.slot>>]
    BY <1>1, <1>2, EligibleIsNamed
  <1>12. n.reason = Reason(decisions', n.policy, n.slot)
    <2>1. \A c \in DecisionsOf(decisions', p) :
            c.slot < SlotOf(q) => c \in DecisionsOf(decisions, p)
      BY <1>1, <1>2, <1>5 DEF DecisionsOf
    <2>2. \A c \in DecisionsOf(decisions, p) :
            c.slot < SlotOf(q) => c \in DecisionsOf(decisions', p)
      BY <1>1 DEF DecisionsOf
    <2>. QED BY <1>2, <1>5, <2>1, <2>2, ReasonRestsOnEarlier
  <1>13. DecisionKept(n)'
    BY <1>9, <1>10, <1>11, <1>12 DEF DecisionKept
  <1>14. VersionsKept(versions', streams')
    BY <1>1 DEF GroundInv
  <1>15. \A d \in decisions' : DecisionKept(d)'
    BY <1>1, <1>8, <1>13
  <1>. QED BY <1>7, <1>14, <1>15 DEF GroundInv

\* Everything that is known of the tables.
TablesInv == LedgerInv /\ HistoryInv /\ GroundInv

LEMMA TablesStay ==
  ASSUME TablesInv, [StoreNext]_tables
  PROVE  TablesInv'
  <1>1. LedgerInv' /\ HistoryInv'
    BY LedgerStays, HistoryStays DEF TablesInv
  <1>2. GroundInv'
    <2>1. CASE UNCHANGED tables
      <3>1. /\ db' = db /\ streams' = streams /\ versions' = versions
            /\ decisions' = decisions
        BY <2>1 DEF tables
      <3>. QED BY <3>1, NothingGrounded DEF TablesInv, GroundInv, DecisionKept
    <2>. QED BY <2>1, DecisionKeepsGround, PolicyKeepsGround, BundleKeepsGround,
                AmendmentKeepsGround DEF StoreNext, TablesInv
  <1>. QED BY <1>1, <1>2 DEF TablesInv

LEMMA TablesInvInit == StoreInit => TablesInv
  <1>1. StoreInit => HistoryInv
    BY DEF StoreInit, LedgerInit, HistoryInv, KeysUnique, Referenced
  <1>. QED BY <1>1, LedgerInvInit, GroundInvInit DEF TablesInv

LEMMA StoreKeepsTables == StoreSpec => []TablesInv
  <1>1. TablesInv /\ [StoreNext]_tables => TablesInv'
    BY TablesStay
  <1>. QED BY <1>1, TablesInvInit, PTL DEF StoreSpec

-----------------------------------------------------------------------------
(* A request that is repeated *)

\* A chain in slot order is what authenticateChain asks for.
LEMMA ChainVerifies ==
  ASSUME LedgerInv, NEW p \in Policies
  PROVE  ChainAuthentic(decisions, p)
  <1>. DEFINE C == DecisionsOf(decisions, p)
              Earlier(d) == {e.slot : e \in {c \in C : c.slot < d.slot}}
  <1>1. \A d \in C : d \in decisions /\ d.policy = p /\ d.slot \in Nat /\ d.slot # None
    BY SchedulerAssumption DEF LedgerInv, Backed, DecisionsOf
  <1>2. \A d \in C : IF Earlier(d) = {} THEN d.previous = None
                     ELSE d.previous \in Earlier(d) /\ \A i \in Earlier(d) : i <= d.previous
    BY DEF LedgerInv, ChainIsInSlotOrder
  <1>3. \A d, e \in C : d.slot = e.slot => d = e
    BY <1>1 DEF LedgerInv, SlotsUsedOnce
  <1>4. \A d, e \in C : e.slot < d.slot => d.previous # None /\ e.slot <= d.previous
    <2>. SUFFICES ASSUME NEW d \in C, NEW e \in C, e.slot < d.slot
                  PROVE  d.previous # None /\ e.slot <= d.previous
      OBVIOUS
    <2>1. e.slot \in Earlier(d)
      OBVIOUS
    <2>2. d.previous \in Earlier(d) /\ e.slot <= d.previous
      BY <1>2, <2>1
    <2>3. \E c \in C : d.previous = c.slot
      BY <2>2
    <2>. QED BY <1>1, <2>2, <2>3
  <1>5. \A d \in C : d.previous # None =>
          \E e \in C : e.slot = d.previous /\ e.slot < d.slot
    BY <1>2
  <1>. HIDE DEF C
  <1>6. \A d, e \in C : d.previous = e.previous => d = e
    <2>1. ASSUME NEW d \in C, NEW e \in C, d.previous = e.previous, d.slot < e.slot
          PROVE  FALSE
      <3>1. e.previous # None /\ d.slot <= e.previous
        BY <1>4, <2>1
      <3>2. PICK c \in C : c.slot = d.previous /\ c.slot < d.slot
        BY <1>5, <2>1, <3>1
      <3>. QED BY <1>1, <2>1, <3>1, <3>2
    <2>2. \A d, e \in C : d.previous = e.previous => d.slot = e.slot
      BY <1>1, <2>1
    <2>. QED BY <1>3, <2>2
  <1>7. ASSUME C # {} PROVE Cardinality({d \in C : d.previous = None}) = 1
    <2>. DEFINE Numbers == {d.slot : d \in C}
    <2>1. PICK n \in Numbers : \A m \in Numbers : n <= m
      <3>1. Numbers \subseteq Nat /\ Numbers # {}
        BY <1>1, <1>7
      <3>. HIDE DEF Numbers
      <3>. QED BY <3>1, LeastNumber
    <2>2. PICK g \in C : g.slot = n
      BY <2>1
    <2>3. g.previous = None
      <3>1. SUFFICES ASSUME g.previous # None PROVE FALSE
        OBVIOUS
      <3>2. PICK e \in C : e.slot < g.slot
        BY <1>5, <3>1
      <3>3. n <= e.slot
        BY <2>1
      <3>. QED BY <1>1, <2>2, <3>2, <3>3
    <2>4. {d \in C : d.previous = None} = {g}
      BY <1>6, <2>3
    <2>. QED BY <2>4, FS_Singleton
  <1>. QED BY <1>5, <1>6, <1>7 DEF C, ChainAuthentic

\* A request with the run of a decision was made when the decision was.
LEMMA SameRequest ==
  ASSUME TablesInv, NEW q \in Requests, StreamKnown(q), NEW d \in decisions,
         q.policy = d.policy, d.run = RunOf(q), RunRow(q) \in db
  PROVE  d.operation = q.operation /\ d.at = q.at /\ d.slot \in Nat
  <1>1. LedgerInv /\ HistoryInv /\ DecisionKept(d) /\ Backed(d)
    BY DEF TablesInv, GroundInv, LedgerInv
  <1>2. d.operation = q.operation
    <2>. DEFINE u == [policy |-> d.policy, operation |-> d.operation]
                w == [policy |-> q.policy, operation |-> q.operation]
    <2>1. u \in streams /\ w \in streams /\ u.policy = w.policy
      BY <1>1 DEF Backed, StreamKnown
    <2>2. u = w
      <3>. HIDE DEF u, w
      <3>. QED BY <1>1, <2>1 DEF LedgerInv, StreamsPair
    <2>. QED BY <2>2
  <1>3. PICK r \in RunsOf(db, d.operation) : r.id = d.run /\ r.at = d.at
    BY <1>1 DEF DecisionKept, Grounded
  <1>4. PICK x \in db : x = RunRow(q)
    OBVIOUS
  <1>5. x.kind = "run" /\ x.id = d.run /\ x.at = q.at
    BY <1>4 DEF RunRow
  <1>6. r \in db /\ r.kind = x.kind /\ r.id = x.id
    BY <1>3, <1>5 DEF RunsOf, Of
  <1>7. r = x
    BY <1>1, <1>6, KeyFacts DEF HistoryInv
  <1>8. d.slot \in Nat
    BY <1>1, SchedulerAssumption DEF Backed
  <1>. QED BY <1>2, <1>3, <1>5, <1>7, <1>8

\* It passes everything that comes before the lookup of the decision, and finds it.
LEMMA DecidedAgain ==
  ASSUME TablesInv, NEW q \in Requests, StreamKnown(q), NEW d \in decisions,
         q.policy = d.policy, d.run = RunOf(q), RunRow(q) \in db,
         ClosesOf(db, d.operation) = {}, Undisturbed(db, d),
         PolicyHistory(versions, d.policy), ~ Overruled(d)
  PROVE  Eligible(q) /\ Replays(q)
  <1>1. LedgerInv /\ HistoryInv /\ DecisionKept(d) /\ RowsTimely(db)
        /\ VersionsKept(versions, streams) /\ versions \subseteq Version
    BY DEF TablesInv, GroundInv, LedgerInv, RowsTimed
  <1>2. d.operation = q.operation /\ d.at = q.at /\ d.slot \in Nat
    BY SameRequest
  <1>3. /\ OwnerOf(q).version = d.version /\ OwnerOf(q).enabled
        /\ Due(DueVersion(q), q.at) /\ SlotOf(q) = d.slot
    <2>. DEFINE a == Anchor(versions, d.policy)
                w == Owner(versions, d.policy, ScheduledAt(a, d.slot))
    <2>1. w.version = d.version /\ w.enabled /\ Due(a, d.at) /\ DueSlot(a, d.at) = d.slot
      <3>1. ~ (w.version > d.version)
        BY DEF Overruled
      <3>2. Owned(versions, d)
        BY <1>1 DEF DecisionKept
      <3>. QED BY <1>1, <1>2, <3>1, <3>2, OwnerStays
    <2>2. a = DueVersion(q) /\ SlotOf(q) = DueSlot(a, d.at)
      BY <1>2 DEF DueVersion, SlotOf
    <2>3. w = OwnerOf(q)
      BY <2>1, <2>2 DEF OwnerOf
    <2>. HIDE DEF a, w
    <2>. QED BY <1>2, <2>1, <2>2, <2>3
  <1>4. ChainAuthentic(decisions, q.policy)
    <2>1. q.policy \in Policies
      BY SchedulerAssumption DEF Request
    <2>. QED BY <1>1, <2>1, ChainVerifies
  <1>5. ASSUME NEW r \in RunsOf(db, q.operation), r.id = RunOf(q)
        PROVE  OutputAuthentic(db, q.operation, q.at, r.id)
    <2>1. PICK x \in db : x = RunRow(q)
      OBVIOUS
    <2>2. /\ x.kind = "run" /\ x.id = RunOf(q) /\ x.operation = q.operation
          /\ x.at = q.at /\ x.predecessor = None
      BY <2>1 DEF RunRow
    <2>. DEFINE H == AtCutoff(db, q.operation, q.at, {})
    <2>3. ClosesOf(H, q.operation) = {}
      BY <1>2, CutoffRows DEF ClosesOf, RunsOf, Of
    <2>4. x \in RunsOf(H, q.operation)
      <3>1. x \in RunsOf(db, q.operation) /\ x.at <= q.at
        BY <1>1, <2>2 DEF RunsOf, Of, RowsTimely
      <3>2. x \in H
        BY <3>1, CutoffRows
      <3>. HIDE DEF H
      <3>. QED BY <2>2, <3>2 DEF RunsOf, Of
    <2>5. x.deadline >= x.at
      BY <1>1, <2>2 DEF RowsTimely, Of
    <2>. HIDE DEF H
    <2>6. RunCreation(H, x) /\ OperationLifecycle(H, q.operation)
      BY <2>2, <2>3, <2>5 DEF RunCreation, OperationLifecycle
    <2>. QED BY <1>5, <2>2, <2>4, <2>6 DEF OutputAuthentic, H
  <1>6. VerifiedAt(db, q.operation, q.at, {RunOf(q)})
    BY <1>1, <1>2 DEF DecisionKept, Grounded
  <1>7. Eligible(q)
    BY <1>2, <1>3, <1>4, <1>5, <1>6 DEF Eligible
  <1>8. d \in Existing(q)
    BY <1>3 DEF Existing, DecisionsOf
  <1>. QED BY <1>2, <1>3, <1>7, <1>8 DEF Replays

\* Callers have replies.
RepliesShaped == reply = [x \in Callers |-> reply[x]]

LEMMA RepliesStay ==
  ASSUME RepliesShaped, [SchedulerNext]_svars
  PROVE  RepliesShaped'
  <1>1. \/ reply' = reply
        \/ \E x, v : reply' = [reply EXCEPT ![x] = v]
    <2>1. CASE \E s \in Schedulers : (\E q \in Requests : RunNow(s, q)) \/ SchedulerStep(s)
      BY <2>1 DEF RunNow, SchedulerStep, Begin, Answer, Turned, Lock, LockStream,
                  StreamUnknown, LockOperation, Decide, Replay, Refuse, CommitCall,
                  DeadlockVictim
    <2>2. CASE \E a \in Administrators :
                 (\E t \in Streamable : CreatePolicy(a, t)) \/ AdministratorStep(a)
      BY <2>2 DEF CreatePolicy, AdministratorStep, Begin, Answer, Turned, Lock,
                  LockAuthorizedOperation, OperationMissing, InsertPolicy,
                  AuthenticatePolicy, PolicyConflict, CommitCall, DeadlockVictim
    <2>3. CASE \E x \in Callers : CallLost(x)
      BY <2>3 DEF CallLost, Answer
    <2>. QED BY <2>1, <2>2, <2>3 DEF SchedulerNext, svars, PersistBundle, Amend
  <1>. QED BY <1>1 DEF RepliesShaped

\* Only Refuse turns a decided request away.
LEMMA TurnedAwayIsRefused ==
  ASSUME CallsInv, RepliesShaped, [SchedulerNext]_svars,
         NEW s \in Schedulers, NEW d, TurnedAway(s, d)
  PROVE  Refuse(s)
  <1>1. /\ at[s] = "decide" /\ at'[s] = "idle" /\ reply'[s] = "refused"
        /\ s \in Callers /\ s \notin Administrators
        /\ at = [x \in Callers |-> at[x]] /\ reply = [x \in Callers |-> reply[x]]
    BY CallerAssumption DEF TurnedAway, Callers, CallsInv, Shaped, RepliesShaped
  <1>2. ASSUME NEW x, NEW v, at' = [at EXCEPT ![x] = v] PROVE x = s /\ v = "idle"
    BY <1>1, <1>2
  <1>3. ASSUME NEW x, Answer(x, "failed") PROVE FALSE
    <2>1. x = s
      BY <1>2, <1>3 DEF Answer
    <2>. QED BY <1>1, <1>3, <2>1 DEF Answer
  <1>4. ~ (at' = at)
    BY <1>1
  <1>5. CASE \E x \in Schedulers : (\E q \in Requests : RunNow(x, q)) \/ SchedulerStep(x)
    <2>1. PICK x \in Schedulers : (\E q \in Requests : RunNow(x, q)) \/ SchedulerStep(x)
      BY <1>5
    <2>2. CASE \E q \in Requests : RunNow(x, q)
      BY <1>2, <2>2 DEF RunNow, Begin
    <2>3. CASE LockStream(x) \/ LockOperation(x) \/ Decide(x) \/ Replay(x)
      BY <1>2, <2>3 DEF LockStream, LockOperation, Lock, Decide, Replay
    <2>4. CASE StreamUnknown(x) \/ CommitCall(x)
      BY <1>1, <1>2, <2>4 DEF StreamUnknown, CommitCall, Turned, Answer
    <2>5. CASE Refuse(x)
      BY <1>2, <2>5 DEF Refuse, Turned, Answer
    <2>6. CASE DeadlockVictim(x)
      BY <1>3, <2>6 DEF DeadlockVictim
    <2>. QED BY <2>1, <2>2, <2>3, <2>4, <2>5, <2>6 DEF SchedulerStep
  <1>6. CASE \E a \in Administrators :
               (\E t \in Streamable : CreatePolicy(a, t)) \/ AdministratorStep(a)
    <2>1. PICK a \in Administrators :
            (\E t \in Streamable : CreatePolicy(a, t)) \/ AdministratorStep(a)
      BY <1>6
    <2>2. \E v : at' = [at EXCEPT ![a] = v]
      BY <2>1 DEF CreatePolicy, AdministratorStep, Begin, Answer, Turned, Lock,
                  LockAuthorizedOperation, OperationMissing, InsertPolicy,
                  AuthenticatePolicy, PolicyConflict, CommitCall, DeadlockVictim
    <2>. QED BY <1>1, <1>2, <2>1, <2>2
  <1>7. CASE \E x \in Callers : CallLost(x)
    BY <1>3, <1>7 DEF CallLost
  <1>8. CASE \/ \E B \in Bundles : PersistBundle(B)
             \/ \E v \in Amendments : Amend(v)
    BY <1>4, <1>8 DEF PersistBundle, Amend
  <1>9. CASE UNCHANGED svars
    BY <1>4, <1>9 DEF svars
  <1>. QED BY <1>5, <1>6, <1>7, <1>8, <1>9 DEF SchedulerNext

\* RetriesAreIdempotent: createSchedulerRunNow answers a repeated request with
\* the decision it made the first time.  What it checks before it looks for the
\* decision passes again: later rows add nothing to the history the decision
\* rested on, unless they were dated into it, and the version that was due is
\* still the version, unless a later one took the slot.
THEOREM RetriesFindTheirDecision == SchedulerSpec => RetriesAreIdempotent
  <1>. DEFINE P == \A s \in Schedulers, d \in decisions :
                     TurnedAway(s, d) =>
                       \/ ClosesOf(db, d.operation) # {}
                       \/ ~Undisturbed(db, d)
                       \/ ~PolicyHistory(versions, d.policy)
                       \/ Overruled(d)
  <1>1. ASSUME SchedulerInv, TablesInv, RepliesShaped, [SchedulerNext]_svars PROVE P
    <2>. SUFFICES ASSUME NEW s \in Schedulers, NEW d \in decisions, TurnedAway(s, d),
                         ClosesOf(db, d.operation) = {}, Undisturbed(db, d),
                         PolicyHistory(versions, d.policy), ~ Overruled(d)
                  PROVE  FALSE
      OBVIOUS
    <2>1. CallsInv
      BY <1>1 DEF SchedulerInv
    <2>2. Refuse(s)
      BY <1>1, <2>1, TurnedAwayIsRefused
    <2>3. PICK q : q = call[s]
      OBVIOUS
    <2>4. q \in Requests /\ StreamKnown(q)
      BY <2>1, <2>2, <2>3 DEF Refuse, CallsInv, SchedulerStands
    <2>5. q.policy = d.policy /\ d.run = RunOf(q) /\ RunRow(q) \in db
      BY <2>3 DEF TurnedAway
    <2>6. Eligible(q) /\ Replays(q)
      BY <1>1, <2>4, <2>5, DecidedAgain
    <2>. QED BY <2>2, <2>3, <2>6 DEF Refuse
  <1>2. SchedulerInit => RepliesShaped
    BY DEF SchedulerInit, RepliesShaped
  <1>3. RepliesShaped /\ [SchedulerNext]_svars => RepliesShaped'
    BY RepliesStay
  <1>4. SchedulerSpec => []TablesInv
    BY TransactionsAreAtomic, StoreKeepsTables, PTL DEF DecisionsAreAtomic
  <1>5. SchedulerInv /\ TablesInv /\ RepliesShaped /\ [SchedulerNext]_svars => P
    BY <1>1
  <1>6. SchedulerInv /\ TablesInv /\ RepliesShaped /\ [SchedulerNext]_svars => [P]_svars
    BY <1>5
  <1>. HIDE DEF P
  <1>7. SchedulerSpec => [][P]_svars
    BY <1>2, <1>3, <1>4, <1>6, SchedulerKeepsInv, PTL DEF SchedulerSpec
  <1>. QED BY <1>7 DEF RetriesAreIdempotent, P

-----------------------------------------------------------------------------
(* A history that verifies at one time verifies at an earlier one *)

\* No run of operation o is over its deadline at time c and has not ended.
NoneLate(D, o, c) ==
  \A r \in RunsOf(D, o) :
    r.at <= c /\ r.deadline <= c => \E t \in TerminalsOf(D, r.id) : t.at <= c

EndsFollowStarts(D, o) ==
  \A r \in RunsOf(D, o) :
    \A s \in StartsOf(D, r.id), t \in TerminalsOf(D, r.id) : s.at <= t.at

\* X are the runs created at time c by decisions.
LEMMA CutEarlier ==
  ASSUME NEW D, RowsTimely(D), NEW o, NEW n \in Nat, NEW c \in Nat, c <= n, NEW i, NEW X,
         VerifiedAt(D, o, n, {i}), ClosesOf(AtCutoff(D, o, n, {i}), o) = {},
         \A r \in RunsOf(D, o) : r.at <= c /\ r.id \notin X => r.id # i,
         \A r \in RunsOf(D, o) : r.id \in X => r.at >= c,
         NoneLate(D, o, c), EndsFollowStarts(D, o)
  PROVE  VerifiedAt(D, o, c, X)
  <1>1. PICK H : H = AtCutoff(D, o, n, {i})
    OBVIOUS
  <1>2. PICK G : G = AtCutoff(D, o, c, X)
    OBVIOUS
  <1>. DEFINE runs == {r \in RunsOf(D, o) : r.at <= c /\ r.id \notin X}
              wide == {r \in RunsOf(D, o) : r.at <= n /\ r.id \notin {i}}
  <1>3. \A x \in D : x.at \in Nat
    BY DEF RowsTimely
  <1>4. \A x : x \in G <=>
          \/ x \in Of(D, "operation") /\ x.id = o
          \/ x \in ClosesOf(D, o) /\ x.at <= c
          \/ x \in runs
          \/ /\ x \in D /\ x.kind \in {"start", "attempt", "result", "terminal"}
             /\ x.at <= c /\ \E r \in runs : x.run = r.id
          \/ /\ x \in Of(D, "resolution") /\ x.at <= c
             /\ \E a \in Of(D, "attempt") : /\ a.id = x.attempt /\ a.at <= c
                                            /\ \E r \in runs : a.run = r.id
    BY <1>2, CutoffRows
  <1>5. runs \subseteq wide /\ \A x \in D : x.at <= c => x.at <= n
    BY <1>3 DEF RunsOf, Of
  <1>6. \A x : x \in H <=>
          \/ x \in Of(D, "operation") /\ x.id = o
          \/ x \in ClosesOf(D, o) /\ x.at <= n
          \/ x \in wide
          \/ /\ x \in D /\ x.kind \in {"start", "attempt", "result", "terminal"}
             /\ x.at <= n /\ \E r \in wide : x.run = r.id
          \/ /\ x \in Of(D, "resolution") /\ x.at <= n
             /\ \E a \in Of(D, "attempt") : /\ a.id = x.attempt /\ a.at <= n
                                            /\ \E r \in wide : a.run = r.id
    BY <1>1, CutoffRows
  <1>. HIDE DEF runs, wide
  <1>7. G \subseteq H
    BY <1>4, <1>5, <1>6 DEF ClosesOf, Of
  <1>8. H \subseteq D
    BY <1>6 DEF ClosesOf, RunsOf, Of, wide
  <1>9. \A r \in RunsOf(G, o) : r \in runs /\ r \in RunsOf(H, o) /\ r \in RunsOf(D, o)
    BY <1>4, <1>7, <1>8 DEF RunsOf, ClosesOf, Of
  \* What of the wider cut lies in the narrower one.
  <1>10. \A x \in H : x.kind = "run" /\ x.at <= c /\ x.id \notin X => x \in G
    <2>1. \A x \in H : x.kind = "run" => x \in wide
      BY <1>6 DEF ClosesOf, Of
    <2>2. \A x \in runs : x \in G
      BY <1>4
    <2>. QED BY <2>1, <2>2 DEF wide, runs
  <1>11. \A x \in D, r \in runs :
           x.kind \in {"start", "attempt", "result", "terminal"}
           /\ x.at <= c /\ x.run = r.id => x \in G
    <2>. SUFFICES ASSUME NEW x \in D, NEW r \in runs,
                         x.kind \in {"start", "attempt", "result", "terminal"},
                         x.at <= c, x.run = r.id
                  PROVE  x \in G
      OBVIOUS
    <2>1. \E y \in runs : x.run = y.id
      OBVIOUS
    <2>. QED BY <1>4, <2>1
  <1>12. \A a \in D, s \in D, r \in runs :
           a.kind = "attempt" /\ a.at <= c /\ a.run = r.id
           /\ s.kind = "resolution" /\ s.at <= c /\ s.attempt = a.id => s \in G
    <2>. SUFFICES ASSUME NEW a \in D, NEW s \in D, NEW r \in runs,
                         a.kind = "attempt", a.at <= c, a.run = r.id,
                         s.kind = "resolution", s.at <= c, s.attempt = a.id
                  PROVE  s \in G
      OBVIOUS
    <2>1. a \in Of(D, "attempt") /\ s \in Of(D, "resolution")
      BY DEF Of
    <2>2. \E b \in Of(D, "attempt") : /\ b.id = s.attempt /\ b.at <= c
                                      /\ \E y \in runs : b.run = y.id
      BY <2>1
    <2>. QED BY <1>4, <2>1, <2>2
  \* All rows of the narrower cut lie before c.
  <1>13. \A x \in G : x.kind # "operation" => x.at \in Nat /\ x.at <= c
    BY <1>3, <1>4 DEF ClosesOf, Of, runs, RunsOf
  <1>14. /\ HistoryVerifies(H, o, {r.id : r \in RunsOf(H, o)})
         /\ DeadlinesVerifiedAt(H, o, n)
    BY <1>1 DEF VerifiedAt
  <1>15. ASSUME NEW r \in RunsOf(H, o)
         PROVE  /\ RunCreation(H, r)
                /\ \A a \in AttemptsOf(H, r.id), s \in Of(H, "resolution") :
                     s.attempt = a.id => AttemptResolution(a, s)
                /\ \A t \in TerminalsOf(H, r.id) :
                     /\ TerminalResolution(H, r, t)
                     /\ StartsOf(H, r.id) # {} /\ StartedOnce(H, r)
                     /\ DeadlineEvidence(H, r, t)
    BY <1>14 DEF HistoryVerifies, DeadlinesVerifiedAt
  <1>16. ClosesOf(G, o) = {}
    BY <1>1, <1>7 DEF ClosesOf, Of
  <1>17. ASSUME NEW r \in RunsOf(H, o), NEW t \in TerminalsOf(H, r.id)
         PROVE  \E s \in StartsOf(H, r.id) : r.at <= s.at /\ s.at <= t.at
    <2>1. PICK s \in StartsOf(H, r.id) : s.at >= r.at
      BY <1>15, <1>17 DEF StartedOnce
    <2>2. r \in RunsOf(D, o) /\ s \in StartsOf(D, r.id) /\ t \in TerminalsOf(D, r.id)
      BY <1>8 DEF RunsOf, StartsOf, TerminalsOf, Of
    <2>3. r.at \in Nat /\ s.at \in Nat /\ t.at \in Nat
      BY <1>3, <2>2 DEF RunsOf, StartsOf, TerminalsOf, Of
    <2>. QED BY <2>1, <2>2, <2>3 DEF EndsFollowStarts
  <1>18. ASSUME NEW r \in RunsOf(G, o) PROVE RunCreation(G, r)
    <2>1. r \in RunsOf(H, o) /\ r.at \in Nat /\ r.at <= c /\ r.operation = o
      BY <1>9, <1>13 DEF RunsOf, Of
    <2>2. RunCreation(H, r)
      BY <1>15, <2>1
    <2>3. ASSUME r.predecessor # None
          PROVE  \E p \in RunsOf(G, r.operation) :
                   p.id = r.predecessor /\ \E t \in TerminalsOf(G, p.id) : t.at < r.at
      <3>1. PICK p \in RunsOf(H, o) :
              p.id = r.predecessor /\ \E t \in TerminalsOf(H, p.id) : t.at < r.at
        BY <2>1, <2>2, <2>3 DEF RunCreation
      <3>2. PICK t \in TerminalsOf(H, p.id) : t.at < r.at
        BY <3>1
      <3>3. PICK s \in StartsOf(H, p.id) : p.at <= s.at /\ s.at <= t.at
        BY <1>17, <3>2
      <3>4. /\ p \in D /\ p \in H /\ p.kind = "run" /\ p \in RunsOf(D, o)
            /\ t \in D /\ t.kind = "terminal" /\ t.run = p.id /\ s \in D
        BY <1>8, <3>2, <3>3 DEF RunsOf, StartsOf, TerminalsOf, Of
      <3>5. p.at < c /\ t.at <= c
        BY <1>3, <2>1, <3>2, <3>3, <3>4
      <3>6. p.id \notin X
        BY <1>3, <3>4, <3>5
      <3>7. p \in RunsOf(G, o) /\ p \in runs
        <4>1. p \in G
          BY <1>3, <1>10, <3>4, <3>5, <3>6
        <4>2. p \in RunsOf(G, o)
          BY <3>4, <4>1 DEF RunsOf, Of
        <4>. QED BY <1>9, <4>2
      <3>8. t \in TerminalsOf(G, p.id)
        BY <1>11, <3>4, <3>5, <3>7 DEF TerminalsOf, Of
      <3>. QED BY <2>1, <3>1, <3>2, <3>7, <3>8
    <2>. QED BY <1>16, <2>1, <2>2, <2>3 DEF RunCreation
  <1>19. ASSUME NEW r \in RunsOf(G, o), NEW a \in AttemptsOf(G, r.id)
         PROVE  /\ a \in AttemptsOf(H, r.id) /\ a \in D /\ a.at \in Nat /\ a.at <= c
                /\ a.kind = "attempt" /\ a.run = r.id /\ r \in runs
    BY <1>7, <1>8, <1>9, <1>13, <1>19 DEF AttemptsOf, Of
  <1>20. ASSUME NEW r \in RunsOf(G, o), NEW a \in AttemptsOf(G, r.id), FirstOrRetry(H, a)
         PROVE  FirstOrRetry(G, a)
    <2>1. CASE a.predecessor = None
      BY <1>20, <2>1 DEF FirstOrRetry
    <2>2. CASE a.predecessor # None
      <3>1. a.run = r.id /\ a.at \in Nat /\ a.at <= c /\ r \in runs
        BY <1>19
      <3>2. PICK p \in AttemptsOf(H, r.id) :
              /\ p.id = a.predecessor /\ a.number = p.number + 1
              /\ \E s \in ResolutionsOf(H, p.id) :
                   s.outcome = "FAILED" /\ AttemptResolution(p, s) /\ a.at > s.at
        BY <1>20, <2>2, <3>1 DEF FirstOrRetry, Retry
      <3>3. PICK s \in ResolutionsOf(H, p.id) :
              s.outcome = "FAILED" /\ AttemptResolution(p, s) /\ a.at > s.at
        BY <3>2
      <3>4. /\ p \in D /\ p.kind = "attempt" /\ p.run = r.id
            /\ s \in D /\ s.kind = "resolution" /\ s.attempt = p.id
        BY <1>8, <3>2, <3>3 DEF AttemptsOf, ResolutionsOf, Of
      <3>5. s.at >= p.at /\ s.at \in Nat /\ p.at \in Nat
        BY <1>3, <3>3, <3>4 DEF AttemptResolution
      <3>6. p.at <= c /\ s.at <= c
        BY <3>1, <3>3, <3>5
      <3>7. p \in AttemptsOf(G, r.id)
        BY <1>11, <3>1, <3>4, <3>6 DEF AttemptsOf, Of
      <3>8. s \in ResolutionsOf(G, p.id)
        BY <1>12, <3>1, <3>4, <3>6 DEF ResolutionsOf, Of
      <3>. QED BY <2>2, <3>1, <3>2, <3>3, <3>7, <3>8 DEF FirstOrRetry, Retry
    <2>. QED BY <2>1, <2>2
  <1>21. ASSUME NEW r \in RunsOf(G, o), NEW t \in TerminalsOf(G, r.id)
         PROVE  /\ TerminalResolution(G, r, t)
                /\ StartsOf(G, r.id) # {} /\ StartedOnce(G, r)
                /\ DeadlineEvidence(G, r, t)
    <2>1. /\ r \in RunsOf(H, o) /\ r \in runs /\ t \in TerminalsOf(H, r.id)
          /\ t.at \in Nat /\ t.at <= c /\ t.run = r.id
      BY <1>7, <1>9, <1>13 DEF TerminalsOf, Of
    <2>2. /\ TerminalResolution(H, r, t) /\ StartedOnce(H, r) /\ DeadlineEvidence(H, r, t)
      BY <1>15, <2>1
    <2>3. AttemptSet(G, r.id, t.at)
      <3>. SUFFICES ASSUME NEW a \in AttemptsOf(G, r.id)
                    PROVE  /\ FirstOrRetry(G, a)
                           /\ a.predecessor # None => a.at < t.at
                           /\ \E s \in ResolutionsOf(G, a.id) :
                                AttemptResolution(a, s) /\ s.at <= t.at
        BY DEF AttemptSet
      <3>1. /\ a \in AttemptsOf(H, r.id) /\ a \in D /\ a.at <= c
            /\ a.kind = "attempt" /\ a.run = r.id
        BY <1>19
      <3>2. /\ FirstOrRetry(H, a) /\ (a.predecessor # None => a.at < t.at)
            /\ \E s \in ResolutionsOf(H, a.id) : AttemptResolution(a, s) /\ s.at <= t.at
        BY <2>2, <3>1 DEF TerminalResolution, AttemptSet
      <3>3. PICK s \in ResolutionsOf(H, a.id) : AttemptResolution(a, s) /\ s.at <= t.at
        BY <3>2
      <3>4. s \in D /\ s.kind = "resolution" /\ s.attempt = a.id /\ s.at \in Nat
        BY <1>3, <1>8, <3>3 DEF ResolutionsOf, Of
      <3>5. s.at <= c
        BY <2>1, <3>3, <3>4
      <3>6. s \in ResolutionsOf(G, a.id)
        BY <1>12, <2>1, <3>1, <3>4, <3>5 DEF ResolutionsOf, Of
      <3>. QED BY <1>20, <3>2, <3>3, <3>6
    <2>4. ResultsOf(G, r.id) = ResultsOf(H, r.id)
      <3>1. \A x \in ResultsOf(G, r.id) : x \in ResultsOf(H, r.id)
        BY <1>7 DEF ResultsOf, Of
      <3>2. ASSUME NEW x \in ResultsOf(H, r.id) PROVE x \in ResultsOf(G, r.id)
        <4>1. x \in D /\ x.kind = "result" /\ x.run = r.id /\ x.at \in Nat /\ x.at <= t.at
          BY <1>3, <1>8, <2>2 DEF ResultsOf, Of, TerminalResolution
        <4>2. x.at <= c
          BY <2>1, <4>1
        <4>. QED BY <1>11, <2>1, <4>1, <4>2 DEF ResultsOf, Of
      <3>. QED BY <3>1, <3>2
    <2>5. TerminalResolution(G, r, t)
      BY <2>1, <2>2, <2>3, <2>4 DEF TerminalResolution, Manifest
    <2>6. StartsOf(G, r.id) # {}
      <3>1. PICK s \in StartsOf(H, r.id) : s.at <= t.at
        BY <1>17, <2>1
      <3>2. s \in D /\ s.kind = "start" /\ s.run = r.id /\ s.at \in Nat
        BY <1>3, <1>8, <3>1 DEF StartsOf, Of
      <3>3. s.at <= c
        BY <2>1, <3>1, <3>2
      <3>. QED BY <1>11, <2>1, <3>2, <3>3 DEF StartsOf, Of
    <2>7. StartedOnce(G, r)
      BY <1>7, <2>2 DEF StartedOnce, StartsOf, Of
    <2>8. DeadlineEvidence(G, r, t)
      BY <1>7, <2>2 DEF DeadlineEvidence, AttemptsOf, Of
    <2>. QED BY <2>5, <2>6, <2>7, <2>8
  <1>22. ASSUME NEW r \in RunsOf(G, o), TerminalsOf(G, r.id) = {}
         PROVE  /\ c < r.deadline
                /\ \A a \in AttemptsOf(G, r.id) :
                     /\ a.at < r.deadline
                     /\ \A s \in ResolutionsOf(G, a.id) : s.at < r.deadline
    <2>1. r \in runs /\ r \in RunsOf(D, o) /\ r.at <= c /\ r.deadline \in Nat
      BY <1>9, <1>13 DEF RunsOf, Of, RowsTimely
    <2>2. c < r.deadline
      <3>1. SUFFICES ASSUME r.deadline <= c PROVE FALSE
        BY <2>1
      <3>2. PICK t \in TerminalsOf(D, r.id) : t.at <= c
        BY <2>1, <3>1 DEF NoneLate
      <3>3. t \in D /\ t.kind = "terminal" /\ t.run = r.id
        BY <3>2 DEF TerminalsOf, Of
      <3>4. t \in TerminalsOf(G, r.id)
        BY <1>11, <2>1, <3>2, <3>3 DEF TerminalsOf, Of
      <3>. QED BY <1>22, <3>4
    <2>3. \A a \in AttemptsOf(G, r.id) : a.at \in Nat /\ a.at <= c
      BY <1>13 DEF AttemptsOf, Of
    <2>4. \A a : \A s \in ResolutionsOf(G, a) : s.at \in Nat /\ s.at <= c
      BY <1>13 DEF ResolutionsOf, Of
    <2>. QED BY <2>1, <2>2, <2>3, <2>4
  <1>23. \A r \in RunsOf(G, o) : \A a \in AttemptsOf(G, r.id), s \in Of(G, "resolution") :
           s.attempt = a.id => AttemptResolution(a, s)
    <2>1. \A r \in RunsOf(G, o) : r \in RunsOf(H, o)
      BY <1>9
    <2>2. Of(G, "resolution") \subseteq Of(H, "resolution")
      BY <1>7 DEF Of
    <2>. QED BY <1>15, <1>19, <2>1, <2>2
  <1>24. HistoryVerifies(G, o, {r.id : r \in RunsOf(G, o)})
    <2>1. OperationLifecycle(G, o)
      BY <1>16 DEF OperationLifecycle
    <2>. QED BY <1>18, <1>21, <1>23, <2>1 DEF HistoryVerifies
  <1>25. DeadlinesVerifiedAt(G, o, c)
    BY <1>21, <1>22 DEF DeadlinesVerifiedAt
  <1>. QED BY <1>2, <1>24, <1>25 DEF VerifiedAt

-----------------------------------------------------------------------------
(* What a reader has read *)

DecisionsRead(S, t) ==
  /\ S \subseteq decisions /\ ChainAuthentic(S, t.policy)
  /\ \A d \in S :
       /\ d.policy = t.policy /\ d.operation = t.operation
       /\ d.reason = Reason({e \in S : e.slot < d.slot}, d.policy, d.slot)

HistoryRead(D, S) == KeysUnique(D) /\ RowsTimely(D) /\ \A d \in S : Grounded(D, d)

ReaderHas(point, t, w) ==
  /\ point \in {"policies", "decisions", "graph", "snapshot", "judge"} => t \in streams
  /\ point \in {"decisions", "graph", "snapshot", "judge"} =>
       PolicyHistory(w.versions, t.policy)
  /\ point \in {"graph", "snapshot", "judge"} => DecisionsRead(w.decisions, t)
  /\ point = "judge" => HistoryRead(w.history, w.decisions)

ReadersShaped ==
  /\ target = [r \in Readers |-> target[r]] /\ reading = [r \in Readers |-> reading[r]]
  /\ view = [r \in Readers |-> view[r]] /\ verdict = [r \in Readers |-> verdict[r]]
  /\ \A r \in Readers : /\ view[r] = [versions  |-> view[r].versions,
                                      decisions |-> view[r].decisions,
                                      history   |-> view[r].history]
                        /\ reading[r] # "idle" => verdict[r] = "none"

\* The inductive invariant of the readers.
ReadersInv ==
  ReadersShaped /\ \A r \in Readers : ReaderHas(reading[r], target[r], view[r])

\* What a reader has stays good: no step takes a row away.
LEMMA ReadStays ==
  ASSUME streams \subseteq streams', decisions \subseteq decisions',
         NEW point, NEW t, NEW w, ReaderHas(point, t, w)
  PROVE  ReaderHas(point, t, w)'
  BY DEF ReaderHas, DecisionsRead

LEMMA TablesGrow ==
  ASSUME [StoreNext]_tables
  PROVE  streams \subseteq streams' /\ decisions \subseteq decisions'
  BY DEF StoreNext, StoreDecision, StorePolicy, StoreBundle, StoreAmendment, tables

\* A step of reader r alone.
LEMMA ReaderStepKeeps ==
  ASSUME ReadersInv, UNCHANGED tables, NEW r \in Readers,
         NEW point, NEW t, NEW w, NEW v,
         target' = [target EXCEPT ![r] = t], reading' = [reading EXCEPT ![r] = point],
         view' = [view EXCEPT ![r] = w], verdict' = [verdict EXCEPT ![r] = v],
         w = [versions |-> w.versions, decisions |-> w.decisions, history |-> w.history],
         point # "idle" => v = "none", ReaderHas(point, t, w)
  PROVE  ReadersInv'
  <1>1. streams' = streams /\ decisions' = decisions
    BY DEF tables
  <1>2. /\ target'[r] = t /\ reading'[r] = point /\ view'[r] = w /\ verdict'[r] = v
        /\ \A x \in Readers \ {r} :
             /\ target'[x] = target[x] /\ reading'[x] = reading[x]
             /\ view'[x] = view[x] /\ verdict'[x] = verdict[x]
    BY DEF ReadersInv, ReadersShaped
  <1>3. ReadersShaped'
    <2>1. /\ target' = [x \in Readers |-> target'[x]]
          /\ reading' = [x \in Readers |-> reading'[x]]
          /\ view' = [x \in Readers |-> view'[x]]
          /\ verdict' = [x \in Readers |-> verdict'[x]]
      BY DEF ReadersInv, ReadersShaped
    <2>2. ASSUME NEW x \in Readers
          PROVE  /\ view'[x] = [versions  |-> view'[x].versions,
                                decisions |-> view'[x].decisions,
                                history   |-> view'[x].history]
                 /\ reading'[x] # "idle" => verdict'[x] = "none"
      <3>1. CASE x = r
        BY <1>2, <3>1
      <3>2. CASE x # r
        BY <1>2, <3>2 DEF ReadersInv, ReadersShaped
      <3>. QED BY <3>1, <3>2
    <2>. QED BY <2>1, <2>2 DEF ReadersShaped
  <1>4. ASSUME NEW x \in Readers PROVE ReaderHas(reading[x], target[x], view[x])'
    <2>1. PICK i, j, k : i = reading'[x] /\ j = target'[x] /\ k = view'[x]
      OBVIOUS
    <2>2. ReaderHas(i, j, k)
      BY <1>2, <2>1 DEF ReadersInv
    <2>3. ReaderHas(i, j, k)'
      BY <1>1, <2>2, ReadStays
    <2>. QED BY <2>1, <2>3 DEF ReaderHas, DecisionsRead
  <1>. QED BY <1>3, <1>4 DEF ReadersInv

\* What the queries of a reader return.
LEMMA QueriesReturn ==
  ASSUME TablesInv, NEW t \in streams
  PROVE  /\ PolicyHistory(versions, t.policy) =>
              PolicyHistory(VersionsOf(versions, t.policy), t.policy)
         /\ DecisionsRead(DecisionsOf(decisions, t.policy), t)
         /\ KeysUnique(db) /\ RowsTimely(db) /\ \A d \in decisions : Grounded(db, d)
  <1>1. LedgerInv /\ HistoryInv /\ GroundInv
    BY DEF TablesInv
  <1>2. PolicyHistory(versions, t.policy) =>
          PolicyHistory(VersionsOf(versions, t.policy), t.policy)
    <2>1. VersionsOf(VersionsOf(versions, t.policy), t.policy) = VersionsOf(versions, t.policy)
      BY DEF VersionsOf
    <2>. QED BY <2>1 DEF PolicyHistory, Anchor
  <1>3. DecisionsRead(DecisionsOf(decisions, t.policy), t)
    <2>1. PICK S : S = DecisionsOf(decisions, t.policy)
      OBVIOUS
    <2>2. S \subseteq decisions /\ DecisionsOf(S, t.policy) = S
          /\ \A d \in S : d.policy = t.policy /\ d \in decisions
      BY <2>1 DEF DecisionsOf
    <2>3. ChainAuthentic(S, t.policy)
      <3>1. t.policy \in Policies
        BY <1>1 DEF LedgerInv, RowsTimed, Stream
      <3>2. ChainAuthentic(decisions, t.policy)
        BY <1>1, <3>1, ChainVerifies
      <3>. QED BY <2>1, <2>2, <3>2 DEF ChainAuthentic
    <2>4. ASSUME NEW d \in S
          PROVE  /\ d.operation = t.operation
                 /\ d.reason = Reason({e \in S : e.slot < d.slot}, d.policy, d.slot)
      <3>1. /\ d.policy = t.policy /\ d \in decisions /\ d.slot \in Nat
            /\ [policy |-> d.policy, operation |-> d.operation] \in streams
            /\ d.reason = Reason(decisions, d.policy, d.slot)
        BY <1>1, <2>2, SchedulerAssumption DEF LedgerInv, Backed, GroundInv, DecisionKept
      <3>2. d.operation = t.operation
        <4>1. PICK u \in streams : u = [policy |-> d.policy, operation |-> d.operation]
          BY <3>1
        <4>2. u = t
          BY <1>1, <3>1, <4>1 DEF LedgerInv, StreamsPair
        <4>. QED BY <4>1, <4>2
      <3>3. PICK T : T = {e \in S : e.slot < d.slot}
        OBVIOUS
      <3>4. Reason(decisions, d.policy, d.slot) = Reason(T, d.policy, d.slot)
        <4>1. /\ \A e \in DecisionsOf(decisions, d.policy) :
                   e.slot < d.slot => e \in DecisionsOf(T, d.policy)
              /\ \A e \in DecisionsOf(T, d.policy) :
                   e.slot < d.slot => e \in DecisionsOf(decisions, d.policy)
          BY <2>1, <3>1, <3>3 DEF DecisionsOf
        <4>. QED BY <3>1, <4>1, ReasonRestsOnEarlier
      <3>. QED BY <3>1, <3>2, <3>3, <3>4
    <2>5. DecisionsRead(S, t)
      BY <2>2, <2>3, <2>4 DEF DecisionsRead
    <2>. QED BY <2>1, <2>5
  <1>4. KeysUnique(db) /\ RowsTimely(db) /\ \A d \in decisions : Grounded(db, d)
    BY <1>1 DEF HistoryInv, GroundInv, DecisionKept
  <1>. QED BY <1>2, <1>3, <1>4

LEMMA ReadersInvInit == ReaderInit => ReadersInv
  BY DEF ReaderInit, ReadersInv, ReadersShaped, ReaderHas, Empty

\* A reader that goes on to its next statement, or back to idle.
LEMMA ReadKeeps ==
  ASSUME ReadersInv, NEW r \in Readers, NEW from, NEW point, NEW w, from # "idle",
         Read(r, from, point, w), ReaderHas(point, target[r], w),
         w = [versions |-> w.versions, decisions |-> w.decisions, history |-> w.history]
  PROVE  ReadersInv'
  <1>1. verdict[r] = "none" /\ UNCHANGED tables
        /\ reading' = [reading EXCEPT ![r] = point] /\ view' = [view EXCEPT ![r] = w]
        /\ target' = [target EXCEPT ![r] = target[r]]
        /\ verdict' = [verdict EXCEPT ![r] = "none"]
    BY DEF Read, ReadersInv, ReadersShaped
  <1>2. PICK t : t = target[r]
    OBVIOUS
  <1>3. target' = [target EXCEPT ![r] = t] /\ ReaderHas(point, t, w)
    BY <1>1, <1>2
  <1>. QED BY <1>1, <1>3, ReaderStepKeeps

LEMMA CloseKeeps ==
  ASSUME ReadersInv, NEW r \in Readers, NEW answer, Close(r, answer)
  PROVE  ReadersInv'
  <1>1. Empty = [versions |-> Empty.versions, decisions |-> Empty.decisions,
                 history |-> Empty.history]
    BY DEF Empty
  <1>2. ReaderHas("idle", None, Empty)
    BY DEF ReaderHas
  <1>. QED BY <1>1, <1>2, ReaderStepKeeps DEF Close

LEMMA ReadersStay ==
  ASSUME TablesInv, ReadersInv, [ReaderNext]_rvars
  PROVE  ReadersInv'
  <1>1. CASE [StoreNext]_tables /\ UNCHANGED <<target, reading, view, verdict>>
    <2>1. streams \subseteq streams' /\ decisions \subseteq decisions'
      BY <1>1, TablesGrow
    <2>2. ASSUME NEW x \in Readers PROVE ReaderHas(reading[x], target[x], view[x])'
      <3>1. PICK i, j, k : i = reading[x] /\ j = target[x] /\ k = view[x]
        OBVIOUS
      <3>2. ReaderHas(i, j, k)'
        BY <2>1, <3>1, ReadStays DEF ReadersInv
      <3>. QED BY <1>1, <3>1, <3>2 DEF ReaderHas, DecisionsRead
    <2>. QED BY <1>1, <2>2 DEF ReadersInv, ReadersShaped
  <1>2. ASSUME NEW r \in Readers, NEW t \in Streamable, Verification(r, t)
        PROVE  ReadersInv'
    <2>1. PICK w : w = view[r]
      OBVIOUS
    <2>2. /\ view' = [view EXCEPT ![r] = w] /\ ReaderHas("connect", t, w)
          /\ w = [versions |-> w.versions, decisions |-> w.decisions, history |-> w.history]
      BY <1>2, <2>1 DEF Verification, ReadersInv, ReadersShaped, ReaderHas
    <2>. QED BY <1>2, <2>2, ReaderStepKeeps DEF Verification
  <1>3. ASSUME NEW r \in Readers, ReaderStep(r) PROVE ReadersInv'
    <2>1. PICK t : t = target[r]
      OBVIOUS
    <2>2. PICK w : w = view[r]
      OBVIOUS
    <2>3. /\ ReaderHas(reading[r], t, w)
          /\ w = [versions |-> w.versions, decisions |-> w.decisions, history |-> w.history]
      BY <2>1, <2>2 DEF ReadersInv, ReadersShaped
    <2>4. ASSUME NEW from, NEW point, NEW u, from # "idle", Read(r, from, point, u),
                 ReaderHas(point, t, u),
                 u = [versions |-> u.versions, decisions |-> u.decisions,
                      history |-> u.history]
          PROVE  ReadersInv'
      BY <2>1, <2>4, ReadKeeps
    <2>5. CASE Connect(r)
      <3>1. ReaderHas("stream", t, Empty)
        BY DEF ReaderHas
      <3>. QED BY <2>4, <2>5, <3>1 DEF Connect, Empty
    <2>6. CASE ReadStream(r)
      <3>1. ReaderHas("policies", t, w)
        BY <2>1, <2>6 DEF ReadStream, ReaderHas
      <3>. QED BY <2>2, <2>3, <2>4, <2>6, <3>1 DEF ReadStream
    <2>7. CASE LoadPolicies(r)
      <3>1. PICK u : u = [w EXCEPT !.versions = VersionsOf(versions, t.policy)]
        OBVIOUS
      <3>2. /\ u.versions = VersionsOf(versions, t.policy)
            /\ u = [versions |-> u.versions, decisions |-> u.decisions, history |-> u.history]
        BY <2>3, <3>1
      <3>3. t \in streams
        BY <2>3, <2>7 DEF LoadPolicies, Read, ReaderHas
      <3>4. ReaderHas("decisions", t, u)
        BY <2>1, <2>7, <3>2, <3>3, QueriesReturn DEF LoadPolicies, ReaderHas
      <3>. QED BY <2>1, <2>2, <2>4, <2>7, <3>1, <3>2, <3>4 DEF LoadPolicies
    <2>8. CASE LoadDecisions(r)
      <3>1. PICK u : u = [w EXCEPT !.decisions = DecisionsOf(decisions, t.policy)]
        OBVIOUS
      <3>2. /\ u.decisions = DecisionsOf(decisions, t.policy) /\ u.versions = w.versions
            /\ u = [versions |-> u.versions, decisions |-> u.decisions, history |-> u.history]
        BY <2>3, <3>1
      <3>3. t \in streams /\ PolicyHistory(w.versions, t.policy)
        BY <2>3, <2>8 DEF LoadDecisions, Read, ReaderHas
      <3>4. ReaderHas("graph", t, u)
        BY <3>2, <3>3, QueriesReturn DEF ReaderHas
      <3>. QED BY <2>1, <2>2, <2>4, <2>8, <3>1, <3>2, <3>4 DEF LoadDecisions
    <2>9. CASE ConnectAgain(r)
      <3>1. ReaderHas("snapshot", t, w)
        BY <2>3, <2>9 DEF ConnectAgain, Read, ReaderHas
      <3>. QED BY <2>2, <2>3, <2>4, <2>9, <3>1 DEF ConnectAgain
    <2>10. CASE LoadGraph(r)
      <3>1. PICK u : u = [w EXCEPT !.history = db]
        OBVIOUS
      <3>2. /\ u.decisions = w.decisions /\ u.versions = w.versions /\ u.history = db
            /\ u = [versions |-> u.versions, decisions |-> u.decisions, history |-> u.history]
        BY <2>3, <3>1
      <3>3. /\ t \in streams /\ PolicyHistory(w.versions, t.policy)
            /\ DecisionsRead(w.decisions, t)
        BY <2>3, <2>10 DEF LoadGraph, Read, ReaderHas
      <3>4. HistoryRead(db, w.decisions)
        BY <3>3, QueriesReturn DEF HistoryRead, DecisionsRead
      <3>5. ReaderHas("judge", t, u)
        BY <3>2, <3>3, <3>4 DEF ReaderHas
      <3>. QED BY <2>2, <2>4, <2>10, <3>1, <3>2, <3>5 DEF LoadGraph
    <2>11. CASE StreamMissing(r) \/ PoliciesInvalid(r) \/ Judge(r)
      BY <2>11, CloseKeeps DEF StreamMissing, PoliciesInvalid, Judge
    <2>. QED BY <1>3, <2>5, <2>6, <2>7, <2>8, <2>9, <2>10, <2>11 DEF ReaderStep
  <1>4. ASSUME NEW r \in Readers, ReaderLost(r) PROVE ReadersInv'
    BY <1>4, CloseKeeps DEF ReaderLost
  <1>5. CASE UNCHANGED rvars
    BY <1>1, <1>5 DEF rvars, tables
  <1>. QED BY <1>1, <1>2, <1>3, <1>4, <1>5 DEF ReaderNext

-----------------------------------------------------------------------------
(* The judgement *)

\* What OutputAuthentic asks of a decision that was made at its cut: the run is
\* there, and no closure.
LEMMA OutputStands ==
  ASSUME NEW D, RowsTimely(D), NEW d, Grounded(D, d), Undisturbed(D, d)
  PROVE  /\ OutputAuthentic(D, d.operation, d.at, d.run)
         /\ ClosesOf(AtCutoff(D, d.operation, d.at, {d.run}), d.operation) = {}
  <1>1. PICK G : G = AtCutoff(D, d.operation, d.at, {d.run})
    OBVIOUS
  <1>2. PICK H : H = AtCutoff(D, d.operation, d.at, {})
    OBVIOUS
  <1>3. ClosesOf(G, d.operation) = {}
    <2>1. \A x \in G : x.kind # "close"
      BY <1>1 DEF Undisturbed, Prefix, Grounded, Of
    <2>. QED BY <2>1 DEF ClosesOf, Of
  <1>4. ClosesOf(H, d.operation) = {}
    <2>1. \A x : x.kind = "close" => (x \in H <=> x \in G)
      BY <1>1, <1>2, CutoffRows DEF RunsOf, ClosesOf, Of
    <2>. QED BY <1>3, <2>1 DEF ClosesOf, Of
  <1>5. PICK r \in RunsOf(D, d.operation) : r.id = d.run /\ r.at = d.at /\ r.predecessor = None
    BY DEF Grounded
  <1>6. r.at \in Nat /\ r.deadline \in Nat /\ r.at <= r.deadline
        /\ r.kind = "run" /\ r.operation = d.operation
    BY <1>5 DEF RowsTimely, RunsOf, Of
  <1>7. r \in RunsOf(H, d.operation)
    <2>1. r \in H
      BY <1>2, <1>5, <1>6, CutoffRows
    <2>. QED BY <1>6, <2>1 DEF RunsOf, Of
  <1>8. RunCreation(H, r) /\ OperationLifecycle(H, d.operation)
    BY <1>4, <1>5, <1>6 DEF RunCreation, OperationLifecycle
  <1>. QED BY <1>1, <1>2, <1>3, <1>5, <1>7, <1>8 DEF OutputAuthentic

\* What reader r has, and the exceptions of WrittenHistoryVerifies.
Unspoilt(w, t) ==
  /\ w.decisions # {} /\ DecisionsRead(w.decisions, t)
  /\ PolicyHistory(w.versions, t.policy) /\ HistoryRead(w.history, w.decisions)
  /\ w.versions = VersionsOf(versions, t.policy)
  /\ \A d \in w.decisions : Undisturbed(w.history, d) /\ ~ Overruled(d)
  /\ NoneLate(w.history, t.operation, Anchor(w.versions, t.policy).effective)
  /\ EndsFollowStarts(w.history, t.operation)

\* The versions a reader has are judged like those of the tables.
LEMMA SameVersions ==
  ASSUME TablesInv, NEW w, NEW t, Unspoilt(w, t)
  PROVE  /\ PolicyHistory(versions, t.policy)
         /\ Anchor(w.versions, t.policy) = Anchor(versions, t.policy)
         /\ \A n : Owner(w.versions, t.policy, n) = Owner(versions, t.policy, n)
  <1>1. VersionsOf(w.versions, t.policy) = VersionsOf(versions, t.policy)
    BY DEF Unspoilt, VersionsOf
  <1>2. Anchor(w.versions, t.policy) = Anchor(versions, t.policy)
    BY <1>1 DEF Anchor
  <1>3. \A n : Owner(w.versions, t.policy, n) = Owner(versions, t.policy, n)
    BY <1>1 DEF Owner
  <1>4. PolicyHistory(versions, t.policy)
    BY <1>1, <1>2 DEF Unspoilt, PolicyHistory
  <1>. QED BY <1>2, <1>3, <1>4

LEMMA DecisionsVerify ==
  ASSUME TablesInv, NEW w, NEW t, Unspoilt(w, t), NEW d \in w.decisions
  PROVE  /\ DecisionVerifies(w, d)
         /\ d.at \in Nat /\ Due(Anchor(w.versions, t.policy), d.at)
  <1>1. /\ d \in decisions /\ d.policy = t.policy /\ d.operation = t.operation
        /\ d.reason = Reason({e \in w.decisions : e.slot < d.slot}, d.policy, d.slot)
        /\ Grounded(w.history, d) /\ RowsTimely(w.history)
        /\ Undisturbed(w.history, d) /\ ~ Overruled(d)
    BY DEF Unspoilt, DecisionsRead, HistoryRead
  <1>2. /\ LedgerInv /\ DecisionKept(d) /\ Backed(d) /\ VersionsKept(versions, streams)
        /\ versions \subseteq Version /\ d.slot \in Nat /\ d.at \in Nat
    BY <1>1, SchedulerAssumption DEF TablesInv, GroundInv, LedgerInv, Backed, RowsTimed
  <1>3. PICK a : a = Anchor(w.versions, d.policy)
    OBVIOUS
  <1>4. PICK v : v = Owner(w.versions, d.policy, ScheduledAt(a, d.slot))
    OBVIOUS
  <1>5. v.version = d.version /\ v.enabled /\ Due(a, d.at) /\ DueSlot(a, d.at) = d.slot
    <2>1. PolicyHistory(versions, d.policy) /\ a = Anchor(versions, d.policy)
          /\ v = Owner(versions, d.policy, ScheduledAt(a, d.slot))
      BY <1>1, <1>3, <1>4, SameVersions
    <2>2. ~ (Owner(versions, d.policy,
                   ScheduledAt(Anchor(versions, d.policy), d.slot)).version > d.version)
      BY <1>1 DEF Overruled
    <2>3. Owned(versions, d)
      BY <1>2 DEF DecisionKept
    <2>4. LET b == Anchor(versions, d.policy)
              u == Owner(versions, d.policy, ScheduledAt(b, d.slot))
          IN  u.version = d.version /\ u.enabled /\ Due(b, d.at) /\ DueSlot(b, d.at) = d.slot
      BY <1>2, <2>1, <2>2, <2>3, OwnerStays
    <2>. QED BY <2>1, <2>4
  <1>6. Prefix(w.history, d.operation, d.at, {d.run}) = d.manifest
    BY <1>1 DEF Undisturbed
  <1>7. /\ OutputAuthentic(w.history, d.operation, d.at, d.run)
        /\ VerifiedAt(w.history, d.operation, d.at, {d.run})
    BY <1>1, OutputStands DEF Grounded
  <1>8. /\ \E p \in Of(d.manifest, "operation") : p.at <= d.at
        /\ Of(d.manifest, "close") = {} /\ Nonterminal(d.manifest) = {}
    BY <1>1 DEF Grounded
  <1>9. d.run = SlotRunId[<<d.operation, d.policy, d.slot>>]
    BY <1>2 DEF DecisionKept
  <1>10. DecisionVerifies(w, d)
    BY <1>1, <1>3, <1>4, <1>5, <1>6, <1>7, <1>8, <1>9 DEF DecisionVerifies
  <1>. QED BY <1>1, <1>2, <1>3, <1>5, <1>10

LEMMA BeginningVerifies ==
  ASSUME TablesInv, NEW w, NEW t, Unspoilt(w, t)
  PROVE  InitialPastVerifies(w, t)
  <1>1. PICK a : a = Anchor(w.versions, t.policy)
    OBVIOUS
  <1>2. PICK c : c = a.effective
    OBVIOUS
  <1>3. PICK O : O = {d \in w.decisions : d.at = c}
    OBVIOUS
  <1>4. PICK D : D = w.history
    OBVIOUS
  <1>5. PICK o : o = t.operation
    OBVIOUS
  <1>6. RowsTimely(D) /\ KeysUnique(D)
    BY <1>4 DEF Unspoilt, HistoryRead
  <1>7. ASSUME NEW d \in w.decisions
        PROVE  /\ d.operation = o /\ Grounded(D, d) /\ Undisturbed(D, d)
               /\ d.at \in Nat /\ d.at >= a.first
               /\ OutputAuthentic(D, o, d.at, d.run)
               /\ ClosesOf(AtCutoff(D, o, d.at, {d.run}), o) = {}
               /\ VerifiedAt(D, o, d.at, {d.run})
    <2>1. d.operation = o /\ Grounded(D, d) /\ Undisturbed(D, d)
      BY <1>4, <1>5 DEF Unspoilt, DecisionsRead, HistoryRead
    <2>2. d.at \in Nat /\ d.at >= a.first
      BY <1>1, DecisionsVerify DEF Due
    <2>. QED BY <1>6, <2>1, <2>2, OutputStands DEF Grounded
  <1>8. c \in Nat /\ a.first \in Nat /\ c <= a.first
    <2>1. /\ PolicyHistory(versions, t.policy) /\ a = Anchor(versions, t.policy)
          /\ versions \subseteq Version
      BY <1>1, SameVersions DEF TablesInv, LedgerInv, RowsTimed
    <2>2. a \in VersionsOf(versions, t.policy) /\ a.first \in Nat
      BY <2>1, AnchorExists
    <2>3. a.effective \in Nat
      BY <2>1, <2>2 DEF VersionsOf, Version, Times
    <2>4. a.effective <= a.first
      BY <2>1 DEF PolicyHistory
    <2>. QED BY <1>2, <2>2, <2>3, <2>4
  <1>9. PICK d \in w.decisions : TRUE
    BY DEF Unspoilt
  \* The runs of decisions are those their decisions created.
  <1>10. ASSUME NEW e \in w.decisions, NEW r \in RunsOf(D, o), r.id = e.run
         PROVE  r.at = e.at
    <2>1. PICK x \in RunsOf(D, o) : x.id = e.run /\ x.at = e.at
      BY <1>7 DEF Grounded
    <2>2. x \in D /\ r \in D /\ x.kind = r.kind /\ x.id = r.id
      BY <1>10, <2>1 DEF RunsOf, Of
    <2>3. x = r
      BY <1>6, <2>2, KeyFacts
    <2>. QED BY <2>1, <2>3
  <1>11. PICK X : X = {e.run : e \in O}
    OBVIOUS
  <1>12. VerifiedAt(D, o, c, X)
    <2>1. c <= d.at /\ d.at \in Nat
      <3>1. d.at \in Nat /\ d.at >= a.first
        BY <1>7
      <3>. QED BY <1>8, <3>1
    <2>2. \A r \in RunsOf(D, o) : r.at \in Nat
      BY <1>6 DEF RowsTimely, RunsOf, Of
    <2>3. \A r \in RunsOf(D, o) : r.at <= c /\ r.id \notin X => r.id # d.run
      <3>. SUFFICES ASSUME NEW r \in RunsOf(D, o), r.at <= c, r.id = d.run
                    PROVE  r.id \in X
        OBVIOUS
      <3>1. r.at = d.at
        BY <1>10
      <3>2. d \in O
        BY <1>3, <1>8, <2>1, <2>2, <3>1
      <3>. QED BY <1>11, <3>2
    <2>4. \A r \in RunsOf(D, o) : r.id \in X => r.at >= c
      <3>. SUFFICES ASSUME NEW r \in RunsOf(D, o), r.id \in X PROVE r.at >= c
        OBVIOUS
      <3>1. PICK e \in O : r.id = e.run
        BY <1>11
      <3>2. r.at = c
        BY <1>3, <1>10, <3>1
      <3>. QED BY <1>8, <3>2
    <2>5. NoneLate(D, o, c) /\ EndsFollowStarts(D, o)
      BY <1>1, <1>2, <1>4, <1>5 DEF Unspoilt
    <2>6. /\ VerifiedAt(D, o, d.at, {d.run})
          /\ ClosesOf(AtCutoff(D, o, d.at, {d.run}), o) = {}
      BY <1>7
    <2>. QED BY <1>6, <1>8, <2>1, <2>3, <2>4, <2>5, <2>6, CutEarlier
  <1>13. \A e \in O : OutputAuthentic(D, o, c, e.run)
    BY <1>3, <1>7
  <1>. QED BY <1>1, <1>2, <1>3, <1>4, <1>5, <1>11, <1>12, <1>13 DEF InitialPastVerifies

LEMMA UnspoiltVerifies ==
  ASSUME TablesInv, NEW w, NEW t, Unspoilt(w, t)
  PROVE  Verifies(w, t)
  BY DecisionsVerify, BeginningVerifies DEF Verifies, Unspoilt, DecisionsRead

\* Only Judge rejects a reader that has everything.
LEMMA OnlyJudgeRejects ==
  ASSUME ReadersInv, [ReaderNext]_rvars, NEW r \in Readers, Rejects(r)
  PROVE  Judge(r) /\ ~ Verifies(view[r], target[r])
  <1>1. /\ reading[r] = "judge" /\ verdict'[r] = "rejected" /\ verdict[r] = "none"
        /\ verdict = [x \in Readers |-> verdict[x]]
    BY DEF Rejects, ReadersInv, ReadersShaped
  <1>2. ~ (verdict' = verdict)
    BY <1>1
  <1>3. ASSUME NEW x \in Readers, NEW v, verdict' = [verdict EXCEPT ![x] = v]
        PROVE  x = r /\ v = "rejected"
    BY <1>1, <1>3
  <1>4. PICK x \in Readers :
          (\E t \in Streamable : Verification(x, t)) \/ ReaderStep(x) \/ ReaderLost(x)
    BY <1>2 DEF ReaderNext, rvars
  <1>5. ASSUME NEW v, verdict' = [verdict EXCEPT ![x] = v], v # "rejected" PROVE FALSE
    BY <1>3, <1>5
  <1>6. CASE (\E t \in Streamable : Verification(x, t)) \/ ReaderLost(x)
    BY <1>5, <1>6 DEF Verification, ReaderLost, Close
  <1>7. CASE \/ Connect(x) \/ ReadStream(x) \/ LoadPolicies(x) \/ LoadDecisions(x)
             \/ ConnectAgain(x) \/ LoadGraph(x)
    BY <1>2, <1>7 DEF Connect, ReadStream, LoadPolicies, LoadDecisions, ConnectAgain,
                      LoadGraph, Read
  <1>8. CASE StreamMissing(x) \/ PoliciesInvalid(x)
    <2>1. x = r
      BY <1>3, <1>8 DEF StreamMissing, PoliciesInvalid, Close
    <2>. QED BY <1>1, <1>8, <2>1 DEF StreamMissing, PoliciesInvalid
  <1>9. CASE Judge(x)
    <2>1. verdict' = [verdict EXCEPT ![x] =
                        IF Verifies(view[x], target[x]) THEN "verified" ELSE "rejected"]
      BY <1>9 DEF Judge, Close
    <2>2. x = r /\ (IF Verifies(view[x], target[x]) THEN "verified" ELSE "rejected") = "rejected"
      <3>1. PICK v : v = IF Verifies(view[x], target[x]) THEN "verified" ELSE "rejected"
        OBVIOUS
      <3>2. x = r /\ v = "rejected"
        BY <1>3, <2>1, <3>1
      <3>. QED BY <3>1, <3>2
    <2>3. ~ Verifies(view[x], target[x])
      BY <2>2
    <2>. QED BY <1>9, <2>2, <2>3
  <1>. QED BY <1>4, <1>6, <1>7, <1>8, <1>9 DEF ReaderStep

\* WrittenHistoryVerifies: verifySchedulerHistory accepts what the scheduler
\* wrote, though it reads the policy, the decisions and the history one after
\* the other while others write.  What it reads of each decision stays true
\* (GroundInv), the slots before a decision it has were all there when it read,
\* and a history that verifies when a decision is made verifies at the earlier
\* moment its policy took effect, but for the exceptions the property names.
THEOREM ReadersAcceptWhatIsWritten == ReaderSpec => WrittenHistoryVerifies
  <1>. DEFINE P == \A r \in Readers :
                     Rejects(r) /\ view[r].decisions # {} =>
                       PastRewritten(r) \/ PoliciesMoved(r) \/ LateAtTheStart(r)
                         \/ EndedUnstarted(r)
  <1>1. ASSUME TablesInv, ReadersInv, [ReaderNext]_rvars PROVE P
    <2>. SUFFICES ASSUME NEW r \in Readers, Rejects(r), view[r].decisions # {},
                         ~ PastRewritten(r), ~ PoliciesMoved(r),
                         ~ LateAtTheStart(r), ~ EndedUnstarted(r)
                  PROVE  FALSE
      OBVIOUS
    <2>1. PICK w : w = view[r]
      OBVIOUS
    <2>2. PICK t : t = target[r]
      OBVIOUS
    <2>3. reading[r] = "judge" /\ ~ Verifies(w, t)
      BY <1>1, <2>1, <2>2, OnlyJudgeRejects DEF Judge
    <2>4. /\ PolicyHistory(w.versions, t.policy) /\ DecisionsRead(w.decisions, t)
          /\ HistoryRead(w.history, w.decisions)
      BY <1>1, <2>1, <2>2, <2>3 DEF ReadersInv, ReaderHas
    <2>5. /\ w.decisions # {} /\ w.versions = VersionsOf(versions, t.policy)
          /\ \A d \in w.decisions : Undisturbed(w.history, d) /\ ~ Overruled(d)
      BY <2>1, <2>2 DEF PastRewritten, PoliciesMoved
    <2>6. PICK D : D = w.history
      OBVIOUS
    <2>7. PICK o : o = t.operation
      OBVIOUS
    <2>8. PICK c : c = Anchor(w.versions, t.policy).effective
      OBVIOUS
    <2>9. \A x \in D : x.at \in Nat
      BY <2>4, <2>6 DEF HistoryRead, RowsTimely
    <2>10. c \in Nat
      <3>1. VersionsOf(w.versions, t.policy) = VersionsOf(versions, t.policy)
        BY <2>5 DEF VersionsOf
      <3>2. w.versions \subseteq Version
        BY <1>1, <2>5 DEF TablesInv, LedgerInv, RowsTimed, VersionsOf
      <3>3. Anchor(w.versions, t.policy) \in VersionsOf(w.versions, t.policy)
        BY <2>4, <3>2, AnchorExists
      <3>. QED BY <2>8, <3>2, <3>3 DEF VersionsOf, Version, Times
    <2>11. NoneLate(D, o, c)
      <3>. SUFFICES ASSUME NEW x \in RunsOf(D, o), x.at <= c, x.deadline <= c
                    PROVE  \E e \in TerminalsOf(D, x.id) : e.at <= c
        BY DEF NoneLate
      <3>1. PICK e \in TerminalsOf(D, x.id) : ~ (e.at > c)
        BY <2>1, <2>2, <2>6, <2>7, <2>8 DEF LateAtTheStart
      <3>2. e.at \in Nat
        BY <2>9 DEF TerminalsOf, Of
      <3>. QED BY <2>10, <3>1, <3>2
    <2>12. EndsFollowStarts(D, o)
      <3>. SUFFICES ASSUME NEW x \in RunsOf(D, o), NEW s \in StartsOf(D, x.id),
                           NEW e \in TerminalsOf(D, x.id)
                    PROVE  s.at <= e.at
        BY DEF EndsFollowStarts
      <3>1. ~ (e.at < s.at)
        BY <2>1, <2>2, <2>6, <2>7 DEF EndedUnstarted
      <3>2. s.at \in Nat /\ e.at \in Nat
        BY <2>9 DEF StartsOf, TerminalsOf, Of
      <3>. QED BY <3>1, <3>2
    <2>13. Unspoilt(w, t)
      BY <2>4, <2>5, <2>6, <2>7, <2>8, <2>11, <2>12 DEF Unspoilt
    <2>. QED BY <1>1, <2>3, <2>13, UnspoiltVerifies
  <1>2. [ReaderNext]_rvars => [StoreNext]_tables
    BY DEF ReaderNext, ReaderStep, ReaderLost, Verification, Connect, ReadStream,
           StreamMissing, LoadPolicies, PoliciesInvalid, LoadDecisions, ConnectAgain,
           LoadGraph, Judge, Close, Read, rvars, tables
  <1>3. ReaderInit => StoreInit
    BY DEF ReaderInit
  <1>4. ReaderSpec => []TablesInv
    BY <1>2, <1>3, StoreKeepsTables, PTL DEF ReaderSpec, StoreSpec
  <1>5. TablesInv /\ ReadersInv /\ [ReaderNext]_rvars => ReadersInv'
    BY ReadersStay
  <1>6. TablesInv /\ ReadersInv /\ [ReaderNext]_rvars => [P]_rvars
    BY <1>1
  <1>. HIDE DEF P
  <1>7. ReaderSpec => [][P]_rvars
    BY <1>4, <1>5, <1>6, ReadersInvInit, PTL DEF ReaderSpec
  <1>. QED BY <1>7 DEF WrittenHistoryVerifies, P

===============================================================================
