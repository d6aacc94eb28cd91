--------------------------- MODULE DerivationsProofs ---------------------------
(***************************************************************************)
(* Theorems about Derivations, for any calls, rows, builds and losses.     *)
(*                                                                         *)
(* OutputsReproduce compares committed derivations, and is not inductive:  *)
(* the invariant follows a derivation from the rule that its snapshot has  *)
(* to its commit, and says where every rule with an id comes from.         *)
(* OnlyAssessmentsDeadlock needs to know where in a call a transaction may *)
(* hold a lock (Inv).                                                      *)
(*                                                                         *)
(* That no constraint fires, that reads are closed and that derivations    *)
(* read back as written rests on what each call has read, checked and      *)
(* inserted at each point, and on what is stored: the rows of a call came  *)
(* together and whole, and a state of the evidence makes sense by itself   *)
(* (Evidence).                                                             *)
(***************************************************************************)
EXTENDS Derivations, NaturalsInduction, WellFoundedInduction, FiniteSetTheorems, TLAPS

Shapes ==
  /\ DOMAIN work = Callers /\ DOMAIN held = Callers /\ DOMAIN shared = Callers
  /\ DOMAIN todo = Callers /\ DOMAIN pc = Callers /\ DOMAIN req = Callers
  /\ DOMAIN snap = Callers

\* Outside these points a transaction holds no lock of that kind.
LocksOf(c) ==
  /\ held[c] # {} => pc[c] \in {"response", "comparisons", "insert", "compare", "commit"}
  /\ shared[c] # {} => pc[c] \in {"compare", "evidence inputs", "inputs", "commit"}
  /\ todo[c] # {} => pc[c] \in {"compare", "evidence inputs"}

Locks == \A c \in Callers : LocksOf(c)

\* A rule is an old one, or the one its call asked for.
Known(r) ==
  \/ r \in Stored
  \/ r.id \in Callers /\ pc[r.id] # "idle" /\ r = Rule(r.id, req[r.id])

RulesAreKnown ==
  /\ \A r \in Of(db, "rule") : Known(r)
  /\ \A c \in Callers : \A r \in Of(work[c], "rule") : Known(r)

\* A snapshot is old, never invented.
SnapshotIsPast == \A c \in Callers : snap[c] \subseteq db

\* A derivation has the form its rule, which is committed, gives it.
Made(x) == \E r \in Of(db, "rule") : MadeBy(x, r)

DerivationsAreMade ==
  /\ \A x \in Of(db, "derivation") : Made(x)
  /\ \A c \in Callers : \A x \in Of(work[c], "derivation") : Made(x)

Inv == Shapes /\ Locks /\ RulesAreKnown /\ SnapshotIsPast /\ DerivationsAreMade

-----------------------------------------------------------------------------
LEMMA InitInv == Init => Inv
  <1>. SUFFICES ASSUME Init PROVE Inv
    OBVIOUS
  <1>. USE DEF Init, EvidenceInit
  <1>1. Shapes
    BY DEF Shapes
  <1>2. Locks
    BY DEF Locks, LocksOf
  <1>3. RulesAreKnown
    BY DEF RulesAreKnown, Known, Of
  <1>4. SnapshotIsPast
    BY DEF SnapshotIsPast
  <1>5. DerivationsAreMade
    BY StoredAssumption DEF DerivationsAreMade, Made, Of
  <1>. QED
    BY <1>1, <1>2, <1>3, <1>4, <1>5 DEF Inv

-----------------------------------------------------------------------------
(* Steps.  All that the invariant needs to know of a step of one caller.   *)

\* Only its own entries change.
Local(c) ==
  /\ Shapes'
  /\ \A d \in Callers \ {c} :
       /\ work'[d] = work[d] /\ held'[d] = held[d] /\ shared'[d] = shared[d]
       /\ todo'[d] = todo[d] /\ pc'[d] = pc[d] /\ req'[d] = req[d]
       /\ snap'[d] = snap[d]

\* Its call begins once.
Begun(c) == pc'[c] # "idle" /\ (pc[c] # "idle" => req'[c] = req[c])

\* What is committed was in work, and what is in work is of the form that the
\* invariant asks for.
Grows(c) ==
  /\ db' = db \/ db' = db \cup work[c]
  /\ \A r \in Of(work'[c], "rule") :
       r \in work[c] \/ (pc[c] # "idle" /\ r.id = c /\ r = Rule(c, req[c]))
  /\ \A x \in Of(work'[c], "derivation") : x \in work[c] \/ Made(x)
  /\ snap'[c] = snap[c] \/ snap'[c] = db

Steps(c) == Local(c) /\ Begun(c) /\ Grows(c) /\ LocksOf(c)'

\* A step that says so keeps the invariant.
LEMMA StepsKeepInv ==
  ASSUME Inv, NEW c \in Callers, Steps(c)
  PROVE  Inv'
  <1>. USE DEF Inv
  <1>1. Shapes'
    BY DEF Steps, Local
  <1>2. Locks'
    BY DEF Steps, Local, Locks, LocksOf
  <1>3. db \subseteq db' /\ db' \subseteq db \cup work[c]
    BY DEF Steps, Grows
  <1>4. \A r : Known(r) => Known(r)'
    BY DEF Known, Rule, Steps, Local, Begun
  <1>5. \A r \in Of(work'[c], "rule") : Known(r)'
    <2>. SUFFICES ASSUME NEW r \in Of(work'[c], "rule") PROVE Known(r)'
      OBVIOUS
    <2>1. CASE r \in work[c]
      BY <2>1, <1>4 DEF RulesAreKnown, Of
    <2>2. CASE pc[c] # "idle" /\ r.id = c /\ r = Rule(c, req[c])
      BY <2>2, <1>4 DEF Known
    <2>. QED
      BY <2>1, <2>2 DEF Steps, Grows
  <1>6. RulesAreKnown'
    <2>1. \A r \in Of(db', "rule") : Known(r)'
      BY <1>3, <1>4 DEF RulesAreKnown, Of
    <2>2. \A d \in Callers : \A r \in Of(work'[d], "rule") : Known(r)'
      BY <1>4, <1>5 DEF RulesAreKnown, Steps, Local
    <2>. QED
      BY <2>1, <2>2 DEF RulesAreKnown, Of
  <1>7. SnapshotIsPast'
    BY <1>3 DEF SnapshotIsPast, Steps, Local, Grows
  <1>8. \A x : Made(x) => Made(x)'
    BY <1>3 DEF Made, MadeBy, Of
  <1>9. DerivationsAreMade'
    <2>1. \A x \in Of(db', "derivation") : Made(x)
      BY <1>3 DEF DerivationsAreMade, Of
    <2>2. \A d \in Callers : \A x \in Of(work'[d], "derivation") : Made(x)
      BY DEF DerivationsAreMade, Of, Steps, Local, Grows
    <2>. QED
      BY <1>8, <2>1, <2>2 DEF DerivationsAreMade, Of
  <1>. QED
    BY <1>1, <1>2, <1>6, <1>7, <1>9

-----------------------------------------------------------------------------
(* Every action does                                                       *)

LEMMA EndedSteps ==
  ASSUME Inv, NEW c \in Callers, NEW kind, Ended(c, kind),
         db' = db \/ db' = db \cup work[c], snap' = snap
  PROVE  Steps(c)
  BY DEF Inv, Shapes, Ended, Steps, Local, Begun, Grows, LocksOf, Of

LEMMA BeginSteps ==
  ASSUME Inv, NEW c \in Callers, NEW q, NEW point, Begin(c, q, point),
         point # "idle", snap' = snap
  PROVE  Steps(c)
  BY DEF Inv, Shapes, Locks, Begin, Steps, Local, Begun, Grows, LocksOf, Of

LEMMA GotoSteps ==
  ASSUME Inv, NEW c \in Callers, NEW point, Goto(c, point), point # "idle",
         snap' = snap \/ snap' = [snap EXCEPT ![c] = db],
         held[c] = {} /\ shared[c] = {} /\ todo[c] = {}
  PROVE  Steps(c)
  BY DEF Inv, Shapes, Locks, Goto, Steps, Local, Begun, Grows, LocksOf, Of

\* A row of another table, referring to a relation.
LEMMA ReferSteps ==
  ASSUME Inv, NEW c \in Callers, NEW row, NEW point, Refer(c, row, point), snap' = snap,
         row.table # "rule", row.table # "derivation",
         pc[c] # "idle", point # "idle", LocksOf(c)'
  PROVE  Steps(c)
  BY DEF Inv, Shapes, Refer, Steps, Local, Begun, Grows, Of

LEMMA EvidenceSteps ==
  ASSUME Inv, NEW c \in Callers, EvidenceStep(c), snap' = snap
  PROVE  Steps(c)
  <1>1. CASE InsertEvidence(c)
    <2>. DEFINE row == [table |-> "relation", id |-> c, version |-> req[c].version]
    <2>1. work' = [work EXCEPT ![c] = {row}] /\ row.table = "relation"
      BY <1>1 DEF InsertEvidence
    <2>. HIDE DEF row
    <2>2. Local(c)
      BY <1>1, <2>1 DEF InsertEvidence, Inv, Shapes, Local
    <2>3. Begun(c)
      BY <1>1, <2>1 DEF InsertEvidence, Inv, Shapes, Begun
    <2>4. Grows(c)
      BY <1>1, <2>1 DEF InsertEvidence, Inv, Shapes, Grows, Of
    <2>5. LocksOf(c)'
      BY <1>1, <2>1 DEF InsertEvidence, Inv, Shapes, Locks, LocksOf
    <2>. QED
      BY <2>2, <2>3, <2>4, <2>5 DEF Steps
  <1>2. CASE VersionUnknown(c) \/ RelationUnknown(c) \/ ComparisonsRefused(c) \/ DeadlockVictim(c)
    BY <1>2, EndedSteps DEF VersionUnknown, RelationUnknown, ComparisonsRefused, DeadlockVictim, Refused
  <1>3. CASE ResponseRefused(c)
    BY <1>3, EndedSteps DEF ResponseRefused, Refused
  <1>4. CASE LockRelation(c)
    BY <1>4 DEF LockRelation, Inv, Shapes, Locks, Steps, Local, Begun, Grows, LocksOf, Of
  <1>5. CASE CheckResponse(c)
    <2>1. Local(c)
      BY <1>5 DEF CheckResponse, Goto, Inv, Shapes, Local
    <2>2. Begun(c)
      BY <1>5 DEF CheckResponse, Goto, Inv, Shapes, Begun
    <2>3. Grows(c)
      BY <1>5 DEF CheckResponse, Goto, Inv, Shapes, Grows, Of
    <2>4. LocksOf(c)'
      BY <1>5 DEF CheckResponse, Goto, Inv, Shapes, Locks, LocksOf
    <2>. QED
      BY <2>1, <2>2, <2>3, <2>4 DEF Steps
  <1>6. CASE CheckComparisons(c)
    <2>1. Local(c)
      BY <1>6 DEF CheckComparisons, Goto, Inv, Shapes, Local
    <2>2. Begun(c)
      BY <1>6 DEF CheckComparisons, Goto, Inv, Shapes, Begun
    <2>3. Grows(c)
      BY <1>6 DEF CheckComparisons, Goto, Inv, Shapes, Grows, Of
    <2>4. LocksOf(c)'
      BY <1>6 DEF CheckComparisons, Goto, Inv, Shapes, Locks, LocksOf
    <2>. QED
      BY <2>1, <2>2, <2>3, <2>4 DEF Steps
  <1>7. CASE InsertAssessment(c)
    <2>. DEFINE row == [table |-> "assessment", id |-> c, relation |-> req[c].relation,
                        parent |-> req[c].parent, scored |-> req[c].scored, rubric |-> TRUE]
    <2>1. work' = [work EXCEPT ![c] = {row}] /\ row.table = "assessment"
      BY <1>7 DEF InsertAssessment
    <2>. HIDE DEF row
    <2>2. Local(c)
      BY <1>7, <2>1 DEF InsertAssessment, Inv, Shapes, Local
    <2>3. Begun(c)
      BY <1>7, <2>1 DEF InsertAssessment, Inv, Shapes, Begun
    <2>4. Grows(c)
      BY <1>7, <2>1 DEF InsertAssessment, Inv, Shapes, Grows, Of
    <2>5. LocksOf(c)'
      BY <1>7, <2>1 DEF InsertAssessment, Inv, Shapes, Locks, LocksOf
    <2>. QED
      BY <2>2, <2>3, <2>4, <2>5 DEF Steps
  <1>8. CASE InsertComparison(c)
    <2>. DEFINE row == [table |-> "comparison", assessment |-> c, relation |-> NextReference(c)]
    <2>1. Refer(c, row, "commit") /\ pc[c] # "idle" /\ "commit" # "idle"
      BY <1>8 DEF InsertComparison
    <2>2. row.table # "rule" /\ row.table # "derivation"
      OBVIOUS
    <2>3. LocksOf(c)'
      BY <1>8 DEF InsertComparison, Refer, Inv, Shapes, Locks, LocksOf
    <2>. QED
      BY <2>1, <2>2, <2>3, ReferSteps
  <1>9. CASE Commit(c)
    BY <1>9, EndedSteps DEF Commit
  <1>. QED
    BY <1>1, <1>2, <1>3, <1>4, <1>5, <1>6, <1>7, <1>8, <1>9 DEF EvidenceStep

\* What a derivation is computed from is in its snapshot, and VerifyRule has
\* compared the rule with the build that computes.
LEMMA DerivationMade ==
  ASSUME Inv, NEW c \in Callers, NEW r \in RuleOf(c), RuleFits(r, req[c], read[c])
  PROVE  Made(Derivation(c, r))
  <1>1. r \in Of(db, "rule") /\ r.id = req[c].rule
    BY DEF RuleOf, Visible, Of, Inv, SnapshotIsPast
  <1>2. r.builder = req[c].build.builder
    BY DEF RuleFits, VerifyRule
  <1>3. r.mode = "deterministic" => r.identity.interpreter = req[c].build.interpreter
    BY DEF RuleFits, VerifyRule, Identity
  <1>4. MadeBy(Derivation(c, r), r)
    BY <1>2, <1>3 DEF MadeBy, Derivation, Input, Output
  <1>. QED
    BY <1>1, <1>4 DEF Made

LEMMA StepSteps ==
  ASSUME Inv, NEW c \in Callers, Step(c)
  PROVE  Steps(c)
  <1>. USE DEF Unread
  <1>1. CASE EvidenceStep(c) /\ Unread
    BY <1>1, EvidenceSteps DEF Unread
  <1>2. CASE InsertRule(c)
    <2>1. Rule(c, req[c]).id = c /\ Rule(c, req[c]).table = "rule"
      BY DEF Rule
    <2>2. Local(c)
      BY <1>2, <2>1 DEF InsertRule, Inv, Shapes, Local
    <2>3. Begun(c)
      BY <1>2, <2>1 DEF InsertRule, Inv, Shapes, Begun
    <2>4. Grows(c)
      BY <1>2, <2>1 DEF InsertRule, Inv, Shapes, Grows, Of
    <2>5. LocksOf(c)'
      BY <1>2, <2>1 DEF InsertRule, Inv, Shapes, Locks, LocksOf
    <2>. QED
      BY <2>2, <2>3, <2>4, <2>5 DEF Steps
  <1>3. CASE RuleRefused(c)
    BY <1>3, EndedSteps DEF RuleRefused, Refused
  <1>4. CASE LoadVersion(c)
    BY <1>4, GotoSteps DEF LoadVersion, Inv, Locks, LocksOf
  <1>5. CASE VersionMissing(c) \/ DerivationRefused(c)
    BY <1>5, EndedSteps DEF VersionMissing, DerivationRefused, Refused
  <1>6. CASE LoadRelations(c)
    BY <1>6, GotoSteps DEF LoadRelations, Load, Inv, Locks, LocksOf
  <1>7. CASE LoadAssessments(c)
    BY <1>7, GotoSteps DEF LoadAssessments, Load, Inv, Locks, LocksOf
  <1>8. CASE LoadComparisons(c)
    BY <1>8, GotoSteps, EndedSteps DEF LoadComparisons, Load, Inv, Locks, LocksOf
  <1>9. CASE InsertDerivation(c)
    <2>1. PICK r \in RuleOf(c) : RuleFits(r, req[c], read[c])
                                 /\ work' = [work EXCEPT ![c] = {Derivation(c, r)}]
      BY <1>9 DEF InsertDerivation
    <2>2. Made(Derivation(c, r)) /\ Derivation(c, r).table = "derivation"
      BY <2>1, DerivationMade DEF Derivation
    <2>. QED
      BY <1>9, <2>1, <2>2 DEF InsertDerivation, Inv, Shapes, Locks, Steps, Local, Begun, Grows, LocksOf, Of
  <1>10. CASE InsertEvidenceInput(c)
    <2>. DEFINE row == EvidenceInput(c, NextReference(c))
    <2>1. Refer(c, row, "inputs") /\ pc[c] # "idle" /\ "inputs" # "idle"
      BY <1>10 DEF InsertEvidenceInput
    <2>2. row.table # "rule" /\ row.table # "derivation"
      BY DEF EvidenceInput
    <2>3. LocksOf(c)'
      BY <1>10 DEF InsertEvidenceInput, Refer, Inv, Shapes, Locks, LocksOf
    <2>. QED
      BY <1>10, <2>1, <2>2, <2>3, ReferSteps DEF InsertEvidenceInput
  <1>11. CASE InsertInputs(c)
    <2>. DEFINE audits == {Audit(c, x.output) : x \in {y \in Of(work[c], "derivation") : y.mode = "recorded"}}
    <2>1. work' = [work EXCEPT ![c] = work[c] \cup AssessmentInputRows(c) \cup audits]
      BY <1>11 DEF InsertInputs, Inv, Shapes
    <2>2. \A x \in AssessmentInputRows(c) \cup audits : x.table \notin {"rule", "derivation"}
      BY DEF AssessmentInputRows, AssessmentInput, Audit
    <2>. QED
      BY <1>11, <2>1, <2>2 DEF InsertInputs, Inv, Shapes, Locks, Steps, Local, Begun, Grows, LocksOf, Of
  <1>. QED
    BY <1>1, <1>2, <1>3, <1>4, <1>5, <1>6, <1>7, <1>8, <1>9, <1>10, <1>11 DEF Step

LEMMA InvNext == Inv /\ [Next]_vars => Inv'
  <1>. SUFFICES ASSUME Inv, [Next]_vars PROVE Inv'
    OBVIOUS
  <1>1. CASE UNCHANGED vars
    BY <1>1 DEF vars, evars, Inv, Shapes, Locks, LocksOf, RulesAreKnown, Known, Rule, SnapshotIsPast,
                DerivationsAreMade, Made, MadeBy, Of
  <1>2. ASSUME NEW c \in Callers, Step(c) PROVE Inv'
    BY <1>2, StepSteps, StepsKeepInv
  <1>3. ASSUME NEW c \in Callers, CallLost(c), Unread PROVE Inv'
    BY <1>3, EndedSteps, StepsKeepInv DEF CallLost, Unread
  <1>4. ASSUME NEW c \in Callers, NEW q, Call(c, q) PROVE Inv'
    BY <1>4, BeginSteps, StepsKeepInv
       DEF Call, CreateEvidence, CreateAssessment, CreateRule, CreateDerivation, GetDetails, Unread
  <1>. QED
    BY <1>1, <1>2, <1>3, <1>4 DEF Next

LEMMA Invariance == Spec => []Inv
  BY InitInv, InvNext, PTL DEF Spec

-----------------------------------------------------------------------------
(* The theorems                                                            *)

\* Whatever is derived, by processes of whichever builds, a rule and a state of
\* the evidence determine the input and the output of a deterministic derivation.
THEOREM DerivationsReproduce == Spec => []OutputsReproduce
  <1>1. Inv => OutputsReproduce
    <2>. SUFFICES ASSUME Inv,
                         NEW x \in Of(db, "derivation"), x.mode = "deterministic",
                         NEW y \in Of(db, "derivation"), y.mode = "deterministic",
                         x.rule = y.rule, x.input.rows = y.input.rows
                  PROVE  x.input = y.input /\ x.output = y.output
      BY DEF OutputsReproduce
    <2>1. PICK r \in Of(db, "rule") : MadeBy(x, r)
      BY DEF Inv, DerivationsAreMade, Made
    <2>2. PICK s \in Of(db, "rule") : MadeBy(y, s)
      BY DEF Inv, DerivationsAreMade, Made
    <2>3. r.id = s.id
      BY <2>1, <2>2 DEF MadeBy
    <2>4. Known(r) /\ Known(s)
      BY DEF Inv, RulesAreKnown
    <2>5. r = s
      BY <2>3, <2>4, StoredAssumption DEF Known, Of
    <2>. QED
      BY <2>1, <2>2, <2>5 DEF MadeBy
  <1>. QED
    BY <1>1, Invariance, PTL

\* Whoever is in a deadlock is inserting the comparisons of an assessment: the
\* others either hold nothing when they wait, or nothing that is waited for.
THEOREM DeadlocksAreAssessments == Spec => []OnlyAssessmentsDeadlock
  <1>1. Inv => OnlyAssessmentsDeadlock
    <2>. SUFFICES ASSUME Inv, NEW c \in Callers, NEW C \in SUBSET Callers, c \in C,
                         \A x \in C : (\E y \in C : Waits(x, y)) /\ (\E y \in C : Waits(y, x))
                  PROVE  pc[c] = "compare"
      BY DEF OnlyAssessmentsDeadlock, Deadlocked
    <2>1. \A x \in C : pc[x] # "lock"
      <3>. SUFFICES ASSUME NEW x \in C, pc[x] = "lock" PROVE FALSE
        OBVIOUS
      <3>1. held[x] = {} /\ shared[x] = {}
        BY DEF Inv, Locks, LocksOf
      <3>. QED
        BY <3>1 DEF Waits
    <2>2. PICK y \in C : Waits(y, c)
      OBVIOUS
    <2>3. held[c] # {}
      BY <2>1, <2>2 DEF Waits
    <2>4. todo[c] # {}
      BY <2>1 DEF Waits
    <2>. QED
      BY <2>3, <2>4 DEF Inv, Locks, LocksOf
  <1>. QED
    BY <1>1, Invariance, PTL
-----------------------------------------------------------------------------
(* What each call stores.  A row belongs to the call whose id it, or the   *)
(* row it hangs on, has.                                                   *)

Owner(x) ==
  IF x.table = "comparison" THEN x.assessment
  ELSE IF x.table \in {"evidence_input", "assessment_input", "audit"} THEN x.derivation
  ELSE x.id

RelationRow(c) == [table |-> "relation", id |-> c, version |-> req[c].version]

AssessmentRow(c) ==
  [table |-> "assessment", id |-> c, relation |-> req[c].relation,
   parent |-> req[c].parent, scored |-> req[c].scored, rubric |-> TRUE]

ComparisonRows(c, S) ==
  {[table |-> "comparison", assessment |-> c, relation |-> r] : r \in S}

EvidenceRows(c, S) == {EvidenceInput(c, r) : r \in S}

AuditRows(c, x) == {Audit(c, y.output) : y \in {z \in {x} : z.mode = "recorded"}}

\* What an assessment has checked, each as soon as it is behind it.
Assessed(c) == AssessedRelation(req[c]) # {}
Targeted(c) == req[c].parent # None => ResponseTarget(req[c]) # {}
Compares(c) == ComparisonsStated(req[c]) /\ ComparisonsFound(req[c])
Assessable(c) == Assessed(c) /\ Targeted(c) /\ Compares(c)

\* What a derivation has read, and the rule it applies.
References(c) == Ids(Of(read[c], "relation"))

Loaded(c) ==
  read[c] = RelationsOf(snap[c], req[c].version) \cup AssessmentsOf(snap[c], req[c].version)
              \cup ComparisonsOf(snap[c], req[c].version)

Applies(r, c) == r.id = req[c].rule /\ RuleFits(r, req[c], read[c])

DerivationRows(c, r) ==
  {Derivation(c, r)} \cup EvidenceRows(c, References(c)) \cup AssessmentInputRows(c)
    \cup AuditRows(c, Derivation(c, r))

\* W is all that the call c stores.
Whole(W, c) ==
  \/ VersionKnown(req[c]) /\ W = {RelationRow(c)}
  \/ Assessable(c) /\ W = {AssessmentRow(c)} \cup ComparisonRows(c, Compared(req[c]))
  \/ W = {Rule(c, req[c])}
  \/ Loaded(c) /\ \E r \in Of(db, "rule") : Applies(r, c) /\ W = DerivationRows(c, r)

-----------------------------------------------------------------------------
(* The invariant: what a call has read, checked and inserted at each point, *)
(* and that what is stored came whole and makes sense                      *)

Unwritten ==
  {"idle", "done", "evidence", "lock", "response", "comparisons", "insert", "define",
   "version", "read relations", "read assessments", "read comparisons", "rule"}

Points == Unwritten \cup {"compare", "evidence inputs", "inputs", "commit"}

Written(c) ==
  /\ pc[c] \in Unwritten => work[c] = {}
  /\ pc[c] \in {"response", "comparisons", "insert"} => Assessed(c)
  /\ pc[c] \in {"comparisons", "insert"} => Targeted(c)
  /\ pc[c] = "insert" => Compares(c)
  /\ pc[c] = "compare" =>
       /\ Assessable(c) /\ todo[c] # {} /\ todo[c] \subseteq Compared(req[c])
       /\ work[c] = {AssessmentRow(c)} \cup ComparisonRows(c, Compared(req[c]) \ todo[c])
  /\ pc[c] = "evidence inputs" =>
       /\ Loaded(c) /\ todo[c] # {} /\ todo[c] \subseteq References(c)
       /\ \E r \in Of(db, "rule") : Applies(r, c) /\
            work[c] = {Derivation(c, r)} \cup EvidenceRows(c, References(c) \ todo[c])
  /\ pc[c] = "inputs" =>
       /\ Loaded(c)
       /\ \E r \in Of(db, "rule") : Applies(r, c) /\ work[c] = {Derivation(c, r)} \cup EvidenceRows(c, References(c))
  /\ pc[c] = "commit" => \E W : W = work[c] /\ Whole(W, c)

Reading(c) ==
  /\ pc[c] \in {"idle", "version", "read relations"} => read[c] = {}
  /\ pc[c] = "read assessments" => read[c] = RelationsOf(snap[c], req[c].version)
  /\ pc[c] = "read comparisons" =>
       read[c] = RelationsOf(snap[c], req[c].version) \cup AssessmentsOf(snap[c], req[c].version)
  /\ pc[c] = "rule" \/ answer[c] = "read" => Loaded(c)
  /\ answer[c] = "read" => pc[c] = "done"

Progress(c) == pc[c] \in Points /\ Written(c) /\ Reading(c)

\* The rows of a call are stored together, when it ends.
Contribution(c) == {x \in db : Owner(x) = c}

Contributed(c) ==
  Contribution(c) # {} => pc[c] = "done" /\ \E W : W = Contribution(c) /\ Whole(W, c)

\* A state of the evidence that makes sense by itself.
Coherent(D) ==
  /\ Of(D, "relation") \subseteq Relation
  /\ \A r, s \in Of(D, "relation") : r.id = s.id => r = s
  /\ \A a, b \in Of(D, "assessment") : a.id = b.id => a = b
  /\ \A a \in Of(D, "assessment") : AssessmentStands(a, D) /\ IndependenceStands(a, D)
  /\ \A x \in Of(D, "comparison") : ComparisonStands(x, D)
  /\ GraphIsValid(Of(D, "assessment"))

Evidence ==
  /\ DOMAIN read = Callers /\ DOMAIN answer = Callers
  /\ \A c \in Callers : Progress(c) /\ Contributed(c) /\ Coherent(snap[c])
  /\ Coherent(db)

EvidenceInv == Inv /\ Evidence
-----------------------------------------------------------------------------
(* Rows and references                                                     *)

LEMMA LeastNumber ==
  ASSUME NEW S, S \subseteq Nat, S # {}
  PROVE  \E n \in S : \A m \in S : n <= m
  <1>. DEFINE Less == {ss \in Nat \X Nat : ss[1] < ss[2]}
  <1>1. IsWellFoundedOn(Less, Nat)
    BY NatLessThanWellFounded DEF OpToRel
  <1>2. PICK n \in S : \A m \in S : <<m, n>> \notin Less
    <2>. HIDE DEF Less
    <2>. QED
      BY <1>1, WFMin, Zenon
  <1>3. ASSUME NEW m \in S PROVE n <= m
    <2>1. ~ (m < n)
      BY <1>2
    <2>. QED
      BY <2>1
  <1>. QED
    BY <1>3

LEMMA NextIsLeft ==
  ASSUME NEW c, todo[c] \subseteq Nat, todo[c] # {}
  PROVE  NextReference(c) \in todo[c]
  BY LeastNumber DEF NextReference

\* The tables and owners of what a call inserts.
LEMMA RelationOwned ==
  ASSUME NEW c
  PROVE  /\ RelationRow(c).table = "relation" /\ RelationRow(c).id = c
         /\ RelationRow(c).version = req[c].version
         /\ Owner(RelationRow(c)) = c
  BY DEF RelationRow, Owner

LEMMA AssessmentOwned ==
  ASSUME NEW c
  PROVE  /\ AssessmentRow(c).table = "assessment" /\ AssessmentRow(c).id = c
         /\ Owner(AssessmentRow(c)) = c
         /\ \A S : \A x \in ComparisonRows(c, S) :
              x.table = "comparison" /\ x.assessment = c /\ x.relation \in S /\ Owner(x) = c
  BY DEF AssessmentRow, ComparisonRows, Owner

LEMMA RuleOwned ==
  ASSUME NEW c
  PROVE  Rule(c, req[c]).table = "rule" /\ Rule(c, req[c]).id = c /\ Owner(Rule(c, req[c])) = c
  BY DEF Rule, Owner

LEMMA DerivationOwned ==
  ASSUME NEW c, NEW r
  PROVE  /\ Derivation(c, r).table = "derivation" /\ Derivation(c, r).id = c
         /\ Owner(Derivation(c, r)) = c
         /\ \A S : \A x \in EvidenceRows(c, S) :
              x.table = "evidence_input" /\ x.derivation = c /\ x.relation \in S /\ Owner(x) = c
         /\ \A x \in AssessmentInputRows(c) :
              x.table = "assessment_input" /\ x.derivation = c /\ Owner(x) = c
         /\ \A x \in AuditRows(c, Derivation(c, r)) :
              x.table = "audit" /\ x.derivation = c /\ Owner(x) = c
  BY DEF Derivation, EvidenceRows, EvidenceInput, AssessmentInputRows, AssessmentInput,
         AuditRows, Audit, Owner

LEMMA WholeOwned ==
  ASSUME NEW W, NEW c, Whole(W, c)
  PROVE  \A x \in W : Owner(x) = c
  <1>1. CASE W = {RelationRow(c)} \/ W = {Rule(c, req[c])}
    BY <1>1, RelationOwned, RuleOwned
  <1>2. CASE W = {AssessmentRow(c)} \cup ComparisonRows(c, Compared(req[c]))
    BY <1>2, AssessmentOwned
  <1>3. CASE \E r : W = DerivationRows(c, r)
    BY <1>3, DerivationOwned DEF DerivationRows
  <1>. QED
    BY <1>1, <1>2, <1>3 DEF Whole

\* What is there already belongs to no call.
LEMMA StoredUnowned == \A x \in Stored : Owner(x) \notin Callers
  BY StoredAssumption
     DEF Owner, Entities, Stands, ComparisonStands, EvidenceInputStands, AssessmentInputStands, Of
\* What has been checked or read once stays so: rows are only added.
LEMMA ChecksStay ==
  ASSUME NEW c, db \subseteq db', req'[c] = req[c]
  PROVE  /\ Assessed(c) => Assessed(c)'
         /\ Targeted(c) => Targeted(c)'
         /\ Compares(c) => Compares(c)'
         /\ Assessable(c) => Assessable(c)'
  <1>1. Assessed(c) => Assessed(c)'
    BY DEF Assessed, AssessedRelation, Of, VersionKnown
  <1>2. Targeted(c) => Targeted(c)'
    BY DEF Targeted, ResponseTarget, Of
  <1>3. Compares(c) => Compares(c)'
    <2>1. ASSUME NEW v PROVE Ids(RelationsOf(db, v)) \subseteq Ids(RelationsOf(db', v))
      BY DEF Ids, RelationsOf, Of
    <2>2. Compared(req[c])' = Compared(req[c]) /\ ComparisonsStated(req[c])' = ComparisonsStated(req[c])
      BY DEF Compared, ComparisonsStated
    <2>. QED
      BY <2>1, <2>2 DEF Compares, ComparisonsFound
  <1>. QED
    BY <1>1, <1>2, <1>3 DEF Assessable

LEMMA AppliesStays ==
  ASSUME NEW c, NEW r, db \subseteq db', req'[c] = req[c], read'[c] = read[c], r \in Of(db, "rule"), Applies(r, c)
  PROVE  /\ r \in Of(db', "rule") /\ Applies(r, c)'
         /\ Derivation(c, r)' = Derivation(c, r)
         /\ References(c)' = References(c) /\ AssessmentInputRows(c)' = AssessmentInputRows(c)
         /\ DerivationRows(c, r)' = DerivationRows(c, r)
  <1>1. r \in Of(db', "rule") /\ Applies(r, c)'
    BY DEF Applies, Of
  <1>2. Derivation(c, r)' = Derivation(c, r)
    BY DEF Derivation, Output
  <1>3. References(c)' = References(c) /\ AssessmentInputRows(c)' = AssessmentInputRows(c)
    BY DEF References, AssessmentInputRows
  <1>4. DerivationRows(c, r)' = DerivationRows(c, r)
    BY <1>2, <1>3 DEF DerivationRows, EvidenceRows, AuditRows
  <1>. QED
    BY <1>1, <1>2, <1>3, <1>4

LEMMA LoadedStays ==
  ASSUME NEW c, req'[c] = req[c], read'[c] = read[c], snap'[c] = snap[c], Loaded(c)
  PROVE  Loaded(c)'
  BY DEF Loaded

LEMMA WholeStays ==
  ASSUME NEW c, NEW W, db \subseteq db', req'[c] = req[c], read'[c] = read[c], snap'[c] = snap[c],
         Whole(W, c)
  PROVE  Whole(W, c)'
  <1>1. CASE VersionKnown(req[c]) /\ W = {RelationRow(c)}
    BY <1>1 DEF Whole, RelationRow
  <1>2. CASE Assessable(c) /\ W = {AssessmentRow(c)} \cup ComparisonRows(c, Compared(req[c]))
    <2>1. AssessmentRow(c)' = AssessmentRow(c)
      BY DEF AssessmentRow
    <2>. QED
      BY <1>2, <2>1, ChecksStay DEF Whole
  <1>3. CASE W = {Rule(c, req[c])}
    BY <1>3 DEF Whole
  <1>4. CASE Loaded(c) /\ \E r \in Of(db, "rule") : Applies(r, c) /\ W = DerivationRows(c, r)
    <2>1. PICK r \in Of(db, "rule") : Applies(r, c) /\ W = DerivationRows(c, r)
      BY <1>4
    <2>2. r \in Of(db', "rule") /\ Applies(r, c)' /\ W = DerivationRows(c, r)'
      BY <2>1, AppliesStays
    <2>3. Loaded(c)'
      BY <1>4, LoadedStays
    <2>. QED
      BY <2>2, <2>3 DEF Whole
  <1>. QED
    BY <1>1, <1>2, <1>3, <1>4 DEF Whole

\* So other calls may go on as they like.
LEMMA ProgressStays ==
  ASSUME NEW d, db \subseteq db',
         work'[d] = work[d], todo'[d] = todo[d], pc'[d] = pc[d], req'[d] = req[d],
         answer'[d] = answer[d], snap'[d] = snap[d], read'[d] = read[d],
         Progress(d)
  PROVE  Progress(d)'
  <1>1. Reading(d)'
    BY DEF Progress, Reading, Loaded
  <1>2. ASSUME NEW S, NEW r \in Of(db, "rule"), Applies(r, d),
               work[d] = {Derivation(d, r)} \cup EvidenceRows(d, S)
        PROVE  r \in Of(db', "rule") /\ Applies(r, d)' /\ work'[d] = {Derivation(d, r)'} \cup EvidenceRows(d, S)
    BY <1>2, AppliesStays
  <1>3. References(d)' = References(d)
    BY DEF References
  <1>4. AssessmentRow(d)' = AssessmentRow(d)
    BY DEF AssessmentRow
  <1>5. Loaded(d) => Loaded(d)'
    BY LoadedStays
  <1>6. pc[d] = "commit" => \E W : W = work[d] /\ Whole(W, d)'
    BY WholeStays DEF Progress, Written
  <1>7. Written(d)'
    <2>1. pc'[d] \in Unwritten => work'[d] = {}
      BY DEF Progress, Written
    <2>2. pc'[d] \in {"response", "comparisons", "insert"} => Assessed(d)'
      BY ChecksStay DEF Progress, Written
    <2>3. pc'[d] \in {"comparisons", "insert"} => Targeted(d)'
      BY ChecksStay DEF Progress, Written
    <2>4. pc'[d] = "insert" => Compares(d)'
      BY ChecksStay DEF Progress, Written
    <2>5. pc'[d] = "compare" =>
           /\ Assessable(d)' /\ todo'[d] # {} /\ todo'[d] \subseteq Compared(req'[d])
           /\ work'[d] = {AssessmentRow(d)'} \cup ComparisonRows(d, Compared(req'[d]) \ todo'[d])
      BY <1>4, ChecksStay DEF Progress, Written
    <2>6. pc'[d] = "evidence inputs" =>
           /\ Loaded(d)' /\ todo'[d] # {} /\ todo'[d] \subseteq References(d)'
           /\ \E r \in Of(db', "rule") : Applies(r, d)' /\
                work'[d] = {Derivation(d, r)'} \cup EvidenceRows(d, References(d)' \ todo'[d])
      BY <1>2, <1>3, <1>5 DEF Progress, Written
    <2>7. pc'[d] = "inputs" =>
           /\ Loaded(d)'
           /\ \E r \in Of(db', "rule") : Applies(r, d)' /\
                work'[d] = {Derivation(d, r)'} \cup EvidenceRows(d, References(d)')
      BY <1>2, <1>3, <1>5 DEF Progress, Written
    <2>8. pc'[d] = "commit" => \E W : W = work'[d] /\ Whole(W, d)'
      BY <1>6
    <2>. QED
      BY <2>1, <2>2, <2>3, <2>4, <2>5, <2>6, <2>7, <2>8 DEF Written
  <1>. QED
    BY <1>1, <1>7 DEF Progress
-----------------------------------------------------------------------------
(* What a call inserts meets the constraints                               *)

LEMMA RelationsOfVersion ==
  ASSUME NEW D, NEW v, NEW i \in Ids(RelationsOf(D, v))
  PROVE  \E r \in Of(D, "relation") : r.id = i /\ r.version = v
  BY DEF Ids, RelationsOf, Of

LEMMA CommittedAreFresh ==
  ASSUME NEW c, Contribution(c) = {}
  PROVE  \A x \in db : Owner(x) # c
  BY DEF Contribution

LEMMA AssessmentFits ==
  ASSUME NEW c \in Callers, Coherent(db), Contribution(c) = {}, Assessable(c),
         NEW D, db \subseteq D, AssessmentRow(c) \in D
  PROVE  /\ AssessmentStands(AssessmentRow(c), D)
         /\ \A x \in ComparisonRows(c, Compared(req[c])) : ComparisonStands(x, D)
  <1>. DEFINE a == AssessmentRow(c)
  <1>1. a.table = "assessment" /\ a.id = c /\ a.relation = req[c].relation /\ a.parent = req[c].parent
    BY DEF AssessmentRow
  <1>. HIDE DEF a
  <1>2. PICK r \in Of(db, "relation") : r.id = req[c].relation /\ r.version = req[c].version
    BY DEF Assessable, Assessed, AssessedRelation, Of
  <1>3. r \in Of(D, "relation") /\ a \in Of(D, "assessment")
    BY <1>1, <1>2 DEF Of, a
  <1>4. AssessmentStands(a, D)
    <2>1. a.relation \in Ids(Of(D, "relation"))
      BY <1>1, <1>2, <1>3 DEF Ids
    <2>2. CASE req[c].parent = None
      <3>1. a.parent = None /\ None # c
        BY <1>1, <2>2, CallerAssumption
      <3>. QED
        BY <1>1, <2>1, <3>1 DEF AssessmentStands
    <2>3. CASE req[c].parent # None
      <3>1. PICK p \in Of(db, "assessment") : p.id = req[c].parent /\ p.relation = req[c].relation
        BY <2>3 DEF Assessable, Targeted, ResponseTarget
      <3>2. p.id # c
        BY <3>1, CommittedAreFresh DEF Of, Owner
      <3>3. p \in Of(D, "assessment")
        BY <3>1 DEF Of
      <3>. QED
        BY <1>1, <2>1, <3>1, <3>2, <3>3 DEF AssessmentStands
    <2>. QED
      BY <2>2, <2>3
  <1>5. ASSUME NEW x \in ComparisonRows(c, Compared(req[c])) PROVE ComparisonStands(x, D)
    <2>1. x.assessment = c /\ x.relation \in Compared(req[c])
      BY AssessmentOwned
    <2>2. PICK s \in Of(db, "relation") : s.id = x.relation /\ s.version = req[c].version
      BY <2>1, RelationsOfVersion DEF Assessable, Compares, ComparisonsFound
    <2>3. s \in Of(D, "relation") /\ r # s
      BY <1>2, <2>1, <2>2 DEF Of, Assessable, Compares, ComparisonsStated
    <2>. QED
      BY <1>1, <1>2, <1>3, <2>1, <2>2, <2>3 DEF ComparisonStands
  <1>. QED
    BY <1>4, <1>5 DEF a

LEMMA DerivationFits ==
  ASSUME NEW c \in Callers, Loaded(c), snap[c] \subseteq db,
         NEW r \in Of(db, "rule"), Applies(r, c),
         NEW D, db \subseteq D, Derivation(c, r) \in D
  PROVE  /\ DerivationStands(Derivation(c, r), D)
         /\ \A x \in EvidenceRows(c, References(c)) : EvidenceInputStands(x, D)
         /\ \A x \in AssessmentInputRows(c) : AssessmentInputStands(x, D)
         /\ \A x \in AuditRows(c, Derivation(c, r)) :
              \E y \in Of(D, "derivation") : y.id = x.derivation
  <1>. DEFINE d == Derivation(c, r)
  <1>1. /\ d.table = "derivation" /\ d.id = c /\ d.version = req[c].version /\ d.rule = r.id
        /\ d.mode = r.mode /\ d.identity = r.identity /\ d.builder = r.builder
    BY DEF Derivation
  <1>. HIDE DEF d
  <1>2. d \in Of(D, "derivation") /\ r \in Of(D, "rule")
    BY <1>1 DEF Of, d
  <1>3. \A i \in References(c) : \E s \in Of(D, "relation") : s.id = i /\ s.version = d.version
    BY <1>1 DEF References, Loaded, RelationsOf, AssessmentsOf, ComparisonsOf, Of, Ids
  <1>4. DerivationStands(d, D)
    BY <1>1, <1>2 DEF DerivationStands
  <1>5. ASSUME NEW x \in EvidenceRows(c, References(c)) PROVE EvidenceInputStands(x, D)
    <2>1. x.derivation = c /\ x.relation \in References(c)
      BY DEF EvidenceRows, EvidenceInput
    <2>. QED
      BY <1>1, <1>2, <1>3, <2>1 DEF EvidenceInputStands
  <1>6. ASSUME NEW x \in AssessmentInputRows(c) PROVE AssessmentInputStands(x, D)
    <2>1. PICK a \in Of(read[c], "assessment") : x = AssessmentInput(c, a)
      BY DEF AssessmentInputRows
    <2>2. x.derivation = c /\ x.assessment = a.id /\ x.relation = a.relation
      BY <2>1 DEF AssessmentInput
    <2>3. a \in AssessmentsOf(snap[c], req[c].version)
      BY DEF Loaded, RelationsOf, AssessmentsOf, ComparisonsOf, Of
    <2>4. PICK s \in Of(snap[c], "relation") : s.id = a.relation /\ s.version = req[c].version
      BY <2>3, RelationsOfVersion DEF AssessmentsOf
    <2>5. s \in Of(D, "relation") /\ a \in Of(D, "assessment")
      BY <2>3, <2>4 DEF Of, AssessmentsOf
    <2>. QED
      BY <1>1, <1>2, <2>2, <2>4, <2>5 DEF AssessmentInputStands, EvidenceInputStands
  <1>7. ASSUME NEW x \in AuditRows(c, d)
        PROVE \E y \in Of(D, "derivation") : y.id = x.derivation
    BY <1>1, <1>2, <1>7 DEF AuditRows, Audit
  <1>. QED
    BY <1>4, <1>5, <1>6, <1>7 DEF d

\* Foreign keys, of a part of the rows that has the row the others refer to.
LEMMA PartStands ==
  ASSUME NEW c \in Callers, Coherent(db), Contribution(c) = {}, snap[c] \subseteq db,
         NEW W, NEW V, Whole(W, c), V \subseteq W,
         \A x \in W : x.table \in {"assessment", "derivation"} => x \in V,
         NEW x \in V
  PROVE  Stands(x, db \cup V)
  <1>. DEFINE D == db \cup V
  <1>1. CASE VersionKnown(req[c]) /\ W = {RelationRow(c)}
    <2>1. x.table = "relation" /\ x.version \in Versions
      BY <1>1, RelationOwned DEF VersionKnown
    <2>. QED
      BY <2>1 DEF Stands, RelationStands
  <1>2. CASE Assessable(c) /\ W = {AssessmentRow(c)} \cup ComparisonRows(c, Compared(req[c]))
    <2>1. AssessmentRow(c) \in D
      BY <1>2, AssessmentOwned
    <2>2. /\ AssessmentStands(AssessmentRow(c), D)
          /\ \A y \in ComparisonRows(c, Compared(req[c])) : ComparisonStands(y, D)
      <3>. HIDE DEF D
      <3>1. db \subseteq D
        BY DEF D
      <3>. QED
        BY <1>2, <2>1, <3>1, AssessmentFits
    <2>3. x = AssessmentRow(c) \/ x \in ComparisonRows(c, Compared(req[c]))
      BY <1>2
    <2>4. x.table = "assessment" \/ x.table = "comparison"
      BY <2>3, AssessmentOwned
    <2>5. x.table = "assessment" => AssessmentStands(x, D)
      BY <2>2, <2>3, AssessmentOwned
    <2>6. x.table = "comparison" => ComparisonStands(x, D)
      BY <2>2, <2>3, AssessmentOwned
    <2>. QED
      BY <2>4, <2>5, <2>6 DEF Stands
  <1>3. CASE W = {Rule(c, req[c])}
    <2>1. x.table = "rule"
      BY <1>3, RuleOwned
    <2>. QED
      BY <2>1 DEF Stands
  <1>4. CASE Loaded(c) /\ \E r \in Of(db, "rule") : Applies(r, c) /\ W = DerivationRows(c, r)
    <2>1. PICK r \in Of(db, "rule") : Applies(r, c) /\ W = DerivationRows(c, r)
      BY <1>4
    <2>2. Derivation(c, r) \in D
      BY <2>1, DerivationOwned DEF DerivationRows
    <2>3. /\ DerivationStands(Derivation(c, r), D)
          /\ \A y \in EvidenceRows(c, References(c)) : EvidenceInputStands(y, D)
          /\ \A y \in AssessmentInputRows(c) : AssessmentInputStands(y, D)
          /\ \A y \in AuditRows(c, Derivation(c, r)) :
               \E z \in Of(D, "derivation") : z.id = y.derivation
      <3>. HIDE DEF D
      <3>1. db \subseteq D
        BY DEF D
      <3>. QED
        BY <1>4, <2>1, <2>2, <3>1, DerivationFits
    <2>4. \/ x = Derivation(c, r)
          \/ x \in EvidenceRows(c, References(c))
          \/ x \in AssessmentInputRows(c)
          \/ x \in AuditRows(c, Derivation(c, r))
      BY <2>1 DEF DerivationRows
    <2>. HIDE DEF D
    <2>5. CASE x = Derivation(c, r)
      <3>1. x.table = "derivation" /\ DerivationStands(x, D)
        BY <2>3, <2>5, DerivationOwned
      <3>. QED
        BY <3>1 DEF Stands, D
    <2>6. CASE x \in EvidenceRows(c, References(c))
      <3>1. x.table = "evidence_input" /\ EvidenceInputStands(x, D)
        BY <2>3, <2>6, DerivationOwned
      <3>. QED
        BY <3>1 DEF Stands, D
    <2>7. CASE x \in AssessmentInputRows(c)
      <3>1. x.table = "assessment_input" /\ AssessmentInputStands(x, D)
        BY <2>3, <2>7, DerivationOwned
      <3>. QED
        BY <3>1 DEF Stands, D
    <2>8. CASE x \in AuditRows(c, Derivation(c, r))
      <3>1. x.table = "audit" /\ \E z \in Of(D, "derivation") : z.id = x.derivation
        BY <2>3, <2>8, DerivationOwned
      <3>. QED
        BY <3>1 DEF Stands, D
    <2>. QED
      BY <2>4, <2>5, <2>6, <2>7, <2>8
  <1>. QED
    BY <1>1, <1>2, <1>3, <1>4 DEF Whole
\* The deferred ones, of all rows.
LEMMA WholeIsIndependent ==
  ASSUME NEW c \in Callers, Contribution(c) = {}, NEW W, Whole(W, c),
         NEW a \in Of(W, "assessment")
  PROVE  IndependenceStands(a, db \cup W)
  <1>1. Assessable(c) /\ W = {AssessmentRow(c)} \cup ComparisonRows(c, Compared(req[c]))
    <2>1. \A x \in W : x.table = "assessment" => x \in Of(W, "assessment")
      BY DEF Of
    <2>2. a \in W /\ a.table = "assessment"
      BY DEF Of
    <2>3. CASE W = {RelationRow(c)} \/ W = {Rule(c, req[c])}
      BY <2>2, <2>3, RelationOwned, RuleOwned
    <2>4. CASE \E r : W = DerivationRows(c, r)
      BY <2>2, <2>4, DerivationOwned DEF DerivationRows
    <2>. QED
      BY <2>3, <2>4 DEF Whole
  <1>2. a = AssessmentRow(c)
    BY <1>1, AssessmentOwned DEF Of
  <1>3. a.id = c /\ a.scored = req[c].scored
    BY <1>2 DEF AssessmentRow
  <1>4. req[c].scored <=> Compared(req[c]) # {}
    BY <1>1 DEF Assessable, Compares, ComparisonsStated
  <1>5. (\E x \in Of(db \cup W, "comparison") : x.assessment = a.id) <=> Compared(req[c]) # {}
    <2>1. ASSUME NEW x \in Of(db \cup W, "comparison"), x.assessment = a.id
          PROVE  Compared(req[c]) # {}
      <3>1. x \notin db
        BY <1>3, <2>1, CommittedAreFresh DEF Of, Owner
      <3>2. x \in W /\ x.table = "comparison"
        BY <3>1 DEF Of
      <3>3. x \in ComparisonRows(c, Compared(req[c]))
        BY <1>1, <3>2, AssessmentOwned
      <3>. QED
        BY <3>3, AssessmentOwned
    <2>2. ASSUME NEW s \in Compared(req[c])
          PROVE  \E x \in Of(db \cup W, "comparison") : x.assessment = a.id
      <3>. DEFINE x == [table |-> "comparison", assessment |-> c, relation |-> s]
      <3>1. x \in ComparisonRows(c, Compared(req[c]))
        BY DEF ComparisonRows
      <3>2. x.table = "comparison" /\ x.assessment = a.id
        BY <1>3
      <3>. QED
        BY <1>1, <3>1, <3>2 DEF Of
    <2>. QED
      BY <2>1, <2>2
  <1>. QED
    BY <1>3, <1>4, <1>5 DEF IndependenceStands

LEMMA WholeIsAudited ==
  ASSUME NEW c \in Callers, Contribution(c) = {}, NEW W, Whole(W, c),
         NEW x \in Of(W, "derivation")
  PROVE  AuditStands(x, db \cup W)
  <1>1. PICK r : W = DerivationRows(c, r)
    <2>1. x \in W /\ x.table = "derivation"
      BY DEF Of
    <2>2. CASE W = {RelationRow(c)} \/ W = {Rule(c, req[c])}
      BY <2>1, <2>2, RelationOwned, RuleOwned
    <2>3. CASE W = {AssessmentRow(c)} \cup ComparisonRows(c, Compared(req[c]))
      BY <2>1, <2>3, AssessmentOwned
    <2>. QED
      BY <2>2, <2>3 DEF Whole
  <1>2. x = Derivation(c, r) /\ x.id = c
    BY <1>1, DerivationOwned DEF DerivationRows, Of
  <1>3. Audits(db \cup W, c) = AuditRows(c, x)
    <2>1. ASSUME NEW y \in Audits(db \cup W, c) PROVE y \in AuditRows(c, x)
      <3>1. y \in db \cup W /\ y.table = "audit" /\ Owner(y) = c
        BY DEF Audits, Of, Owner
      <3>2. y \in W
        BY <3>1, CommittedAreFresh
      <3>. QED
        BY <1>1, <1>2, <3>1, <3>2, DerivationOwned DEF DerivationRows
    <2>2. ASSUME NEW y \in AuditRows(c, x) PROVE y \in Audits(db \cup W, c)
      <3>1. y \in W /\ y.table = "audit" /\ y.derivation = c
        BY <1>1, <1>2, <2>2, DerivationOwned DEF DerivationRows
      <3>. QED
        BY <3>1 DEF Audits, Of
    <2>. QED
      BY <2>1, <2>2
  <1>4. CASE x.mode = "recorded"
    <2>1. AuditRows(c, x) = {Audit(c, x.output)}
      BY <1>4 DEF AuditRows
    <2>. QED
      BY <1>2, <1>3, <1>4, <2>1, FS_Singleton DEF AuditStands
  <1>5. CASE x.mode # "recorded"
    <2>1. AuditRows(c, x) = {}
      BY <1>5 DEF AuditRows
    <2>. QED
      BY <1>2, <1>3, <1>5, <2>1, FS_EmptySet DEF AuditStands
  <1>. QED
    BY <1>4, <1>5

\* A response is younger than what it responds to.
LEMMA GraphGrows ==
  ASSUME NEW A, NEW a, GraphIsValid(A), \A p \in A : p.id # a.id,
         \A p \in A : p.parent # None => p.parent # a.id,
         a.id # None, a.parent # a.id,
         a.parent # None => \E p \in A : p.id = a.parent /\ p.relation = a.relation
  PROVE  GraphIsValid(A \cup {a})
  <1>1. \A b \in A \cup {a} : b.parent # None =>
          b.parent # b.id /\ \E p \in A \cup {a} : p.id = b.parent /\ p.relation = b.relation
    BY DEF GraphIsValid
  <1>2. ASSUME NEW C \in SUBSET (A \cup {a}), C # {}
        PROVE  \E b \in C : b.parent \notin Ids(C)
    <2>1. CASE C \subseteq {a}
      BY <1>2, <2>1 DEF Ids
    <2>2. CASE ~(C \subseteq {a})
      <3>1. PICK b \in C \ {a} : b.parent \notin Ids(C \ {a})
        <4>1. C \ {a} \in SUBSET A /\ C \ {a} # {}
          BY <2>2
        <4>. QED
          BY <4>1 DEF GraphIsValid
      <3>2. b.parent # a.id
        BY <3>1
      <3>. QED
        BY <3>1, <3>2 DEF Ids
    <2>. QED
      BY <2>1, <2>2
  <1>. QED
    BY <1>1, <1>2 DEF GraphIsValid

\* Nothing refers to what is not there yet.
LEMMA OthersStand ==
  ASSUME NEW c \in Callers, Coherent(db), Contribution(c) = {}, NEW W, \A x \in W : Owner(x) = c
  PROVE  /\ \A a \in Of(db, "assessment") :
              AssessmentStands(a, db \cup W) /\ IndependenceStands(a, db \cup W)
         /\ \A x \in Of(db, "comparison") : ComparisonStands(x, db \cup W)
         /\ \A a \in Of(db, "assessment") : a.id # c /\ (a.parent # None => a.parent # c)
         /\ \A r \in Of(db, "relation") : r.id # c
  <1>. DEFINE D == db \cup W
  <1>1. \A t : Of(db, t) \subseteq Of(D, t)
    BY DEF Of
  <1>2. \A x \in db : Owner(x) # c
    BY CommittedAreFresh
  <1>3. ASSUME NEW a \in Of(db, "assessment") PROVE AssessmentStands(a, D)
    <2>1. AssessmentStands(a, db)
      BY DEF Coherent
    <2>. HIDE DEF D
    <2>. QED
      BY <1>1, <2>1 DEF AssessmentStands, Ids
  <1>4. ASSUME NEW x \in Of(db, "comparison") PROVE ComparisonStands(x, D)
    <2>1. ComparisonStands(x, db)
      BY DEF Coherent
    <2>. HIDE DEF D
    <2>. QED
      BY <1>1, <2>1 DEF ComparisonStands
  <1>5. \A a \in Of(db, "assessment") : a.id # c
    BY <1>2 DEF Of, Owner
  <1>6. ASSUME NEW a \in Of(db, "assessment") PROVE IndependenceStands(a, D)
    <2>1. IndependenceStands(a, db)
      BY DEF Coherent
    <2>2. (\E x \in Of(D, "comparison") : x.assessment = a.id)
            <=> \E x \in Of(db, "comparison") : x.assessment = a.id
      <3>1. \A x \in Of(D, "comparison") : x.assessment = a.id => x \in Of(db, "comparison")
        BY <1>5 DEF Of, Owner
      <3>. QED
        BY <1>1, <3>1
    <2>. QED
      BY <2>1, <2>2 DEF IndependenceStands
  <1>7. \A a \in Of(db, "assessment") : a.parent # None => a.parent # c
    BY <1>5 DEF Coherent, GraphIsValid
  <1>8. \A r \in Of(db, "relation") : r.id # c
    BY <1>2 DEF Of, Owner
  <1>. QED
    BY <1>3, <1>4, <1>5, <1>6, <1>7, <1>8

LEMMA CoherentGrows ==
  ASSUME NEW c \in Callers, Coherent(db), Contribution(c) = {}, snap[c] \subseteq db,
         NEW W, Whole(W, c)
  PROVE  Coherent(db \cup W)
  <1>. DEFINE D == db \cup W
  <1>1. \A x \in W : Owner(x) = c
    BY WholeOwned
  <1>2. /\ \A a \in Of(db, "assessment") : AssessmentStands(a, D) /\ IndependenceStands(a, D)
        /\ \A x \in Of(db, "comparison") : ComparisonStands(x, D)
        /\ \A a \in Of(db, "assessment") : a.id # c /\ (a.parent # None => a.parent # c)
        /\ \A r \in Of(db, "relation") : r.id # c
    BY <1>1, OthersStand
  <1>3. \A x \in W : Stands(x, D)
    BY PartStands
  <1>4. \A a \in Of(W, "assessment") : IndependenceStands(a, D)
    BY WholeIsIndependent
  <1>5. \A t : Of(D, t) = Of(db, t) \cup Of(W, t)
    BY DEF Of
  <1>6. \A a \in Of(D, "assessment") : AssessmentStands(a, D) /\ IndependenceStands(a, D)
    <2>. HIDE DEF D
    <2>1. \A a \in Of(W, "assessment") : AssessmentStands(a, D)
      BY <1>3 DEF Stands, Of
    <2>. QED
      BY <1>2, <1>4, <1>5, <2>1
  <1>7. \A x \in Of(D, "comparison") : ComparisonStands(x, D)
    <2>. HIDE DEF D
    <2>1. \A x \in Of(W, "comparison") : ComparisonStands(x, D)
      BY <1>3 DEF Stands, Of
    <2>. QED
      BY <1>2, <1>5, <2>1
  <1>8. /\ Of(W, "relation") \subseteq {RelationRow(c)}
        /\ Of(W, "relation") # {} => VersionKnown(req[c])
        /\ Of(W, "assessment") \subseteq {AssessmentRow(c)}
    <2>1. CASE VersionKnown(req[c]) /\ W = {RelationRow(c)}
      BY <2>1, RelationOwned DEF Of
    <2>2. CASE W = {AssessmentRow(c)} \cup ComparisonRows(c, Compared(req[c]))
      BY <2>2, AssessmentOwned DEF Of
    <2>3. CASE W = {Rule(c, req[c])}
      BY <2>3, RuleOwned DEF Of
    <2>4. CASE \E r : W = DerivationRows(c, r)
      BY <2>4, DerivationOwned DEF Of, DerivationRows
    <2>. QED
      BY <2>1, <2>2, <2>3, <2>4 DEF Whole
  <1>9. Of(D, "relation") \subseteq Relation
    <2>1. VersionKnown(req[c]) => RelationRow(c) \in Relation
      BY CallerAssumption DEF VersionKnown, RelationRow, Relation
    <2>. HIDE DEF D
    <2>. QED
      BY <1>5, <1>8, <2>1 DEF Coherent
  <1>10. \A r, s \in Of(D, "relation") : r.id = s.id => r = s
    <2>. HIDE DEF D
    <2>. QED
      BY <1>2, <1>5, <1>8, RelationOwned DEF Coherent
  <1>11. \A a, b \in Of(D, "assessment") : a.id = b.id => a = b
    <2>. HIDE DEF D
    <2>. QED
      BY <1>2, <1>5, <1>8, AssessmentOwned DEF Coherent
  <1>12. GraphIsValid(Of(D, "assessment"))
    <2>. HIDE DEF D
    <2>1. GraphIsValid(Of(db, "assessment"))
      BY DEF Coherent
    <2>2. CASE Of(W, "assessment") = {}
      BY <1>5, <2>1, <2>2
    <2>3. CASE Of(W, "assessment") # {}
      <3>. DEFINE a == AssessmentRow(c)
      <3>1. Of(W, "assessment") = {a} /\ a.id = c
        BY <1>8, <2>3, AssessmentOwned
      <3>. HIDE DEF a
      <3>2. AssessmentStands(a, D)
        BY <1>5, <1>6, <3>1
      <3>3. a.parent # None => \E p \in Of(db, "assessment") : p.id = a.parent /\ p.relation = a.relation
        BY <1>5, <3>1, <3>2 DEF AssessmentStands
      <3>4. a.id # None /\ a.parent # a.id
        BY <3>1, <3>2, CallerAssumption DEF AssessmentStands
      <3>5. GraphIsValid(Of(db, "assessment") \cup {a})
        BY <1>2, <2>1, <3>1, <3>3, <3>4, GraphGrows
      <3>. QED
        BY <1>5, <3>1, <3>5
    <2>. QED
      BY <2>2, <2>3
  <1>. QED
    BY <1>6, <1>7, <1>9, <1>10, <1>11, <1>12 DEF Coherent
-----------------------------------------------------------------------------
(* Steps, for this invariant                                               *)

OthersWait(c) ==
  /\ DOMAIN read' = Callers /\ DOMAIN answer' = Callers
  /\ \A d \in Callers \ {c} :
       /\ work'[d] = work[d] /\ todo'[d] = todo[d] /\ pc'[d] = pc[d] /\ req'[d] = req[d]
       /\ answer'[d] = answer[d] /\ snap'[d] = snap[d] /\ read'[d] = read[d]

Stays(c) == req'[c] = req[c] /\ snap'[c] = snap[c] /\ read'[c] = read[c]

CommitsWhole(c) ==
  pc[c] = "commit" /\ pc'[c] = "done" /\ Stays(c) /\ db' = db \cup work[c]

Moves(c) ==
  /\ OthersWait(c)
  /\ pc[c] # "done"
  /\ snap'[c] = snap[c] \/ snap'[c] = db
  /\ db' = db \/ CommitsWhole(c)
  /\ Progress(c)'

LEMMA MovesKeepEvidence ==
  ASSUME Inv, Evidence, NEW c \in Callers, Moves(c)
  PROVE  Evidence'
  <1>1. Contribution(c) = {}
    BY DEF Evidence, Contributed, Moves
  <1>2. snap[c] \subseteq db
    BY DEF Inv, SnapshotIsPast
  <1>3. db \subseteq db'
    BY DEF Moves, CommitsWhole
  <1>4. CommitsWhole(c) => \E W : W = work[c] /\ Whole(W, c)
    BY DEF CommitsWhole, Evidence, Progress, Written
  <1>5. Coherent(db')
    <2>1. CASE db' = db
      BY <2>1 DEF Evidence
    <2>2. CASE CommitsWhole(c)
      <3>1. PICK W : W = work[c] /\ Whole(W, c)
        BY <1>4, <2>2
      <3>2. Coherent(db \cup W)
        BY <1>1, <1>2, <3>1, CoherentGrows DEF Evidence
      <3>. QED
        BY <2>2, <3>1, <3>2 DEF CommitsWhole
    <2>. QED
      BY <2>1, <2>2 DEF Moves
  <1>6. ASSUME NEW d \in Callers PROVE Coherent(snap'[d])
    BY DEF Evidence, Moves, OthersWait
  <1>7. ASSUME NEW d \in Callers PROVE Progress(d)'
    <2>1. CASE d = c
      BY <2>1 DEF Moves
    <2>2. CASE d # c
      BY <1>3, <2>2, ProgressStays DEF Evidence, Moves, OthersWait
    <2>. QED
      BY <2>1, <2>2
  <1>8. ASSUME NEW d \in Callers, d # c PROVE Contributed(d)'
    <2>1. Contribution(d)' = Contribution(d)
      <3>1. CommitsWhole(c) => \A x \in work[c] : Owner(x) = c
        BY <1>4, WholeOwned
      <3>2. \A x : x \in db' /\ Owner(x) = d => x \in db
        BY <1>8, <3>1 DEF Moves, CommitsWhole
      <3>. QED
        BY <1>3, <3>2 DEF Contribution
    <2>2. /\ req'[d] = req[d] /\ read'[d] = read[d] /\ snap'[d] = snap[d] /\ pc'[d] = pc[d]
      BY <1>8 DEF Moves, OthersWait
    <2>3. ASSUME Contribution(d) # {}
          PROVE  pc'[d] = "done" /\ \E W : W = Contribution(d) /\ Whole(W, d)'
      BY <1>3, <2>2, <2>3, WholeStays DEF Evidence, Contributed
    <2>. QED
      BY <2>1, <2>3 DEF Contributed
  <1>9. Contributed(c)'
    <2>1. CASE db' = db
      BY <1>1, <2>1 DEF Contributed, Contribution
    <2>2. CASE CommitsWhole(c)
      <3>1. PICK W : W = work[c] /\ Whole(W, c)
        BY <1>4, <2>2
      <3>2. Whole(W, c)'
        BY <1>3, <2>2, <3>1, WholeStays DEF CommitsWhole, Stays
      <3>3. Contribution(c)' = W
        BY <1>1, <2>2, <3>1, WholeOwned DEF CommitsWhole, Contribution
      <3>. QED
        BY <2>2, <3>2, <3>3 DEF Contributed, CommitsWhole
    <2>. QED
      BY <2>1, <2>2 DEF Moves
  <1>. QED
    BY <1>5, <1>6, <1>7, <1>8, <1>9 DEF Evidence, Moves, OthersWait

-----------------------------------------------------------------------------
(* Every action is such a move                                             *)

\* Where it goes, and that nothing else of the invariant is asked there.
LEMMA UnwrittenProgress ==
  ASSUME NEW c \in Callers, pc'[c] \in Unwritten \ {"response", "comparisons", "insert"},
         work'[c] = {}, Reading(c)'
  PROVE  Progress(c)'
  BY DEF Progress, Written, Unwritten, Points

LEMMA EndedMoves ==
  ASSUME Inv, Evidence, NEW c \in Callers, NEW kind, Ended(c, kind), pc[c] # "done",
         db' = db \/ (pc[c] = "commit" /\ db' = db \cup work[c]),
         snap' = snap, read' = read, kind # "read"
  PROVE  Moves(c)
  <1>1. pc' = [pc EXCEPT ![c] = "done"] /\ answer' = [answer EXCEPT ![c] = kind]
        /\ work' = [work EXCEPT ![c] = {}] /\ todo' = [todo EXCEPT ![c] = {}] /\ req' = req
    BY DEF Ended
  <1>2. pc'[c] = "done" /\ answer'[c] # "read" /\ work'[c] = {}
    BY <1>1 DEF Inv, Shapes, Evidence
  <1>3. Reading(c)'
    BY <1>2 DEF Reading
  <1>4. Progress(c)'
    BY <1>2, <1>3, UnwrittenProgress DEF Unwritten
  <1>5. OthersWait(c)
    BY <1>1 DEF OthersWait, Inv, Shapes, Evidence
  <1>6. db' = db \/ CommitsWhole(c)
    BY <1>1, <1>2 DEF CommitsWhole, Stays
  <1>. QED
    BY <1>4, <1>5, <1>6 DEF Moves

LEMMA RefusedMoves ==
  ASSUME Inv, Evidence, NEW c \in Callers, NEW kind, Refused(c, kind), pc[c] # "done",
         snap' = snap, read' = read, kind # "read"
  PROVE  Moves(c)
  BY EndedMoves DEF Refused

LEMMA BeginMoves ==
  ASSUME Inv, Evidence, NEW c \in Callers, NEW q, NEW point, Begin(c, q, point),
         point \in {"evidence", "lock", "define", "version"}, snap' = snap, read' = read
  PROVE  Moves(c)
  <1>1. /\ pc[c] = "idle" /\ pc' = [pc EXCEPT ![c] = point] /\ req' = [req EXCEPT ![c] = q]
        /\ UNCHANGED <<db, work, todo, answer>>
    BY DEF Begin
  <1>2. work[c] = {} /\ read[c] = {} /\ answer[c] # "read"
    BY <1>1 DEF Evidence, Progress, Written, Reading, Unwritten
  <1>3. pc'[c] = point
    BY <1>1 DEF Inv, Shapes
  <1>4. Reading(c)'
    BY <1>1, <1>2, <1>3 DEF Reading
  <1>5. Progress(c)'
    BY <1>1, <1>2, <1>3, <1>4, UnwrittenProgress DEF Unwritten
  <1>6. OthersWait(c)
    BY <1>1 DEF OthersWait, Inv, Shapes, Evidence
  <1>. QED
    BY <1>1, <1>5, <1>6 DEF Moves
LEMMA CommitProgress ==
  ASSUME NEW c \in Callers, pc'[c] = "commit", answer'[c] # "read",
         NEW W, W = work'[c], Whole(W, c)'
  PROVE  Progress(c)'
  <1>1. Reading(c)'
    BY DEF Reading
  <1>2. Written(c)'
    BY DEF Written, Unwritten
  <1>. QED
    BY <1>1, <1>2 DEF Progress, Points

\* A step that moves only its caller's program counter, and what it says.
LEMMA LocalMoves ==
  ASSUME Inv, Evidence, NEW c \in Callers, NEW point, NEW rows, NEW left,
         pc' = [pc EXCEPT ![c] = point],
         work' = work \/ work' = [work EXCEPT ![c] = rows],
         todo' = todo \/ todo' = [todo EXCEPT ![c] = left],
         UNCHANGED <<db, req, answer, snap, read>>,
         pc[c] # "done", Progress(c)'
  PROVE  Moves(c)
  BY DEF Moves, OthersWait, Inv, Shapes, Evidence

LEMMA InsertEvidenceMoves ==
  ASSUME Inv, Evidence, NEW c \in Callers, InsertEvidence(c), Unread
  PROVE  Moves(c)
  <1>1. /\ pc' = [pc EXCEPT ![c] = "commit"] /\ work' = [work EXCEPT ![c] = {RelationRow(c)}]
        /\ UNCHANGED <<db, todo, req, answer, snap, read>>
        /\ pc[c] = "evidence" /\ VersionKnown(req[c])
    BY DEF InsertEvidence, RelationRow, Unread
  <1>2. pc'[c] = "commit" /\ work'[c] = {RelationRow(c)} /\ answer'[c] # "read"
    BY <1>1 DEF Inv, Shapes, Evidence, Progress, Reading
  <1>3. PICK W : W = {RelationRow(c)}
    OBVIOUS
  <1>4. Whole(W, c)'
    BY <1>1, <1>3 DEF Whole, RelationRow
  <1>5. Progress(c)'
    BY <1>2, <1>3, <1>4, CommitProgress
  <1>. QED
    BY <1>1, <1>5, LocalMoves

LEMMA GotoMoves ==
  ASSUME Inv, Evidence, NEW c \in Callers, NEW point, Goto(c, point), Unread, pc[c] # "done",
         Progress(c)'
  PROVE  Moves(c)
  BY LocalMoves DEF Goto, Unread, Inv, Shapes

\* The checks of an assessment, which change nothing but where it stands.
LEMMA CheckMoves ==
  ASSUME Inv, Evidence, NEW c \in Callers, Unread,
         LockRelation(c) \/ CheckResponse(c) \/ CheckComparisons(c)
  PROVE  Moves(c)
  <1>1. /\ UNCHANGED <<db, work, todo, req, answer, snap, read>>
        /\ \/ pc[c] = "lock" /\ pc' = [pc EXCEPT ![c] = "response"] /\ Assessed(c)
           \/ pc[c] = "response" /\ pc' = [pc EXCEPT ![c] = "comparisons"] /\ Targeted(c)
           \/ pc[c] = "comparisons" /\ pc' = [pc EXCEPT ![c] = "insert"] /\ Compares(c)
    BY DEF Unread, LockRelation, CheckResponse, CheckComparisons, Goto, Assessed, Targeted, Compares
  <1>2. /\ pc[c] \in {"lock", "response", "comparisons"} /\ work[c] = {} /\ answer[c] # "read"
        /\ pc[c] \in {"response", "comparisons"} => Assessed(c)
        /\ pc[c] = "comparisons" => Targeted(c)
    BY <1>1 DEF Evidence, Progress, Written, Reading, Unwritten
  <1>3. \/ pc[c] = "lock" /\ pc'[c] = "response" /\ Assessed(c)
        \/ pc[c] = "response" /\ pc'[c] = "comparisons" /\ Targeted(c)
        \/ pc[c] = "comparisons" /\ pc'[c] = "insert" /\ Compares(c)
    BY <1>1 DEF Inv, Shapes
  <1>4. /\ Assessed(c) => Assessed(c)'
        /\ Targeted(c) => Targeted(c)'
        /\ Compares(c) => Compares(c)'
    BY <1>1, ChecksStay
  <1>5. work'[c] = {} /\ answer'[c] # "read"
    BY <1>1, <1>2
  <1>6. Reading(c)'
    BY <1>3, <1>5 DEF Reading
  <1>7. Written(c)'
    BY <1>2, <1>3, <1>4, <1>5 DEF Written, Unwritten
  <1>8. Progress(c)'
    BY <1>3, <1>6, <1>7 DEF Progress, Points, Unwritten
  <1>. QED
    BY <1>1, <1>2, <1>8, LocalMoves

LEMMA InsertAssessmentMoves ==
  ASSUME Inv, Evidence, NEW c \in Callers, InsertAssessment(c), Unread
  PROVE  Moves(c)
  <1>. DEFINE point == IF Compared(req[c]) = {} THEN "commit" ELSE "compare"
  <1>1. /\ pc' = [pc EXCEPT ![c] = point] /\ work' = [work EXCEPT ![c] = {AssessmentRow(c)}]
        /\ todo' = [todo EXCEPT ![c] = Compared(req[c])]
        /\ UNCHANGED <<db, req, answer, snap, read>> /\ pc[c] = "insert"
    BY DEF InsertAssessment, AssessmentRow, Unread
  <1>2. /\ pc'[c] = point /\ work'[c] = {AssessmentRow(c)} /\ answer'[c] # "read"
        /\ todo'[c] = Compared(req[c])
    BY <1>1 DEF Inv, Shapes, Evidence, Progress, Reading
  <1>3. Assessable(c)
    BY <1>1 DEF Evidence, Progress, Written, Assessable
  <1>4. Assessable(c)' /\ AssessmentRow(c)' = AssessmentRow(c) /\ Compared(req[c])' = Compared(req[c])
    BY <1>1, <1>3, ChecksStay DEF AssessmentRow
  <1>5. Progress(c)'
    <2>1. CASE Compared(req[c]) = {}
      <3>1. PICK W : W = {AssessmentRow(c)} \cup ComparisonRows(c, Compared(req[c]))
        OBVIOUS
      <3>2. Whole(W, c)'
        BY <1>4, <3>1 DEF Whole
      <3>3. W = work'[c]
        BY <1>2, <2>1, <3>1 DEF ComparisonRows
      <3>. QED
        BY <1>2, <2>1, <3>2, <3>3, CommitProgress
    <2>2. CASE Compared(req[c]) # {}
      <3>1. pc'[c] = "compare"
        BY <1>2, <2>2
      <3>2. work'[c] = {AssessmentRow(c)} \cup ComparisonRows(c, Compared(req[c]) \ todo'[c])
        BY <1>2 DEF ComparisonRows
      <3>3. Written(c)'
        BY <1>1, <1>2, <1>4, <2>2, <3>1, <3>2 DEF Written, Unwritten
      <3>4. Reading(c)'
        BY <1>2, <3>1 DEF Reading
      <3>. QED
        BY <3>1, <3>3, <3>4 DEF Progress, Points
    <2>. QED
      BY <2>1, <2>2
  <1>. HIDE DEF point
  <1>. QED
    BY <1>1, <1>5, LocalMoves

LEMMA InsertComparisonMoves ==
  ASSUME Inv, Evidence, NEW c \in Callers, InsertComparison(c), Unread
  PROVE  Moves(c)
  <1>. DEFINE r == NextReference(c)
              row == [table |-> "comparison", assessment |-> c, relation |-> r]
              point == IF todo[c] = {r} THEN "commit" ELSE pc[c]
              rows == work[c] \cup {row}
  <1>1. /\ pc[c] = "compare" /\ pc' = [pc EXCEPT ![c] = point]
        /\ work' = [work EXCEPT ![c] = rows]
        /\ todo' = [todo EXCEPT ![c] = todo[c] \ {r}]
        /\ UNCHANGED <<db, req, answer, snap, read>>
    BY DEF InsertComparison, Refer, Unread
  <1>2. /\ Assessable(c) /\ todo[c] # {} /\ todo[c] \subseteq Compared(req[c]) /\ answer[c] # "read"
        /\ work[c] = {AssessmentRow(c)} \cup ComparisonRows(c, Compared(req[c]) \ todo[c])
    BY <1>1 DEF Evidence, Progress, Written, Reading
  <1>3. r \in todo[c]
    <2>1. Compared(req[c]) \subseteq Nat
      BY <1>2, RelationsOfVersion DEF Assessable, Compares, ComparisonsFound, Evidence, Coherent, Relation
    <2>. QED
      BY <1>2, <2>1, NextIsLeft
  <1>4. PICK s : s = r
    OBVIOUS
  <1>5. rows = {AssessmentRow(c)} \cup ComparisonRows(c, Compared(req[c]) \ (todo[c] \ {s}))
    BY <1>2, <1>3, <1>4 DEF ComparisonRows
  <1>. HIDE DEF r, row, rows, point
  <1>6. pc'[c] = point /\ work'[c] = rows /\ todo'[c] = todo[c] \ {s} /\ answer'[c] # "read"
    BY <1>1, <1>2, <1>4 DEF Inv, Shapes
  <1>7. Assessable(c)' /\ AssessmentRow(c)' = AssessmentRow(c) /\ Compared(req[c])' = Compared(req[c])
    BY <1>1, <1>2, ChecksStay DEF AssessmentRow
  <1>8. Progress(c)'
    <2>1. CASE todo[c] = {s}
      <3>1. pc'[c] = "commit"
        BY <1>4, <1>6, <2>1 DEF point
      <3>2. PICK W : W = {AssessmentRow(c)} \cup ComparisonRows(c, Compared(req[c]))
        OBVIOUS
      <3>3. Whole(W, c)'
        BY <1>7, <3>2 DEF Whole
      <3>4. Compared(req[c]) \ (todo[c] \ {s}) = Compared(req[c])
        BY <2>1
      <3>5. W = work'[c]
        BY <1>5, <1>6, <3>2, <3>4
      <3>. QED
        BY <1>6, <3>1, <3>3, <3>5, CommitProgress
    <2>2. CASE todo[c] # {s}
      <3>1. pc'[c] = "compare" /\ todo'[c] # {} /\ todo'[c] \subseteq Compared(req'[c])
        BY <1>1, <1>2, <1>3, <1>4, <1>6, <2>2 DEF point
      <3>2. work'[c] = {AssessmentRow(c)} \cup ComparisonRows(c, Compared(req[c]) \ todo'[c])
        BY <1>5, <1>6
      <3>3. Written(c)'
        BY <1>1, <1>7, <3>1, <3>2 DEF Written, Unwritten
      <3>4. Reading(c)'
        BY <1>6, <3>1 DEF Reading
      <3>. QED
        BY <3>1, <3>3, <3>4 DEF Progress, Points
    <2>. QED
      BY <2>1, <2>2
  <1>. QED
    BY <1>1, <1>8, LocalMoves

LEMMA EvidenceStepMoves ==
  ASSUME Inv, Evidence, NEW c \in Callers, EvidenceStep(c), Unread
  PROVE  Moves(c)
  <1>. USE DEF Unread
  <1>1. CASE VersionUnknown(c) \/ RelationUnknown(c) \/ ComparisonsRefused(c)
    BY <1>1, RefusedMoves DEF VersionUnknown, RelationUnknown, ComparisonsRefused
  <1>2. CASE ResponseRefused(c)
    BY <1>2, RefusedMoves DEF ResponseRefused
  <1>3. CASE DeadlockVictim(c)
    <2>1. \E y \in Callers : Waits(c, y)
      BY <1>3 DEF DeadlockVictim, Deadlocked
    <2>2. pc[c] # "done"
      BY <2>1 DEF Waits, Inv, Locks, LocksOf
    <2>. QED
      BY <1>3, <2>2, RefusedMoves DEF DeadlockVictim
  <1>4. CASE Commit(c)
    BY <1>4, EndedMoves DEF Commit
  <1>. QED
    BY <1>1, <1>2, <1>3, <1>4, InsertEvidenceMoves, CheckMoves, InsertAssessmentMoves, InsertComparisonMoves
       DEF EvidenceStep
LEMMA InsertRuleMoves ==
  ASSUME Inv, Evidence, NEW c \in Callers, InsertRule(c)
  PROVE  Moves(c)
  <1>1. /\ pc[c] = "define" /\ pc' = [pc EXCEPT ![c] = "commit"]
        /\ work' = [work EXCEPT ![c] = {Rule(c, req[c])}]
        /\ UNCHANGED <<db, todo, req, answer, snap, read>>
    BY DEF InsertRule, Unread
  <1>2. pc'[c] = "commit" /\ work'[c] = {Rule(c, req[c])} /\ answer'[c] # "read"
    BY <1>1 DEF Inv, Shapes, Evidence, Progress, Reading
  <1>3. PICK W : W = {Rule(c, req[c])}
    OBVIOUS
  <1>4. Whole(W, c)'
    BY <1>1, <1>3 DEF Whole
  <1>5. Progress(c)'
    BY <1>2, <1>3, <1>4, CommitProgress
  <1>. QED
    BY <1>1, <1>5, LocalMoves

LEMMA LoadMoves ==
  ASSUME Inv, Evidence, NEW c \in Callers,
         LoadVersion(c) \/ LoadRelations(c) \/ LoadAssessments(c) \/ LoadComparisons(c)
  PROVE  Moves(c)
  <1>. DEFINE R == RelationsOf(snap[c], req[c].version)
              A == AssessmentsOf(snap[c], req[c].version)
              C == ComparisonsOf(snap[c], req[c].version)
  <1>1. /\ db' = db /\ req' = req
        /\ pc[c] \in {"version", "read relations", "read assessments", "read comparisons"}
    BY DEF LoadVersion, LoadRelations, LoadAssessments, LoadComparisons, Goto, Ended
  <1>2. work[c] = {} /\ answer[c] # "read"
    BY <1>1 DEF Evidence, Progress, Written, Reading, Unwritten
  <1>3. /\ pc[c] \in {"version", "read relations"} => read[c] = {}
        /\ pc[c] = "read assessments" => read[c] = R
        /\ pc[c] = "read comparisons" => read[c] = R \cup A
    BY DEF Evidence, Progress, Reading
  <1>4. CASE LoadVersion(c)
    <2>1. /\ pc' = [pc EXCEPT ![c] = "read relations"] /\ snap' = [snap EXCEPT ![c] = db]
          /\ UNCHANGED <<work, todo, answer, read>> /\ pc[c] = "version"
      BY <1>4 DEF LoadVersion, Goto
    <2>2. pc'[c] = "read relations" /\ snap'[c] = db
      BY <2>1 DEF Inv, Shapes
    <2>3. Reading(c)'
      BY <1>2, <1>3, <2>1, <2>2 DEF Reading
    <2>4. Progress(c)'
      BY <1>2, <2>1, <2>2, <2>3, UnwrittenProgress DEF Unwritten
    <2>. QED
      BY <1>1, <2>1, <2>2, <2>4 DEF Moves, OthersWait, Inv, Shapes, Evidence
  <1>5. ASSUME NEW rows, Load(c, rows), NEW point, point # "read relations", Goto(c, point),
               Reading(c)', point \in Unwritten \ {"response", "comparisons", "insert"}
        PROVE  Moves(c)
    <2>1. /\ pc' = [pc EXCEPT ![c] = point] /\ read' = [read EXCEPT ![c] = read[c] \cup rows]
          /\ UNCHANGED <<work, todo, answer, snap>>
      BY <1>5 DEF Goto, Load
    <2>2. pc'[c] = point /\ work'[c] = {}
      BY <1>2, <2>1 DEF Inv, Shapes
    <2>3. Progress(c)'
      BY <1>5, <2>2, UnwrittenProgress
    <2>. QED
      BY <1>1, <2>1, <2>3 DEF Moves, OthersWait, Inv, Shapes, Evidence
  <1>6. CASE LoadRelations(c)
    <2>1. Load(c, R) /\ Goto(c, "read assessments")
      BY <1>6 DEF LoadRelations, Visible
    <2>2. pc[c] = "read relations"
      BY <1>6 DEF LoadRelations
    <2>3. /\ read'[c] = R /\ snap'[c] = snap[c] /\ pc'[c] = "read assessments" /\ answer'[c] # "read"
      BY <1>2, <1>3, <2>1, <2>2 DEF Load, Goto, Inv, Shapes, Evidence
    <2>4. Reading(c)'
      BY <1>1, <2>3 DEF Reading
    <2>. QED
      BY <1>5, <2>1, <2>4 DEF Unwritten
  <1>7. CASE LoadAssessments(c)
    <2>1. Load(c, A) /\ Goto(c, "read comparisons")
      BY <1>7 DEF LoadAssessments, Visible
    <2>2. pc[c] = "read assessments"
      BY <1>7 DEF LoadAssessments
    <2>3. /\ read'[c] = R \cup A /\ snap'[c] = snap[c]
          /\ pc'[c] = "read comparisons" /\ answer'[c] # "read"
      BY <1>2, <1>3, <2>1, <2>2 DEF Load, Goto, Inv, Shapes, Evidence
    <2>4. Reading(c)'
      BY <1>1, <2>3 DEF Reading
    <2>. QED
      BY <1>5, <2>1, <2>4 DEF Unwritten
  <1>8. CASE LoadComparisons(c)
    <2>1. Load(c, C) /\ pc[c] = "read comparisons"
      BY <1>8 DEF LoadComparisons, Visible
    <2>2. read'[c] = R \cup A \cup C /\ snap'[c] = snap[c] /\ snap' = snap
      BY <1>3, <2>1 DEF Load, Evidence
    <2>3. Loaded(c)'
      BY <1>1, <2>2 DEF Loaded
    <2>4. CASE Goto(c, "rule")
      <3>1. pc'[c] = "rule" /\ answer'[c] # "read"
        BY <1>2, <2>4 DEF Goto, Inv, Shapes
      <3>2. Reading(c)'
        BY <2>3, <3>1 DEF Reading
      <3>. QED
        BY <1>5, <2>1, <2>4, <3>2 DEF Unwritten
    <2>5. CASE Ended(c, "read")
      <3>1. pc' = [pc EXCEPT ![c] = "done"] /\ answer' = [answer EXCEPT ![c] = "read"]
            /\ work' = [work EXCEPT ![c] = {}] /\ todo' = [todo EXCEPT ![c] = {}]
        BY <2>5 DEF Ended
      <3>2. pc'[c] = "done" /\ work'[c] = {}
        BY <3>1 DEF Inv, Shapes
      <3>3. Reading(c)'
        BY <2>3, <3>2 DEF Reading
      <3>4. Progress(c)'
        BY <3>2, <3>3, UnwrittenProgress DEF Unwritten
      <3>. QED
        BY <1>1, <2>1, <2>2, <3>1, <3>4 DEF Load, Moves, OthersWait, Inv, Shapes, Evidence
    <2>. QED
      BY <1>8, <2>4, <2>5 DEF LoadComparisons
  <1>. QED
    BY <1>4, <1>6, <1>7, <1>8

LEMMA InsertDerivationMoves ==
  ASSUME Inv, Evidence, NEW c \in Callers, InsertDerivation(c)
  PROVE  Moves(c)
  <1>. DEFINE point == IF References(c) = {} THEN "inputs" ELSE "evidence inputs"
  <1>1. PICK r \in RuleOf(c) : RuleFits(r, req[c], read[c])
                               /\ work' = [work EXCEPT ![c] = {Derivation(c, r)}]
    BY DEF InsertDerivation
  <1>2. /\ pc[c] = "rule" /\ todo' = [todo EXCEPT ![c] = References(c)]
        /\ UNCHANGED <<db, req, answer, snap, read>>
    BY DEF InsertDerivation, Unread, References
  <1>3. todo'[c] = References(c) /\ pc' = [pc EXCEPT ![c] = point]
    BY <1>2 DEF InsertDerivation, Inv, Shapes
  <1>4. r \in Of(db, "rule") /\ Applies(r, c)
    BY <1>1 DEF RuleOf, Visible, Of, Applies, Inv, SnapshotIsPast
  <1>5. Loaded(c) /\ answer[c] # "read"
    BY <1>2 DEF Evidence, Progress, Reading
  <1>6. /\ Applies(r, c)' /\ Derivation(c, r)' = Derivation(c, r) /\ References(c)' = References(c)
        /\ r \in Of(db', "rule")
    BY <1>2, <1>4, AppliesStays
  <1>7. Loaded(c)'
    BY <1>2, <1>5, LoadedStays
  <1>8. work'[c] = {Derivation(c, r)} /\ pc'[c] = point /\ answer'[c] # "read"
    BY <1>1, <1>2, <1>3, <1>5 DEF Inv, Shapes
  <1>9. pc'[c] = "inputs" => EvidenceRows(c, References(c)) = {}
    BY <1>8 DEF EvidenceRows
  <1>10. EvidenceRows(c, References(c) \ todo'[c]) = {}
    BY <1>3 DEF EvidenceRows
  <1>11. pc'[c] = "evidence inputs" => todo'[c] # {}
    <2>1. CASE References(c) = {}
      BY <1>8, <2>1
    <2>2. CASE References(c) # {}
      BY <1>3, <2>2
    <2>. QED
      BY <2>1, <2>2
  <1>12. pc'[c] \in {"inputs", "evidence inputs"}
    BY <1>8
  <1>. HIDE DEF point
  <1>13. Written(c)'
    BY <1>3, <1>6, <1>7, <1>8, <1>9, <1>10, <1>11, <1>12 DEF Written, Unwritten
  <1>14. Reading(c)'
    BY <1>8, <1>12 DEF Reading
  <1>15. Progress(c)'
    BY <1>12, <1>13, <1>14 DEF Progress, Points
  <1>. QED
    BY <1>1, <1>2, <1>3, <1>15, LocalMoves

LEMMA InsertEvidenceInputMoves ==
  ASSUME Inv, Evidence, NEW c \in Callers, InsertEvidenceInput(c)
  PROVE  Moves(c)
  <1>. DEFINE s == NextReference(c)
              row == EvidenceInput(c, s)
              point == IF todo[c] = {s} THEN "inputs" ELSE pc[c]
              rows == work[c] \cup {row}
  <1>1. /\ pc[c] = "evidence inputs" /\ pc' = [pc EXCEPT ![c] = point]
        /\ work' = [work EXCEPT ![c] = rows]
        /\ todo' = [todo EXCEPT ![c] = todo[c] \ {s}]
        /\ UNCHANGED <<db, req, answer, snap, read>>
    BY DEF InsertEvidenceInput, Refer, Unread
  <1>2. Loaded(c) /\ todo[c] # {} /\ todo[c] \subseteq References(c) /\ answer[c] # "read"
    BY <1>1 DEF Evidence, Progress, Written, Reading
  <1>3. PICK r \in Of(db, "rule") :
          Applies(r, c) /\ work[c] = {Derivation(c, r)} \cup EvidenceRows(c, References(c) \ todo[c])
    BY <1>1 DEF Evidence, Progress, Written
  <1>4. s \in todo[c]
    <2>1. References(c) \subseteq Nat
      <3>1. Coherent(snap[c])
        BY DEF Evidence
      <3>2. \A x \in Of(read[c], "relation") : x \in Of(snap[c], "relation")
        BY <1>2 DEF Loaded, Of, RelationsOf, AssessmentsOf, ComparisonsOf
      <3>3. \A x \in Of(snap[c], "relation") : x.id \in Nat
        BY <3>1 DEF Coherent, Relation
      <3>. QED
        BY <3>2, <3>3 DEF References, Ids
    <2>. QED
      BY <1>2, <2>1, NextIsLeft
  <1>5. PICK t : t = s
    OBVIOUS
  <1>6. rows = {Derivation(c, r)} \cup EvidenceRows(c, References(c) \ (todo[c] \ {t}))
    BY <1>2, <1>3, <1>4, <1>5 DEF EvidenceRows
  <1>. HIDE DEF s, row, rows, point
  <1>7. pc'[c] = point /\ work'[c] = rows /\ todo'[c] = todo[c] \ {t} /\ answer'[c] # "read"
    BY <1>1, <1>2, <1>5 DEF Inv, Shapes
  <1>8. /\ r \in Of(db', "rule") /\ Applies(r, c)'
        /\ Derivation(c, r)' = Derivation(c, r) /\ References(c)' = References(c)
    BY <1>1, <1>3, AppliesStays
  <1>9. Loaded(c)'
    BY <1>1, <1>2, LoadedStays
  <1>10. pc'[c] = "inputs" => References(c) \ (todo[c] \ {t}) = References(c)
    BY <1>1, <1>5, <1>7 DEF point
  <1>11. pc'[c] = "inputs" => work'[c] = {Derivation(c, r)} \cup EvidenceRows(c, References(c))
    BY <1>6, <1>7, <1>10
  <1>12. pc'[c] = "evidence inputs" =>
           /\ todo'[c] # {} /\ todo'[c] \subseteq References(c)
           /\ work'[c] = {Derivation(c, r)} \cup EvidenceRows(c, References(c) \ todo'[c])
    BY <1>2, <1>4, <1>5, <1>6, <1>7 DEF point
  <1>13. pc'[c] \in {"inputs", "evidence inputs"}
    BY <1>1, <1>7 DEF point
  <1>14. Written(c)'
    BY <1>8, <1>9, <1>11, <1>12, <1>13 DEF Written, Unwritten
  <1>15. Reading(c)'
    BY <1>7, <1>13 DEF Reading
  <1>16. Progress(c)'
    BY <1>13, <1>14, <1>15 DEF Progress, Points
  <1>. QED
    BY <1>1, <1>16, LocalMoves

LEMMA InsertInputsMoves ==
  ASSUME Inv, Evidence, NEW c \in Callers, InsertInputs(c)
  PROVE  Moves(c)
  <1>. DEFINE audits == {Audit(c, x.output) : x \in {y \in Of(work[c], "derivation") : y.mode = "recorded"}}
              rows == work[c] \cup AssessmentInputRows(c) \cup audits
  <1>1. /\ pc[c] = "inputs" /\ pc' = [pc EXCEPT ![c] = "commit"]
        /\ work' = [work EXCEPT ![c] = rows]
        /\ UNCHANGED <<db, todo, req, answer, snap, read>>
    BY DEF InsertInputs, Unread, Inv, Shapes
  <1>2. Loaded(c) /\ answer[c] # "read"
    BY <1>1 DEF Evidence, Progress, Written, Reading
  <1>3. PICK r \in Of(db, "rule") :
          Applies(r, c) /\ work[c] = {Derivation(c, r)} \cup EvidenceRows(c, References(c))
    BY <1>1 DEF Evidence, Progress, Written
  <1>4. audits = AuditRows(c, Derivation(c, r))
    <2>1. Of(work[c], "derivation") = {Derivation(c, r)}
      BY <1>3, DerivationOwned DEF Of
    <2>. QED
      BY <2>1 DEF AuditRows
  <1>5. rows = DerivationRows(c, r)
    BY <1>3, <1>4 DEF DerivationRows
  <1>. HIDE DEF audits, rows
  <1>6. pc'[c] = "commit" /\ work'[c] = rows /\ answer'[c] # "read"
    BY <1>1, <1>2 DEF Inv, Shapes
  <1>7. PICK W : W = rows
    OBVIOUS
  <1>8. r \in Of(db', "rule") /\ Applies(r, c)' /\ W = DerivationRows(c, r)'
    BY <1>1, <1>3, <1>5, <1>7, AppliesStays
  <1>9. Loaded(c)'
    BY <1>1, <1>2, LoadedStays
  <1>10. Whole(W, c)'
    BY <1>8, <1>9 DEF Whole
  <1>11. Progress(c)'
    BY <1>6, <1>7, <1>10, CommitProgress
  <1>. QED
    BY <1>1, <1>11, LocalMoves

LEMMA StepMoves ==
  ASSUME Inv, Evidence, NEW c \in Callers, Step(c)
  PROVE  Moves(c)
  <1>1. CASE EvidenceStep(c) /\ Unread
    BY <1>1, EvidenceStepMoves
  <1>2. CASE RuleRefused(c) \/ VersionMissing(c) \/ DerivationRefused(c)
    BY <1>2, RefusedMoves DEF RuleRefused, VersionMissing, DerivationRefused, Unread
  <1>. QED
    BY <1>1, <1>2, InsertRuleMoves, LoadMoves, InsertDerivationMoves, InsertEvidenceInputMoves,
       InsertInputsMoves DEF Step

LEMMA InitEvidence == Init => Evidence
  <1>. SUFFICES ASSUME Init PROVE Evidence
    OBVIOUS
  <1>1. db = Stored /\ DOMAIN read = Callers /\ DOMAIN answer = Callers
    BY DEF Init, EvidenceInit
  <1>2. ASSUME NEW c \in Callers
        PROVE  work[c] = {} /\ pc[c] = "idle" /\ answer[c] = "none" /\ snap[c] = {} /\ read[c] = {}
    BY DEF Init, EvidenceInit
  <1>3. ASSUME NEW c \in Callers PROVE Progress(c)
    BY <1>2 DEF Progress, Written, Reading, Points, Unwritten
  <1>4. ASSUME NEW c \in Callers PROVE Contributed(c)
    BY <1>1, StoredUnowned DEF Contributed, Contribution
  <1>5. Coherent(Stored)
    BY StoredAssumption DEF Coherent, Stands, Of, Entities
  <1>6. Coherent({})
    BY DEF Coherent, Of, GraphIsValid
  <1>7. \A c \in Callers : Coherent(snap[c])
    BY <1>2, <1>6
  <1>. QED
    BY <1>1, <1>3, <1>4, <1>5, <1>7 DEF Evidence

LEMMA EvidenceNext == Inv /\ Evidence /\ [Next]_vars => Evidence'
  <1>. SUFFICES ASSUME Inv, Evidence, [Next]_vars PROVE Evidence'
    OBVIOUS
  <1>1. CASE UNCHANGED vars
    <2>1. UNCHANGED <<db, work, todo, pc, req, answer, snap, read>>
      BY <1>1 DEF vars, evars
    <2>2. \A c \in Callers : Progress(c)'
      BY <2>1, ProgressStays DEF Evidence
    <2>3. ASSUME NEW c \in Callers PROVE Contributed(c)'
      BY <2>1, WholeStays DEF Evidence, Contributed, Contribution
    <2>. QED
      BY <2>1, <2>2, <2>3 DEF Evidence
  <1>2. ASSUME NEW c \in Callers, Step(c) PROVE Evidence'
    BY <1>2, StepMoves, MovesKeepEvidence
  <1>3. ASSUME NEW c \in Callers, CallLost(c), Unread PROVE Evidence'
    <2>1. Moves(c)
      BY <1>3, EndedMoves DEF CallLost, Unread
    <2>. QED
      BY <2>1, MovesKeepEvidence
  <1>4. ASSUME NEW c \in Callers, NEW q, Call(c, q) PROVE Evidence'
    <2>1. Moves(c)
      BY <1>4, BeginMoves
         DEF Call, CreateEvidence, CreateAssessment, CreateRule, CreateDerivation, GetDetails, Unread
    <2>. QED
      BY <2>1, MovesKeepEvidence
  <1>. QED
    BY <1>1, <1>2, <1>3, <1>4 DEF Next

LEMMA EvidenceInvariance == Spec => [](Inv /\ Evidence)
  BY InitInv, InvNext, InitEvidence, EvidenceNext, PTL DEF Spec
-----------------------------------------------------------------------------
(* What follows                                                            *)

\* At every point the rows inserted so far are a part of a whole, with the row
\* that the others refer to.
LEMMA PartOfWhole ==
  ASSUME Inv, Evidence, NEW c \in Callers, pc[c] \notin Unwritten
  PROVE  \E W : /\ Whole(W, c) /\ work[c] \subseteq W
                /\ \A x \in W : x.table \in {"assessment", "derivation"} => x \in work[c]
                /\ pc[c] = "commit" => W = work[c]
  <1>1. Progress(c)
    BY DEF Evidence
  <1>2. CASE pc[c] = "compare"
    <2>1. PICK W : W = {AssessmentRow(c)} \cup ComparisonRows(c, Compared(req[c]))
      OBVIOUS
    <2>2. Assessable(c) /\ work[c] = {AssessmentRow(c)} \cup ComparisonRows(c, Compared(req[c]) \ todo[c])
      BY <1>1, <1>2 DEF Progress, Written
    <2>3. work[c] \subseteq W
      BY <2>1, <2>2 DEF ComparisonRows
    <2>4. \A x \in W : x.table \in {"assessment", "derivation"} => x \in work[c]
      BY <2>1, <2>2, AssessmentOwned
    <2>. QED
      BY <1>2, <2>1, <2>2, <2>3, <2>4 DEF Whole
  <1>3. CASE pc[c] \in {"evidence inputs", "inputs"}
    <2>1. PICK r \in Of(db, "rule"), S \in SUBSET References(c) :
            /\ Loaded(c) /\ Applies(r, c)
            /\ work[c] = {Derivation(c, r)} \cup EvidenceRows(c, S)
      BY <1>1, <1>3 DEF Progress, Written
    <2>2. PICK W : W = DerivationRows(c, r)
      OBVIOUS
    <2>3. work[c] \subseteq W
      BY <2>1, <2>2 DEF DerivationRows, EvidenceRows
    <2>4. \A x \in W : x.table \in {"assessment", "derivation"} => x \in work[c]
      BY <2>1, <2>2, DerivationOwned DEF DerivationRows
    <2>. QED
      BY <1>3, <2>1, <2>2, <2>3, <2>4 DEF Whole
  <1>4. CASE pc[c] = "commit"
    BY <1>1, <1>4 DEF Progress, Written
  <1>. QED
    BY <1>1, <1>2, <1>3, <1>4 DEF Progress, Points

\* ConstraintsNeverFire: what a service has checked, or read of its snapshot,
\* before it inserts is committed and stays, and no other call stores anything
\* under the id of this one.
THEOREM ConstraintsHold == Spec => []ConstraintsNeverFire
  <1>1. Inv /\ Evidence => ConstraintsNeverFire
    <2>. SUFFICES ASSUME Inv, Evidence, NEW c \in Callers
                  PROVE  /\ \A x \in work[c] : Stands(x, db \cup work[c])
                         /\ pc[c] = "commit" =>
                              /\ \A a \in Of(work[c], "assessment") : IndependenceStands(a, db \cup work[c])
                              /\ \A x \in Of(work[c], "derivation") : AuditStands(x, db \cup work[c])
      BY Zenon DEF ConstraintsNeverFire
    <2>1. CASE pc[c] \in Unwritten
      <3>1. work[c] = {} /\ pc[c] # "commit"
        BY <2>1 DEF Evidence, Progress, Written, Unwritten
      <3>. QED
        BY <3>1
    <2>2. CASE pc[c] \notin Unwritten
      <3>1. PICK W : /\ Whole(W, c) /\ work[c] \subseteq W
                     /\ \A x \in W : x.table \in {"assessment", "derivation"} => x \in work[c]
                     /\ pc[c] = "commit" => W = work[c]
        BY <2>2, PartOfWhole
      <3>2. Contribution(c) = {} /\ Coherent(db) /\ snap[c] \subseteq db
        BY <2>2 DEF Evidence, Contributed, Unwritten, Inv, SnapshotIsPast
      <3>3. \A x \in work[c] : Stands(x, db \cup work[c])
        BY <3>1, <3>2, PartStands
      <3>4. ASSUME pc[c] = "commit"
            PROVE  /\ \A a \in Of(work[c], "assessment") : IndependenceStands(a, db \cup work[c])
                   /\ \A x \in Of(work[c], "derivation") : AuditStands(x, db \cup work[c])
        BY <3>1, <3>2, <3>4, WholeIsIndependent, WholeIsAudited
      <3>. QED
        BY <3>3, <3>4
    <2>. QED
      BY <2>1, <2>2
  <1>. QED
    BY <1>1, EvidenceInvariance, PTL

\* The rows of one version are closed in a history that is.
LEMMA VersionIsClosed ==
  ASSUME NEW D, Coherent(D), NEW v, NEW R,
         R = RelationsOf(D, v) \cup AssessmentsOf(D, v) \cup ComparisonsOf(D, v)
  PROVE  Closed(R)
  <1>1. /\ Of(R, "relation") = RelationsOf(D, v)
        /\ Of(R, "assessment") = AssessmentsOf(D, v)
        /\ Of(R, "comparison") = ComparisonsOf(D, v)
    BY DEF Of, RelationsOf, AssessmentsOf, ComparisonsOf
  <1>2. \A r \in Of(D, "relation") : r.id \in Ids(RelationsOf(D, v)) => r \in RelationsOf(D, v)
    BY DEF Coherent, Ids, RelationsOf, Of
  <1>3. \A a \in Of(D, "assessment") : a.id \in Ids(AssessmentsOf(D, v)) => a \in AssessmentsOf(D, v)
    BY DEF Coherent, Ids, AssessmentsOf, Of
  <1>4. ASSUME NEW a \in AssessmentsOf(D, v)
        PROVE  a.relation \in Ids(Of(R, "relation")) /\ IndependenceStands(a, R)
    <2>1. a \in Of(D, "assessment") /\ a.relation \in Ids(RelationsOf(D, v))
      BY DEF AssessmentsOf
    <2>2. IndependenceStands(a, D)
      BY <2>1 DEF Coherent
    <2>3. a.id \in Ids(AssessmentsOf(D, v))
      BY <1>4 DEF Ids
    <2>4. \A x : x \in ComparisonsOf(D, v) /\ x.assessment = a.id
                   <=> x \in Of(D, "comparison") /\ x.assessment = a.id
      BY <2>3 DEF ComparisonsOf
    <2>. QED
      BY <1>1, <2>1, <2>2, <2>4 DEF IndependenceStands
  <1>5. ASSUME NEW x \in ComparisonsOf(D, v) PROVE ComparisonStands(x, R)
    <2>1. x \in Of(D, "comparison") /\ x.assessment \in Ids(AssessmentsOf(D, v))
      BY DEF ComparisonsOf
    <2>2. PICK a \in Of(D, "assessment"), r, s \in Of(D, "relation") :
            /\ a.id = x.assessment /\ r.id = a.relation /\ s.id = x.relation
            /\ r # s /\ r.version = s.version
      BY <2>1 DEF Coherent, ComparisonStands
    <2>3. a \in AssessmentsOf(D, v)
      BY <1>3, <2>1, <2>2
    <2>4. r \in RelationsOf(D, v)
      BY <1>2, <2>2, <2>3 DEF AssessmentsOf
    <2>5. s \in RelationsOf(D, v)
      BY <2>2, <2>4 DEF RelationsOf
    <2>. QED
      BY <1>1, <2>2, <2>3, <2>4, <2>5 DEF ComparisonStands
  <1>6. GraphIsValid(AssessmentsOf(D, v))
    <2>1. AssessmentsOf(D, v) \subseteq Of(D, "assessment")
      BY DEF AssessmentsOf
    <2>2. \A a \in AssessmentsOf(D, v) : \A p \in Of(D, "assessment") :
            p.relation = a.relation => p \in AssessmentsOf(D, v)
      BY DEF AssessmentsOf
    <2>3. GraphIsValid(Of(D, "assessment"))
      BY DEF Coherent
    <2>. QED
      BY <2>1, <2>2, <2>3 DEF GraphIsValid
  <1>. QED
    BY <1>1, <1>4, <1>5, <1>6 DEF Closed

\* ReadsAreClosed: the four queries of a read of a version return one state,
\* with everything that belongs together, whatever is committed in between.
THEOREM ReadsAreWhole == Spec => []ReadsAreClosed
  <1>1. Inv /\ Evidence => ReadsAreClosed
    <2>. SUFFICES ASSUME Evidence, NEW c \in Callers, pc[c] = "rule" \/ answer[c] = "read"
                  PROVE  Closed(read[c])
      BY DEF ReadsAreClosed
    <2>1. Loaded(c) /\ Coherent(snap[c])
      BY DEF Evidence, Progress, Reading
    <2>. QED
      BY <2>1, VersionIsClosed DEF Loaded
  <1>. QED
    BY <1>1, EvidenceInvariance, PTL
\* A rule is determined by its id.
LEMMA RuleOfId ==
  ASSUME Inv, NEW r \in Of(db, "rule"), NEW s \in Of(db, "rule"), r.id = s.id
  PROVE  r = s
  <1>1. Known(r) /\ Known(s) /\ r.table = "rule" /\ s.table = "rule"
    BY DEF Inv, RulesAreKnown, Of
  <1>2. r \in Stored => r.id \notin Callers
    BY <1>1, StoredAssumption DEF Entities
  <1>3. s \in Stored => s.id \notin Callers
    BY <1>1, StoredAssumption DEF Entities
  <1>. QED
    BY <1>1, <1>2, <1>3, StoredAssumption DEF Known, Entities

\* What is stored of a derivation.
LEMMA StoredDerivation ==
  ASSUME Evidence, NEW x \in Of(db, "derivation"), x.id \in Callers
  PROVE  \E r \in Of(db, "rule") :
           /\ Applies(r, x.id) /\ x = Derivation(x.id, r)
           /\ Contribution(x.id) = DerivationRows(x.id, r)
  <1>1. PICK c \in Callers : c = x.id
    OBVIOUS
  <1>2. x \in Contribution(c) /\ x.table = "derivation"
    BY <1>1 DEF Contribution, Owner, Of
  <1>3. PICK W : W = Contribution(c) /\ Whole(W, c)
    BY <1>2 DEF Evidence, Contributed
  <1>4. PICK r \in Of(db, "rule") : Applies(r, c) /\ W = DerivationRows(c, r)
    <2>1. CASE W = {RelationRow(c)} \/ W = {Rule(c, req[c])}
      BY <1>2, <1>3, <2>1, RelationOwned, RuleOwned
    <2>2. CASE W = {AssessmentRow(c)} \cup ComparisonRows(c, Compared(req[c]))
      BY <1>2, <1>3, <2>2, AssessmentOwned
    <2>. QED
      BY <1>3, <2>1, <2>2 DEF Whole
  <1>5. x = Derivation(c, r)
    BY <1>2, <1>3, <1>4, DerivationOwned DEF DerivationRows
  <1>. QED
    BY <1>1, <1>3, <1>4, <1>5

LEMMA StoredInputs ==
  ASSUME NEW c, NEW r, Contribution(c) = DerivationRows(c, r)
  PROVE  /\ EvidenceInputs(db, c) = Ids(Of(read[c], "relation"))
         /\ AssessmentInputs(db, c) = Ids(Of(read[c], "assessment"))
         /\ \A y \in Audits(db, c) : y.output = Derivation(c, r).output
  <1>1. \A x \in db : x.table \in {"evidence_input", "assessment_input", "audit"} /\ x.derivation = c
                        => x \in DerivationRows(c, r)
    BY DEF Contribution, Owner
  <1>2. DerivationRows(c, r) \subseteq db
    BY DEF Contribution
  <1>3. EvidenceInputs(db, c) = References(c)
    <2>1. ASSUME NEW i \in EvidenceInputs(db, c) PROVE i \in References(c)
      <3>1. PICK x \in db : x.table = "evidence_input" /\ x.derivation = c /\ i = x.relation
        BY DEF EvidenceInputs, Of
      <3>2. x \in EvidenceRows(c, References(c))
        BY <1>1, <3>1, DerivationOwned DEF DerivationRows
      <3>. QED
        BY <3>1, <3>2, DerivationOwned
    <2>2. ASSUME NEW i \in References(c) PROVE i \in EvidenceInputs(db, c)
      <3>. DEFINE x == EvidenceInput(c, i)
      <3>1. x \in db
        BY <1>2 DEF DerivationRows, EvidenceRows
      <3>2. x.table = "evidence_input" /\ x.derivation = c /\ x.relation = i
        BY DEF EvidenceInput
      <3>. QED
        BY <3>1, <3>2 DEF EvidenceInputs, Of
    <2>. QED
      BY <2>1, <2>2
  <1>4. AssessmentInputs(db, c) = Ids(Of(read[c], "assessment"))
    <2>1. ASSUME NEW i \in AssessmentInputs(db, c) PROVE i \in Ids(Of(read[c], "assessment"))
      <3>1. PICK x \in db : x.table = "assessment_input" /\ x.derivation = c /\ i = x.assessment
        BY DEF AssessmentInputs, Of
      <3>2. x \in AssessmentInputRows(c)
        BY <1>1, <3>1, DerivationOwned DEF DerivationRows
      <3>. QED
        BY <3>1, <3>2 DEF AssessmentInputRows, AssessmentInput, Ids
    <2>2. ASSUME NEW i \in Ids(Of(read[c], "assessment")) PROVE i \in AssessmentInputs(db, c)
      <3>1. PICK a \in Of(read[c], "assessment") : i = a.id
        BY DEF Ids
      <3>. DEFINE x == AssessmentInput(c, a)
      <3>2. x \in db
        BY <1>2 DEF DerivationRows, AssessmentInputRows
      <3>3. x.table = "assessment_input" /\ x.derivation = c /\ x.assessment = i
        BY <3>1 DEF AssessmentInput
      <3>. QED
        BY <3>2, <3>3 DEF AssessmentInputs, Of
    <2>. QED
      BY <2>1, <2>2
  <1>5. ASSUME NEW y \in Audits(db, c) PROVE y.output = Derivation(c, r).output
    <2>1. y \in db /\ y.table = "audit" /\ y.derivation = c
      BY DEF Audits, Of
    <2>2. y \in AuditRows(c, Derivation(c, r))
      BY <1>1, <2>1, DerivationOwned DEF DerivationRows
    <2>. QED
      BY <2>2 DEF AuditRows, Audit
  <1>. QED
    BY <1>3, <1>4, <1>5 DEF References

LEMMA OneOutput ==
  ASSUME Inv, NEW x \in Of(db, "derivation"), x.mode = "deterministic"
  PROVE  ~(Cardinality({y.output : y \in Peers(x, db)}) > 1)
  <1>1. \A y \in Peers(x, db) : y.output = x.output
    <2>. SUFFICES ASSUME NEW y \in Peers(x, db) PROVE y.output = x.output
      OBVIOUS
    <2>1. /\ y \in Of(db, "derivation") /\ y.rule = x.rule /\ y.mode = "deterministic"
          /\ y.input = x.input
      BY DEF Peers
    <2>2. PICK r \in Of(db, "rule") : MadeBy(x, r)
      BY DEF Inv, DerivationsAreMade, Made
    <2>3. PICK s \in Of(db, "rule") : MadeBy(y, s)
      BY <2>1 DEF Inv, DerivationsAreMade, Made
    <2>4. r = s
      BY <2>1, <2>2, <2>3, RuleOfId DEF MadeBy
    <2>. QED
      BY <2>1, <2>2, <2>3, <2>4 DEF MadeBy
  <1>. DEFINE outputs == {y.output : y \in Peers(x, db)}
  <1>2. outputs = {} \/ outputs = {x.output}
    BY <1>1
  <1>. HIDE DEF outputs
  <1>3. Cardinality(outputs) \in {0, 1}
    BY <1>2, FS_EmptySet, FS_Singleton
  <1>. QED
    BY <1>3 DEF outputs
\* The report, by a rule r, code by code.
Reports(k, x, r, b, D) ==
  \/ /\ k = "interpreter_artifact_hash_mismatch" /\ x.mode = "deterministic"
     /\ {x.identity.interpreter, r.identity.interpreter, r.definition.interpreter}
          # {Identity(b).interpreter}
  \/ /\ k = "interpreter_execution_identity_mismatch" /\ x.mode = "deterministic"
     /\ {x.identity.execution, r.identity.execution, r.definition.execution}
          # {Identity(b).execution}
  \/ k = "snapshot_builder_artifact_hash_mismatch" /\ {x.builder, r.builder} # {b.builder}
  \/ /\ k = "input_reference_mismatch"
     /\ \/ EvidenceInputs(D, x.id) # Ids(Of(x.input.rows, "relation"))
        \/ AssessmentInputs(D, x.id) # Ids(Of(x.input.rows, "assessment"))
  \/ k = "recorded_process_audit_hash_mismatch" /\ \E a \in Audits(D, x.id) : a.output # x.output
  \/ /\ k = "deterministic_output_mismatch" /\ x.mode = "deterministic"
     /\ Cardinality({y.output : y \in Peers(x, D)}) > 1

LEMMA AnomalyCodes ==
  ASSUME NEW x, NEW b, NEW D, NEW r, r = (CHOOSE s \in Of(D, "rule") : s.id = x.rule),
         NEW k
  PROVE  k \in Anomalies(x, b, D) <=> Reports(k, x, r, b, D)
  <1>. DEFINE a1 == x.mode = "deterministic" /\
                {x.identity.interpreter, r.identity.interpreter, r.definition.interpreter}
                  # {Identity(b).interpreter}
              a2 == x.mode = "deterministic" /\
                {x.identity.execution, r.identity.execution, r.definition.execution}
                  # {Identity(b).execution}
              a3 == {x.builder, r.builder} # {b.builder}
              a4 == \/ EvidenceInputs(D, x.id) # Ids(Of(x.input.rows, "relation"))
                    \/ AssessmentInputs(D, x.id) # Ids(Of(x.input.rows, "assessment"))
              a5 == \E a \in Audits(D, x.id) : a.output # x.output
              a6 == x.mode = "deterministic" /\ Cardinality({y.output : y \in Peers(x, D)}) > 1
              codes == [interpreter_artifact_hash_mismatch |-> a1,
                        interpreter_execution_identity_mismatch |-> a2,
                        snapshot_builder_artifact_hash_mismatch |-> a3,
                        input_reference_mismatch |-> a4,
                        recorded_process_audit_hash_mismatch |-> a5,
                        deterministic_output_mismatch |-> a6]
  <1>1. Anomalies(x, b, D) = {code \in DOMAIN codes : codes[code]}
    BY DEF Anomalies
  <1>. HIDE DEF a1, a2, a3, a4, a5, a6
  <1>2. k \in Anomalies(x, b, D) <=>
          \/ k = "interpreter_artifact_hash_mismatch" /\ a1
          \/ k = "interpreter_execution_identity_mismatch" /\ a2
          \/ k = "snapshot_builder_artifact_hash_mismatch" /\ a3
          \/ k = "input_reference_mismatch" /\ a4
          \/ k = "recorded_process_audit_hash_mismatch" /\ a5
          \/ k = "deterministic_output_mismatch" /\ a6
    BY <1>1
  <1>. QED
    BY <1>2, Zenon DEF Reports, a1, a2, a3, a4, a5, a6

\* ReadsBackAsWritten: whatever is stored later, a derivation has all of its
\* inputs and its audit and no others, and the rule it was made by; so only a
\* reader of another build finds anything, and finds just that.
THEOREM DerivationsReadBack == Spec => []ReadsBackAsWritten
  <1>1. Inv /\ Evidence => ReadsBackAsWritten
    <2>. SUFFICES ASSUME Inv, Evidence, NEW x \in Of(db, "derivation"), NEW b \in Builds,
                         x.id \in Callers
                  PROVE  Anomalies(x, b, db) = Differences(x.mode, b, req[x.id].build)
      BY DEF ReadsBackAsWritten
    <2>1. PICK c \in Callers : c = x.id
      OBVIOUS
    <2>2. PICK r \in Of(db, "rule") :
            Applies(r, c) /\ x = Derivation(c, r) /\ Contribution(c) = DerivationRows(c, r)
      BY <2>1, StoredDerivation
    <2>3. PICK m : m = req[c].build
      OBVIOUS
    <2>4. /\ x.rule = r.id /\ x.mode = r.mode /\ x.identity = r.identity /\ x.builder = r.builder
          /\ x.input.rows = read[c]
      BY <2>2 DEF Derivation, Input
    <2>5. /\ r.builder = m.builder
          /\ x.mode = "deterministic" => r.identity = Identity(m) /\ r.definition = Identity(m)
      BY <2>2, <2>3, <2>4 DEF Applies, RuleFits, VerifyRule
    <2>6. r = (CHOOSE s \in Of(db, "rule") : s.id = x.rule)
      BY <2>4, RuleOfId
    <2>7. /\ EvidenceInputs(db, x.id) = Ids(Of(x.input.rows, "relation"))
          /\ AssessmentInputs(db, x.id) = Ids(Of(x.input.rows, "assessment"))
          /\ \A a \in Audits(db, x.id) : a.output = x.output
      BY <2>1, <2>2, <2>4, StoredInputs
    <2>8. x.mode = "deterministic" => ~(Cardinality({y.output : y \in Peers(x, db)}) > 1)
      BY OneOutput
    <2>9. ASSUME NEW k
          PROVE  k \in Anomalies(x, b, db) <=>
                   \/ /\ k = "interpreter_artifact_hash_mismatch" /\ x.mode = "deterministic"
                      /\ b.interpreter # m.interpreter
                   \/ /\ k = "interpreter_execution_identity_mismatch" /\ x.mode = "deterministic"
                      /\ b.execution # m.execution
                   \/ k = "snapshot_builder_artifact_hash_mismatch" /\ b.builder # m.builder
      <3>1. x.mode = "deterministic" =>
              /\ {x.identity.interpreter, r.identity.interpreter, r.definition.interpreter}
                   # {Identity(b).interpreter} <=> b.interpreter # m.interpreter
              /\ {x.identity.execution, r.identity.execution, r.definition.execution}
                   # {Identity(b).execution} <=> b.execution # m.execution
        BY <2>4, <2>5 DEF Identity
      <3>2. {x.builder, r.builder} # {b.builder} <=> b.builder # m.builder
        BY <2>4, <2>5
      <3>3. k \in Anomalies(x, b, db) <=> Reports(k, x, r, b, db)
        BY <2>6, AnomalyCodes
      <3>4. Reports(k, x, r, b, db) <=>
              \/ /\ k = "interpreter_artifact_hash_mismatch" /\ x.mode = "deterministic"
                 /\ {x.identity.interpreter, r.identity.interpreter, r.definition.interpreter}
                      # {Identity(b).interpreter}
              \/ /\ k = "interpreter_execution_identity_mismatch" /\ x.mode = "deterministic"
                 /\ {x.identity.execution, r.identity.execution, r.definition.execution}
                      # {Identity(b).execution}
              \/ k = "snapshot_builder_artifact_hash_mismatch" /\ {x.builder, r.builder} # {b.builder}
        BY <2>7, <2>8, Zenon DEF Reports
      <3>. QED
        BY <3>1, <3>2, <3>3, <3>4, Zenon
    <2>10. ASSUME NEW k
           PROVE  k \in Differences(x.mode, b, m) <=>
                    \/ /\ k = "interpreter_artifact_hash_mismatch" /\ x.mode = "deterministic"
                       /\ b.interpreter # m.interpreter
                    \/ /\ k = "interpreter_execution_identity_mismatch" /\ x.mode = "deterministic"
                       /\ b.execution # m.execution
                    \/ k = "snapshot_builder_artifact_hash_mismatch" /\ b.builder # m.builder
      BY DEF Differences
    <2>. QED
      BY <2>1, <2>3, <2>9, <2>10
  <1>. QED
    BY <1>1, EvidenceInvariance, PTL

=============================================================================
