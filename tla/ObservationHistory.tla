--------------------------- MODULE ObservationHistory ---------------------------
(***************************************************************************)
(* RCV-020: the rows of the observatory, what rcv020WriteVerifier.ts lets  *)
(* a caller store (with rcv020SemanticCore.ts), what the constraints and   *)
(* deferred triggers of its migration let PostgreSQL keep, and what        *)
(* rcv020ReadVerifier.ts lets a reader see.                                *)
(*                                                                         *)
(* Callers bring whole bundles with ids and times of their own: a bundle   *)
(* is a set of rows.  A row is compared by its id and, for the rest of its *)
(* canonical text, by equality.  Where the writer does not compare a text  *)
(* or hash with the columns beside it and the reader does, a row with      *)
(* another one is Garbled.                                                 *)
(***************************************************************************)
EXTENDS Integers, FiniteSets, Sequences, SequencesExt

CONSTANTS
  Observations,  \* The bundles callers may bring.
  Garbled,       \* Rows whose text or hash is not the one a reader computes.
  NoRow          \* No previous attempt, no prior capture, no end.

AttemptOutcome == {"CAPTURED_CHANGED", "CAPTURED_UNCHANGED", "CAPTURED_EMPTY",
                   "FAILED"}
OccurrenceOutcome == {"SUCCEEDED", "FAILED", "MISSED", "SKIPPED"}

ObservationRow ==
  [kind : {"source"}, id : STRING]
  \cup [kind : {"monitor"}, id : STRING, source : STRING]
  \cup [kind : {"configuration"}, id : STRING, monitor : STRING, from : Nat,
        until : Nat \cup {NoRow}]
  \cup [kind : {"event"}, id : STRING, configuration : STRING,
        type : {"ACTIVATED", "PAUSED", "RESUMED", "RETIRED"}, at : Nat,
        sequence : Nat \ {0}]
  \cup [kind : {"occurrence"}, id : STRING, source : STRING, monitor : STRING,
        configuration : STRING, cutoff : Nat]
  \cup [kind : {"attempt"}, id : STRING, occurrence : STRING,
        previous : STRING \cup {NoRow}, retry : Nat \ {0}, start : Nat,
        deadline : Nat]
  \cup [kind : {"resolution"}, id : STRING, attempt : STRING,
        outcome : AttemptOutcome, at : Nat]
  \cup [kind : {"capture"}, id : STRING, occurrence : STRING,
        source : STRING, monitor : STRING, configuration : STRING,
        attempt : STRING, at : Nat, items : Nat, hashes : SUBSET STRING]
  \cup [kind : {"comparison"}, id : STRING, current : STRING,
        prior : STRING \cup {NoRow},
        result : {"FIRST_OBSERVED", "CHANGED", "UNCHANGED"}]
  \cup [kind : {"verdict"}, id : STRING, occurrence : STRING,
        outcome : OccurrenceOutcome]
  \cup [kind : {"retention"}, id : STRING, capture : STRING, sequence : Nat \ {0}]
  \cup [kind : {"handoff"}, id : STRING, capture : STRING, hash : STRING,
        occurrence : STRING, source : STRING, monitor : STRING,
        configuration : STRING, attempt : STRING, key : STRING, text : STRING]

All(D, kind) == {r \in D : r.kind = kind}
Known(D, kind, i) == \E r \in All(D, kind) : r.id = i

\* The writer computes or verifies the texts of the other kinds.  A bundle
\* says the same handoff once.
ASSUME ObservationAssumption ==
  /\ NoRow \notin Nat \cup STRING
  /\ \A B \in Observations : B \subseteq ObservationRow /\ IsFiniteSet(B)
  /\ \A r \in Garbled : r.kind \in {"attempt", "resolution", "capture", "comparison",
                                   "verdict", "retention", "handoff"}
  /\ \A B \in Observations : \A g, h \in All(B, "handoff") :
       g.key = h.key /\ g.text = h.text => g = h

EventsOf(D, c)       == {e \in All(D, "event") : e.configuration = c}
ConfigurationsOf(D, n) == {c \in All(D, "configuration") : c.monitor = n}
TriesOf(D, o)        == {a \in All(D, "attempt") : a.occurrence = o}
OutcomesOf(D, a)     == {r \in All(D, "resolution") : r.attempt = a}
CapturesOf(D, a)     == {c \in All(D, "capture") : c.attempt = a}
ComparisonsOf(D, c)  == {x \in All(D, "comparison") : x.current = c}
VerdictsOf(D, o)     == {v \in All(D, "verdict") : v.occurrence = o}

\* The source, monitor and configuration that an occurrence, a capture and a
\* handoff each name.
Lineage(r) == <<r.source, r.monitor, r.configuration>>

LineageStored(D, r) ==
  /\ \E n \in All(D, "monitor") : n.id = r.monitor /\ n.source = r.source
  /\ \E c \in All(D, "configuration") : c.id = r.configuration /\ c.monitor = r.monitor

Failed(D, a)    == \E r \in OutcomesOf(D, a) : r.outcome = "FAILED"
Succeeded(D, a) == \E r \in OutcomesOf(D, a) : r.outcome # "FAILED"

-----------------------------------------------------------------------------
(* The semantic core *)

\* One event of deriveLifecycleState; ILLEGAL is where it throws.
Transition(state, type) ==
  CASE type = "ACTIVATED" /\ state = "NOT_ACTIVATED" -> "ACTIVE"
    [] type = "PAUSED" /\ state = "ACTIVE" -> "PAUSED"
    [] type = "RESUMED" /\ state = "PAUSED" -> "ACTIVE"
    [] type = "RETIRED" /\ state \in {"ACTIVE", "PAUSED"} -> "RETIRED"
    [] OTHER -> "ILLEGAL"

LifecycleState(E) ==
  FoldLeft(LAMBDA state, e : Transition(state, e.type), "NOT_ACTIVATED",
           SetToSortSeq(E, LAMBDA e, f : e.sequence < f.sequence))

\* deriveLifecycleState does not throw.
LifecycleHolds(c, E) ==
  /\ \A e, f \in E : e # f => e.sequence # f.sequence
  /\ \A e, f \in E : e.sequence < f.sequence => e.at <= f.at
  /\ LifecycleState(E) # "ILLEGAL"
  /\ \A e \in E : e.type = "ACTIVATED" => e.at = c.from
  /\ \A e \in E : e.type = "RETIRED" /\ c.until # NoRow => e.at = c.until

EndsAfter(end, n) == end = NoRow \/ n < end

Overlap(c, d) == EndsAfter(d.until, c.from) /\ EndsAfter(c.until, d.from)

\* A retry follows an attempt of its occurrence that ended FAILED before.
RetryHolds(D, a) ==
  IF a.previous = NoRow THEN a.retry = 1
  ELSE \E p \in TriesOf(D, a.occurrence) :
         /\ p.id = a.previous
         /\ a.retry = p.retry + 1
         /\ \E r \in OutcomesOf(D, p.id) : r.outcome = "FAILED" /\ a.start > r.at

\* validateAttemptSet.  Retry numbers fall along the chain of predecessors,
\* so its walk for a cycle finds none.
AttemptHolds(D, a) ==
  /\ \E o \in All(D, "occurrence") :
       o.id = a.occurrence /\ a.start <= a.deadline /\ a.deadline <= o.cutoff
  /\ RetryHolds(D, a)
  /\ \A b \in TriesOf(D, a.occurrence) : b = a \/ b.retry # a.retry
  /\ \A r \in OutcomesOf(D, a.id) :
       r.at >= a.start /\ (r.at > a.deadline => r.outcome = "FAILED")

\* validateCapture
CaptureHolds(D, c) ==
  \E a \in All(D, "attempt"), r \in All(D, "resolution") :
    /\ a.id = c.attempt /\ a.occurrence = c.occurrence
    /\ r.attempt = a.id /\ r.outcome # "FAILED" /\ c.at <= r.at

\* validateCaptureComparison, which looks both captures up in D.
ComparisonHolds(D, x) ==
  \E c \in All(D, "capture") :
    /\ c.id = x.current
    /\ IF x.prior = NoRow THEN x.result = "FIRST_OBSERVED"
       ELSE \E p \in All(D, "capture") :
              /\ p.id = x.prior /\ p # c
              /\ p.monitor = c.monitor /\ p.at < c.at
              /\ x.result # "FIRST_OBSERVED"

\* What a comparison must say about the resolution of its attempt.
ParityHolds(D, r) ==
  LET X == UNION {ComparisonsOf(D, c.id) : c \in CapturesOf(D, r.attempt)}
  IN  CASE r.outcome \in {"FAILED", "CAPTURED_EMPTY"} -> X = {}
        [] r.outcome = "CAPTURED_UNCHANGED" ->
             X # {} /\ \A x \in X : x.result = "UNCHANGED"
        [] r.outcome = "CAPTURED_CHANGED" ->
             X # {} /\ \A x \in X : x.result \in {"CHANGED", "FIRST_OBSERVED"}

\* resolveOccurrenceTerminal: the outcome, or ILLEGAL where it throws.
Terminal(D, o, requested) ==
  LET A == TriesOf(D, o)
      settled == \A a \in A :
        /\ OutcomesOf(D, a.id) # {}
        /\ Cardinality(CapturesOf(D, a.id)) = IF Failed(D, a.id) THEN 0 ELSE 1
      result == IF A = {} THEN "MISSED"
                ELSE IF \E a \in A : Succeeded(D, a.id) THEN "SUCCEEDED"
                ELSE "FAILED"
  IN  IF requested = {"SKIPPED"} /\ A = {} THEN "SKIPPED"
      ELSE IF settled /\ requested \subseteq {result} THEN result
      ELSE "ILLEGAL"

-----------------------------------------------------------------------------
(* rcv020WriteVerifier.ts: everything a bundle says rests on the bundle *)

\* Other second ids are left to the tables.
NoDuplicates(B) ==
  /\ \A r, s \in B : r.kind = s.kind /\ r.id = s.id
       /\ r.kind \notin {"resolution", "verdict", "retention", "handoff"} => r = s
  /\ \A r, s \in All(B, "verdict") : r.occurrence = s.occurrence => r = s
  /\ \A r, s \in All(B, "resolution") : r.attempt = s.attempt => r = s
  /\ \A r, s \in All(B, "capture") : r.attempt = s.attempt => r = s
  /\ \A r, s \in All(B, "handoff") : r.key = s.key => r.text = s.text

ParentsIn(B) ==
  /\ \A n \in All(B, "monitor") : Known(B, "source", n.source)
  /\ \A c \in All(B, "configuration") : Known(B, "monitor", c.monitor)
  /\ \A e \in All(B, "event") : Known(B, "configuration", e.configuration)
  /\ \A o \in All(B, "occurrence") :
       /\ Known(B, "source", o.source) /\ Known(B, "monitor", o.monitor)
       /\ Known(B, "configuration", o.configuration)
  /\ \A r \in All(B, "resolution") : Known(B, "attempt", r.attempt)

ConfigurationsHold(B) ==
  \A c \in All(B, "configuration") :
    /\ LifecycleHolds(c, EventsOf(B, c.id))
    /\ \A d \in ConfigurationsOf(B, c.monitor) : c # d => ~Overlap(c, d)

AttemptsHold(B) ==
  /\ \A a \in All(B, "attempt") : AttemptHolds(B, a)
  /\ \A c \in All(B, "capture") : CaptureHolds(B, c)
  /\ \A r \in All(B, "resolution") : ParityHolds(B, r)
  /\ \A r \in All(B, "resolution") :
       r.outcome # "FAILED" => CapturesOf(B, r.attempt) # {}
  /\ \A x \in All(B, "comparison") : ComparisonHolds(B, x)

OccurrencesHold(B) ==
  \A o \in All(B, "occurrence") :
    Terminal(B, o.id, {v.outcome : v \in VerdictsOf(B, o.id)}) # "ILLEGAL"

\* verifyRcv020Write
Authentic(B) ==
  NoDuplicates(B) /\ ParentsIn(B) /\ ConfigurationsHold(B) /\ AttemptsHold(B)
  /\ OccurrencesHold(B)

-----------------------------------------------------------------------------
(* rcv020PostgresRepository.ts on the tables of the migration *)

\* Primary keys and unique constraints.
UniqueKeys(r) ==
  {<<r.kind, "id", r.id>>} \cup
  CASE r.kind = "event"      -> {<<"event", r.configuration, r.sequence>>}
    [] r.kind = "verdict"    -> {<<"verdict", r.occurrence>>}
    [] r.kind = "attempt"    -> {<<"attempt", r.occurrence, r.retry>>}
    [] r.kind = "resolution" -> {<<"resolution", r.attempt>>}
    [] r.kind = "capture"    -> {<<"capture", r.attempt>>}
    [] r.kind = "comparison" -> {<<"comparison", r.current>>}
    [] r.kind = "retention"  -> {<<"retention", r.capture, r.sequence>>}
    [] r.kind = "handoff"    -> {<<"handoff", r.key>>}
    [] OTHER                 -> {}

Clashes(B, D) == \E r \in B, s \in D : UniqueKeys(r) \cap UniqueKeys(s) # {}

\* A bundle that takes one of its keys twice.
Repeats(B) == \E r, s \in B : r # s /\ UniqueKeys(r) \cap UniqueKeys(s) # {}

\* insertHandoff: under a stored key and text nothing is written again,
\* whatever the other columns say.
Replayed(r, D) ==
  r.kind = "handoff" /\ \E h \in All(D, "handoff") : h.key = r.key /\ h.text = r.text

\* The composite keys of captures and handoffs.
OfOccurrence(D, r) ==
  /\ LineageStored(D, r)
  /\ \E a \in All(D, "attempt") : a.id = r.attempt /\ a.occurrence = r.occurrence

ForeignKeys(B, D) ==
  \A r \in B :
    CASE r.kind = "resolution" -> Known(D, "attempt", r.attempt)
      [] r.kind = "capture" -> OfOccurrence(D, r)
      [] r.kind = "comparison" ->
           /\ Known(D, "capture", r.current)
           /\ r.prior # NoRow => Known(D, "capture", r.prior)
      [] r.kind = "occurrence" -> LineageStored(D, r)
      [] r.kind = "verdict" -> Known(D, "occurrence", r.occurrence)
      [] r.kind = "retention" -> Known(D, "capture", r.capture)
      [] r.kind = "handoff" -> Known(D, "capture", r.capture) /\ OfOccurrence(D, r)
      [] OTHER -> TRUE

\* rcv020_validate_occurrence_resolution, for a verdict v among the rows D.
VerdictTrigger(D, v) ==
  LET A == TriesOf(D, v.occurrence)
      unresolved == \E a \in A : OutcomesOf(D, a.id) = {}
      success == \E a \in A : Succeeded(D, a.id)
  IN  CASE v.outcome \in {"MISSED", "SKIPPED"} -> A = {}
        [] v.outcome = "SUCCEEDED" -> success /\ ~unresolved
        [] v.outcome = "FAILED" -> A # {} /\ ~success /\ ~unresolved

RetiredAt(D, c) ==
  LET R == {e.at : e \in {f \in EventsOf(D, c.id) : f.type = "RETIRED"}}
  IN  IF R = {} THEN c.until ELSE CHOOSE n \in R : \A k \in R : n <= k

\* The deferred triggers, fired by the new rows B among all rows D.
TriggersPass(B, D) ==
  /\ \A c \in All(D, "configuration") :
       EventsOf(B, c.id) # {} => LifecycleHolds(c, EventsOf(D, c.id))
  /\ \A c \in All(B, "configuration") : \A d \in ConfigurationsOf(D, c.monitor) :
       c # d => ~Overlap([c EXCEPT !.until = RetiredAt(D, c)],
                         [d EXCEPT !.until = RetiredAt(D, d)])
  /\ \A a \in All(B, "attempt") :
       /\ \A o \in All(D, "occurrence") : o.id = a.occurrence => a.deadline <= o.cutoff
       /\ a.previous # NoRow => RetryHolds(D, a)
  /\ \A r \in All(B, "resolution") :
       /\ Cardinality(CapturesOf(D, r.attempt)) = IF r.outcome = "FAILED" THEN 0 ELSE 1
       /\ ParityHolds(D, r)
  /\ \A v \in All(B, "verdict") : VerdictTrigger(D, v)
  /\ \A x \in All(B, "comparison") : ComparisonHolds(D, x)

\* What persistRcv020Bundle inserts of a verified bundle.
Fresh(B, D) == {r \in B : ~Replayed(r, D)}

-----------------------------------------------------------------------------
(* rcv020PostgresReadRepository.ts and rcv020ReadVerifier.ts *)

\* What an occurrence was derived from.
Root(D, o) ==
  {s \in All(D, "source") : s.id = o.source}
  \cup {n \in All(D, "monitor") : n.id = o.monitor}
  \cup ConfigurationsOf(D, o.monitor) \cup EventsOf(D, o.configuration)

\* Mutant of Loaded: outcomes are read through the captures.
LoadedThroughCaptures(D, o) ==
  LET A == TriesOf(D, o.id)
      C == {c \in All(D, "capture") : c.occurrence = o.id}
  IN  {o} \cup A \cup C \cup VerdictsOf(D, o.id) \cup Root(D, o)
      \cup (UNION {OutcomesOf(D, c.attempt) : c \in C})
      \cup (UNION {ComparisonsOf(D, c.id) : c \in C})
      \cup {r \in D : r.kind \in {"retention", "handoff"} /\ r.capture \in {c.id : c \in C}}

\* What loadByOccurrenceId loads: the rows of one occurrence.  Comparisons
\* come without the captures of other occurrences that they name.
Loaded(D, o) ==
  LET A == TriesOf(D, o.id)
      C == {c \in All(D, "capture") : c.occurrence = o.id}
  IN  {o} \cup A \cup C \cup VerdictsOf(D, o.id) \cup Root(D, o)
      \cup (UNION {OutcomesOf(D, a.id) : a \in A})
      \cup (UNION {ComparisonsOf(D, c.id) : c \in C})
      \cup {r \in D : r.kind \in {"retention", "handoff"} /\ r.capture \in {c.id : c \in C}}

Digits[n \in Nat] == IF n < 10 THEN <<n>> ELSE Append(Digits[n \div 10], n % 10)

\* s comes before t as text: 10 before 9.
TextBefore(s, t) ==
  \E i \in 1..Len(t) :
    /\ \A j \in 1..(i - 1) : j <= Len(s) /\ s[j] = t[j]
    /\ i > Len(s) \/ s[i] < t[i]

\* Neighbours in order of their sequence numbers, compared as text.
SequencesAscend(E) ==
  \A e, f \in E :
    /\ e.sequence < f.sequence
    /\ ~\E g \in E : e.sequence < g.sequence /\ g.sequence < f.sequence
    => TextBefore(Digits[e.sequence], Digits[f.sequence])

\* A handoff says of its capture what the rows L of occurrence o say.
HandoffVerifies(L, o, h) ==
  /\ h.occurrence = o.id /\ Lineage(h) = Lineage(o)
  /\ \E c \in All(L, "capture") : c.id = h.capture /\ h.hash \in c.hashes

\* verifyRcv020ReadBundle, on the rows L of occurrence o.
ReadVerifies(L, o) ==
  /\ Known(L, "source", o.source) /\ LineageStored(L, o)
  /\ L \cap Garbled = {}
  /\ \A c \in All(L, "configuration") :
       c.id = o.configuration =>
         /\ EventsOf(L, c.id) # {}
         /\ SequencesAscend(EventsOf(L, c.id))
         /\ LifecycleHolds(c, EventsOf(L, c.id))
  /\ \A c, d \in All(L, "configuration") : c # d => ~Overlap(c, d)
  /\ \A a \in All(L, "attempt") :
       /\ a.deadline <= o.cutoff
       /\ RetryHolds(L, a)
       /\ Cardinality(OutcomesOf(L, a.id)) = 1
       /\ Cardinality(CapturesOf(L, a.id)) = IF Failed(L, a.id) THEN 0 ELSE 1
  /\ \A c \in All(L, "capture") : Lineage(c) = Lineage(o)
  /\ \A h \in All(L, "handoff") : HandoffVerifies(L, o, h)
  /\ \A x \in All(L, "comparison") : ComparisonHolds(L, x)
  /\ \A r \in All(L, "resolution") :
       /\ ParityHolds(L, r)
       /\ r.outcome = "CAPTURED_EMPTY" =>
            \A c \in CapturesOf(L, r.attempt) : c.items = 0
  /\ \E v \in All(L, "verdict") :
       v.outcome = IF All(L, "attempt") = {}
                   THEN IF v.outcome = "SKIPPED" THEN "SKIPPED" ELSE "MISSED"
                   ELSE IF \E a \in All(L, "attempt") : Succeeded(L, a.id)
                        THEN "SUCCEEDED" ELSE "FAILED"

\* readOccurrence answers with the occurrence rather than an error.
Readable(D, o) == ReadVerifies(Loaded(D, o), o)

\* deriveRcv020ScheduledCoverage over one bundle: it throws on a second
\* attempt of an occurrence and on an attempt without a verdict.
CoverageHolds(B) ==
  /\ \A a, b \in All(B, "attempt") : a.occurrence = b.occurrence => a = b
  /\ \A a \in All(B, "attempt") :
       /\ OutcomesOf(B, a.id) # {}
       /\ \E v \in VerdictsOf(B, a.occurrence) :
            v.outcome \in {"SUCCEEDED", "FAILED"}
  /\ \A v \in All(B, "verdict") :
       v.outcome \in {"SUCCEEDED", "FAILED"} => TriesOf(B, v.occurrence) # {}

=================================================================================
