---------------------------- MODULE ObservationProofs ----------------------------
(***************************************************************************)
(* What ObservationBinding promises, for any callers, bundles, pool and    *)
(* failures: what a caller is told is stored, whoever binds an occurrence  *)
(* by its name collides with nobody, other users' work stays theirs, and   *)
(* what the writer accepts the reader reads.                               *)
(*                                                                         *)
(* The last is about data: rows of a bundle that share no key with stored  *)
(* rows leave every stored bundle with all that hangs on it, so a reader   *)
(* finds around an occurrence what the write verifier saw.  The others are *)
(* about locks and sessions: whoever inserts has a session of its own.     *)
(***************************************************************************)
EXTENDS ObservationBinding, FiniteSetTheorems, TLAPS

(* What is stored *)

\* x belongs to y by an id.
HangsOn(x, y) ==
  \/ x.kind = "configuration" /\ y.kind = "monitor" /\ y.id = x.monitor
  \/ x.kind = "event" /\ y.kind = "configuration" /\ y.id = x.configuration
  \/ x.kind = "attempt" /\ y.kind = "occurrence" /\ y.id = x.occurrence
  \/ x.kind = "resolution" /\ y.kind = "attempt" /\ y.id = x.attempt
  \/ x.kind = "capture" /\ y.kind = "attempt" /\ y.id = x.attempt
  \/ x.kind = "comparison" /\ y.kind = "capture" /\ y.id = x.current

\* A verified bundle is stored, but for handoffs that repeat a stored one,
\* with everything that hangs on its rows.
Whole(B, D) ==
  /\ Authentic(B) /\ Fresh(B, D) \subseteq D
  /\ \A x \in D, y \in B : HangsOn(x, y) => x \in B

Bundled(D) == \A r \in D : \E B \in Observations : r \in B /\ Whole(B, D)

Keyed(D) == ~Repeats(D)

LifecyclesStored(D) ==
  \A c \in All(D, "configuration") : LifecycleHolds(c, EventsOf(D, c.id))

\* What verdicts and occurrences in V are about is in D.
Placed(V, D) ==
  /\ \A v \in All(V, "verdict") : Known(D, "occurrence", v.occurrence)
  /\ \A o \in All(V, "occurrence") : LineageStored(D, o)

VerdictsStored(D) == \A v \in All(D, "verdict") : VerdictTrigger(D, v)

Kept(D) ==
  Bundled(D) /\ Keyed(D) /\ LifecyclesStored(D) /\ Placed(D, D) /\ VerdictsStored(D)

-----------------------------------------------------------------------------
(* Where a call stands *)

TypeOK ==
  /\ observed \subseteq UNION Observations
  /\ task \in Tasks
  /\ proc \in [Procs -> [calls : Nat, at : Points, step : Nat,
                         slot : Slots \cup {Free}, answer : Answers]]
  /\ holder \in [Slots -> Procs \cup {Free, Lost}]
  /\ session \in [Slots -> [tx : {"none", "open", "aborted"},
                            rows : SUBSET UNION Observations, foreign : BOOLEAN,
                            locks : SUBSET {Place(p) : p \in Procs}]]

Leasing == {"probe", "commit", "guard", "check", "insert", "store", "unlock",
            "read"}

\* The rows a transaction has inserted are those of its bundle, apart from
\* handoffs that were stored before.
Inserted(B, R) ==
  /\ Authentic(B) /\ R \subseteq B
  /\ \A r \in B : r \in R \/ Replayed(r, observed)
  /\ Placed(R, observed \cup R)

\* An answer that a bind has given.
Told(p) ==
  /\ proc[p].answer = "answered" =>
       \E B \in Observations :
         Wanted(p) \subseteq B /\ Authentic(B) /\ Fresh(B, observed) \subseteq observed
  /\ proc[p].answer = "duplicate" => ~Alone(p) \/ Repeats(task[p].observation)

Standing(p) ==
  /\ proc[p].at \notin Leasing => proc[p].slot = Free
  /\ proc[p].at \in Leasing => proc[p].slot \in Slots /\ holder[proc[p].slot] = p
  /\ proc[p].at \in {"guard", "check", "unlock"} => task[p].how = "bind"
  /\ proc[p].at \in {"insert", "store"} => task[p].how # "none"
  /\ proc[p].at \in {"again", "read"} => task[p].how = "observe"
  /\ At(p, "commit") => ~Own(p).foreign
  /\ task[p].how = "bind" /\ proc[p].at \in {"check", "insert", "store", "unlock"} =>
       Place(p) \in Own(p).locks
  /\ At(p, "store") => Inserted(task[p].observation, Own(p).rows)
  /\ \A i \in 1..(proc[p].step - 1) : Steps(p)[i] \subseteq db
  /\ task[p].how = "bind" => Told(p)

\* Rows are in flight only in the transaction of a call.
Carried(s) ==
  /\ session[s].foreign => session[s].tx = "open"
  /\ session[s].rows # {} => \E p \in Procs : At(p, "store") /\ proc[p].slot = s
  /\ ~Clashes(session[s].rows, observed) /\ ~Repeats(session[s].rows)

Apart(s, t) ==
  /\ session[s].locks \cap session[t].locks = {}
  /\ ~Clashes(session[s].rows, session[t].rows)

\* Where all bind one bundle by one name, whoever inserts is the first.
Solitary(p) ==
  Alone(p) =>
    /\ observed = {} \/ Known(observed, "occurrence", Place(p))
    /\ task[p].how = "bind" /\ At(p, "insert") => observed = {}

Inv ==
  /\ TypeOK /\ Kept(observed)
  /\ \A p \in Procs : Standing(p) /\ Solitary(p)
  /\ \A s \in Slots : Carried(s) /\ \A t \in Slots \ {s} : Apart(s, t)

-----------------------------------------------------------------------------
(* Bundles and their rows *)

Dependent == {"configuration", "event", "attempt", "resolution", "capture", "comparison"}

\* What a verified bundle says hangs on a row of it.
LEMMA ParentsAreThere ==
  ASSUME NEW B, Authentic(B), NEW x \in B, x.kind \in Dependent
  PROVE  \E y \in B : HangsOn(x, y)
  <1>1. CASE x.kind = "configuration"
    BY <1>1 DEF Authentic, ParentsIn, All, Known, HangsOn
  <1>2. CASE x.kind = "event"
    BY <1>2 DEF Authentic, ParentsIn, All, Known, HangsOn
  <1>3. CASE x.kind = "attempt"
    BY <1>3 DEF Authentic, AttemptsHold, AttemptHolds, All, HangsOn
  <1>4. CASE x.kind = "resolution"
    BY <1>4 DEF Authentic, ParentsIn, All, Known, HangsOn
  <1>5. CASE x.kind = "capture"
    BY <1>5 DEF Authentic, AttemptsHold, CaptureHolds, All, HangsOn
  <1>6. CASE x.kind = "comparison"
    BY <1>6 DEF Authentic, AttemptsHold, ComparisonHolds, All, HangsOn
  <1>. QED
    BY <1>1, <1>2, <1>3, <1>4, <1>5, <1>6 DEF Dependent

LEMMA HangingKinds ==
  ASSUME NEW x, NEW y, HangsOn(x, y)
  PROVE  /\ x.kind \in Dependent /\ y.kind # "handoff"
         /\ \A z : z.kind = y.kind /\ z.id = y.id => HangsOn(x, z)
         /\ \A z : HangsOn(x, z) => z.kind = y.kind /\ z.id = y.id
  BY DEF HangsOn, Dependent

LEMMA KeyFacts ==
  ASSUME NEW r, NEW s
  PROVE  /\ UniqueKeys(r) # {}
         /\ r.kind = s.kind /\ r.id = s.id => UniqueKeys(r) \cap UniqueKeys(s) # {}
         /\ r.kind = "resolution" /\ s.kind = "resolution" /\ r.attempt = s.attempt =>
              UniqueKeys(r) \cap UniqueKeys(s) # {}
  <1>1. <<r.kind, "id", r.id>> \in UniqueKeys(r) /\ <<s.kind, "id", s.id>> \in UniqueKeys(s)
    BY DEF UniqueKeys
  <1>2. ASSUME NEW t, t.kind = "resolution"
        PROVE  <<"resolution", t.attempt>> \in UniqueKeys(t)
    BY <1>2 DEF UniqueKeys
  <1>. QED
    BY <1>1, <1>2

\* Rows of one kind and id, of a set of rows that shares no key, are one.
LEMMA SameRow ==
  ASSUME NEW D, Keyed(D), NEW r \in D, NEW s \in D, r.kind = s.kind, r.id = s.id
  PROVE  r = s
  BY KeyFacts DEF Keyed, Repeats

LEMMA KeyedGrows ==
  ASSUME NEW D, NEW R, Keyed(D), ~Repeats(R), ~Clashes(R, D)
  PROVE  Keyed(D \cup R)
  BY DEF Keyed, Repeats, Clashes

\* Whatever a bundle says is stored stays stored.
LEMMA FreshShrinks ==
  ASSUME NEW B, NEW D, NEW E, D \subseteq E, Fresh(B, D) \subseteq D
  PROVE  Fresh(B, E) \subseteq E
  BY DEF Fresh, Replayed, All

LEMMA FreshOrHandoff ==
  ASSUME NEW B, NEW D, Fresh(B, D) \subseteq D, NEW r \in B, r.kind # "handoff"
  PROVE  r \in D
  BY DEF Fresh, Replayed

-----------------------------------------------------------------------------
(* A commit *)

\* What a transaction commits: rows of a verified bundle that share no key
\* with what is stored.
Committing(B, R, D) ==
  /\ Authentic(B) /\ R \subseteq B
  /\ \A r \in B : r \in R \/ Replayed(r, D)
  /\ ~Clashes(R, D) /\ ~Repeats(R)

\* No new row has the kind and id of a stored one.
LEMMA NewRowsAreNew ==
  ASSUME NEW B, NEW R, NEW D, Committing(B, R, D),
         NEW y \in B, y.kind # "handoff", NEW z \in D, z.kind = y.kind, z.id = y.id
  PROVE  FALSE
  <1>1. y \in R
    BY DEF Committing, Replayed
  <1>. QED
    BY <1>1, KeyFacts DEF Committing, Clashes

\* What hangs on stored rows is stored with them, or came in another bundle.
LEMMA NothingHangsAcross ==
  ASSUME NEW B, NEW R, NEW D, Committing(B, R, D), Bundled(D),
         NEW x \in D \cup R, NEW y \in D \cup R, HangsOn(x, y)
  PROVE  (x \in D <=> y \in D) /\ (x \in R <=> y \in R)
  <1>1. x.kind \in Dependent /\ y.kind # "handoff"
    BY HangingKinds
  <1>2. D \cap R = {}
    BY KeyFacts DEF Committing, Clashes
  <1>3. ASSUME x \in R PROVE y \notin D
    <2>1. PICK z \in B : HangsOn(x, z)
      BY <1>1, <1>3, ParentsAreThere DEF Committing
    <2>2. z.kind = y.kind /\ z.id = y.id
      BY <2>1, HangingKinds
    <2>. QED
      BY <1>1, <2>2, NewRowsAreNew
  <1>4. ASSUME x \in D PROVE y \notin R
    <2>1. PICK C \in Observations : x \in C /\ Whole(C, D)
      BY <1>4 DEF Bundled
    <2>2. PICK z \in C : HangsOn(x, z)
      BY <1>1, <2>1, ParentsAreThere DEF Whole
    <2>3. z \in D /\ z.kind = y.kind /\ z.id = y.id
      BY <2>1, <2>2, HangingKinds, FreshOrHandoff DEF Whole
    <2>. QED
      BY <1>1, <2>3, NewRowsAreNew DEF Committing
  <1>. QED
    BY <1>2, <1>3, <1>4

LEMMA BundledGrows ==
  ASSUME NEW B \in Observations, NEW R, NEW D, Committing(B, R, D), Bundled(D)
  PROVE  Bundled(D \cup R)
  <1>1. Whole(B, D \cup R)
    <2>1. ASSUME NEW x \in D \cup R, NEW y \in B, HangsOn(x, y)
          PROVE  x \in B
      <3>1. y \in R
        BY <2>1, HangingKinds DEF Committing, Replayed
      <3>. QED
        BY <2>1, <3>1, NothingHangsAcross DEF Committing
    <2>2. Fresh(B, D \cup R) \subseteq D \cup R
      BY DEF Fresh, Committing, Replayed, All
    <2>. QED
      BY <2>1, <2>2 DEF Whole, Committing
  <1>2. ASSUME NEW C, Whole(C, D)
        PROVE  Whole(C, D \cup R)
    <2>1. ASSUME NEW x \in D \cup R, NEW y \in C, HangsOn(x, y)
          PROVE  x \in C
      <3>1. y \in D
        BY <1>2, <2>1, HangingKinds, FreshOrHandoff DEF Whole
      <3>2. x \in D
        BY <2>1, <3>1, NothingHangsAcross
      <3>. QED
        BY <1>2, <2>1, <3>2 DEF Whole
    <2>2. Fresh(C, D \cup R) \subseteq D \cup R
      BY <1>2, FreshShrinks DEF Whole
    <2>. QED
      BY <1>2, <2>1, <2>2 DEF Whole
  <1>. QED
    BY <1>1, <1>2 DEF Bundled, Committing

\* A configuration is stored with all its events so far; those that came
\* before a later bundle stay, and others come with it.
LEMMA LifecyclesGrow ==
  ASSUME NEW B \in Observations, NEW R, NEW D, Committing(B, R, D), Bundled(D),
         LifecyclesStored(D)
  PROVE  LifecyclesStored(D \cup R)
  <1>. SUFFICES ASSUME NEW c \in All(D \cup R, "configuration")
                PROVE  LifecycleHolds(c, EventsOf(D \cup R, c.id))
    BY DEF LifecyclesStored
  <1>1. ASSUME NEW e \in EventsOf(D \cup R, c.id) PROVE HangsOn(e, c)
    BY <1>1 DEF EventsOf, All, HangsOn
  <1>2. CASE c \in D
    <2>1. EventsOf(D \cup R, c.id) = EventsOf(D, c.id)
      BY <1>1, <1>2, NothingHangsAcross DEF EventsOf, All
    <2>. QED
      BY <1>2, <2>1 DEF LifecyclesStored, All
  <1>3. CASE c \in R
    <2>1. EventsOf(D \cup R, c.id) = EventsOf(B, c.id)
      <3>1. ASSUME NEW e \in EventsOf(D \cup R, c.id) PROVE e \in EventsOf(B, c.id)
        <4>1. e \in R
          BY <1>1, <1>3, <3>1, NothingHangsAcross DEF EventsOf, All
        <4>. QED
          BY <3>1, <4>1 DEF EventsOf, All, Committing
      <3>2. ASSUME NEW e \in EventsOf(B, c.id) PROVE e \in EventsOf(D \cup R, c.id)
        BY <3>2 DEF EventsOf, All, Committing, Replayed
      <3>. QED
        BY <3>1, <3>2
    <2>2. LifecycleHolds(c, EventsOf(B, c.id))
      BY <1>3 DEF Committing, Authentic, ConfigurationsHold, All
    <2>. QED
      BY <2>1, <2>2
  <1>. QED
    BY <1>2, <1>3 DEF All

\* What a verdict is about is the same after a commit.
LEMMA VerdictsGrow ==
  ASSUME NEW B \in Observations, NEW R, NEW D, Committing(B, R, D), Bundled(D),
         VerdictsStored(D), Placed(D, D), Placed(R, D \cup R),
         \A v \in All(R, "verdict") : VerdictTrigger(D \cup R, v)
  PROVE  Placed(D \cup R, D \cup R) /\ VerdictsStored(D \cup R)
  <1>1. Placed(D \cup R, D \cup R)
    BY DEF Placed, All, Known, LineageStored
  <1>2. ASSUME NEW v \in All(D, "verdict")
        PROVE  VerdictTrigger(D \cup R, v)
    <2>1. PICK o \in All(D, "occurrence") : o.id = v.occurrence
      BY <1>2 DEF Placed, Known
    <2>2. TriesOf(D \cup R, v.occurrence) = TriesOf(D, v.occurrence)
      <3>1. ASSUME NEW a \in TriesOf(D \cup R, v.occurrence) PROVE a \in D
        <4>1. HangsOn(a, o)
          BY <2>1, <3>1 DEF TriesOf, All, HangsOn
        <4>. QED
          BY <2>1, <3>1, <4>1, NothingHangsAcross DEF TriesOf, All
      <3>. QED
        BY <3>1 DEF TriesOf, All
    <2>3. ASSUME NEW a \in TriesOf(D, v.occurrence)
          PROVE  OutcomesOf(D \cup R, a.id) = OutcomesOf(D, a.id)
      <3>1. ASSUME NEW r \in OutcomesOf(D \cup R, a.id) PROVE r \in D
        <4>1. HangsOn(r, a)
          BY <2>3, <3>1 DEF TriesOf, OutcomesOf, All, HangsOn
        <4>. QED
          BY <2>3, <3>1, <4>1, NothingHangsAcross DEF TriesOf, OutcomesOf, All
      <3>. QED
        BY <3>1 DEF OutcomesOf, All
    <2>4. VerdictTrigger(D, v)
      BY <1>2 DEF VerdictsStored
    <2>. QED
      BY <2>2, <2>3, <2>4 DEF VerdictTrigger, Succeeded
  <1>. QED
    BY <1>1, <1>2 DEF VerdictsStored, All

LEMMA CommitKeeps ==
  ASSUME NEW B \in Observations, NEW R, NEW D, Committing(B, R, D), Kept(D),
         Placed(R, D \cup R), TriggersPass(R, D \cup R)
  PROVE  Kept(D \cup R)
  <1>1. Bundled(D \cup R)
    BY BundledGrows DEF Kept
  <1>2. Keyed(D \cup R)
    BY KeyedGrows DEF Kept, Committing
  <1>3. LifecyclesStored(D \cup R)
    BY LifecyclesGrow DEF Kept
  <1>4. Placed(D \cup R, D \cup R) /\ VerdictsStored(D \cup R)
    <2>1. \A v \in All(R, "verdict") : VerdictTrigger(D \cup R, v)
      BY DEF TriggersPass
    <2>. QED
      BY <2>1, VerdictsGrow DEF Kept
  <1>. QED
    BY <1>1, <1>2, <1>3, <1>4 DEF Kept

-----------------------------------------------------------------------------
(* What is stored reads back *)

\* All that a reader loads around an occurrence, apart from verdicts and
\* annexes to captures, came in the bundle of the occurrence.
LEMMA OccurrenceIsWhole ==
  ASSUME NEW D, NEW B, Whole(B, D), NEW o \in B, o.kind = "occurrence",
         Bundled(D), Keyed(D)
  PROVE  /\ TriesOf(D, o.id) = TriesOf(B, o.id)
         /\ \A a \in TriesOf(D, o.id) :
              /\ OutcomesOf(D, a.id) = OutcomesOf(B, a.id)
              /\ CapturesOf(D, a.id) = CapturesOf(B, a.id)
              /\ \A c \in CapturesOf(D, a.id) :
                   c.occurrence = o.id /\ ComparisonsOf(D, c.id) = ComparisonsOf(B, c.id)
         /\ \A c \in All(D, "capture") : c.occurrence = o.id =>
              c \in B /\ \E a \in TriesOf(D, o.id) : c \in CapturesOf(D, a.id)
  <1>1. ASSUME NEW x \in D, NEW y \in B, HangsOn(x, y) PROVE x \in B
    BY <1>1 DEF Whole
  <1>2. \A r \in B : r.kind # "handoff" => r \in D
    BY FreshOrHandoff DEF Whole
  <1>3. ASSUME NEW a \in TriesOf(D, o.id) PROVE a \in B
    BY <1>1, <1>3 DEF TriesOf, All, HangsOn
  <1>4. TriesOf(D, o.id) = TriesOf(B, o.id)
    BY <1>2, <1>3 DEF TriesOf, All
  <1>5. ASSUME NEW a \in TriesOf(D, o.id)
        PROVE  /\ OutcomesOf(D, a.id) = OutcomesOf(B, a.id)
               /\ CapturesOf(D, a.id) = CapturesOf(B, a.id)
    <2>1. a \in B /\ a.kind = "attempt"
      BY <1>3 DEF TriesOf, All
    <2>2. ASSUME NEW r \in D, r.kind \in {"resolution", "capture"}, r.attempt = a.id
          PROVE  r \in B
      BY <1>1, <2>1, <2>2 DEF HangsOn
    <2>. QED
      BY <1>2, <2>2 DEF OutcomesOf, CapturesOf, All
  <1>6. ASSUME NEW c \in All(D, "capture")
        PROVE  \E a \in D : a.kind = "attempt" /\ a.id = c.attempt /\ a.occurrence = c.occurrence
    <2>1. PICK C \in Observations : c \in C /\ Whole(C, D)
      BY DEF Bundled, All
    <2>2. PICK a \in All(C, "attempt") : a.id = c.attempt /\ a.occurrence = c.occurrence
      BY <2>1 DEF Whole, Authentic, AttemptsHold, CaptureHolds, All
    <2>. QED
      BY <2>1, <2>2, FreshOrHandoff DEF Whole, All
  <1>7. ASSUME NEW a \in TriesOf(D, o.id), NEW c \in CapturesOf(D, a.id)
        PROVE  c.occurrence = o.id /\ ComparisonsOf(D, c.id) = ComparisonsOf(B, c.id)
    <2>1. c \in B /\ c.kind = "capture" /\ c \in D /\ c.attempt = a.id
      BY <1>2, <1>5 DEF CapturesOf, All
    <2>2. c.occurrence = o.id
      BY <1>6, <2>1, SameRow DEF TriesOf, All
    <2>3. ASSUME NEW x \in D, x.kind = "comparison", x.current = c.id
          PROVE  x \in B
      BY <1>1, <2>1, <2>3 DEF HangsOn
    <2>. QED
      BY <1>2, <2>2, <2>3 DEF ComparisonsOf, All
  <1>8. ASSUME NEW c \in All(D, "capture"), c.occurrence = o.id
        PROVE  c \in B /\ \E a \in TriesOf(D, o.id) : c \in CapturesOf(D, a.id)
    <2>1. PICK a \in TriesOf(D, o.id) : c \in CapturesOf(D, a.id)
      BY <1>6, <1>8 DEF TriesOf, CapturesOf, All
    <2>. QED
      BY <1>2, <1>5, <2>1 DEF CapturesOf, All
  <1>. QED
    BY <1>4, <1>5, <1>7, <1>8

\* Configurations of one monitor came in one bundle, as monitors do.
LEMMA ConfigurationsApart ==
  ASSUME NEW D, Bundled(D), Keyed(D), NEW c \in All(D, "configuration"),
         NEW d \in All(D, "configuration"), c.monitor = d.monitor, c # d
  PROVE  ~Overlap(c, d)
  <1>1. PICK C \in Observations : c \in C /\ Whole(C, D)
    BY DEF Bundled, All
  <1>2. PICK m \in C : HangsOn(c, m)
    BY <1>1, ParentsAreThere DEF Whole, All, Dependent
  <1>3. HangsOn(d, m)
    BY <1>2 DEF HangsOn, All
  <1>4. d \in C
    BY <1>1, <1>2, <1>3 DEF Whole, All
  <1>. QED
    BY <1>1, <1>4 DEF Whole, Authentic, ConfigurationsHold, ConfigurationsOf, All

\* What a reader loads, in terms of what is stored.
LEMMA LoadedRows ==
  ASSUME NEW D, Bundled(D), Keyed(D), NEW o \in D, o.kind = "occurrence"
  PROVE  /\ All(Loaded(D, o), "source") = {s \in All(D, "source") : s.id = o.source}
         /\ All(Loaded(D, o), "monitor") = {n \in All(D, "monitor") : n.id = o.monitor}
         /\ All(Loaded(D, o), "configuration") = ConfigurationsOf(D, o.monitor)
         /\ EventsOf(Loaded(D, o), o.configuration) = EventsOf(D, o.configuration)
         /\ All(Loaded(D, o), "attempt") = TriesOf(D, o.id)
         /\ TriesOf(Loaded(D, o), o.id) = TriesOf(D, o.id)
         /\ All(Loaded(D, o), "capture") = {c \in All(D, "capture") : c.occurrence = o.id}
         /\ All(Loaded(D, o), "verdict") = VerdictsOf(D, o.id)
         /\ \A r \in All(Loaded(D, o), "resolution") :
              \E a \in TriesOf(D, o.id) : r \in OutcomesOf(D, a.id)
         /\ \A a \in TriesOf(D, o.id) :
              /\ OutcomesOf(Loaded(D, o), a.id) = OutcomesOf(D, a.id)
              /\ CapturesOf(Loaded(D, o), a.id) = CapturesOf(D, a.id)
              /\ \A c \in CapturesOf(D, a.id) :
                   ComparisonsOf(Loaded(D, o), c.id) = ComparisonsOf(D, c.id)
         /\ \A x \in All(Loaded(D, o), "comparison") :
              \E c \in All(D, "capture") : c.occurrence = o.id /\ x \in ComparisonsOf(D, c.id)
  <1>. DEFINE L == Loaded(D, o)
  <1>1. PICK B \in Observations : o \in B /\ Whole(B, D)
    BY DEF Bundled
  <1>2. \A a \in TriesOf(D, o.id) : \A c \in CapturesOf(D, a.id) : c.occurrence = o.id
    BY <1>1, OccurrenceIsWhole
  <1>3. ASSUME NEW r
        PROVE  r \in L <=>
                 \/ r = o \/ r \in TriesOf(D, o.id) \/ r \in VerdictsOf(D, o.id)
                 \/ r \in All(D, "capture") /\ r.occurrence = o.id
                 \/ r \in ConfigurationsOf(D, o.monitor)
                 \/ r \in EventsOf(D, o.configuration)
                 \/ \E a \in TriesOf(D, o.id) : r \in OutcomesOf(D, a.id)
                 \/ \E c \in All(D, "capture") : c.occurrence = o.id /\ r \in ComparisonsOf(D, c.id)
                 \/ r \in All(D, "source") /\ r.id = o.source
                 \/ r \in All(D, "monitor") /\ r.id = o.monitor
                 \/ /\ r \in D /\ r.kind \in {"retention", "handoff"}
                    /\ \E c \in All(D, "capture") : c.occurrence = o.id /\ r.capture = c.id
    BY DEF Loaded, Root
  <1>. HIDE DEF L
  <1>4. ASSUME NEW r \in L
        PROVE  /\ r.kind = "attempt" <=> r \in TriesOf(D, o.id)
               /\ r.kind = "verdict" <=> r \in VerdictsOf(D, o.id)
               /\ r.kind = "capture" <=> r \in All(D, "capture") /\ r.occurrence = o.id
               /\ r.kind = "source" <=> r \in All(D, "source") /\ r.id = o.source
               /\ r.kind = "monitor" <=> r \in All(D, "monitor") /\ r.id = o.monitor
               /\ r.kind = "configuration" <=> r \in ConfigurationsOf(D, o.monitor)
               /\ r.kind = "event" <=> r \in EventsOf(D, o.configuration)
               /\ r.kind = "resolution" <=> \E a \in TriesOf(D, o.id) : r \in OutcomesOf(D, a.id)
               /\ r.kind = "comparison" <=>
                    \E c \in All(D, "capture") : c.occurrence = o.id /\ r \in ComparisonsOf(D, c.id)
    <2>1. /\ r \in TriesOf(D, o.id) => r.kind = "attempt"
          /\ r \in VerdictsOf(D, o.id) => r.kind = "verdict"
          /\ r \in All(D, "capture") => r.kind = "capture"
          /\ r \in ConfigurationsOf(D, o.monitor) => r.kind = "configuration"
          /\ r \in EventsOf(D, o.configuration) => r.kind = "event"
          /\ r \in All(D, "source") => r.kind = "source"
          /\ r \in All(D, "monitor") => r.kind = "monitor"
          /\ \A a : r \in OutcomesOf(D, a) => r.kind = "resolution"
          /\ \A c : r \in ComparisonsOf(D, c) => r.kind = "comparison"
      BY DEF All, TriesOf, VerdictsOf, ConfigurationsOf, EventsOf, OutcomesOf, ComparisonsOf
    <2>. QED
      BY <1>3, <2>1
  <1>5. /\ All(L, "configuration") = ConfigurationsOf(D, o.monitor)
        /\ All(L, "attempt") = TriesOf(D, o.id)
        /\ All(L, "capture") = {c \in All(D, "capture") : c.occurrence = o.id}
        /\ All(L, "verdict") = VerdictsOf(D, o.id)
        /\ All(L, "event") = EventsOf(D, o.configuration)
        /\ All(L, "source") = {s \in All(D, "source") : s.id = o.source}
        /\ All(L, "monitor") = {n \in All(D, "monitor") : n.id = o.monitor}
    BY <1>3, <1>4 DEF All
  <1>6. TriesOf(L, o.id) = TriesOf(D, o.id)
    BY <1>5 DEF TriesOf
  <1>7. EventsOf(L, o.configuration) = EventsOf(D, o.configuration)
    BY <1>5 DEF EventsOf
  <1>8. \A r : r \in All(L, "resolution") <=> \E a \in TriesOf(D, o.id) : r \in OutcomesOf(D, a.id)
    BY <1>3, <1>4 DEF All
  <1>9. \A r : r \in All(L, "comparison") <=>
          \E c \in All(D, "capture") : c.occurrence = o.id /\ r \in ComparisonsOf(D, c.id)
    BY <1>3, <1>4 DEF All
  <1>10. ASSUME NEW a \in TriesOf(D, o.id)
         PROVE  /\ OutcomesOf(L, a.id) = OutcomesOf(D, a.id)
                /\ CapturesOf(L, a.id) = CapturesOf(D, a.id)
                /\ \A c \in CapturesOf(D, a.id) : ComparisonsOf(L, c.id) = ComparisonsOf(D, c.id)
    <2>1. OutcomesOf(L, a.id) = OutcomesOf(D, a.id)
      BY <1>8 DEF OutcomesOf, All
    <2>2. CapturesOf(L, a.id) = CapturesOf(D, a.id)
      BY <1>2, <1>5 DEF CapturesOf
    <2>3. ASSUME NEW c \in CapturesOf(D, a.id)
          PROVE  ComparisonsOf(L, c.id) = ComparisonsOf(D, c.id)
      <3>1. c \in All(D, "capture") /\ c.occurrence = o.id
        BY <1>2 DEF CapturesOf
      <3>. QED
        BY <1>9, <3>1 DEF ComparisonsOf, All
    <2>. QED
      BY <2>1, <2>2, <2>3
  <1>. QED
    BY <1>5, <1>6, <1>7, <1>8, <1>9, <1>10 DEF L

LEMMA VerdictsAreTyped ==
  ASSUME NEW D, Bundled(D), NEW v \in All(D, "verdict")
  PROVE  v.outcome \in OccurrenceOutcome
  <1>1. v \in ObservationRow /\ v.kind = "verdict"
    BY ObservationAssumption DEF Bundled, All
  <1>. QED
    BY <1>1 DEF ObservationRow

\* The verifier of readers accepts what the verifier of writers, the keys and
\* the trigger of verdicts have let through, within the limits of Legible.
LEMMA StoredReadsBack ==
  ASSUME NEW D, Kept(D), NEW o \in All(D, "occurrence"), Legible(D, o)
  PROVE  Readable(D, o)
  <1>. DEFINE L == Loaded(D, o)
  <1>0. Bundled(D) /\ Keyed(D) /\ o \in D /\ o.kind = "occurrence"
    BY DEF Kept, All
  <1>1. PICK B \in Observations : o \in B /\ Whole(B, D)
    BY <1>0 DEF Bundled
  <1>2. Authentic(B)
    BY <1>1 DEF Whole
  <1>. HIDE DEF L
  <1>a. Known(L, "source", o.source) /\ LineageStored(L, o)
    <2>1. LineageStored(D, o)
      BY DEF Kept, Placed
    <2>2. PICK s \in All(B, "source") : s.id = o.source
      BY <1>0, <1>1, <1>2 DEF Authentic, ParentsIn, Known, All
    <2>3. s \in All(D, "source")
      BY <1>1, <2>2, FreshOrHandoff DEF Whole, All
    <2>4. Known(L, "source", o.source)
      BY <1>0, <2>2, <2>3, LoadedRows DEF L, Known
    <2>5. LineageStored(L, o)
      BY <1>0, <2>1, LoadedRows DEF L, LineageStored, ConfigurationsOf
    <2>. QED
      BY <2>4, <2>5
  <1>b. L \cap Garbled = {} /\ \A h \in All(L, "handoff") : HandoffVerifies(L, o, h)
    BY DEF Legible, L
  <1>3. \A c \in All(L, "configuration") :
          c.id = o.configuration =>
            /\ EventsOf(L, c.id) # {}
            /\ SequencesAscend(EventsOf(L, c.id))
            /\ LifecycleHolds(c, EventsOf(L, c.id))
    BY <1>0, LoadedRows DEF Legible, L, Kept, LifecyclesStored, ConfigurationsOf
  <1>4. \A c, d \in All(L, "configuration") : c # d => ~Overlap(c, d)
    BY <1>0, LoadedRows, ConfigurationsApart DEF L, ConfigurationsOf
  <1>5. ASSUME NEW a \in TriesOf(D, o.id)
        PROVE  /\ OutcomesOf(L, a.id) = OutcomesOf(B, a.id)
               /\ OutcomesOf(L, a.id) = OutcomesOf(D, a.id)
               /\ CapturesOf(L, a.id) = CapturesOf(B, a.id)
               /\ CapturesOf(L, a.id) = CapturesOf(D, a.id)
               /\ \A c \in CapturesOf(L, a.id) :
                    /\ ComparisonsOf(L, c.id) = ComparisonsOf(D, c.id)
                    /\ ComparisonsOf(L, c.id) = ComparisonsOf(B, c.id)
               /\ a \in B /\ a.kind = "attempt" /\ a.occurrence = o.id
    BY <1>0, <1>1, LoadedRows, OccurrenceIsWhole DEF L, TriesOf, All
  <1>6. All(L, "attempt") = TriesOf(D, o.id) /\ TriesOf(L, o.id) = TriesOf(D, o.id)
        /\ TriesOf(D, o.id) = TriesOf(B, o.id)
    BY <1>0, <1>1, LoadedRows, OccurrenceIsWhole DEF L
  <1>7. ASSUME NEW a \in All(L, "attempt")
        PROVE  /\ a.deadline <= o.cutoff
               /\ RetryHolds(L, a)
               /\ Cardinality(OutcomesOf(L, a.id)) = 1
               /\ Cardinality(CapturesOf(L, a.id)) = IF Failed(L, a.id) THEN 0 ELSE 1
    <2>1. AttemptHolds(B, a) /\ a \in TriesOf(D, o.id) /\ a.occurrence = o.id
      BY <1>2, <1>5, <1>6, <1>7 DEF Authentic, AttemptsHold, All
    <2>2. a.deadline <= o.cutoff
      <3>1. PICK u \in All(B, "occurrence") : u.id = a.occurrence /\ a.deadline <= u.cutoff
        BY <2>1 DEF AttemptHolds
      <3>2. u = o
        BY <1>0, <1>1, <2>1, <3>1, SameRow, FreshOrHandoff DEF All, Whole
      <3>. QED
        BY <3>1, <3>2
    <2>3. RetryHolds(L, a)
      <3>1. RetryHolds(B, a)
        BY <2>1 DEF AttemptHolds
      <3>2. CASE a.previous = NoRow
        BY <3>1, <3>2 DEF RetryHolds
      <3>3. CASE a.previous # NoRow
        <4>1. PICK p \in TriesOf(B, a.occurrence) :
                /\ p.id = a.previous /\ a.retry = p.retry + 1
                /\ \E r \in OutcomesOf(B, p.id) : r.outcome = "FAILED" /\ a.start > r.at
          BY <3>1, <3>3 DEF RetryHolds
        <4>2. p \in TriesOf(L, a.occurrence) /\ OutcomesOf(L, p.id) = OutcomesOf(B, p.id)
          BY <1>5, <1>6, <2>1, <4>1
        <4>. QED
          BY <3>3, <4>1, <4>2 DEF RetryHolds
      <3>. QED
        BY <3>2, <3>3
    <2>4. /\ OutcomesOf(B, a.id) # {}
          /\ Cardinality(CapturesOf(B, a.id)) = IF Failed(B, a.id) THEN 0 ELSE 1
      <3>1. Terminal(B, o.id, {v.outcome : v \in VerdictsOf(B, o.id)}) # "ILLEGAL"
        BY <1>0, <1>1, <1>2 DEF Authentic, OccurrencesHold, All
      <3>2. a \in TriesOf(B, o.id)
        BY <1>6, <2>1
      <3>. QED
        BY <3>1, <3>2 DEF Terminal
    <2>5. Cardinality(OutcomesOf(L, a.id)) = 1
      <3>1. PICK r : r \in OutcomesOf(D, a.id)
        BY <1>5, <2>1, <2>4
      <3>2. ASSUME NEW s \in OutcomesOf(D, a.id) PROVE s = r
        BY <1>0, <3>1, KeyFacts DEF OutcomesOf, All, Keyed, Repeats
      <3>3. OutcomesOf(L, a.id) = {r}
        BY <1>5, <2>1, <3>1, <3>2
      <3>. QED
        BY <3>3, FS_Singleton
    <2>6. Failed(L, a.id) <=> Failed(B, a.id)
      BY <1>5, <2>1 DEF Failed
    <2>. QED
      BY <1>5, <2>1, <2>2, <2>3, <2>4, <2>5, <2>6
  <1>8. \A c \in All(L, "capture") : Lineage(c) = Lineage(o)
    BY <1>0, <1>1, LoadedRows, OccurrenceIsWhole DEF Legible, L
  <1>9. ASSUME NEW x \in All(L, "comparison")
        PROVE  ComparisonHolds(L, x)
    <2>1. PICK c \in All(D, "capture") : c.occurrence = o.id /\ x \in ComparisonsOf(D, c.id)
      BY <1>0, LoadedRows DEF L
    <2>2. c \in All(L, "capture") /\ x.current = c.id /\ x \in D /\ x.kind = "comparison"
      BY <1>0, <2>1, LoadedRows DEF L, ComparisonsOf, All
    <2>3. x.prior = NoRow
      BY <1>0, <1>1, <2>1, OccurrenceIsWhole DEF Legible
    <2>4. PICK C \in Observations : x \in C /\ Whole(C, D)
      BY <1>0, <2>2 DEF Bundled
    <2>5. x.result = "FIRST_OBSERVED"
      BY <2>2, <2>3, <2>4 DEF Whole, Authentic, AttemptsHold, ComparisonHolds, All
    <2>. QED
      BY <2>2, <2>3, <2>5 DEF ComparisonHolds
  <1>10. ASSUME NEW r \in All(L, "resolution")
         PROVE  /\ ParityHolds(L, r)
                /\ r.outcome = "CAPTURED_EMPTY" => \A c \in CapturesOf(L, r.attempt) : c.items = 0
    <2>1. PICK a \in TriesOf(D, o.id) : r \in OutcomesOf(D, a.id)
      BY <1>0, <1>10, LoadedRows DEF L
    <2>2. r.attempt = a.id /\ r \in All(B, "resolution")
      BY <1>5, <2>1 DEF OutcomesOf, All
    <2>3. ParityHolds(B, r)
      BY <1>2, <2>2 DEF Authentic, AttemptsHold
    <2>4. UNION {ComparisonsOf(L, c.id) : c \in CapturesOf(L, r.attempt)}
            = UNION {ComparisonsOf(B, c.id) : c \in CapturesOf(B, r.attempt)}
      BY <1>5, <2>2
    <2>5. ParityHolds(L, r)
      BY <2>3, <2>4 DEF ParityHolds
    <2>. QED
      BY <1>5, <2>1, <2>2, <2>5 DEF Legible
  <1>11. \E v \in All(L, "verdict") :
           v.outcome = IF All(L, "attempt") = {}
                       THEN IF v.outcome = "SKIPPED" THEN "SKIPPED" ELSE "MISSED"
                       ELSE IF \E a \in All(L, "attempt") : Succeeded(L, a.id)
                            THEN "SUCCEEDED" ELSE "FAILED"
    <2>1. PICK v \in VerdictsOf(D, o.id) : v \in All(L, "verdict")
      BY <1>0, LoadedRows DEF Legible, L
    <2>2. VerdictTrigger(D, v) /\ v.occurrence = o.id
      BY <2>1 DEF Kept, VerdictsStored, VerdictsOf, All
    <2>3. \A a \in TriesOf(D, o.id) : Succeeded(L, a.id) <=> Succeeded(D, a.id)
      BY <1>5 DEF Succeeded
    <2>4. v.outcome \in OccurrenceOutcome
      BY <1>0, <2>1, VerdictsAreTyped DEF VerdictsOf
    <2>. QED
      BY <1>6, <2>1, <2>2, <2>3, <2>4 DEF VerdictTrigger, OccurrenceOutcome
  <1>. QED
    BY <1>a, <1>b, <1>3, <1>4, <1>7, <1>8, <1>9, <1>10, <1>11 DEF Readable, ReadVerifies, L

-----------------------------------------------------------------------------
(* What was readable and is so no more *)

Annex == {"retention", "handoff"}

\* Two readings of o that differ in annexes only have the same history.
LEMMA SameHistory ==
  ASSUME NEW L, NEW M, NEW o, ReadVerifies(L, o), M \cap Garbled = {},
         \A r : r.kind \notin Annex => (r \in L <=> r \in M),
         \A h \in All(M, "handoff") : HandoffVerifies(L, o, h)
  PROVE  ReadVerifies(M, o)
  <1>1. \A kind : kind \notin Annex => All(L, kind) = All(M, kind)
    BY DEF All
  <1>2. /\ All(L, "source") = All(M, "source") /\ All(L, "monitor") = All(M, "monitor")
        /\ All(L, "configuration") = All(M, "configuration")
        /\ All(L, "event") = All(M, "event") /\ All(L, "attempt") = All(M, "attempt")
        /\ All(L, "resolution") = All(M, "resolution") /\ All(L, "capture") = All(M, "capture")
        /\ All(L, "comparison") = All(M, "comparison") /\ All(L, "verdict") = All(M, "verdict")
    BY <1>1 DEF Annex
  <1>3. /\ \A x : EventsOf(L, x) = EventsOf(M, x) /\ TriesOf(L, x) = TriesOf(M, x)
        /\ \A x : OutcomesOf(L, x) = OutcomesOf(M, x) /\ CapturesOf(L, x) = CapturesOf(M, x)
        /\ \A x : ComparisonsOf(L, x) = ComparisonsOf(M, x)
    BY <1>2 DEF EventsOf, TriesOf, OutcomesOf, CapturesOf, ComparisonsOf
  <1>4. /\ \A a : RetryHolds(L, a) <=> RetryHolds(M, a)
        /\ \A a : (Failed(L, a) <=> Failed(M, a)) /\ (Succeeded(L, a) <=> Succeeded(M, a))
        /\ \A x : ComparisonHolds(L, x) <=> ComparisonHolds(M, x)
        /\ \A h : HandoffVerifies(L, o, h) <=> HandoffVerifies(M, o, h)
        /\ LineageStored(L, o) <=> LineageStored(M, o)
        /\ Known(L, "source", o.source) <=> Known(M, "source", o.source)
    BY <1>2, <1>3 DEF RetryHolds, Failed, Succeeded, ComparisonHolds, HandoffVerifies,
                      LineageStored, Known
  <1>5. ASSUME NEW r PROVE ParityHolds(L, r) <=> ParityHolds(M, r)
    <2>1. UNION {ComparisonsOf(L, c.id) : c \in CapturesOf(L, r.attempt)}
            = UNION {ComparisonsOf(M, c.id) : c \in CapturesOf(M, r.attempt)}
      BY <1>3
    <2>. QED
      BY <2>1 DEF ParityHolds
  <1>. QED
    BY <1>2, <1>3, <1>4, <1>5 DEF ReadVerifies

\* Around a readable occurrence a commit adds annexes only.
LEMMA OnlyAnnexesCome ==
  ASSUME NEW B \in Observations, NEW R, NEW D, Committing(B, R, D), Kept(D), Kept(D \cup R),
         NEW o \in All(D, "occurrence"), Readable(D, o)
  PROVE  \A r : r.kind \notin Annex => (r \in Loaded(D, o) <=> r \in Loaded(D \cup R, o))
  <1>. DEFINE E == D \cup R
  <1>1. Bundled(D) /\ Keyed(D) /\ Bundled(E) /\ Keyed(E) /\ o \in D /\ o \in E
        /\ o.kind = "occurrence"
    BY DEF Kept, All
  <1>2. ASSUME NEW x \in E, NEW y \in D, HangsOn(x, y) PROVE x \in D
    BY <1>1, <1>2, NothingHangsAcross
  <1>3. TriesOf(E, o.id) = TriesOf(D, o.id)
    <2>1. ASSUME NEW a \in TriesOf(E, o.id) PROVE a \in D
      BY <1>1, <1>2, <2>1 DEF TriesOf, All, HangsOn
    <2>. QED
      BY <2>1 DEF TriesOf, All
  <1>4. ASSUME NEW a \in TriesOf(D, o.id)
        PROVE  OutcomesOf(E, a.id) = OutcomesOf(D, a.id) /\ CapturesOf(E, a.id) = CapturesOf(D, a.id)
    <2>1. a \in D /\ a.kind = "attempt"
      BY DEF TriesOf, All
    <2>2. ASSUME NEW r \in E, r.kind \in {"resolution", "capture"}, r.attempt = a.id PROVE r \in D
      BY <1>2, <2>1, <2>2 DEF HangsOn
    <2>. QED
      BY <2>2 DEF OutcomesOf, CapturesOf, All
  <1>5. {c \in All(E, "capture") : c.occurrence = o.id} = {c \in All(D, "capture") : c.occurrence = o.id}
    <2>1. ASSUME NEW c \in All(E, "capture"), c.occurrence = o.id PROVE c \in D
      <3>1. PICK C \in Observations : o \in C /\ Whole(C, E)
        BY <1>1 DEF Bundled
      <3>2. PICK a \in TriesOf(E, o.id) : c \in CapturesOf(E, a.id)
        BY <1>1, <2>1, <3>1, OccurrenceIsWhole
      <3>. QED
        BY <1>3, <1>4, <3>2 DEF CapturesOf, All
    <2>. QED
      BY <2>1 DEF All
  <1>6. ASSUME NEW c \in All(D, "capture")
        PROVE  ComparisonsOf(E, c.id) = ComparisonsOf(D, c.id)
    <2>1. ASSUME NEW x \in ComparisonsOf(E, c.id) PROVE x \in D
      BY <1>2, <2>1 DEF ComparisonsOf, All, HangsOn
    <2>. QED
      BY <2>1 DEF ComparisonsOf, All
  <1>7. /\ Known(D, "source", o.source) /\ Known(D, "monitor", o.monitor)
        /\ Known(D, "configuration", o.configuration) /\ VerdictsOf(D, o.id) # {}
    <2>1. /\ Known(Loaded(D, o), "source", o.source) /\ LineageStored(Loaded(D, o), o)
          /\ All(Loaded(D, o), "verdict") # {}
      BY DEF Readable, ReadVerifies
    <2>2. Known(D, "source", o.source) /\ VerdictsOf(D, o.id) # {}
      BY <1>1, <2>1, LoadedRows DEF Known
    <2>3. LineageStored(D, o)
      BY DEF Kept, Placed
    <2>. QED
      BY <2>2, <2>3 DEF LineageStored, Known
  <1>8. ASSUME NEW r \in E, NEW s \in D, UniqueKeys(r) \cap UniqueKeys(s) # {} PROVE r \in D
    BY <1>8 DEF Committing, Clashes
  <1>9. VerdictsOf(E, o.id) = VerdictsOf(D, o.id)
    <2>1. PICK v \in VerdictsOf(D, o.id) : TRUE
      BY <1>7
    <2>2. ASSUME NEW w, w.kind = "verdict", w.occurrence = o.id
          PROVE  <<"verdict", o.id>> \in UniqueKeys(w)
      BY <2>2 DEF UniqueKeys
    <2>3. ASSUME NEW w \in VerdictsOf(E, o.id) PROVE w \in D
      BY <1>8, <2>1, <2>2, <2>3 DEF VerdictsOf, All
    <2>. QED
      BY <2>3 DEF VerdictsOf, All
  <1>10. Root(E, o) = Root(D, o)
    <2>1. /\ \A s \in All(E, "source") : s.id = o.source => s \in D
          /\ \A n \in All(E, "monitor") : n.id = o.monitor => n \in D
      BY <1>7, <1>8, KeyFacts DEF Known, All
    <2>2. ASSUME NEW c \in ConfigurationsOf(E, o.monitor) PROVE c \in D
      BY <1>2, <1>7, <2>2 DEF ConfigurationsOf, Known, All, HangsOn
    <2>3. ASSUME NEW e \in EventsOf(E, o.configuration) PROVE e \in D
      BY <1>2, <1>7, <2>3 DEF EventsOf, Known, All, HangsOn
    <2>4. ConfigurationsOf(E, o.monitor) = ConfigurationsOf(D, o.monitor)
      BY <2>2 DEF ConfigurationsOf, All
    <2>5. EventsOf(E, o.configuration) = EventsOf(D, o.configuration)
      BY <2>3 DEF EventsOf, All
    <2>6. {s \in All(E, "source") : s.id = o.source} = {s \in All(D, "source") : s.id = o.source}
      BY <2>1 DEF All
    <2>7. {n \in All(E, "monitor") : n.id = o.monitor} = {n \in All(D, "monitor") : n.id = o.monitor}
      BY <2>1 DEF All
    <2>. HIDE DEF E
    <2>. QED
      BY <2>4, <2>5, <2>6, <2>7 DEF Root
  <1>11. UNION {OutcomesOf(E, a.id) : a \in TriesOf(D, o.id)}
           = UNION {OutcomesOf(D, a.id) : a \in TriesOf(D, o.id)}
    BY <1>4
  <1>12. UNION {ComparisonsOf(E, c.id) : c \in {c \in All(D, "capture") : c.occurrence = o.id}}
           = UNION {ComparisonsOf(D, c.id) : c \in {c \in All(D, "capture") : c.occurrence = o.id}}
    BY <1>6
  <1>. HIDE DEF E
  <1>13. ASSUME NEW r, r.kind \notin Annex
         PROVE  r \in Loaded(D, o) <=> r \in Loaded(E, o)
    BY <1>3, <1>5, <1>9, <1>10, <1>11, <1>12, <1>13 DEF Loaded, Annex
  <1>. QED
    BY <1>13 DEF E

\* So an occurrence that a commit takes away from its readers is disputed by
\* an annex of that commit.
LEMMA AnnexesMayDispute ==
  ASSUME NEW B \in Observations, NEW R, NEW D, Committing(B, R, D), Kept(D), Kept(D \cup R),
         NEW o \in All(D, "occurrence"), Readable(D, o), ~Readable(D \cup R, o)
  PROVE  \E r \in Loaded(D \cup R, o) \ D : Disputes(r, D \cup R, o)
  <1>. DEFINE E == D \cup R
              L == Loaded(D, o)
              M == Loaded(D \cup R, o)
  <1>. SUFFICES ASSUME \A r \in M \ D : ~Disputes(r, E, o)
                PROVE  ReadVerifies(M, o)
    BY DEF Readable
  <1>1. ReadVerifies(L, o)
    BY DEF Readable
  <1>2. \A r : r.kind \notin Annex => (r \in L <=> r \in M)
    BY OnlyAnnexesCome
  <1>3. All(L, "capture") = All(M, "capture")
    BY <1>2 DEF All, Annex
  <1>4. ASSUME NEW r \in M, r.kind \in Annex
        PROVE  r \in L \/ r \notin D
    <2>1. \E c \in All(E, "capture") : c.occurrence = o.id /\ r.capture = c.id
      BY <1>4 DEF Loaded, Root, Annex, All, TriesOf, OutcomesOf, ComparisonsOf, VerdictsOf,
                  ConfigurationsOf, EventsOf
    <2>2. PICK c \in All(L, "capture") : c.occurrence = o.id /\ r.capture = c.id
      BY <1>3, <2>1 DEF Loaded, All
    <2>3. c \in All(D, "capture")
      BY <2>2, LoadedRows DEF Kept, All
    <2>. QED
      BY <1>4, <2>2, <2>3 DEF Loaded, Annex
  <1>5. M \cap Garbled = {}
    <2>1. ASSUME NEW r \in M, r \in Garbled, r.kind \in Annex PROVE FALSE
      BY <1>1, <1>4, <2>1 DEF ReadVerifies, Disputes, Annex
    <2>. QED
      BY <1>1, <1>2, <2>1 DEF ReadVerifies
  <1>6. ASSUME NEW h \in All(M, "handoff") PROVE HandoffVerifies(L, o, h)
    <2>1. CASE h \in L
      BY <1>1, <2>1 DEF ReadVerifies, All
    <2>2. CASE h \notin D
      <3>1. HandoffVerifies(M, o, h)
        BY <2>2 DEF Disputes, All
      <3>. QED
        BY <1>3, <3>1 DEF HandoffVerifies
    <2>. QED
      BY <1>4, <2>1, <2>2 DEF All, Annex
  <1>. HIDE DEF L, M
  <1>. QED
    BY <1>1, <1>2, <1>5, <1>6, SameHistory

-----------------------------------------------------------------------------
(* One call's step *)

Calling == [calls : Nat, at : Points, step : Nat, slot : Slots \cup {Free},
            answer : Answers]

Knowing == [tx : {"none", "open", "aborted"}, rows : SUBSET UNION Observations,
            foreign : BOOLEAN, locks : SUBSET {Place(p) : p \in Procs}]

LEMMA Typed ==
  TypeOK <=> /\ observed \subseteq UNION Observations /\ task \in Tasks
             /\ proc \in [Procs -> Calling] /\ holder \in [Slots -> Procs \cup {Free, Lost}]
             /\ session \in [Slots -> Knowing]
  BY DEF TypeOK, Calling, Knowing

\* Only p moves, on the connection s that it has, takes or gives back, and
\* what happens to the stored rows is a commit or nothing.
Apply(p, s) ==
  \/ observed' = observed /\ session'[s].rows = {}
  \/ /\ observed' = observed
     /\ proc'[p].at = "store" /\ proc'[p].slot = s
     /\ Committing(task[p].observation, session'[s].rows, observed)
     /\ \A t \in Slots \ {s} : ~Clashes(session'[s].rows, session[t].rows)
                               /\ ~Clashes(session[t].rows, session'[s].rows)
  \/ /\ At(p, "store") /\ s = proc[p].slot
     /\ TriggersPass(Own(p).rows, Seen(p))
     /\ observed' = Seen(p) /\ session'[s].rows = {}

Move(p, s) ==
  /\ task' = task /\ db \subseteq db'
  /\ s \in Slots /\ holder[s] \in {p, Free}
  /\ s = proc[p].slot \/ proc[p].at \notin Leasing
  /\ \A q \in Procs \ {p} : proc'[q] = proc[q]
  /\ \A t \in Slots \ {s} : session'[t] = session[t] /\ holder'[t] = holder[t]
  /\ session'[s].foreign => session'[s].tx = "open"
  /\ \A t \in Slots \ {s} : session'[s].locks \cap session[t].locks = {}
  /\ Apply(p, s)
  /\ Standing(p)'
  /\ Alone(p) /\ task[p].how = "bind" /\ proc'[p].at = "insert" => observed' = {}

LEMMA Tasked ==
  ASSUME TypeOK, NEW p \in Procs
  PROVE  /\ task[p].how \in {"none", "bind", "persist", "observe"}
         /\ task[p].how # "none" => task[p].observation \in Observations
         /\ task[p].how \in {"bind", "observe"} =>
              Known(task[p].observation, "occurrence", Place(p))
  BY BindingAssumption DEF TypeOK, Place

LEMMA FreeIsNobody == Free \notin Procs /\ Lost \notin Procs /\ Free \notin Slots /\ Free # Lost
  BY BindingAssumption DEF Free, Lost

\* A connection in use is its caller's, and carries rows at "store" only.
LEMMA Leased ==
  ASSUME Inv, NEW p \in Procs, proc[p].at \in Leasing
  PROVE  /\ proc[p].slot \in Slots /\ holder[proc[p].slot] = p
         /\ ~At(p, "store") => Own(p).rows = {} /\ Seen(p) = observed
  <1>1. proc[p].slot \in Slots /\ holder[proc[p].slot] = p
    BY DEF Inv, Standing
  <1>2. ASSUME NEW q \in Procs, At(q, "store"), proc[q].slot = proc[p].slot
        PROVE  q = p
    BY <1>1, <1>2 DEF Inv, Standing, At, Leasing
  <1>3. Own(p).rows # {} => At(p, "store")
    BY <1>1, <1>2 DEF Inv, Carried, Own
  <1>. QED
    BY <1>1, <1>3 DEF Seen, Own

LEMMA StandsStill ==
  ASSUME NEW q \in Procs, Standing(q), proc'[q] = proc[q], task' = task,
         observed \subseteq observed', db \subseteq db',
         proc[q].at \in Leasing => /\ holder'[proc[q].slot] = holder[proc[q].slot]
                                  /\ session'[proc[q].slot] = session[proc[q].slot]
  PROVE  Standing(q)'
  <1>1. /\ At(q, "store")' <=> At(q, "store")
        /\ At(q, "commit")' <=> At(q, "commit")
        /\ Steps(q)' = Steps(q) /\ Place(q)' = Place(q) /\ Wanted(q)' = Wanted(q)
        /\ (Alone(q))' <=> Alone(q)
    BY DEF At, Steps, Place, Wanted, Alone
  <1>2. proc[q].at \in Leasing => Own(q)' = Own(q)
    BY DEF Own
  <1>3. task[q].how = "bind" => Told(q)'
    BY <1>1, FreshShrinks DEF Standing, Told
  <1>4. At(q, "store") => Inserted(task[q].observation, Own(q).rows)'
    <2>1. ASSUME At(q, "store") PROVE Own(q)' = Own(q) /\ proc[q].at \in Leasing
      BY <1>2, <2>1 DEF At, Leasing
    <2>2. ASSUME At(q, "store") PROVE Placed(Own(q).rows, observed' \cup Own(q).rows)
      BY <2>2 DEF Standing, Inserted, Placed, All, Known, LineageStored
    <2>. QED
      BY <2>1, <2>2 DEF Standing, Inserted, Replayed, All
  <1>5. At(q, "commit") => Own(q)' = Own(q)
    BY <1>2 DEF At, Leasing
  <1>6. proc[q].at \in {"check", "insert", "store", "unlock"} => Own(q)' = Own(q)
    BY <1>2 DEF Leasing
  <1>. QED
    BY <1>1, <1>2, <1>3, <1>4, <1>5, <1>6 DEF Standing

\* What a commit of p stores is in order.
LEMMA StoreIsCommit ==
  ASSUME Inv, NEW p \in Procs, At(p, "store")
  PROVE  /\ Committing(task[p].observation, Own(p).rows, observed)
         /\ task[p].observation \in Observations
         /\ Seen(p) = observed \cup Own(p).rows
         /\ Placed(Own(p).rows, Seen(p))
         /\ Fresh(task[p].observation, Seen(p)) \subseteq Seen(p)
  <1>1. proc[p].slot \in Slots /\ task[p].how # "none"
        /\ Inserted(task[p].observation, Own(p).rows)
    BY DEF Inv, Standing, At, Leasing
  <1>2. ~Clashes(Own(p).rows, observed) /\ ~Repeats(Own(p).rows)
    BY <1>1 DEF Inv, Carried, Own
  <1>. QED
    BY <1>1, <1>2, Tasked DEF Inv, Inserted, Committing, Seen, Own, Fresh, Replayed, All

LEMMA MoveKeepsStored ==
  ASSUME Inv, NEW p \in Procs, NEW s, Move(p, s)
  PROVE  Kept(observed') /\ observed \subseteq observed'
  <1>1. CASE observed' = observed
    BY <1>1 DEF Inv
  <1>2. CASE At(p, "store") /\ observed' = Seen(p) /\ TriggersPass(Own(p).rows, Seen(p))
    BY <1>2, StoreIsCommit, CommitKeeps DEF Inv
  <1>. QED
    BY <1>1, <1>2 DEF Move, Apply

LEMMA MoveKeepsStanding ==
  ASSUME Inv, NEW p \in Procs, NEW s, Move(p, s), NEW q \in Procs
  PROVE  Standing(q)'
  <1>1. CASE q = p
    BY <1>1 DEF Move
  <1>2. CASE q # p
    <2>1. proc[q].at \in Leasing => proc[q].slot \in Slots \ {s}
      BY <1>2, FreeIsNobody, Leased DEF Move
    <2>2. Standing(q)
      BY DEF Inv
    <2>. QED
      BY <1>2, <2>1, <2>2, MoveKeepsStored, StandsStill DEF Move
  <1>. QED
    BY <1>1, <1>2

\* Rows in flight on another connection stay apart from what p writes.
LEMMA MoveKeepsCarried ==
  ASSUME Inv, NEW p \in Procs, NEW s, Move(p, s), NEW t \in Slots
  PROVE  Carried(t)'
  <1>0. \A q \in Procs : At(q, "store")' <=> proc'[q].at = "store"
    BY DEF At
  <1>1. CASE t # s
    <2>1. session'[t] = session[t] /\ Carried(t)
      BY <1>1 DEF Move, Inv
    <2>2. ASSUME session[t].rows # {}
          PROVE  \E q \in Procs : At(q, "store")' /\ proc'[q].slot = t
      <3>1. PICK q \in Procs : At(q, "store") /\ proc[q].slot = t
        BY <2>1, <2>2 DEF Carried
      <3>2. q # p
        BY <1>1, <3>1 DEF Move, At, Leasing
      <3>. QED
        BY <1>0, <3>1, <3>2 DEF Move, At
    <2>3. ~Clashes(session[t].rows, observed')
      <3>1. CASE observed' = observed
        BY <2>1, <3>1 DEF Carried
      <3>2. CASE observed' = Seen(p) /\ s = proc[p].slot
        <4>1. ~Clashes(session[t].rows, session[s].rows) /\ ~Clashes(session[t].rows, observed)
          BY <1>1, <2>1 DEF Inv, Apart, Carried, Move
        <4>. QED
          BY <3>2, <4>1 DEF Seen, Clashes
      <3>. QED
        BY <3>1, <3>2 DEF Move, Apply
    <2>. QED
      BY <2>1, <2>2, <2>3 DEF Carried
  <1>2. CASE t = s
    <2>1. session'[s].foreign => session'[s].tx = "open"
      BY DEF Move
    <2>2. CASE session'[s].rows = {}
      BY <1>2, <2>1, <2>2 DEF Carried, Clashes, Repeats
    <2>3. CASE /\ observed' = observed
               /\ proc'[p].at = "store" /\ proc'[p].slot = s
               /\ Committing(task[p].observation, session'[s].rows, observed)
      BY <1>0, <1>2, <2>1, <2>3 DEF Carried, Committing
    <2>. QED
      BY <2>2, <2>3 DEF Move, Apply
  <1>. QED
    BY <1>1, <1>2

LEMMA MoveKeepsApart ==
  ASSUME Inv, NEW p \in Procs, NEW s, Move(p, s), NEW t \in Slots, NEW u \in Slots \ {t}
  PROVE  Apart(t, u)'
  <1>1. CASE t # s /\ u # s
    BY <1>1 DEF Move, Inv, Apart
  <1>2. ASSUME NEW v \in Slots \ {s}
        PROVE  /\ session'[s].locks \cap session'[v].locks = {}
               /\ ~Clashes(session'[s].rows, session'[v].rows)
               /\ ~Clashes(session'[v].rows, session'[s].rows)
    BY DEF Move, Apply, Clashes
  <1>. QED
    BY <1>1, <1>2 DEF Apart

LEMMA MoveKeepsSolitary ==
  ASSUME Inv, NEW p \in Procs, NEW s, Move(p, s), NEW q \in Procs
  PROVE  Solitary(q)'
  <1>1. /\ (Alone(q))' <=> Alone(q)
        /\ Place(q)' = Place(q) /\ task' = task
        /\ At(q, "insert")' <=> proc'[q].at = "insert"
    BY DEF Move, Alone, Place, At
  <1>. SUFFICES ASSUME Alone(q)
                PROVE  /\ observed' = {} \/ Known(observed', "occurrence", Place(q))
                       /\ task[q].how = "bind" /\ proc'[q].at = "insert" => observed' = {}
    BY <1>1 DEF Solitary
  <1>2. Solitary(q) /\ Standing(q) /\ Standing(p)
    BY DEF Inv
  <1>3. CASE observed' = observed
    BY <1>2, <1>3 DEF Move, Solitary, At
  <1>4. CASE At(p, "store") /\ observed' = Seen(p)
    <2>1. task[p].how = "bind" /\ Place(p) = Place(q) /\ task[p].observation = task[q].observation
      BY <1>2, <1>4 DEF Alone, Standing, At
    <2>2. Known(observed', "occurrence", Place(q))
      BY <1>4, <2>1, StoreIsCommit, Tasked, FreshOrHandoff DEF Inv, Known, All
    <2>3. ASSUME q # p, proc'[q].at = "insert", task[q].how = "bind"
          PROVE  FALSE
      <3>1. proc[q].at = "insert" /\ proc[q].slot # proc[p].slot
        BY <1>4, <2>3, Leased DEF Move, At, Leasing
      <3>2. Place(q) \in Own(q).locks /\ Place(p) \in Own(p).locks
            /\ proc[q].slot \in Slots /\ proc[p].slot \in Slots
        BY <1>2, <1>4, <2>1, <2>3, <3>1 DEF Standing, At, Leasing
      <3>. QED
        BY <2>1, <3>1, <3>2 DEF Inv, Apart, Own
    <2>4. CASE q = p
      BY <2>1, <2>2, <2>4 DEF Move
    <2>. QED
      BY <2>2, <2>3, <2>4
  <1>. QED
    BY <1>3, <1>4 DEF Move, Apply

LEMMA MoveKeepsInv ==
  ASSUME Inv, TypeOK', NEW p \in Procs, NEW s, Move(p, s)
  PROVE  Inv'
  <1>1. Kept(observed)'
    BY MoveKeepsStored DEF Kept
  <1>. QED
    BY <1>1, MoveKeepsStanding, MoveKeepsCarried, MoveKeepsApart, MoveKeepsSolitary DEF Inv

-----------------------------------------------------------------------------
(* The ways a call goes on *)

\* What a bind owes a caller to whom it answers a.
Owes(p, a) ==
  /\ a = "answered" => \E B \in Observations :
                         /\ Wanted(p) \subseteq B /\ Authentic(B)
                         /\ Fresh(B, observed') \subseteq observed'
  /\ a = "duplicate" => ~Alone(p) \/ Repeats(task[p].observation)

\* What happens to the stored rows where no row stays in flight.
Settles(p) ==
  \/ observed' = observed
  \/ At(p, "store") /\ TriggersPass(Own(p).rows, Seen(p)) /\ observed' = Seen(p)

\* The session that p leaves behind.
Leaves(p, e) ==
  /\ e \in Knowing /\ e.rows = {} /\ (e.foreign => e.tx = "open")
  /\ \A t \in Slots \ {proc[p].slot} : e.locks \cap session[t].locks = {}

LEMMA SeenIsTyped ==
  ASSUME Inv, NEW p \in Procs, proc[p].at \in Leasing, Settles(p)
  PROVE  observed' \subseteq UNION Observations /\ observed \subseteq observed'
  <1>1. proc[p].slot \in Slots /\ Own(p) \in Knowing /\ observed \subseteq UNION Observations
    BY Leased, Typed DEF Inv, Own
  <1>. QED
    BY <1>1 DEF Settles, Seen, Knowing, Own

LEMMA PassedStays ==
  ASSUME Inv, NEW p \in Procs, db \subseteq db', task' = task, proc'[p].step = proc[p].step
  PROVE  \A i \in 1..(proc'[p].step - 1) : Steps(p)'[i] \subseteq db'
  <1>1. Standing(p) /\ Steps(p)' = Steps(p)
    BY DEF Inv, Steps
  <1>. QED
    BY <1>1 DEF Standing

\* A call that returns, and gives its connection back.
LEMMA ReturnMoves ==
  ASSUME Inv, NEW p \in Procs, proc[p].at \in Leasing, NEW e, NEW a \in Answers,
         Release(p, e), Return(p, a), Leaves(p, e), Settles(p),
         task' = task, db \subseteq db', task[p].how = "bind" => Owes(p, a)
  PROVE  Move(p, proc[p].slot) /\ TypeOK'
  <1>. DEFINE s == proc[p].slot
  <1>1. /\ s \in Slots /\ holder[s] = p
        /\ task \in Tasks /\ proc \in [Procs -> Calling]
        /\ holder \in [Slots -> Procs \cup {Free, Lost}] /\ session \in [Slots -> Knowing]
    BY Leased, Typed DEF Inv
  <1>2. /\ proc' \in [Procs -> Calling]
        /\ proc'[p].at = "idle" /\ proc'[p].slot = Free /\ proc'[p].answer = a
        /\ proc'[p].step = proc[p].step
        /\ \A q \in Procs \ {p} : proc'[q] = proc[q]
    <2>1. proc' = [proc EXCEPT ![p].at = "idle", ![p].slot = Free, ![p].answer = a]
      BY DEF Return
    <2>2. "idle" \in Points
      BY DEF Points
    <2>. QED
      BY <1>1, <2>1, <2>2 DEF Calling
  <1>3. /\ holder' \in [Slots -> Procs \cup {Free, Lost}] /\ session' \in [Slots -> Knowing]
        /\ session'[s] = e
        /\ \A t \in Slots \ {s} : session'[t] = session[t] /\ holder'[t] = holder[t]
    BY <1>1 DEF Release, Leaves
  <1>4. TypeOK'
    BY <1>1, <1>2, <1>3, SeenIsTyped, Typed DEF TypeOK, Calling, Knowing, Place
  <1>5. Standing(p)'
    <2>1. task[p].how = "bind" => Told(p)'
      BY <1>2 DEF Told, Owes, Wanted, Place, Alone
    <2>. QED
      BY <1>2, <2>1, PassedStays DEF Standing, Leasing, At
  <1>6. Apply(p, s)
    BY <1>3 DEF Apply, Settles, Leaves
  <1>. QED
    BY <1>1, <1>2, <1>3, <1>4, <1>5, <1>6 DEF Move, Leaves

\* A call that goes on with its connection, and has no row in flight.
LEMMA GoMoves ==
  ASSUME Inv, NEW p \in Procs, proc[p].at \in Leasing, NEW e, NEW point \in Leasing, NEW a \in Answers,
         Session(p, e), Doing(p, point, a), Leaves(p, e), Settles(p),
         holder' = holder, task' = task, db \subseteq db', point # "store",
         point \in {"guard", "check", "unlock"} => task[p].how = "bind",
         point = "insert" => task[p].how # "none",
         point = "read" => task[p].how = "observe",
         point = "commit" => ~e.foreign,
         task[p].how = "bind" /\ point \in {"check", "insert", "unlock"} => Place(p) \in e.locks,
         Alone(p) /\ task[p].how = "bind" /\ point = "insert" => observed' = {},
         task[p].how = "bind" => Owes(p, a)
  PROVE  Move(p, proc[p].slot) /\ TypeOK'
  <1>. DEFINE s == proc[p].slot
  <1>1. /\ s \in Slots /\ holder[s] = p
        /\ task \in Tasks /\ proc \in [Procs -> Calling]
        /\ holder \in [Slots -> Procs \cup {Free, Lost}] /\ session \in [Slots -> Knowing]
    BY Leased, Typed DEF Inv
  <1>2. /\ proc' \in [Procs -> Calling]
        /\ proc'[p].at = point /\ proc'[p].slot = s /\ proc'[p].answer = a
        /\ proc'[p].step = proc[p].step
        /\ \A q \in Procs \ {p} : proc'[q] = proc[q]
    BY <1>1 DEF Doing, Calling, Points, Leasing
  <1>3. /\ session' \in [Slots -> Knowing] /\ session'[s] = e
        /\ \A t \in Slots \ {s} : session'[t] = session[t]
    BY <1>1 DEF Session, Leaves
  <1>4. TypeOK'
    BY <1>1, <1>2, <1>3, SeenIsTyped, Typed DEF TypeOK, Calling, Knowing, Place
  <1>5. Standing(p)'
    <2>1. task[p].how = "bind" => Told(p)'
      BY <1>2 DEF Told, Owes, Wanted, Place, Alone
    <2>2. Own(p)' = e /\ Place(p)' = Place(p)
      BY <1>2, <1>3 DEF Own, Place
    <2>. QED
      BY <1>1, <1>2, <2>1, <2>2, PassedStays DEF Standing, Leasing, At
  <1>6. Apply(p, s)
    BY <1>3 DEF Apply, Settles, Leaves
  <1>. QED
    BY <1>1, <1>2, <1>3, <1>4, <1>5, <1>6 DEF Move, Leaves

LEMMA OwnIsTyped ==
  ASSUME Inv, NEW p \in Procs, proc[p].at \in Leasing
  PROVE  /\ Own(p) \in Knowing /\ (Own(p).foreign => Own(p).tx = "open")
         /\ \A t \in Slots \ {proc[p].slot} : Own(p).locks \cap session[t].locks = {}
  BY Leased, Typed DEF Inv, Own, Carried, Apart

LEMMA WaysToLeave ==
  ASSUME Inv, NEW p \in Procs, proc[p].at \in Leasing
  PROVE  /\ Leaves(p, Idle) /\ Leaves(p, Ended(p))
         /\ ~At(p, "store") => Leaves(p, Own(p))
                               /\ Leaves(p, [Own(p) EXCEPT !.locks = @ \ {Place(p)}])
  <1>1. Leaves(p, Idle)
    BY DEF Leaves, Idle, Knowing
  <1>2. Leaves(p, Ended(p)) /\ Ended(p).locks = Own(p).locks
    BY OwnIsTyped DEF Leaves, Ended, Knowing
  <1>3. ~At(p, "store") => Leaves(p, Own(p))
    BY OwnIsTyped, Leased DEF Leaves
  <1>4. ~At(p, "store") => Leaves(p, [Own(p) EXCEPT !.locks = @ \ {Place(p)}])
    BY OwnIsTyped, Leased DEF Leaves, Knowing
  <1>. QED
    BY <1>1, <1>2, <1>3, <1>4

\* After persistRcv020Authority a bind unlocks and the others return.
LEMMA LeaveMoves ==
  ASSUME Inv, NEW p \in Procs, proc[p].at \in {"insert", "store"}, NEW e, NEW a \in Answers,
         Leave(p, e, a), Leaves(p, e), Settles(p), task' = task, db' = db,
         task[p].how = "bind" => Place(p) \in e.locks /\ Owes(p, a)
  PROVE  Move(p, proc[p].slot) /\ TypeOK'
  <1>1. proc[p].at \in Leasing
    BY DEF Leasing
  <1>2. CASE task[p].how # "bind"
    BY <1>1, <1>2, ReturnMoves DEF Leave
  <1>3. CASE task[p].how = "bind"
    BY <1>1, <1>3, GoMoves DEF Leave, Leasing
  <1>. QED
    BY <1>2, <1>3

-----------------------------------------------------------------------------
(* The actions *)

LEMMA TransactionMoves ==
  ASSUME Inv, NEW p \in Procs,
         \/ ProbeIdle(p) \/ ProbeSoiled(p) \/ RefuseOwned(p)
         \/ CommitRolledBack(p) \/ CommitLost(p)
  PROVE  Move(p, proc[p].slot) /\ TypeOK'
  <1>1. proc[p].at \in Leasing /\ ~At(p, "store") /\ task' = task /\ observed' = observed
    BY DEF ProbeIdle, ProbeSoiled, RefuseOwned, CommitRolledBack, CommitLost, At, Leasing
  <1>2. Settles(p)
    BY <1>1 DEF Settles
  <1>3. \A a \in {"soiled", "refused", "failed"} : a \in Answers /\ Owes(p, a)
    BY DEF Owes, Answers
  <1>4. CASE ProbeIdle(p)
    <2>. DEFINE e == [Own(p) EXCEPT !.tx = "open"]
    <2>1. Leaves(p, e) /\ ~e.foreign
      BY <1>1, <1>4, OwnIsTyped, Leased DEF Leaves, Knowing, ProbeIdle
    <2>2. proc[p].answer \in Answers /\ (task[p].how = "bind" => Owes(p, proc[p].answer))
      BY <1>1, Typed DEF Inv, Standing, Told, Owes, Calling
    <2>3. Doing(p, "commit", proc[p].answer)
      BY <1>4, Typed DEF Inv, ProbeIdle, Go, Doing, Calling
    <2>4. Session(p, e) /\ holder' = holder /\ db' = db
      BY <1>4 DEF ProbeIdle
    <2>. QED
      BY <1>1, <1>2, <2>1, <2>2, <2>3, <2>4, GoMoves DEF Leasing
  <1>5. CASE ProbeSoiled(p)
    BY <1>1, <1>2, <1>3, <1>5, WaysToLeave, ReturnMoves DEF ProbeSoiled
  <1>6. CASE RefuseOwned(p)
    BY <1>1, <1>2, <1>3, <1>6, WaysToLeave, ReturnMoves DEF RefuseOwned
  <1>7. CASE CommitRolledBack(p)
    BY <1>1, <1>2, <1>3, <1>7, WaysToLeave, ReturnMoves DEF CommitRolledBack
  <1>8. CASE CommitLost(p)
    <2>1. db \subseteq db'
      BY <1>8 DEF CommitLost, Persist
    <2>. QED
      BY <1>1, <1>2, <1>3, <1>8, <2>1, WaysToLeave, ReturnMoves DEF CommitLost
  <1>. QED
    BY <1>4, <1>5, <1>6, <1>7, <1>8

LEMMA BindingMoves ==
  ASSUME Inv, NEW p \in Procs, Guard(p) \/ Check(p) \/ Unlock(p) \/ UnlockFails(p)
  PROVE  Move(p, proc[p].slot) /\ TypeOK'
  <1>1. /\ proc[p].at \in Leasing /\ ~At(p, "store") /\ task' = task /\ observed' = observed
        /\ db' = db /\ task[p].how = "bind"
    BY DEF Guard, Check, Unlock, UnlockFails, At, Leasing, Inv, Standing
  <1>2. Settles(p)
    BY <1>1 DEF Settles
  <1>3. proc[p].answer \in Answers /\ Owes(p, proc[p].answer)
    BY <1>1, Typed DEF Inv, Standing, Told, Owes, Calling
  <1>4. CASE Guard(p)
    <2>. DEFINE e == [Own(p) EXCEPT !.locks = @ \cup {Place(p)}]
    <2>1. Leaves(p, e) /\ Place(p) \in e.locks
      BY <1>1, <1>4, OwnIsTyped, Leased DEF Leaves, Knowing, Guard, Unlocked
    <2>2. Doing(p, "check", proc[p].answer)
      BY <1>4, Typed DEF Inv, Guard, Go, Doing, Calling
    <2>3. Session(p, e) /\ holder' = holder
      BY <1>4 DEF Guard
    <2>. QED
      BY <1>1, <1>2, <1>3, <2>1, <2>2, <2>3, GoMoves DEF Leasing
  <1>5. CASE Check(p)
    <2>1. Session(p, Own(p)) /\ holder' = holder /\ Leaves(p, Own(p)) /\ Place(p) \in Own(p).locks
      BY <1>1, <1>5, Leased, Typed, WaysToLeave DEF Check, Session, Own, Inv, Standing, At, Leasing
    <2>2. Seen(p) = observed
      BY <1>1, Leased
    <2>3. CASE Stored(p) = {}
      <3>1. Doing(p, "insert", proc[p].answer)
        BY <1>5, <2>3, Typed DEF Inv, Check, Go, Doing, Calling
      <3>2. Alone(p) => observed' = {}
        BY <1>1, <2>2, <2>3 DEF Inv, Solitary, Stored, Known, All
      <3>. QED
        BY <1>1, <1>2, <1>3, <2>1, <3>1, <3>2, GoMoves DEF Leasing
    <2>4. CASE Stored(p) # {}
      <3>. DEFINE a == IF Stored(p) = Wanted(p) THEN "answered" ELSE "divergent"
      <3>1. Doing(p, "unlock", a) /\ a \in Answers
        BY <1>5, <2>4 DEF Check, Answers
      <3>2. ASSUME Stored(p) = Wanted(p)
            PROVE  \E B \in Observations :
                     /\ Wanted(p) \subseteq B /\ Authentic(B)
                     /\ Fresh(B, observed') \subseteq observed'
        <4>1. PICK o \in Stored(p) : TRUE
          BY <2>4
        <4>2. PICK B \in Observations : o \in B /\ Whole(B, observed)
          BY <2>2, <4>1 DEF Inv, Kept, Bundled, Stored, All
        <4>3. ASSUME NEW u \in Stored(p) PROVE u = o
          BY <2>2, <4>1, <4>3, SameRow DEF Inv, Kept, Stored, All
        <4>. QED
          BY <1>1, <3>2, <4>2, <4>3 DEF Whole
      <3>3. Owes(p, a)
        BY <3>2 DEF Owes
      <3>. QED
        BY <1>1, <1>2, <2>1, <3>1, <3>3, GoMoves DEF Leasing
    <2>. QED
      BY <2>3, <2>4
  <1>6. CASE Unlock(p)
    BY <1>1, <1>2, <1>3, <1>6, WaysToLeave, ReturnMoves DEF Unlock
  <1>7. CASE UnlockFails(p)
    <2>1. Owes(p, "failed") /\ "failed" \in Answers
      BY DEF Owes, Answers
    <2>. QED
      BY <1>1, <1>2, <1>7, <2>1, WaysToLeave, ReturnMoves DEF UnlockFails
  <1>. QED
    BY <1>4, <1>5, <1>6, <1>7

\* Rows are inserted: they are in flight until the commit.
LEMMA InsertMoves ==
  ASSUME Inv, NEW p \in Procs, Insert(p)
  PROVE  Move(p, proc[p].slot) /\ TypeOK'
  <1>. DEFINE s == proc[p].slot
              B == task[p].observation
              R == NewRows(p)
              e == [Own(p) EXCEPT !.tx = "open", !.rows = @ \cup R]
  <1>1. /\ proc[p].at = "insert" /\ proc[p].at \in Leasing /\ ~At(p, "store")
        /\ task' = task /\ observed' = observed /\ db' = db /\ holder' = holder
        /\ session' = [session EXCEPT ![s] = e] /\ proc' = [proc EXCEPT ![p].at = "store"]
    BY DEF Insert, Session, Go, At, Leasing
  <1>2. /\ s \in Slots /\ holder[s] = p /\ Own(p).rows = {} /\ Seen(p) = observed
        /\ task \in Tasks /\ proc \in [Procs -> Calling]
        /\ holder \in [Slots -> Procs \cup {Free, Lost}] /\ session \in [Slots -> Knowing]
    BY <1>1, Leased, Typed DEF Inv
  <1>3. Standing(p) /\ task[p].how # "none" /\ B \in Observations
    BY <1>1, Tasked DEF Inv, Standing
  <1>4. Committing(B, R, observed)
    BY <1>2 DEF Insert, Taken, NewRows, Fresh, Replayed, Committing
  <1>5. Placed(R, observed \cup R)
    <2>1. \A r \in R :
            /\ r.kind = "verdict" => Known(observed \cup R, "occurrence", r.occurrence)
            /\ r.kind = "occurrence" => LineageStored(observed \cup R, r)
      BY <1>2 DEF Insert, ForeignKeys
    <2>. QED
      BY <2>1 DEF Placed, All
  <1>6. /\ e \in Knowing /\ e.rows = R /\ e.tx = "open" /\ e.locks = Own(p).locks
        /\ \A t \in Slots \ {s} : e.locks \cap session[t].locks = {}
    <2>1. R \subseteq UNION Observations
      BY <1>3, <1>4 DEF Committing
    <2>. QED
      BY <1>1, <1>2, <2>1, OwnIsTyped DEF Knowing
  <1>. HIDE DEF e, R
  <1>7. /\ proc' \in [Procs -> Calling]
        /\ proc'[p].at = "store" /\ proc'[p].slot = s /\ proc'[p].answer = proc[p].answer
        /\ proc'[p].step = proc[p].step
        /\ \A q \in Procs \ {p} : proc'[q] = proc[q]
    BY <1>1, <1>2 DEF Calling, Points
  <1>8. /\ session' \in [Slots -> Knowing] /\ session'[s] = e
        /\ \A t \in Slots \ {s} : session'[t] = session[t]
    BY <1>1, <1>2, <1>6
  <1>9. TypeOK'
    BY <1>1, <1>2, <1>7, <1>8, Typed DEF Inv, TypeOK, Calling, Knowing, Place
  <1>10. Standing(p)'
    <2>1. task[p].how = "bind" => Told(p)'
      BY <1>1, <1>3, <1>7 DEF Standing, Told, Wanted, Place, Alone
    <2>2. Own(p)' = e /\ Place(p)' = Place(p)
      BY <1>1, <1>7, <1>8 DEF Own, Place
    <2>3. task[p].how = "bind" => Place(p) \in e.locks
      BY <1>1, <1>3, <1>6 DEF Standing
    <2>4. Inserted(task[p].observation, Own(p).rows)'
      BY <1>1, <1>4, <1>5, <1>6, <2>2 DEF Inserted, Committing
    <2>. QED
      BY <1>1, <1>2, <1>3, <1>7, <2>1, <2>2, <2>3, <2>4, PassedStays DEF Standing, Leasing, At
  <1>11. Apply(p, s)
    <2>1. \A t \in Slots \ {s} : ~Clashes(R, session[t].rows) /\ ~Clashes(session[t].rows, R)
      BY DEF Insert, InFlight, R, Clashes
    <2>. QED
      BY <1>1, <1>4, <1>6, <1>7, <1>8, <2>1 DEF Apply
  <1>. QED
    BY <1>1, <1>2, <1>6, <1>7, <1>8, <1>9, <1>10, <1>11 DEF Move

\* An operational slice commits, and leases another connection to read.
LEMMA ObserveMoves ==
  ASSUME Inv, NEW p \in Procs, Store(p), task[p].how = "observe"
  PROVE  Move(p, proc[p].slot) /\ TypeOK'
  <1>. DEFINE s == proc[p].slot
              e == Ended(p)
  <1>1. /\ At(p, "store") /\ proc[p].at \in Leasing /\ task' = task /\ db' = db
        /\ holder' = [holder EXCEPT ![s] = Free] /\ session' = [session EXCEPT ![s] = e]
        /\ proc' = [proc EXCEPT ![p].at = "again", ![p].slot = Free]
        /\ Settles(p) /\ Leaves(p, e)
    BY WaysToLeave DEF Store, Release, Settles, At, Leasing
  <1>2. /\ s \in Slots /\ holder[s] = p /\ task \in Tasks /\ proc \in [Procs -> Calling]
        /\ holder \in [Slots -> Procs \cup {Free, Lost}] /\ session \in [Slots -> Knowing]
    BY <1>1, Leased, Typed DEF Inv
  <1>. HIDE DEF e
  <1>3. /\ proc' \in [Procs -> Calling]
        /\ proc'[p].at = "again" /\ proc'[p].slot = Free /\ proc'[p].step = proc[p].step
        /\ \A q \in Procs \ {p} : proc'[q] = proc[q]
    BY <1>1, <1>2 DEF Calling, Points
  <1>4. /\ holder' \in [Slots -> Procs \cup {Free, Lost}] /\ session' \in [Slots -> Knowing]
        /\ session'[s] = e
        /\ \A t \in Slots \ {s} : session'[t] = session[t] /\ holder'[t] = holder[t]
    BY <1>1, <1>2 DEF Leaves
  <1>5. TypeOK'
    BY <1>1, <1>2, <1>3, <1>4, SeenIsTyped, Typed DEF TypeOK, Calling, Knowing, Place
  <1>6. Standing(p)'
    BY <1>1, <1>3, PassedStays DEF Standing, Leasing, At
  <1>7. Apply(p, s)
    BY <1>1, <1>4 DEF Apply, Settles, Leaves
  <1>. QED
    BY <1>1, <1>2, <1>3, <1>4, <1>5, <1>6, <1>7 DEF Move, Leaves

\* Where all name one occurrence, nothing was stored before the first insert.
LEMMA DuplicatesAreExplained ==
  ASSUME Inv, NEW p \in Procs, At(p, "insert"), Taken(p), task[p].how = "bind"
  PROVE  ~Alone(p) \/ Repeats(task[p].observation)
  <1>1. Seen(p) = observed
    BY Leased DEF At, Leasing
  <1>2. Alone(p) => observed = {}
    BY DEF Inv, Solitary
  <1>3. observed = {} => Repeats(NewRows(p))
    BY <1>1 DEF Taken, Clashes
  <1>. QED
    BY <1>2, <1>3 DEF NewRows, Fresh, Repeats

LEMMA InsertionMoves ==
  ASSUME Inv, NEW p \in Procs,
         InsertFails(p) \/ StatementFails(p) \/ Store(p) \/ StoreFails(p)
  PROVE  Move(p, proc[p].slot) /\ TypeOK'
  <1>1. /\ proc[p].at \in {"insert", "store"} /\ proc[p].at \in Leasing
        /\ task' = task /\ db' = db /\ Settles(p)
    BY DEF InsertFails, StatementFails, Store, StoreFails, At, Leasing, Settles
  <1>2. /\ task[p].how = "bind" => Place(p) \in Own(p).locks
        /\ Ended(p).locks = Own(p).locks
    BY <1>1, OwnIsTyped DEF Inv, Standing, Ended, Knowing
  <1>3. Owes(p, "failed") /\ Owes(p, "constraint") /\ Owes(p, "soiled") /\ Owes(p, "unauthentic")
    BY DEF Owes
  <1>4. {"failed", "constraint", "soiled", "unauthentic", "duplicate", "answered"} \subseteq Answers
    BY DEF Answers
  <1>5. CASE InsertFails(p)
    <2>. DEFINE e == IF Rejection(p) = "unauthentic" THEN Own(p) ELSE Ended(p)
    <2>1. Leaves(p, e) /\ (task[p].how = "bind" => Place(p) \in e.locks)
      BY <1>1, <1>2, <1>5, WaysToLeave DEF InsertFails, At
    <2>2. Leave(p, e, Rejection(p)) /\ At(p, "insert")
      BY <1>5 DEF InsertFails
    <2>. HIDE DEF e
    <2>3. Rejection(p) \in {"unauthentic", "soiled", "duplicate", "constraint"}
          /\ (Rejection(p) = "duplicate" => Taken(p))
      BY DEF Rejection
    <2>4. task[p].how = "bind" => Owes(p, Rejection(p))
      BY <1>3, <2>2, <2>3, DuplicatesAreExplained DEF Owes
    <2>. QED
      BY <1>1, <1>4, <2>1, <2>2, <2>3, <2>4, LeaveMoves
  <1>6. CASE StatementFails(p)
    BY <1>1, <1>2, <1>3, <1>4, <1>6, WaysToLeave, LeaveMoves DEF StatementFails
  <1>7. CASE Store(p) /\ task[p].how # "observe"
    <2>1. At(p, "store") /\ Leave(p, Ended(p), "answered") /\ observed' = Seen(p)
      BY <1>7 DEF Store
    <2>2. task[p].how = "bind" => Owes(p, "answered")
      <3>1. task[p].observation \in Observations /\ Authentic(task[p].observation)
            /\ Fresh(task[p].observation, observed') \subseteq observed'
        BY <2>1, StoreIsCommit DEF Committing
      <3>. QED
        BY <3>1 DEF Owes, Wanted, All
    <2>. QED
      BY <1>1, <1>2, <1>4, <2>1, <2>2, WaysToLeave, LeaveMoves
  <1>8. CASE StoreFails(p)
    BY <1>1, <1>2, <1>3, <1>4, <1>8, WaysToLeave, LeaveMoves DEF StoreFails
  <1>. QED
    BY <1>5, <1>6, <1>7, <1>8, ObserveMoves

LEMMA EndingMoves ==
  ASSUME Inv, NEW p \in Procs, Read(p) \/ ConnectionLost(p)
  PROVE  Move(p, proc[p].slot) /\ TypeOK'
  <1>1. proc[p].at \in Leasing /\ task' = task /\ db' = db /\ Settles(p)
    BY DEF Read, ConnectionLost, At, Leasing, Settles
  <1>2. CASE Read(p)
    <2>1. PICK a \in {"soiled", "unreadable", "answered", "uncovered"} : Return(p, a)
      BY <1>2 DEF Read
    <2>2. a \in Answers /\ task[p].how = "observe" /\ Release(p, Ended(p))
      BY <1>2 DEF Read, Answers, Inv, Standing, At
    <2>. QED
      BY <1>1, <2>1, <2>2, WaysToLeave, ReturnMoves
  <1>3. CASE ConnectionLost(p)
    <2>1. "failed" \in Answers /\ Owes(p, "failed")
      BY DEF Answers, Owes
    <2>. QED
      BY <1>1, <1>3, <2>1, WaysToLeave, ReturnMoves DEF ConnectionLost
  <1>. QED
    BY <1>2, <1>3

\* A bundle of the ledger is stored: one step of the slice is done.
LEMMA CommitMoves ==
  ASSUME Inv, NEW p \in Procs, CommitOwned(p)
  PROVE  Move(p, proc[p].slot) /\ TypeOK'
  <1>. DEFINE s == proc[p].slot
  <1>1. /\ At(p, "commit") /\ proc[p].at \in Leasing /\ ~At(p, "store")
        /\ task' = task /\ observed' = observed /\ db' = db \cup Bundle(p)
        /\ holder' = [holder EXCEPT ![s] = Free] /\ session' = [session EXCEPT ![s] = Idle]
        /\ proc' = [proc EXCEPT ![p].at = "next", ![p].slot = Free, ![p].step = @ + 1]
        /\ Leaves(p, Idle)
    BY WaysToLeave DEF CommitOwned, Persist, Release, At, Leasing
  <1>2. /\ s \in Slots /\ holder[s] = p /\ task \in Tasks /\ proc \in [Procs -> Calling]
        /\ holder \in [Slots -> Procs \cup {Free, Lost}] /\ session \in [Slots -> Knowing]
        /\ Standing(p)
    BY <1>1, Leased, Typed DEF Inv
  <1>3. /\ proc' \in [Procs -> Calling]
        /\ proc'[p].at = "next" /\ proc'[p].slot = Free /\ proc'[p].step = proc[p].step + 1
        /\ proc'[p].answer = proc[p].answer
        /\ \A q \in Procs \ {p} : proc'[q] = proc[q]
    BY <1>1, <1>2 DEF Calling, Points
  <1>4. /\ holder' \in [Slots -> Procs \cup {Free, Lost}] /\ session' \in [Slots -> Knowing]
        /\ session'[s] = Idle
        /\ \A t \in Slots \ {s} : session'[t] = session[t] /\ holder'[t] = holder[t]
    BY <1>1, <1>2 DEF Leaves
  <1>5. TypeOK'
    BY <1>1, <1>2, <1>3, <1>4, Typed DEF Inv, TypeOK, Calling, Knowing, Place
  <1>6. Standing(p)'
    <2>1. ASSUME NEW i \in 1..(proc'[p].step - 1)
          PROVE  Steps(p)[i] \subseteq db'
      <3>1. proc[p].step \in Nat
        BY <1>2 DEF Calling
      <3>2. i \in 1..(proc[p].step - 1) \/ i = proc[p].step
        BY <1>3, <3>1
      <3>. QED
        BY <1>1, <1>2, <3>2 DEF Standing, Bundle
    <2>2. task[p].how = "bind" => Told(p)'
      BY <1>1, <1>2, <1>3 DEF Standing, Told, Wanted, Place, Alone
    <2>3. \A i \in 1..(proc'[p].step - 1) : Steps(p)'[i] \subseteq db'
      BY <1>1, <2>1 DEF Steps
    <2>. QED
      BY <1>1, <1>3, <2>2, <2>3 DEF Standing, Leasing, At
  <1>7. Apply(p, s)
    BY <1>1, <1>4 DEF Apply, Idle
  <1>. QED
    BY <1>1, <1>2, <1>3, <1>4, <1>5, <1>6, <1>7 DEF Move, Leaves

\* The lock query fails, and nobody gives the connection back.
LEMMA LeakMoves ==
  ASSUME Inv, NEW p \in Procs, Leak(p), UNCHANGED session \/ Session(p, Idle)
  PROVE  Move(p, proc[p].slot) /\ TypeOK'
  <1>. DEFINE s == proc[p].slot
  <1>1. /\ proc[p].at \in Leasing /\ ~At(p, "store")
        /\ task' = task /\ observed' = observed /\ db' = db
        /\ holder' = [holder EXCEPT ![s] = Lost] /\ Return(p, "failed")
        /\ Leaves(p, Idle) /\ Leaves(p, Own(p))
    BY WaysToLeave DEF Leak, At, Leasing
  <1>2. /\ s \in Slots /\ holder[s] = p /\ task \in Tasks /\ proc \in [Procs -> Calling]
        /\ holder \in [Slots -> Procs \cup {Free, Lost}] /\ session \in [Slots -> Knowing]
    BY <1>1, Leased, Typed DEF Inv
  <1>3. /\ proc' \in [Procs -> Calling]
        /\ proc'[p].at = "idle" /\ proc'[p].slot = Free /\ proc'[p].step = proc[p].step
        /\ proc'[p].answer = "failed"
        /\ \A q \in Procs \ {p} : proc'[q] = proc[q]
    <2>1. "idle" \in Points /\ "failed" \in Answers
      BY DEF Points, Answers
    <2>. QED
      BY <1>1, <1>2, <2>1 DEF Return, Calling
  <1>4. /\ holder' \in [Slots -> Procs \cup {Free, Lost}] /\ session' \in [Slots -> Knowing]
        /\ session'[s] \in {Idle, Own(p)}
        /\ \A t \in Slots \ {s} : session'[t] = session[t] /\ holder'[t] = holder[t]
    BY <1>1, <1>2 DEF Leaves, Session, Own
  <1>5. TypeOK'
    BY <1>1, <1>2, <1>3, <1>4, Typed DEF Inv, TypeOK, Calling, Knowing, Place
  <1>6. Standing(p)'
    <2>1. Told(p)'
      BY <1>3 DEF Told
    <2>. QED
      BY <1>1, <1>3, <2>1, PassedStays DEF Standing, Leasing, At
  <1>7. Apply(p, s)
    BY <1>1, <1>4 DEF Apply, Leaves
  <1>. QED
    BY <1>1, <1>2, <1>3, <1>4, <1>5, <1>6, <1>7 DEF Move, Leaves

LEMMA FreeSlotsAreEmpty ==
  ASSUME Inv, NEW s \in Slots, holder[s] = Free
  PROVE  session[s].rows = {}
  BY FreeIsNobody DEF Inv, Carried, Standing, At, Leasing

LEMMA LeaseMoves ==
  ASSUME Inv, NEW p \in Procs, NEW s \in Slots, Lease(p, s)
  PROVE  Move(p, s) /\ TypeOK'
  <1>. DEFINE point == Turn(p)
  <1>1. /\ proc[p].at \in {"next", "again"} /\ proc[p].at \notin Leasing /\ holder[s] = Free
        /\ task' = task /\ observed' = observed /\ db' = db /\ session' = session
        /\ holder' = [holder EXCEPT ![s] = p]
        /\ proc' = [proc EXCEPT ![p].at = point, ![p].slot = s]
    BY DEF Lease, At, Leasing
  <1>2. /\ task \in Tasks /\ proc \in [Procs -> Calling] /\ Standing(p)
        /\ holder \in [Slots -> Procs \cup {Free, Lost}] /\ session \in [Slots -> Knowing]
    BY Typed DEF Inv
  <1>3. /\ point \in {"read", "probe", "guard", "insert"}
        /\ point = "read" => task[p].how = "observe"
        /\ point = "guard" => task[p].how = "bind"
        /\ point = "insert" => task[p].how # "none" /\ task[p].how # "bind"
    BY <1>1, <1>2 DEF Turn, Lease, Standing, At
  <1>. HIDE DEF point
  <1>4. /\ proc' \in [Procs -> Calling]
        /\ proc'[p].at = point /\ proc'[p].slot = s /\ proc'[p].step = proc[p].step
        /\ proc'[p].answer = proc[p].answer
        /\ \A q \in Procs \ {p} : proc'[q] = proc[q]
    BY <1>1, <1>2, <1>3 DEF Calling, Points
  <1>5. /\ holder' \in [Slots -> Procs \cup {Free, Lost}] /\ holder'[s] = p
        /\ \A t \in Slots \ {s} : holder'[t] = holder[t]
    BY <1>1, <1>2
  <1>6. TypeOK'
    BY <1>1, <1>2, <1>4, <1>5, Typed DEF Inv, TypeOK, Calling, Knowing, Place
  <1>7. Standing(p)'
    <2>1. task[p].how = "bind" => Told(p)'
      BY <1>1, <1>2, <1>4 DEF Standing, Told, Wanted, Place, Alone
    <2>. QED
      BY <1>1, <1>3, <1>4, <1>5, <2>1, PassedStays DEF Standing, Leasing, At
  <1>8. Apply(p, s) /\ (session'[s].foreign => session'[s].tx = "open")
        /\ \A t \in Slots \ {s} : session'[s].locks \cap session[t].locks = {}
    BY <1>1, FreeSlotsAreEmpty DEF Apply, Inv, Carried, Apart
  <1>. QED
    BY <1>1, <1>3, <1>4, <1>5, <1>6, <1>7, <1>8 DEF Move

LEMMA StartIsTyped ==
  Start \in Calling /\ Start.step = 1 /\ Start.slot = Free /\ Start.answer = "none"
  BY DEF Start, Calling, Points, Answers

\* A call that begins, or ends with nothing left to do, has no connection.
LEMMA TurningKeepsInv ==
  ASSUME Inv, NEW p \in Procs, Call(p) \/ Done(p)
  PROVE  Inv'
  <1>1. /\ proc[p].at \in {"idle", "next"} /\ proc[p].at \notin Leasing /\ task' = task
        /\ observed' = observed /\ db' = db /\ session' = session /\ holder' = holder
    BY DEF Call, Done, At, Leasing
  <1>2. /\ task \in Tasks /\ proc \in [Procs -> Calling] /\ Standing(p)
        /\ holder \in [Slots -> Procs \cup {Free, Lost}] /\ session \in [Slots -> Knowing]
    BY Typed DEF Inv
  <1>3. /\ proc' \in [Procs -> Calling] /\ \A q \in Procs \ {p} : proc'[q] = proc[q]
        /\ proc'[p].at \in {"idle", "next"} /\ proc'[p].slot = Free
        /\ \/ proc'[p].step = 1 /\ proc'[p].answer = "none"
           \/ task[p].how = "none" /\ proc'[p].step = proc[p].step
    <2>1. {"idle", "next"} \subseteq Points /\ {"answered", "none"} \subseteq Answers
      BY DEF Points, Answers
    <2>2. CASE Call(p)
      <3>. DEFINE c == [Start EXCEPT !.calls = proc[p].calls + 1, !.at = "next"]
      <3>1. /\ c \in Calling
            /\ c.at = "next" /\ c.step = 1 /\ c.slot = Free /\ c.answer = "none"
        <4>1. proc[p].calls + 1 \in Nat /\ "next" \in Points
          BY <1>2, <2>1 DEF Calling
        <4>. QED
          BY <4>1, StartIsTyped DEF Calling
      <3>2. proc' = [proc EXCEPT ![p] = c]
        BY <2>2 DEF Call
      <3>. HIDE DEF c
      <3>3. proc' \in [Procs -> Calling] /\ proc'[p] = c /\ \A q \in Procs \ {p} : proc'[q] = proc[q]
        BY <1>2, <3>1, <3>2
      <3>. QED
        BY <3>1, <3>3
    <2>3. CASE Done(p)
      <3>1. /\ task[p].how = "none"
            /\ proc' = [proc EXCEPT ![p].at = "idle", ![p].slot = Free, ![p].answer = "answered"]
        BY <2>3 DEF Done, Return
      <3>. QED
        BY <1>2, <2>1, <3>1 DEF Calling
    <2>. QED
      BY <2>2, <2>3
  <1>4. TypeOK'
    BY <1>1, <1>2, <1>3, Typed DEF Inv, TypeOK, Calling, Knowing, Place
  <1>5. ASSUME NEW q \in Procs PROVE Standing(q)'
    <2>1. CASE q # p
      BY <1>1, <1>3, <2>1, StandsStill DEF Inv
    <2>2. CASE q = p
      <3>1. \A i \in 1..(proc'[p].step - 1) : Steps(p)'[i] \subseteq db'
        <4>1. CASE proc'[p].step = 1
          BY <4>1
        <4>2. CASE proc'[p].step = proc[p].step
          BY <1>1, <4>2, PassedStays
        <4>. QED
          BY <1>3, <4>1, <4>2
      <3>2. task[p].how = "bind" => Told(p)'
        BY <1>3 DEF Told
      <3>. QED
        BY <1>1, <1>3, <2>2, <3>1, <3>2 DEF Standing, Leasing, At
    <2>. QED
      BY <2>1, <2>2
  <1>6. ASSUME NEW q \in Procs PROVE Solitary(q)'
    BY <1>1, <1>3 DEF Inv, Solitary, Alone, Place, At
  <1>7. ASSUME NEW s \in Slots PROVE Carried(s)' /\ \A t \in Slots \ {s} : Apart(s, t)'
    <2>1. Carried(s) /\ \A t \in Slots \ {s} : Apart(s, t)
      BY DEF Inv
    <2>2. ASSUME NEW q \in Procs, At(q, "store") PROVE proc'[q] = proc[q]
      BY <1>1, <1>3, <2>2 DEF At
    <2>. QED
      BY <1>1, <2>1, <2>2 DEF Carried, Apart, At
  <1>. QED
    BY <1>1, <1>4, <1>5, <1>6, <1>7 DEF Inv

\* Another user of the pool leaves a free connection inside a transaction.
LEMMA SoilKeepsInv ==
  ASSUME Inv, NEW s \in Slots, Soil(s)
  PROVE  Inv'
  <1>1. /\ task' = task /\ observed' = observed /\ db' = db /\ proc' = proc /\ holder' = holder
        /\ holder[s] = Free /\ session[s].rows = {}
    BY FreeSlotsAreEmpty DEF Soil
  <1>2. PICK tx \in {"open", "aborted"} :
          session' = [session EXCEPT ![s].tx = tx, ![s].foreign = (tx = "open")]
    BY DEF Soil
  <1>3. session \in [Slots -> Knowing]
    BY Typed DEF Inv
  <1>4. /\ session' \in [Slots -> Knowing]
        /\ session'[s].rows = {} /\ session'[s].locks = session[s].locks
        /\ session'[s].tx = tx /\ session'[s].foreign = (tx = "open")
        /\ \A t \in Slots \ {s} : session'[t] = session[t]
    <2>1. (tx = "open") \in BOOLEAN
      OBVIOUS
    <2>. QED
      BY <1>1, <1>2, <1>3, <2>1 DEF Knowing
  <1>5. TypeOK'
    BY <1>1, <1>4, Typed DEF Inv, TypeOK, Calling, Knowing, Place
  <1>6. ASSUME NEW q \in Procs PROVE Standing(q)' /\ Solitary(q)'
    <2>1. proc[q].at \in Leasing => proc[q].slot \in Slots \ {s}
      BY <1>1, FreeIsNobody, Leased
    <2>2. Standing(q)'
      BY <1>1, <1>4, <2>1, StandsStill DEF Inv
    <2>. QED
      BY <1>1, <2>2 DEF Inv, Solitary, Alone, Place, At
  <1>7. ASSUME NEW t \in Slots PROVE Carried(t)' /\ \A u \in Slots \ {t} : Apart(t, u)'
    <2>1. Carried(t) /\ \A u \in Slots \ {t} : Apart(t, u)
      BY DEF Inv
    <2>2. \A u \in Slots : session'[u].rows = session[u].rows /\ session'[u].locks = session[u].locks
      BY <1>1, <1>4
    <2>3. session'[t].foreign => session'[t].tx = "open"
      BY <1>4, <2>1 DEF Carried
    <2>. QED
      BY <1>1, <2>1, <2>2, <2>3 DEF Carried, Apart, At
  <1>. QED
    BY <1>1, <1>5, <1>6, <1>7 DEF Inv

LEMMA IdleIsTyped == Idle \in Knowing /\ [s \in Slots |-> Idle] \in [Slots -> Knowing]
  BY DEF Idle, Knowing

\* After a restart nobody is under way.
LEMMA CrashKeepsInv ==
  ASSUME Inv, Crash
  PROVE  Inv'
  <1>1. /\ task' = task /\ observed' = observed /\ db' = db
        /\ holder' = [s \in Slots |-> Free] /\ session' = [s \in Slots |-> Idle]
    BY DEF Crash
  <1>2. proc \in [Procs -> Calling]
    BY Typed DEF Inv
  <1>3. /\ proc' \in [Procs -> Calling]
        /\ \A p \in Procs : proc'[p].at = "idle" /\ proc'[p].slot = Free /\ proc'[p].step = 1
                            /\ proc'[p].answer = "none"
    <2>1. "idle" \in Points /\ "none" \in Answers
      BY DEF Points, Answers
    <2>. QED
      BY <1>2, <2>1 DEF Crash, Start, Calling
  <1>4. TypeOK'
    BY <1>1, <1>3, Typed, IdleIsTyped DEF Inv, TypeOK, Calling, Knowing, Place
  <1>5. ASSUME NEW p \in Procs PROVE Standing(p)' /\ Solitary(p)'
    <2>1. Told(p)'
      BY <1>3 DEF Told
    <2>2. Standing(p)'
      BY <1>3, <2>1 DEF Standing, Leasing, At
    <2>. QED
      BY <1>1, <1>3, <2>2 DEF Inv, Solitary, Alone, Place, At
  <1>6. ASSUME NEW s \in Slots PROVE Carried(s)' /\ \A t \in Slots \ {s} : Apart(s, t)'
    BY <1>1 DEF Carried, Apart, Idle, Clashes, Repeats
  <1>. QED
    BY <1>1, <1>4, <1>5, <1>6 DEF Inv

LEMMA NothingIsKept == Kept({})
  BY DEF Kept, Bundled, Keyed, Repeats, LifecyclesStored, VerdictsStored, Placed, All

LEMMA InitInv == Init => Inv
  <1>. SUFFICES ASSUME Init PROVE Inv
    OBVIOUS
  <1>1. TypeOK
    BY StartIsTyped, Typed, IdleIsTyped DEF Init
  <1>2. ASSUME NEW p \in Procs PROVE Standing(p) /\ Solitary(p)
    BY DEF Init, Start, Standing, Told, Solitary, Leasing, At
  <1>3. ASSUME NEW s \in Slots PROVE Carried(s) /\ \A t \in Slots \ {s} : Apart(s, t)
    BY DEF Init, Carried, Apart, Idle, Clashes, Repeats
  <1>. QED
    BY <1>1, <1>2, <1>3, NothingIsKept DEF Init, Inv

LEMMA NextKeepsInv == Inv /\ [Next]_vars => Inv'
  <1>. SUFFICES ASSUME Inv, [Next]_vars PROVE Inv'
    OBVIOUS
  <1>1. ASSUME NEW p \in Procs, NEW s \in Slots, Lease(p, s) PROVE Inv'
    BY <1>1, LeaseMoves, MoveKeepsInv
  <1>2. ASSUME NEW p \in Procs, Step(p), \A s \in Slots : ~Lease(p, s), ~Done(p) PROVE Inv'
    <2>1. CASE ProbeIdle(p) \/ ProbeSoiled(p) \/ RefuseOwned(p)
      BY <2>1, TransactionMoves, MoveKeepsInv
    <2>2. CASE CommitOwned(p)
      BY <2>2, CommitMoves, MoveKeepsInv
    <2>3. CASE Guard(p) \/ Check(p) \/ Unlock(p)
      BY <2>3, BindingMoves, MoveKeepsInv
    <2>4. CASE GuardRefused(p)
      BY <2>4, LeakMoves, MoveKeepsInv DEF GuardRefused
    <2>5. CASE Insert(p)
      BY <2>5, InsertMoves, MoveKeepsInv
    <2>6. CASE InsertFails(p) \/ Store(p) \/ StoreFails(p)
      BY <2>6, InsertionMoves, MoveKeepsInv
    <2>7. CASE Read(p)
      BY <2>7, EndingMoves, MoveKeepsInv
    <2>. QED
      BY <1>2, <2>1, <2>2, <2>3, <2>4, <2>5, <2>6, <2>7 DEF Step
  <1>3. ASSUME NEW p \in Procs, Call(p) \/ Done(p) PROVE Inv'
    BY <1>3, TurningKeepsInv
  <1>4. ASSUME NEW p \in Procs, CommitRolledBack(p) \/ CommitLost(p) PROVE Inv'
    BY <1>4, TransactionMoves, MoveKeepsInv
  <1>5. ASSUME NEW p \in Procs, ConnectionLost(p) PROVE Inv'
    BY <1>5, EndingMoves, MoveKeepsInv
  <1>6. ASSUME NEW p \in Procs, GuardFails(p) PROVE Inv'
    BY <1>6, LeakMoves, MoveKeepsInv DEF GuardFails
  <1>7. ASSUME NEW p \in Procs, UnlockFails(p) PROVE Inv'
    BY <1>7, BindingMoves, MoveKeepsInv
  <1>8. ASSUME NEW p \in Procs, StatementFails(p) PROVE Inv'
    BY <1>8, InsertionMoves, MoveKeepsInv
  <1>9. ASSUME NEW s \in Slots, Soil(s) PROVE Inv'
    BY <1>9, SoilKeepsInv
  <1>10. CASE Crash
    BY <1>10, CrashKeepsInv
  <1>11. CASE UNCHANGED vars
    <2>. USE <1>11 DEF vars
    <2>1. ASSUME NEW q \in Procs PROVE Standing(q)' /\ Solitary(q)'
      BY StandsStill DEF Inv, Solitary, Alone, Place, At
    <2>2. ASSUME NEW s \in Slots PROVE Carried(s)' /\ \A t \in Slots \ {s} : Apart(s, t)'
      BY DEF Inv, Carried, Apart, At
    <2>. QED
      BY <2>1, <2>2 DEF Inv, TypeOK, Place
  <1>. QED
    BY <1>1, <1>2, <1>3, <1>4, <1>5, <1>6, <1>7, <1>8, <1>9, <1>10, <1>11 DEF Next, Step

-----------------------------------------------------------------------------
(* What holds of every run *)

\* The lock on an occurrence has one owner, rows in flight on two connections
\* share no key, and whatever is stored is whole bundles that passed the write
\* verifier (rcv021BindingAdapter.ts, rcv020PostgresRepository.ts).
THEOREM BindingsStayConsistent == Spec => []Inv
  BY InitInv, NextKeepsInv, PTL DEF Spec

\* Whatever breaks, restarts or races it: each bundle that a call has passed
\* is stored, and an occurrence that bindRcv021SelectionToRcv020 answered for
\* is stored with the whole of an authentic bundle.
THEOREM AnswersAlwaysStored == Spec => []AnswersAreStored
  <1>1. Inv => AnswersAreStored
    BY DEF Inv, Standing, Told, AnswersAreStored
  <1>. QED
    BY <1>1, BindingsStayConsistent, PTL

\* The advisory lock of bindRcv021SelectionToRcv020 keeps callers who name
\* one occurrence from failing on each other's keys.
THEOREM BindingsNeverCollideEver == Spec => []BindingsNeverCollide
  <1>1. Inv => BindingsNeverCollide
    BY DEF Inv, Standing, Told, BindingsNeverCollide
  <1>. QED
    BY <1>1, BindingsStayConsistent, PTL

\* Only a transaction that inserted rows before changes what is stored.
LEMMA OnlyCommitsStore ==
  ASSUME Inv, [Next]_vars, observed' # observed
  PROVE  \E p \in Procs :
           At(p, "store") /\ TriggersPass(Own(p).rows, Seen(p)) /\ observed' = Seen(p)
  <1>1. ASSUME NEW p \in Procs, Step(p), ~Store(p) PROVE observed' = observed
    BY <1>1 DEF Step, Lease, Done, ProbeIdle, ProbeSoiled, CommitOwned, RefuseOwned, Guard,
                GuardRefused, Leak, Check, Unlock, Insert, InsertFails, StoreFails, Read
  <1>2. ASSUME NEW p \in Procs,
               \/ Call(p) \/ CommitRolledBack(p) \/ CommitLost(p)
               \/ GuardFails(p) \/ UnlockFails(p) \/ StatementFails(p)
        PROVE  observed' = observed
    BY <1>2 DEF Call, CommitRolledBack, CommitLost, GuardFails, Leak, UnlockFails,
                StatementFails
  <1>3. PICK p \in Procs : Store(p) \/ ConnectionLost(p)
    BY <1>1, <1>2 DEF Next, Soil, Crash, vars
  <1>. QED
    BY <1>3 DEF Store, ConnectionLost

\* What persistRcv020Bundle accepts and the triggers let through,
\* readOccurrence can read, within the limits of Legible; and a later commit
\* takes it away only by a handoff or a retention event that disagrees.
THEOREM WrittenAlwaysReadable == Spec => WrittenIsReadable
  <1>1. Inv => \A o \in All(observed, "occurrence") :
                 Legible(observed, o) => Readable(observed, o)
    BY StoredReadsBack DEF Inv
  <1>2. Inv /\ [Next]_vars => [LostOnlyByAnnexes]_observed
    <2>. SUFFICES ASSUME Inv, [Next]_vars, observed' # observed PROVE LostOnlyByAnnexes
      OBVIOUS
    <2>1. PICK p \in Procs :
            At(p, "store") /\ TriggersPass(Own(p).rows, Seen(p)) /\ observed' = Seen(p)
      BY OnlyCommitsStore
    <2>. QED
      BY <2>1, StoreIsCommit, CommitKeeps, AnnexesMayDispute DEF Inv, LostOnlyByAnnexes
  <1>. QED
    BY <1>1, <1>2, BindingsStayConsistent, PTL DEF Spec, WrittenIsReadable

\* Only the commit of p answers for p, and p probed its connection before.
LEMMA ForeignStep ==
  ASSUME Inv, [Next]_vars, NEW p \in Procs, At(p, "commit"), proc'[p] # proc[p]
  PROVE  published' = published
  <1>1. proc[p].at = "commit" /\ proc \in [Procs -> Calling]
    BY Typed DEF At, Inv
  <1>2. ASSUME NEW q \in Procs, CommitOwned(q) PROVE published' = published
    <2>1. q = p
      BY <1>1, <1>2 DEF CommitOwned
    <2>2. ~Own(p).foreign
      BY DEF Inv, Standing
    <2>. QED
      BY <1>2, <2>1, <2>2 DEF CommitOwned, Publish
  <1>3. ASSUME NEW q \in Procs, Store(q) PROVE FALSE
    <2>1. q # p
      BY <1>1, <1>3 DEF Store, At
    <2>2. proc'[p] = proc[p]
      BY <1>1, <1>3, <2>1 DEF Store, Leave, Doing, Return
    <2>. QED
      BY <2>2
  <1>4. ASSUME NEW q \in Procs, Step(q), ~CommitOwned(q), ~Store(q) PROVE published' = published
    BY <1>4 DEF Step, Lease, Done, ProbeIdle, ProbeSoiled, RefuseOwned, Guard, GuardRefused,
                Leak, Check, Unlock, Insert, InsertFails, StoreFails, Read
  <1>5. ASSUME NEW q \in Procs,
               \/ Call(q) \/ CommitRolledBack(q) \/ CommitLost(q) \/ ConnectionLost(q)
               \/ GuardFails(q) \/ UnlockFails(q) \/ StatementFails(q)
        PROVE  published' = published
    BY <1>5 DEF Call, CommitRolledBack, CommitLost, ConnectionLost, GuardFails, Leak,
                UnlockFails, StatementFails
  <1>. QED
    BY <1>2, <1>3, <1>4, <1>5 DEF Next, Soil, Crash, vars

\* runRcv021OwnedTransaction commits nothing that another user of the pool
\* left behind on its connection.
THEOREM ForeignWorkNeverCommitted == Spec => ForeignWorkStaysForeign
  <1>1. Inv /\ [Next]_vars =>
          [\A p \in Procs : At(p, "commit") /\ proc'[p] # proc[p] => published' = published]_vars
    BY ForeignStep
  <1>. QED
    BY <1>1, BindingsStayConsistent, PTL DEF Spec, ForeignWorkStaysForeign

=============================================================================
