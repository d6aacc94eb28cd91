-------------------------- MODULE MCObservationBinding --------------------------
(* Small instances of ObservationBinding: research slices, observation      *)
(* bundles, and which caller makes which call.                              *)
EXTENDS ObservationBinding

CONSTANTS p1, p2

Slice(o, r, x, y, t) ==
  LET creation == {[kind |-> "operation", id |-> o, at |-> 0],
                   [kind |-> "run", id |-> r, operation |-> o, at |-> 0,
                    deadline |-> 3, predecessor |-> None],
                   [kind |-> "start", id |-> r \o "s", run |-> r, at |-> 0]}
      result == [kind |-> "result", id |-> x, run |-> r, at |-> 1]
  IN  <<creation, {result},
        creation \cup {result,
          [kind |-> "attempt", id |-> r \o "a", run |-> r, number |-> 1,
           predecessor |-> None, at |-> 1],
          [kind |-> "resolution", id |-> r \o "e", attempt |-> r \o "a",
           outcome |-> "SUCCEEDED", at |-> 1, cause |-> "none"],
          [kind |-> "terminal", id |-> r \o "t", run |-> r,
           outcome |-> "SUCCESS_WITH_RESULTS", at |-> 2, manifest |-> {x}]},
        {[kind |-> "selection", id |-> y, result |-> x, occurrence |-> t,
          at |-> 2]}>>

One == Slice(1, "r1", "x1", "y1", "o1")
Two == Slice(2, "r2", "x2", "y2", "o1")

Source == [kind |-> "source", id |-> "s1"]
Monitor == [kind |-> "monitor", id |-> "m1", source |-> "s1"]
Configuration(i, n, k) == [kind |-> "configuration", id |-> i, monitor |-> "m1",
                           from |-> n, until |-> k]
Event(i, c, type, n, k) == [kind |-> "event", id |-> i, configuration |-> c,
                            type |-> type, at |-> n, sequence |-> k]
Occurrence(i, c, n) == [kind |-> "occurrence", id |-> i, source |-> "s1",
                        monitor |-> "m1", configuration |-> c, cutoff |-> n]
Try(i, o, p, k, n, d) == [kind |-> "attempt", id |-> i, occurrence |-> o,
                          previous |-> p, retry |-> k, start |-> n, deadline |-> d]
Outcome(i, a, what, n) == [kind |-> "resolution", id |-> i, attempt |-> a,
                           outcome |-> what, at |-> n]
Capture(i, o, a, n, k) ==
  [kind |-> "capture", id |-> i, occurrence |-> o, source |-> "s1",
   monitor |-> "m1", configuration |-> "c1", attempt |-> a, at |-> n,
   items |-> k, hashes |-> {i \o "-content", i \o "-envelope"}]
Comparison(i, c, p, what) == [kind |-> "comparison", id |-> i, current |-> c,
                              prior |-> p, result |-> what]
Verdict(i, o, what) == [kind |-> "verdict", id |-> i, occurrence |-> o,
                        outcome |-> what]
Retention(i, c, k) == [kind |-> "retention", id |-> i, capture |-> c, sequence |-> k]
Handoff(i, k) ==
  [kind |-> "handoff", id |-> i, capture |-> "k1", hash |-> "k1-content",
   occurrence |-> "o1", source |-> "s1", monitor |-> "m1",
   configuration |-> "c1", attempt |-> "a1", key |-> k, text |-> "t"]

Base == {Source, Monitor, Configuration("c1", 0, NoRow)}
On == Event("e1", "c1", "ACTIVATED", 0, 1)

First1 == {Try("a1", "o1", NoRow, 1, 1, 3), Outcome("b1", "a1", "CAPTURED_CHANGED", 2),
           Capture("k1", "o1", "a1", 1, 2), Comparison("d1", "k1", NoRow, "FIRST_OBSERVED")}

Observed == Base \cup {On, Occurrence("o1", "c1", 5), Verdict("v1", "o1", "SUCCEEDED")}
            \cup First1
Diverging == (Observed \ {Occurrence("o1", "c1", 5)}) \cup {Occurrence("o1", "c1", 6)}
\* One bundle may be bound by either of its occurrences, may name a monitor
\* that is not the occurrence's, may bring a verdict with another hash, or may
\* compare a capture twice.
Double == Observed \cup {Occurrence("o2", "c1", 5), Verdict("v2", "o2", "SKIPPED")}
Misplaced == {IF r.kind = "capture" THEN [r EXCEPT !.monitor = "m2", !.configuration = "c9"]
              ELSE r : r \in Observed}
             \cup {[Monitor EXCEPT !.id = "m2"],
                   [Configuration("c9", 0, NoRow) EXCEPT !.monitor = "m2"]}
Unsigned == (Observed \ {Verdict("v1", "o1", "SUCCEEDED")}) \cup {Verdict("v9", "o1", "SUCCEEDED")}
Repeating == Observed \cup {Comparison("d9", "k1", NoRow, "FIRST_OBSERVED")}
Elsewhere == Base \cup {On, Occurrence("o2", "c1", 5), Verdict("v2", "o2", "SKIPPED")}

Lifecycles ==
  {{}, {On}, {On, Event("e2", "c1", "PAUSED", 1, 2)},
   {On, Event("e2", "c1", "PAUSED", 1, 9), Event("e3", "c1", "RESUMED", 1, 10)},
   {On, Event("e2", "c1", "RETIRED", 4, 2), Configuration("c2", 4, NoRow),
    Event("f1", "c2", "ACTIVATED", 4, 1)},
   {On, Event("e2", "c1", "RESUMED", 1, 2)}}

Histories ==
  {{}, First1,
   {Try("a1", "o1", NoRow, 1, 1, 3)},
   {Try("a1", "o1", NoRow, 1, 1, 3), Outcome("b1", "a1", "FAILED", 4)},
   {Try("a1", "o1", NoRow, 1, 1, 2), Outcome("b1", "a1", "FAILED", 2),
    Try("a2", "o1", "a1", 2, 3, 5), Outcome("b2", "a2", "CAPTURED_EMPTY", 4),
    Capture("k2", "o1", "a2", 4, 0)},
   {Try("a1", "o1", NoRow, 1, 1, 2), Outcome("b1", "a1", "FAILED", 3),
    Try("a2", "o1", "a1", 2, 3, 5), Outcome("b2", "a2", "FAILED", 4)},
   First1 \cup {Occurrence("o2", "c1", 9), Verdict("v2", "o2", "SUCCEEDED"),
     Try("a2", "o2", NoRow, 1, 6, 8), Outcome("b2", "a2", "CAPTURED_UNCHANGED", 7),
     Capture("k2", "o2", "a2", 6, 2), Comparison("d2", "k2", "k1", "UNCHANGED")}}

Verdicts == {{}, {Verdict("v1", "o1", "SUCCEEDED")}, {Verdict("v1", "o1", "FAILED")},
             {Verdict("v1", "o1", "MISSED")}}

Drafts == {Base \cup {Occurrence("o1", "c1", 5)} \cup e \cup h \cup v :
             e \in Lifecycles, h \in Histories, v \in Verdicts}

Annexes == {{Verdict("v1", "o1", "SUCCEEDED")}, {Verdict("v1", "o1", "MISSED")},
            {Handoff("h1", "z"), Retention("t1", "k1", 1)},
            {Event("e9", "c1", "RETIRED", 6, 11)}}

\* Another hash, another occurrence, another text; and two rows whose text
\* has another hash.
Disputing == {{[Handoff("h2", "z") EXCEPT !.hash = "k2-content"]},
              {[Handoff("h3", "y") EXCEPT !.occurrence = "o2", !.attempt = "a2"]},
              {[Handoff("h4", "z") EXCEPT !.text = "u"]},
              {[Handoff("h9", "x") EXCEPT !.text = "v"]}, {Retention("t9", "k1", 2)}}

GarbledRows == {Verdict("v9", "o1", "SUCCEEDED"), Retention("t9", "k1", 2),
                [Handoff("h9", "x") EXCEPT !.text = "v"]}

\* An observation of another source that says a handoff again.
Handed == Observed \cup {Handoff("h1", "z")}
Again == {[Source EXCEPT !.id = "s3"], [Monitor EXCEPT !.id = "m3", !.source = "s3"],
          [Configuration("c3", 0, NoRow) EXCEPT !.monitor = "m3"],
          Event("e3", "c3", "ACTIVATED", 0, 1),
          [Occurrence("o3", "c3", 5) EXCEPT !.source = "s3", !.monitor = "m3"],
          Verdict("v3", "o3", "SKIPPED"), Handoff("h5", "z")}

AllObservations ==
  Drafts \cup Annexes \cup Disputing
  \cup {Observed, Diverging, Elsewhere, Double, Misplaced, Unsigned, Repeating,
        Handed, Again}

AllSteps == {One[i] : i \in 1..4} \cup {Two[i] : i \in 1..4}

Making(steps, how, o, B) ==
  [steps |-> steps, how |-> how, occurrence |-> o, observation |-> B]

Both(a, b) == [p \in {p1, p2} |-> IF p = p1 THEN a ELSE b]

Nothing == Making(<<>>, "none", "o1", {})

RaceTasks ==
  {Both(Making(One, "bind", "o1", Observed), Making(One, "bind", "o1", Observed)),
   Both(Making(One, "bind", "o1", Observed), Making(Two, "bind", "o1", Observed)),
   Both(Making(<<>>, "bind", "o1", Observed), Making(<<>>, "bind", "o1", Diverging)),
   Both(Making(<<>>, "bind", "o1", Observed), Making(<<>>, "observe", "o1", Observed)),
   Both(Making(<<>>, "bind", "o1", Observed), Making(<<>>, "bind", "o2", Elsewhere)),
   Both(Making(<<>>, "bind", "o1", Double), Making(<<>>, "bind", "o2", Double)),
   Both(Making(<<>>, "bind", "o1", Repeating), Making(<<>>, "bind", "o1", Repeating))}

ReadTasks ==
  {Both(Making(<<>>, "observe", "o1", B), Nothing) :
     B \in Drafts \cup {Misplaced, Unsigned}}
  \cup {Both(Making(<<>>, "persist", "o1", B), Making(<<>>, "persist", "o1", A)) :
          B \in {Observed} \cup {B \in Drafts : First1 \subseteq B}, A \in Annexes}
  \cup {Both(Making(<<>>, "persist", "o1", B), Making(<<>>, "persist", "o1", A)) :
          B \in {Handed} \cup {B \in Drafts : Observed \subseteq B}, A \in Disputing}
  \cup {Both(Making(<<>>, "persist", "o1", Handed), Making(<<>>, "bind", "o3", Again))}

AllTasks == RaceTasks \cup ReadTasks

\* Nothing goes wrong where the question is what can be read.
MCNext == Next /\ (task \in ReadTasks => UNCHANGED troubles)

MCSpec == Init /\ [][MCNext]_vars /\ Fairness

=============================================================================
