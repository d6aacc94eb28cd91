----------------------- MODULE MCResearchOrchestration -----------------------
(* Small instances of ResearchOrchestration: the rows callers may submit.  *)
EXTENDS ResearchOrchestration

Operation(o, n)      == [kind |-> "operation", id |-> o, at |-> n]
Close(i, o, n)       == [kind |-> "close", id |-> i, operation |-> o, at |-> n]
Run(i, o, n, d, p)   == [kind |-> "run", id |-> i, operation |-> o, at |-> n,
                         deadline |-> d, predecessor |-> p]
Start(i, r, n)       == [kind |-> "start", id |-> i, run |-> r, at |-> n]
Attempt(i, r, k, p, n) == [kind |-> "attempt", id |-> i, run |-> r,
                           number |-> k, predecessor |-> p, at |-> n]
Resolution(i, a, o, n, c) == [kind |-> "resolution", id |-> i, attempt |-> a,
                              outcome |-> o, at |-> n, cause |-> c]
Result(i, r, n)      == [kind |-> "result", id |-> i, run |-> r, at |-> n]
Terminal(i, r, o, n, m) == [kind |-> "terminal", id |-> i, run |-> r,
                            outcome |-> o, at |-> n, manifest |-> m]
Selection(i, x, o, n) == [kind |-> "selection", id |-> i, result |-> x,
                          occurrence |-> o, at |-> n]

Singly(S) == {{r} : r \in S}

-----------------------------------------------------------------------------
\* One operation: two closes, one of them backdated, race run creations, a
\* rerun, a start, a late result and three terminal resolutions.
LifecycleBundles ==
  Singly({Operation(1, 0),
          Close("c2", 1, 2),
          Close("c1", 1, 1),
          Run("r1", 1, 1, 2, None),
          Run("r2", 1, 2, 3, "r1"),
          Start("s1", "r1", 1),
          Start("s2", "r1", 2),
          Result("x1", "r1", 1),
          Terminal("t1", "r1", "FAILED", 1, {}),
          Terminal("t1", "r1", "SUCCESS_NO_RESULTS", 1, {})})
  \cup {{Result("x1", "r1", 1),
         Terminal("t3", "r1", "SUCCESS_WITH_RESULTS", 1, {"x1"})}}

\* One started run with deadline 2: attempts that fail, succeed, run into the
\* deadline with and without the recorded cause, or start late; a retry, a
\* branch of the retry, and every kind of terminal resolution.
AttemptBundles ==
  {{Operation(1, 0), Run("r1", 1, 0, 2, None), Start("s1", "r1", 0)}}
  \cup Singly({Attempt("a1", "r1", 1, None, 0),
               Attempt("a2", "r1", 2, "a1", 2),
               Attempt("b2", "r1", 2, "a1", 1),
               Attempt("b1", "r1", 1, None, 3),
               Resolution("e2", "a2", "FAILED", 1, "text"),
               Resolution("f1", "a1", "FAILED", 0, "text"),
               Resolution("g1", "a1", "FAILED", 1, "none"),
               Resolution("h1", "a1", "SUCCEEDED", 1, "none"),
               Resolution("d1", "a1", "FAILED", 2, "deadline"),
               Resolution("f2", "a2", "FAILED", 3, "deadline"),
               Resolution("h2", "b2", "SUCCEEDED", 1, "none"),
               Terminal("t1", "r1", "FAILED", 1, {}),
               Terminal("t2", "r1", "TIMED_OUT", 3, {}),
               Terminal("t3", "r1", "SUCCESS_NO_RESULTS", 3, {})})

\* Two operations, each with a finished set of results, whose selections
\* compete for two observation occurrences, and bundles over both.
CrossingBundles ==
  LET Base(o, r, x, y) == {Operation(o, 0), Run(r, o, 0, 2, None),
                           Result(x, r, 0), Result(y, r, 1)}
      a1 == Selection("a1", "x1", "o1", 1)
      a2 == Selection("a2", "x2", "o2", 1)
      b1 == Selection("b1", "y1", "o1", 1)
      b2 == Selection("b2", "y2", "o2", 1)
  IN  {Base(1, "r1", "x1", "x2"), Base(2, "q1", "y1", "y2"),
       {a1, a2}, {b1, b2}, {b1}, {Close("k1", 1, 1), Close("k2", 2, 2)},
       {Operation(1, 0), Operation(2, 0)}, {Operation(1, 1)}}

-----------------------------------------------------------------------------
(* Orderings the design document states, on rows with times of any order.  *)

UnorderedBundles ==
  Singly({Operation(1, 1),
          Close("c1", 1, 2),
          Run("r0", 1, 0, 2, None),
          Run("r1", 1, 2, 3, None),
          Start("s1", "r1", 3),
          Terminal("t1", "r1", "FAILED", 1, {}),
          Result("x1", "r1", 3),
          Selection("y1", "x1", "o1", 1)})

\* "No Run may be created after closure": a close may be committed with a
\* time before the creation of a run that exists, since the close is
\* verified against the operation alone.
NoRunAfterClosure ==
  \A c \in Of(db, "close") : \A r \in RunsOf(db, c.operation) : r.at < c.at

=============================================================================
