--------------------------- MODULE MCSchedulerLedger ---------------------------
(* Rows and requests for small instances of the scheduler: one operation     *)
(* created at time 0, an interval of 2, requests in the slots 0 to 3.        *)
EXTENDS SchedulerLedger

RunIds == <<"p-0", "p-1", "p-2", "p-3">>
DerivedIds == [x \in {1} \X {"p"} \X Slots |-> RunIds[x[3] + 1]]

Operation == [kind |-> "operation", id |-> 1, at |-> 0]
Closed(n) == [kind |-> "close", id |-> "c", operation |-> 1, at |-> n]
Manual(i, n, d) ==
  [kind |-> "run", id |-> i, operation |-> 1, at |-> n, deadline |-> d,
   predecessor |-> None]
Ends(i, n, outcome) ==
  {[kind |-> "start", id |-> i, run |-> i, at |-> n],
   [kind |-> "terminal", id |-> i, run |-> i, outcome |-> outcome, at |-> n,
    manifest |-> {}]}
Attempt(i, n) ==
  [kind |-> "attempt", id |-> i, run |-> i, number |-> 1, predecessor |-> None, at |-> n]
Resolved(i, n) ==
  [kind |-> "resolution", id |-> i, attempt |-> i, outcome |-> "FAILED", at |-> n,
   cause |-> "text"]

Ask(n, d) == [operation |-> 1, policy |-> "p", at |-> n, deadline |-> d]

OnePolicy == {[policy |-> "p", operation |-> 1]}

Second(enabled, n) ==
  [policy |-> "p", version |-> 2, enabled |-> enabled, effective |-> n, first |-> 0]

\* A manual run between the slots, scheduled runs that end in time or late, a
\* run with an attempt, a closure.
LedgerBundles ==
  {{Operation}, {Closed(7)}, {Manual("m", 1, 5)}, Ends("m", 2, "FAILED"),
   Ends("p-0", 1, "FAILED"), Ends("p-0", 3, "FAILED"),
   Ends("p-1", 3, "SUCCESS_NO_RESULTS"),
   {Attempt("p-2", 4), Resolved("p-2", 5)} \cup Ends("p-2", 5, "FAILED")}

LedgerRequests ==
  {Ask(0, 5), Ask(1, 5), Ask(3, 4), Ask(4, 6), Ask(6, 8)}

LedgerAmendments == {Second(FALSE, 3), Second(TRUE, 3)}

\* Few rows, among them one into the past of a decision, and a manual run
\* with no time at all that ends late, or before it starts.
ReaderBundles ==
  {{Operation}, {Closed(0)}, {Manual("m", 0, 0)}, Ends("m", 1, "TIMED_OUT"),
   {x \in Ends("m", 0, "FAILED") \cup Ends("m", 1, "FAILED") :
      x.at = IF x.kind = "start" THEN 1 ELSE 0},
   Ends("p-0", 1, "FAILED")}

ReaderRequests == {Ask(0, 5), Ask(2, 5)}

\* The last of them takes effect before the second version does.
ReaderAmendments ==
  {Second(FALSE, 1), Second(TRUE, 2), [Second(TRUE, 1) EXCEPT !.version = 3]}

===============================================================================
