-------------------------- MODULE MCResearchScheduler --------------------------
(* Small instances of ResearchScheduler, with the rows of MCSchedulerLedger.  *)
EXTENDS ResearchScheduler, MCSchedulerLedger, TLC

SlotBundles ==
  {{Operation}, {Closed(3)}, {Manual("m", 1, 5)}, Ends("m", 2, "FAILED"),
   Ends("p-0", 1, "FAILED"), Ends("p-1", 3, "FAILED"), Ends("p-0", 3, "FAILED")}

SlotRequests == {Ask(0, 5), Ask(1, 5), Ask(2, 5), Ask(4, 6)}

SchedulersAlike == Permutations(Schedulers)

\* Two operations, two policies that compete for the first of them, and a
\* second version that switches the policy off from slot 1 on.
PolicyBundles == {{Operation}, {[Operation EXCEPT !.id = 2]}, Ends("p-0", 1, "FAILED")}

PolicyRequests == {Ask(0, 5), Ask(2, 5)}

CompetingPolicies ==
  {[policy |-> "p", operation |-> 1], [policy |-> "r", operation |-> 1],
   [policy |-> "p", operation |-> 2]}

SwitchedOff == {Second(FALSE, 1)}

=============================================================================
