------------------------------ MODULE MCResearch ------------------------------
(* The instances of MCResearchOrchestration, each behaviour with one of them. *)
EXTENDS MCResearchOrchestration

VARIABLE instance  \* The one this behaviour draws its bundles from.

Instances == [lifecycle |-> LifecycleBundles, attempts |-> AttemptBundles,
              crossing |-> CrossingBundles]

AllBundles == LifecycleBundles \cup AttemptBundles \cup CrossingBundles

(* What NoDeadEnds (ResearchOrchestrationProofs) asks of the bundles.      *)
ASSUME FailureAssumption == FailureIsFresh

InstanceInit == Init /\ instance \in DOMAIN Instances

InstanceNext ==
  /\ Next /\ UNCHANGED instance
  /\ \A w \in Writers : bundle'[w] \in Instances[instance] \cup {{}}

InstanceSpec == InstanceInit /\ [][InstanceNext]_<<vars, instance>>

===============================================================================
