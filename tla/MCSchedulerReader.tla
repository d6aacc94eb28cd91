--------------------------- MODULE MCSchedulerReader ---------------------------
(* Small instances of SchedulerReader, with the rows of MCSchedulerLedger;   *)
(* each behaviour belongs to one of them.                                    *)
EXTENDS SchedulerReader, MCSchedulerLedger

CONSTANTS r1, r2

\* Two decisions and nothing else.
PlainBundles == {{Operation}, Ends("p-0", 1, "FAILED")}

\* Many rows, a few beside amendments of the policy, several readers.
Instances ==
  [many    |-> [readers |-> {r1}, bundles |-> LedgerBundles,
                requests |-> LedgerRequests, amendments |-> LedgerAmendments],
   amended |-> [readers |-> {r1}, bundles |-> ReaderBundles,
                requests |-> ReaderRequests, amendments |-> ReaderAmendments],
   pool    |-> [readers |-> {r1, r2}, bundles |-> PlainBundles,
                requests |-> ReaderRequests, amendments |-> {}]]

Every(part) == UNION {Instances[i][part] : i \in DOMAIN Instances}

AllBundles    == Every("bundles")
AllRequests   == Every("requests")
AllAmendments == Every("amendments")

VARIABLE instance

\* The rows of an instance, those of its scheduled runs included.
RowsOf(i) ==
  UNION i.bundles
  \cup {[kind |-> "run", id |-> RunIds[n], operation |-> 1, at |-> q.at,
         deadline |-> q.deadline, predecessor |-> None] :
          n \in DOMAIN RunIds, q \in i.requests}

Within(i) ==
  /\ db' \subseteq RowsOf(i)
  /\ \A v \in versions' : v.version = 1 \/ v \in i.amendments
  /\ \A r \in Readers \ i.readers : reading'[r] = "idle"

InstanceInit == ReaderInit /\ instance \in DOMAIN Instances

InstanceNext == ReaderNext /\ UNCHANGED instance /\ Within(Instances[instance])

InstanceSpec ==
  InstanceInit /\ [][InstanceNext]_<<rvars, instance>> /\ ReaderFairness

===============================================================================
