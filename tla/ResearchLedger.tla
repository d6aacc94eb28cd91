----------------------------- MODULE ResearchLedger -----------------------------
(***************************************************************************)
(* RCV-021 as its callers may think of it: the stored history grows by one *)
(* whole bundle at a time, each of which passed every gate against the     *)
(* history as it was at that moment.  ResearchOrchestration implements it  *)
(* with row locks and unique indexes; ResearchScheduler builds on it.      *)
(***************************************************************************)
EXTENDS ResearchHistory

VARIABLE db  \* Committed rows.

\* One call that is accepted.
Persist(B) == Accepts(B, db) /\ db' = db \cup B

LedgerInit == db = {}

LedgerNext == \E B \in Bundles : Persist(B)

LedgerSpec == LedgerInit /\ [][LedgerNext]_db

=============================================================================
