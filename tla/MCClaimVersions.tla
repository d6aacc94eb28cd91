--------------------------- MODULE MCClaimVersions ---------------------------
(* Small instances of ClaimVersions, and its refinement of ClaimHistory.   *)
EXTENDS ClaimVersions

\* The n-th entry of the history of claim c, with the base its caller stated.
Entry(c, n) == LET v == CHOOSE w \in VersionsOf(db, c) : w.number = n
               IN  [id |-> v.id, base |-> req[v.id].base]

History == INSTANCE ClaimHistory WITH
  Claims    <- Creators,
  Versions  <- Revisers,
  history   <- [c \in Creators |->
                  [n \in 1..Cardinality(VersionsOf(db, c)) |-> Entry(c, n)]],
  certified <- {a.id : a \in db.authorities}

\* Every commit of the transactional code is one atomic step of ClaimHistory
\* and nothing else shows: a creation or a conditional append is all that
\* callers can tell, whatever interleaves, fails or disconnects.
ImplementsClaimHistory == History!Spec

=============================================================================
