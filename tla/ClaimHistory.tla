---------------------------- MODULE ClaimHistory -----------------------------
(***************************************************************************)
(* What the claim services promise their callers, whatever transactions,   *)
(* locks and connections do underneath: each claim has one linear history, *)
(* a creation starts it with its first version, a revision appends to it   *)
(* on condition that it was based on the latest version, and a certified   *)
(* version belongs to a claim that was certified when it was created.      *)
(* Every other call, and every failure, changes nothing.                   *)
(***************************************************************************)
EXTENDS Naturals, Sequences

CONSTANTS Claims, Versions

VARIABLES
  history,     \* The versions of each claim, oldest first.
  certified    \* The version ids that carry historical authority.

\* A version as its caller sees it: its id, and the number of the version it
\* was meant to follow.
Entry(v, base) == [id |-> v, base |-> base]

Init == /\ history = [c \in Claims |-> << >>]
        /\ certified = {}

\* The first version's id is the id of the request that creates the claim.
Create(c) ==
  /\ history[c] = << >>
  /\ history' = [history EXCEPT ![c] = <<Entry(c, 0)>>]
  /\ certified' \in {certified, certified \cup {c}}

Written == UNION {{history[c][n].id : n \in DOMAIN history[c]} : c \in Claims}

\* The conditional append: what the caller revised is still the latest version.
Revise(c, v) ==
  /\ history[c] # << >>
  /\ v \notin Written
  /\ history' = [history EXCEPT ![c] = Append(@, Entry(v, Len(@)))]
  /\ \/ certified' = certified
     \/ /\ history[c][1].id \in certified
        /\ certified' = certified \cup {v}

Next == \E c \in Claims :
          \/ Create(c)
          \/ \E v \in Versions : Revise(c, v)

Spec == Init /\ [][Next]_<<history, certified>>

=============================================================================
