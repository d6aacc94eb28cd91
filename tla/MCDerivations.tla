----------------------------- MODULE MCDerivations -----------------------------
(* Small instances of Derivations: versions v1 and v2 of claim A, with two *)
(* relations and a legacy assessment in v1 and a relation in v2, a          *)
(* deterministic and a recorded rule, and four builds of the code.          *)
EXTENDS Derivations, TLC

Old     == [interpreter |-> 1, execution |-> 1, builder |-> 1]
Builder == [Old EXCEPT !.builder = 2]
Interp  == [Old EXCEPT !.interpreter = 2]
Runtime == [interpreter |-> 3, execution |-> 2, builder |-> 3]

MCBuilds == {Old, Builder, Interp, Runtime}

MCClaimOf == [v \in {"v1", "v2"} |-> "A"]

MakeRule(key, mode, definition, build) ==
  [call |-> "rule", key |-> key, mode |-> mode, definition |-> Identity(definition),
   build |-> build]

MCStored ==
  {[table |-> "relation", id |-> 1, version |-> "v1"],
   [table |-> "relation", id |-> 2, version |-> "v1"],
   [table |-> "relation", id |-> 3, version |-> "v2"],
   [table |-> "assessment", id |-> 4, relation |-> 1, parent |-> None,
    scored |-> TRUE, rubric |-> FALSE],
   Rule(5, MakeRule("k5", "deterministic", Old, Old)),
   Rule(6, MakeRule("k6", "recorded", Old, Old))}

AddEvidence(claim) == [call |-> "evidence", claim |-> claim, version |-> "v1"]

Assess(r, parent, compared) ==
  [call |-> "assessment", claim |-> "A", version |-> "v1", relation |-> r,
   parent |-> parent, upper |-> FALSE, comparisons |-> compared,
   scored |-> compared # << >>]

Derive(version, rule, process, build) ==
  [call |-> "derivation", version |-> version, rule |-> rule,
   process |-> process, build |-> build]

Details(claim) == [call |-> "details", claim |-> claim, version |-> "v1"]

\* Assessments that compare with each other's relation, or respond to each other.
Assessing ==
  (11 :> {AddEvidence("A"), AddEvidence("B"), Assess(1, None, <<2>>)} @@
   12 :> {Assess(2, None, <<1>>), Assess(2, None, <<1, 11>>), Assess(1, 11, << >>),
          Assess(2, 11, << >>)} @@
   13 :> {Details("A"), Details("B")})

\* What an assessment may get wrong.
Refusing ==
  (11 :> {Assess(1, None, <<1>>), Assess(1, None, <<2, 2>>), Assess(1, None, <<3>>),
          Assess(9, None, << >>), Assess(3, None, << >>), Assess(1, 2, << >>),
          [Assess(1, None, << >>) EXCEPT !.scored = TRUE],
          [Assess(1, None, <<2>>) EXCEPT !.scored = FALSE],
          [Assess(1, 4, << >>) EXCEPT !.upper = TRUE]} @@
   12 :> {Assess(2, None, << >>)} @@
   13 :> {})

\* Derivations by several builds beside an assessment.
Deriving ==
  (11 :> {AddEvidence("A"), Assess(2, None, <<1>>), Assess(1, 4, << >>)} @@
   12 :> {Derive("v1", 5, None, Old), Derive("v1", 6, {1, 2, 4}, Old),
          Derive("v1", 6, {1, 2, 4, 11}, Interp), Derive("v9", 5, None, Old)} @@
   13 :> {Derive("v1", 5, None, b) : b \in MCBuilds} \cup {Derive("v1", 6, None, Old)})

\* Two rules of one key, and derivations by them.
Ruling ==
  (11 :> {MakeRule("k", "deterministic", Old, Old),
          MakeRule("k", "deterministic", Old, Interp)} @@
   12 :> {MakeRule("k", "recorded", Old, Runtime)} @@
   13 :> {Derive("v1", 11, None, Old), Derive("v1", 12, {1, 2, 4}, Runtime)})

MCScripts == {Assessing, Refusing, Deriving, Ruling}

=============================================================================
