---------------------------- MODULE MCStepRunner ----------------------------
(***************************************************************************)
(* Small workflows for StepRunner.  k1 and k2 are cache keys, n a name of  *)
(* the context.  Every plan is chosen for what it lets happen; the reasons *)
(* are beside them.                                                        *)
(***************************************************************************)
EXTENDS StepRunner

CONSTANTS k1, k2, n

MCKeys  == {k1, k2}
MCNames == {n}

\* A click with a target, no options set.
Click(k) ==
  [ key |-> k, element |-> TRUE, needs |-> {}, stores |-> {}, when |-> "none",
    retry |-> 0, continue_on_failure |-> FALSE, heal |-> TRUE,
    heal_assert |-> FALSE ]

\* Two steps with one cache key: what the first one's heal leaves behind is
\* there when the second one fails.
SameKeyPlan ==
  << [Click(k1) EXCEPT !.continue_on_failure = TRUE, !.heal_assert = TRUE,
                       !.stores = {n}],
     [Click(k1) EXCEPT !.needs = {n}, !.when = "known", !.retry = 1] >>

\* A step that opted out of healing, is retried, and stops the run if it fails;
\* then one without an element under a guard that raises.
OptOutPlan ==
  << [Click(k1) EXCEPT !.heal = FALSE, !.retry = 1],
     [Click(k2) EXCEPT !.element = FALSE, !.when = "unknown", !.retry = -1] >>

\* One step, for the depth of the heal loop alone.
AssertPlan == << [Click(k1) EXCEPT !.heal_assert = TRUE, !.when = "known"] >>

MCPlans       == {<<>>, SameKeyPlan, OptOutPlan}
MCStrictPlans == {AssertPlan, OptOutPlan}

\* What the healer answers: the step with another cfg, or two steps of which
\* the first stores a name and may fail without stopping the second.
MCReplacements ==
  { <<Click(k1)>>,
    << [Click(k2) EXCEPT !.element = FALSE, !.stores = {n},
                         !.continue_on_failure = TRUE], Click(k1) >> }

=============================================================================
