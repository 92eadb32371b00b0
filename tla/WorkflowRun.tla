---------------------------- MODULE WorkflowRun ----------------------------
(***************************************************************************)
(* What StepRunner.run() promises its caller, whatever hooks, retries and  *)
(* healing do in between: it settles the steps of the plan one at a time   *)
(* and in order, never revises a result it has settled, and stops at the   *)
(* first failed step that does not set continue_on_failure.                *)
(***************************************************************************)
EXTENDS Integers, Sequences

CONSTANTS Plans      \* the workflows that may be run: sequences of steps

VARIABLES plan,      \* the workflow of this run
          statuses,  \* the statuses settled so far, one per step
          over       \* run() has returned

vars == <<plan, statuses, over>>

Statuses == {"passed", "skipped", "failed", "healed"}

\* A failure of the step about to be settled ends the run.
Stops(status) ==
  status = "failed" /\ ~plan[Len(statuses) + 1].continue_on_failure

Init ==
  /\ plan \in Plans
  /\ statuses = <<>>
  /\ over = (plan = <<>>)

Settle(status) ==
  /\ ~over
  /\ statuses' = Append(statuses, status)
  /\ over' = (Stops(status) \/ Len(statuses) + 1 = Len(plan))
  /\ UNCHANGED plan

Next == \E status \in Statuses : Settle(status)

Spec == Init /\ [][Next]_vars

=============================================================================
