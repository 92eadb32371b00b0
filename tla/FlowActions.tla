----------------------------- MODULE FlowActions -----------------------------
(***************************************************************************)
(* Two steps of a run that share its context: a parallel step, and a flow  *)
(* step after it.  Tabs the parallel step let go of are still at work      *)
(* while the flow step runs.                                               *)
(***************************************************************************)
EXTENDS ParallelStep, SubSteps

CONSTANT Plans    \* the pairs of a batch and a flow step that runs may consist of

ASSUME PlanAssumption == Plans \subseteq Batches \X FlowSteps

vars == <<parallelVars, subVars, ctx>>

TypeOK == BatchTypeOK /\ FlowTypeOK /\ ctx \in Context

Init ==
  /\ ctx = EmptyContext
  /\ ParallelInit
  /\ SubInit
  /\ <<batch.subs, step>> \in Plans

\* The flow step is run when the parallel step has its result, if it passed or
\* has continue_on_failure.
FlowStepRuns ==
  /\ gather = "settled"
  /\ SubNext
  /\ UNCHANGED parallelVars

ParallelStepRuns == ParallelNext /\ UNCHANGED subVars

Over ==
  /\ place = "done"
  /\ \A id \in Ids : tasks[id].stage = "none" \/ Ended(id)
  /\ UNCHANGED vars

Next == ParallelStepRuns \/ FlowStepRuns \/ Over

TabWorks(id) == Task(id) /\ UNCHANGED subVars

\* Every await of the runner and of a task returns or raises.
Fairness ==
  /\ WF_vars(Runner /\ UNCHANGED subVars)
  /\ WF_vars(FlowStepRuns)
  /\ \A id \in Ids : WF_vars(TabWorks(id))

Spec == Init /\ [][Next]_vars /\ Fairness

\* Neither kind of step hides a failure: a parallel step that passed has only
\* tasks that did not fail, and a flow step that passed only such sub-steps.
PassedHidesNoFailure == PassedMeansAllPassed /\ FailuresSurface

\* The flow step gets its result, and every tab that was opened is released,
\* whatever becomes of its task and of the step that let go of it.
StepsEndAndRelease == FlowSettles /\ TabsAreReleased
=============================================================================
