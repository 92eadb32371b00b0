---------------------------- MODULE ParallelStep ----------------------------
(***************************************************************************)
(* The `parallel' action (engine/actions/flow.py) under the retries of its *)
(* runner: a gate over all sub-steps, then one task per sub-step that      *)
(* opens a tab (or an isolated browser), acts in it and releases it.       *)
(* asyncio.gather raises with the first task that raises and leaves the    *)
(* others running: a task belongs to the attempt that started it.          *)
(***************************************************************************)
EXTENDS ExecutionContext

CONSTANTS
  Batches,        \* sequences of sub-step kinds a parallel step may hold
  MaxAttempts     \* retry + 1

BatchKinds == {"extracts", "reads", "agnostic", "writes", "foreign", "unknown"}
Modes == {"tabs", "isolated_browser"}

ASSUME BatchAssumption == Batches \subseteq Seq(BatchKinds) /\ MaxAttempts \in Nat \ {0}

Width == CHOOSE n \in {Len(b) : b \in Batches} : \A b \in Batches : Len(b) <= n

ASSUME WidthAssumption == Width \in Nat /\ \A b \in Batches : Len(b) <= Width

VARIABLES
  batch,      \* [subs, mode, launcher]: the step, and whether a launcher is bound
  attempt,    \* attempt under way
  gather,     \* "gate", "running" or "settled"
  tasks,      \* by <<attempt, index>>: where that task is and how it ended
  answer      \* the result of the last attempt

parallelVars == <<batch, attempt, gather, tasks, answer>>

Ids == (1..MaxAttempts) \X (1..Width)

\* "closed" and "leaked" released or failed to release the tab; "raised" never
\* had one.  `result' is what the task will return, or returned.
Stages == {"none", "opening", "acting", "releasing", "closed", "leaked", "raised"}

TaskResults == {"none", "passed", "skipped", "failed"}

Idle == [stage |-> "none", result |-> "none"]

BatchTypeOK ==
  /\ batch \in [subs : Batches, mode : Modes, launcher : BOOLEAN]
  /\ attempt \in 1..MaxAttempts
  /\ gather \in {"gate", "running", "settled"}
  /\ tasks \in [Ids -> [stage : Stages, result : TaskResults]]
  /\ answer \in {"none", "passed", "failed"}

Current == {attempt} \X (1..Len(batch.subs))

Raised(id) == tasks[id].stage \in {"raised", "leaked"}

Ended(id) == tasks[id].stage \in {"closed", "leaked", "raised"}

\* The runner tries a failed attempt again while it has attempts left.
Conclude(result) ==
  /\ answer' = result
  /\ IF result = "failed" /\ attempt < MaxAttempts
     THEN gather' = "gate" /\ attempt' = attempt + 1
     ELSE gather' = "settled" /\ UNCHANGED attempt

Refused(subs) == \E i \in DOMAIN subs : subs[i] \in {"writes", "foreign", "unknown"}

GateRefuses ==
  /\ gather = "gate"
  /\ \/ batch.subs = << >>
     \/ Refused(batch.subs)
     \/ batch.mode = "isolated_browser" /\ ~batch.launcher
  /\ Conclude("failed")
  /\ UNCHANGED <<batch, tasks, ctx>>

\* gather() schedules every task before any of them runs.
StartAll ==
  /\ gather = "gate"
  /\ batch.subs # << >> /\ ~Refused(batch.subs)
  /\ batch.mode = "isolated_browser" => batch.launcher
  /\ gather' = "running"
  /\ tasks' = [id \in Ids |-> IF id \in Current THEN [Idle EXCEPT !.stage = "opening"] ELSE tasks[id]]
  /\ UNCHANGED <<batch, attempt, answer, ctx>>

TabOpens(id) ==
  /\ tasks[id].stage = "opening"
  /\ tasks' = [tasks EXCEPT ![id].stage = "acting"]
  /\ UNCHANGED <<batch, attempt, gather, answer, ctx>>

\* new_page and create_page are awaited before the try block.
TabFailsToOpen(id) ==
  /\ tasks[id].stage = "opening"
  /\ tasks' = [tasks EXCEPT ![id].stage = "raised"]
  /\ UNCHANGED <<batch, attempt, gather, answer, ctx>>

\* The rows a tab's extract_data stores replace those of every other tab.
Acts(id, status) ==
  /\ tasks[id].stage = "acting"
  /\ tasks' = [tasks EXCEPT ![id] = [stage |-> "releasing", result |-> status]]
  /\ IF batch.subs[id[2]] = "extracts"
     THEN \E out \in ExtractData(ctx, [selector |-> TRUE, key |-> "extracted_data", limit |-> MaxFound], "tab") :
            /\ status = out.status
            /\ ctx' = out.ctx
     ELSE UNCHANGED ctx
  /\ UNCHANGED <<batch, attempt, gather, answer>>

\* A release after the action and not in a finally.
ReleasesAfterSuccess(id, end) ==
  /\ tasks[id].stage = "releasing" /\ tasks[id].result # "failed"
  /\ tasks' = [tasks EXCEPT ![id].stage = end]
  /\ UNCHANGED <<batch, attempt, gather, answer, ctx>>

\* tab.close() in the finally, or the launcher's release().
Releases(id, end) ==
  /\ tasks[id].stage = "releasing"
  /\ tasks' = [tasks EXCEPT ![id].stage = end]
  /\ UNCHANGED <<batch, attempt, gather, answer, ctx>>

Task(id) ==
  \/ TabOpens(id) \/ TabFailsToOpen(id)
  \/ \E status \in TaskResults \ {"none"} : Acts(id, status)
  \/ \E end \in {"closed", "leaked"} : Releases(id, end)

\* The first exception reaches _execute, which reports it; the other tasks stay.
GatherRaises ==
  /\ gather = "running"
  /\ \E id \in Current : Raised(id)
  /\ Conclude("failed")
  /\ UNCHANGED <<batch, tasks, ctx>>

Verdict(results) == IF "failed" \in results THEN "failed" ELSE "passed"

\* gather() that waits for one task only, the defect GatherReturns excludes.
GatherReturnsEarly ==
  /\ gather = "running"
  /\ \E id \in Current : Ended(id) /\ ~Raised(id)
  /\ Conclude(Verdict({tasks[id].result : id \in Current}))
  /\ UNCHANGED <<batch, tasks, ctx>>

GatherReturns ==
  /\ gather = "running"
  /\ \A id \in Current : Ended(id) /\ ~Raised(id)
  /\ Conclude(Verdict({tasks[id].result : id \in Current}))
  /\ UNCHANGED <<batch, tasks, ctx>>

ParallelInit ==
  /\ batch \in [subs : Batches, mode : Modes, launcher : BOOLEAN]
  /\ batch.launcher => batch.mode = "isolated_browser"     \* only looked at there
  /\ attempt = 1
  /\ gather = "gate"
  /\ tasks = [id \in Ids |-> Idle]
  /\ answer = "none"

Runner == GateRefuses \/ StartAll \/ GatherRaises \/ GatherReturns

ParallelNext == Runner \/ \E id \in Ids : Task(id)

(***************************************************************************)
(* Properties.                                                             *)
(***************************************************************************)

\* A parallel step passes only if every task of that attempt returned a result
\* that is not a failure and gave its tab back (the Results clause of
\* ParallelAction, and the finally of run_one).
PassedMeansAllPassed ==
  answer = "passed" =>
    \A id \in Current : tasks[id].stage = "closed" /\ tasks[id].result \in {"passed", "skipped"}

\* A task still at work after its attempt was answered has a sibling that
\* failed to open or to release its tab: nothing else makes gather() let go.
StragglersHaveACause ==
  \A id \in Ids :
    (~Ended(id) /\ tasks[id].stage # "none" /\ (id[1] < attempt \/ gather = "settled"))
      => \E other \in Ids : other[1] = id[1] /\ Raised(other)

\* All sub-step results are collected (ParallelAction's docstring): when the
\* step is settled, no task is still at work.
AllResultsAreCollected ==
  gather = "settled" => \A id \in Ids : tasks[id].stage = "none" \/ Ended(id)

\* Every tab that was opened is released in the end, or its release failed,
\* whatever became of the step (the finally of run_one).
TabsAreReleased ==
  \A id \in Ids :
    tasks[id].stage = "acting" ~> tasks[id].stage \in {"closed", "leaked"}
=============================================================================
