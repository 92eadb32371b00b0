----------------------------- MODULE StepRunner -----------------------------
(***************************************************************************)
(* StepRunner (engine/runner/step_runner.py): runs the steps of a workflow *)
(* in order, each through its guard, its hooks, its retry loop and, when   *)
(* it is still not done, the heal loop.                                    *)
(*                                                                         *)
(* A heal runs replacement steps in a nested StepRunner that has no healer *)
(* of its own, so there are two runners at most: "outer" and "inner".      *)
(* They run the same code, and the actions of run() take the level as a    *)
(* parameter.  The heal loop belongs to the outer one and waits while the  *)
(* inner one is running (await replacement_runner.run(...)).               *)
(*                                                                         *)
(* The page, the action behind a step, the healer's model and the hooks'   *)
(* checks are the environment: their answers are chosen nondeterministi-   *)
(* cally.  An exception inside an attempt is a failed attempt, as in       *)
(* _run_retry_loop.  Selectors are abstracted to the key under which       *)
(* HealCache files a step.                                                 *)
(***************************************************************************)
EXTENDS Integers, Sequences

CONSTANTS
  Keys,             \* what HealCache.make_key tells apart
  Names,            \* names of the ExecutionContext a step may refer to
  Plans,            \* workflows: sequences of StepConfig
  Replacements,     \* what the healer may answer: sequences of StepConfig
  Healer,           \* a healer was injected
  MaxHealAttempts,  \* max_heal_attempts, as passed to __init__
  CacheEnabled,     \* a HealCache was injected
  Strict,           \* strict_heal_order
  Hooks             \* the steps' domain has hooks that may fail a step

(***************************************************************************)
(* The fields of a StepConfig that steer the runner.  `needs' are the      *)
(* {{name}} references in it, `stores' the names its action puts into the  *)
(* context; `when' tells an absent guard from one the ConditionRegistry    *)
(* knows and from one it does not.                                         *)
(***************************************************************************)
StepConfig ==
  [ key                 : Keys,
    element             : BOOLEAN,
    needs               : SUBSET Names,
    stores              : SUBSET Names,
    when                : {"none", "known", "unknown"},
    retry               : Int,
    continue_on_failure : BOOLEAN,
    heal                : BOOLEAN,
    heal_assert         : BOOLEAN ]

ASSUME PlansAssumption == Plans \subseteq Seq(StepConfig)
ASSUME ReplacementsAssumption ==
  Replacements \subseteq Seq(StepConfig) \ {<<>>}
ASSUME SwitchesAssumption ==
  /\ Healer \in BOOLEAN /\ CacheEnabled \in BOOLEAN
  /\ Strict \in BOOLEAN /\ Hooks \in BOOLEAN
ASSUME MaxHealAttemptsAssumption == MaxHealAttempts \in Int

Level  == {"outer", "inner"}
Status == {"passed", "skipped", "failed", "healed"}
Tier   == {"embed_direct", "cheap", "big"}

\* What settled a step: the code tells these apart by error, skip_reason and
\* healed_element (which only "cache" and "cascade" fill in).
Cause == {"action", "refs", "when", "hook", "outcome",
          "cache", "cascade", "injection", "disabled"}

Result == [status : Status, cause : Cause, heal_attempts : Nat]

Outcome(status, cause) ==
  [status |-> status, cause |-> cause, heal_attempts |-> 0]

\* The locals of _run_heal_loop; `held' is the last answer of heal_assert.
HealState ==
  [ heal_attempt : Nat, counted : Int, free_used : BOOLEAN,
    tried : Seq(Tier), tier : Tier \cup {"none"}, held : BOOLEAN ]

HealStart ==
  [ heal_attempt |-> 0, counted |-> 0, free_used |-> FALSE,
    tried |-> <<>>, tier |-> "none", held |-> FALSE ]

\* The hard cap of __init__.
HealCapUncapped == MaxHealAttempts
HealCap == IF MaxHealAttempts < 3 THEN MaxHealAttempts ELSE 3

VARIABLES
  plan,         \* [Level -> Seq(StepConfig)]: the steps each runner was given
  pc,           \* [Level -> Place]: where each runner is
  attempt,      \* [Level -> Nat]: the attempt of _run_retry_loop
  cur,          \* [Level -> Result]: the result the current step has so far
  results,      \* [Level -> Seq(Result)]: the results list of each run()
  ctx,          \* the names the shared ExecutionContext holds
  heal,         \* the locals of _run_heal_loop for the current outer step
  cache,        \* the keys HealCache has an entry for
  suggested,    \* outer steps with an entry in heal_suggestions
  report,       \* the <<level, status>> pairs the reporter has recorded
  acted         \* history: outer steps for which an action was dispatched

runVars  == <<plan, pc, attempt, cur, results, report>>
healVars == <<heal, cache, suggested>>
vars == <<plan, pc, attempt, cur, results, ctx, heal, cache, suggested,
          report, acted>>

Place == {"idle", "next", "before", "attempt", "after", "done",
          "heal", "replay", "bridge", "scroll_to", "wait", "capture",
          "cascade"}

-----------------------------------------------------------------------------
(* Helpers *)

\* The step a runner is at, and that step's position.
Pos(l)  == Len(results[l]) + 1
Step(l) == plan[l][Pos(l)]

\* Only one runner is running: the outer one awaits the inner one.
Active(l) == l = IF pc["inner"] \in {"idle", "done"} THEN "outer" ELSE "inner"

At(l, place) == Active(l) /\ pc[l] = place

Goto(l, place) == pc' = [pc EXCEPT ![l] = place]

\* Mutant: continue_on_failure is looked up on no step at all.
IgnoreFailures(l, status) == FALSE

\* A failed step ends the run unless it opted out.
HardStop(l, status) == status = "failed" /\ ~Step(l).continue_on_failure

\* record_step, notify, results.append, and the hard stop or the next step.
Settle(l, r) ==
  /\ results' = [results EXCEPT ![l] = Append(@, r)]
  /\ report'  = report \cup {<<l, r.status>>}
  /\ Goto(l, IF HardStop(l, r.status) \/ Pos(l) = Len(plan[l])
             THEN "done" ELSE "next")

\* 1 + max(0, step.retry)
MaxAttempts(step) == 1 + IF step.retry > 0 THEN step.retry ELSE 0

-----------------------------------------------------------------------------
(* run(), up to _run_step: resolving references and the guard *)

\* A reference the context cannot answer fails the step before anything runs.
MissingRefs(l) ==
  /\ At(l, "next")
  /\ ~(Step(l).needs \subseteq ctx)
  /\ Settle(l, Outcome("failed", "refs"))
  /\ UNCHANGED <<plan, attempt, cur, ctx, heal, cache, suggested, acted>>

\* The guard is evaluated once, on the resolved step.  An evaluation that
\* raises, as it does for a condition nobody registered, runs the step.
GuardFalse(l) ==
  /\ At(l, "next")
  /\ Step(l).needs \subseteq ctx
  /\ Step(l).when = "known"
  /\ Settle(l, Outcome("skipped", "when"))
  /\ UNCHANGED <<plan, attempt, cur, ctx, heal, cache, suggested, acted>>

GuardPassed(l) ==
  /\ At(l, "next")
  /\ Step(l).needs \subseteq ctx
  /\ Goto(l, "before")
  /\ UNCHANGED <<plan, attempt, cur, results, ctx, heal, cache, suggested,
                 report, acted>>

-----------------------------------------------------------------------------
(* _run_step: hooks and the retry loop *)

\* Mutant: a before-hook's result is not returned but handed on to the heal
\* loop, like a failed attempt.
HealAborted(l) ==
  /\ At(l, "before")
  /\ Hooks
  /\ cur' = [cur EXCEPT ![l] = Outcome("failed", "hook")]
  /\ heal' = HealStart
  /\ Goto(l, IF l = "outer" THEN "heal" ELSE "after")
  /\ UNCHANGED <<plan, attempt, results, ctx, cache, suggested, report, acted>>

\* A before-hook returned a result (CaptchaHook, ExpectationHook): the step is
\* settled with it, without attempt, heal or after-hooks.
BeforeHookAborts(l) ==
  /\ At(l, "before")
  /\ Hooks
  /\ Settle(l, Outcome("failed", "hook"))
  /\ UNCHANGED <<plan, attempt, cur, ctx, heal, cache, suggested, acted>>

\* No hook objected; one that raised is logged and ignored.
BeforeHooksPass(l) ==
  /\ At(l, "before")
  /\ attempt' = [attempt EXCEPT ![l] = 0]
  /\ Goto(l, "attempt")
  /\ UNCHANGED <<plan, cur, results, ctx, heal, cache, suggested, report, acted>>

\* A failed or skipped attempt goes to the heal loop, which only the outer
\* runner has, unless the step opted out.
MayHeal(l, status) ==
  /\ l = "outer"
  /\ status \in {"failed", "skipped"}
  /\ Healer
  /\ Step(l).heal
  /\ HealCap > 0

NextAttempt(l) == attempt' = [attempt EXCEPT ![l] = @ + 1]

\* One pass of the retry loop: create the action, get its session, execute.
\* Only "failed" is retried.
Dispatch(l, status) ==
  /\ At(l, "attempt")
  /\ acted' = acted \cup {Pos("outer")}
  /\ ctx' = IF status = "passed" THEN ctx \cup Step(l).stores ELSE ctx
  /\ cur' = [cur EXCEPT ![l] = Outcome(status, "action")]
  /\ IF status = "failed" /\ attempt[l] + 1 < MaxAttempts(Step(l))
     THEN NextAttempt(l) /\ UNCHANGED <<pc, heal>>
     ELSE /\ IF MayHeal(l, status)
             THEN Goto(l, "heal") /\ heal' = HealStart
             ELSE Goto(l, "after") /\ UNCHANGED heal
          /\ UNCHANGED attempt
  /\ UNCHANGED <<plan, results, cache, suggested, report>>

\* The after-hooks leave the final result as it is ...
AfterHooksKeep(l) ==
  /\ At(l, "after")
  /\ Settle(l, cur[l])
  /\ UNCHANGED <<plan, attempt, cur, ctx, heal, cache, suggested, acted>>

\* ... or fail a step that passed or was healed (ExpectationHook.after).
AfterHooksOverrule(l) ==
  /\ At(l, "after")
  /\ Hooks
  /\ cur[l].status \in {"passed", "healed"}
  /\ Settle(l, [cur[l] EXCEPT !.status = "failed", !.cause = "outcome"])
  /\ UNCHANGED <<plan, attempt, cur, ctx, heal, cache, suggested, acted>>

-----------------------------------------------------------------------------
(* _run_heal_loop *)

\* The step as _resolve_context_vars left it: nothing in it is looked up again.
ResolvedStep == [Step("outer") EXCEPT !.needs = {}]

\* What _try_inject_pre_step runs before the step: it cannot stop the run.
PreStep ==
  [ key |-> Step("outer").key, element |-> TRUE, needs |-> {}, stores |-> {},
    when |-> "none", retry |-> 0, continue_on_failure |-> TRUE,
    heal |-> TRUE, heal_assert |-> FALSE ]

\* AiHealer._apply_healed_cfg: the step with the cfg embed_direct found.
DirectStep == [ResolvedStep EXCEPT !.element = TRUE, !.heal = TRUE,
                                   !.heal_assert = FALSE]

\* A nested runner starts on `steps', and the heal loop waits at `place'.
RunNested(steps, place) ==
  /\ plan'    = [plan EXCEPT !["inner"] = steps]
  /\ results' = [results EXCEPT !["inner"] = <<>>]
  /\ pc'      = [pc EXCEPT !["inner"] = "next", !["outer"] = place]

\* Mutant: the test `all(r.status != "failed")' that the docstring of
\* _heal_succeeded reports as a former bug.
NothingFailed(rs) == \A i \in 1..Len(rs) : rs[i].status # "failed"

HealSucceeded(rs) ==
  /\ Len(rs) > 0
  /\ \A i \in 1..Len(rs) : rs[i].status \in {"passed", "healed"}

\* The answers heal_assert may give on the page as it now is.
AssertAnswers == IF Step("outer").heal_assert THEN BOOLEAN ELSE {FALSE}

HealAssertPassed(held) == Step("outer").heal_assert => held

\* Mutant: two cheap misses are not needed before the big model.
EagerTierFor(direct, tried) ==
  IF direct /\ ~(\E i \in 1..Len(tried) : tried[i] = "embed_direct")
  THEN "embed_direct"
  ELSE IF \E i \in 1..Len(tried) : tried[i] = "cheap" THEN "big" ELSE "cheap"

\* AiHealer.tier_for: embed_direct while it has not failed, the big model
\* after two misses of the cheap tier, else the cheap tier.
TierFor(direct, tried) ==
  IF direct /\ ~(\E i \in 1..Len(tried) : tried[i] = "embed_direct")
  THEN "embed_direct"
  ELSE IF \E i, j \in 1..Len(tried) :
            i # j /\ tried[i] = "cheap" /\ tried[j] = "cheap"
       THEN "big" ELSE "cheap"

\* Mutant: a lost iteration is filed under "none" where no rung was reached.
TriedAlways(h) == Append(h.tried, h.tier)

\* tried once the iteration `h' is lost; an iteration that reached no rung
\* (tier is None) leaves no trace there.
TriedAfter(h) == IF h.tier = "none" THEN h.tried ELSE Append(h.tried, h.tier)

\* Mutant: the free try is charged like any other.
ChargeFully(h, tier) == [h EXCEPT !.tier = tier]

\* The rung of this iteration is known; the first free try is not counted.
Charge(h, tier) ==
  IF tier = "embed_direct" /\ ~h.free_used
  THEN [h EXCEPT !.tier = tier, !.free_used = TRUE, !.counted = @ - 1]
  ELSE [h EXCEPT !.tier = tier]

\* Mutant: the cache path and the cascade forget the suggestion.
NoSuggestion == UNCHANGED suggested

Suggest == suggested' = suggested \cup {Pos("outer")}

\* The step is healed with new selectors, and a suggestion is made.
Healed(cause) ==
  /\ cur' = [cur EXCEPT !["outer"] =
               [status |-> "healed", cause |-> cause,
                heal_attempts |-> heal.heal_attempt]]
  /\ Suggest
  /\ Goto("outer", "after")

\* Mutant: an iteration that begins with a replay from the cache is not counted.
FreeReplay ==
  /\ At("outer", "heal")
  /\ heal.counted < HealCap
  /\ IF CacheEnabled /\ Step("outer").key \in cache
     THEN RunNested(<<ResolvedStep>>, "replay") /\ heal' = [heal EXCEPT !.tier = "none"]
     ELSE /\ heal' = [heal EXCEPT !.heal_attempt = @ + 1, !.counted = @ + 1,
                                  !.tier = "none"]
          /\ Goto("outer", "bridge") /\ UNCHANGED <<plan, results>>
  /\ UNCHANGED <<attempt, cur, ctx, cache, suggested, report, acted>>

\* while counted < max_heal_attempts: a cached cfg is tried before anything.
HealIteration ==
  /\ At("outer", "heal")
  /\ heal.counted < HealCap
  /\ heal' = [heal EXCEPT !.heal_attempt = @ + 1, !.counted = @ + 1,
                          !.tier = "none"]
  /\ IF CacheEnabled /\ Step("outer").key \in cache
     THEN RunNested(<<ResolvedStep>>, "replay")
     ELSE Goto("outer", "bridge") /\ UNCHANGED <<plan, results>>
  /\ UNCHANGED <<attempt, cur, ctx, cache, suggested, report, acted>>

GiveUp ==
  /\ At("outer", "heal")
  /\ heal.counted >= HealCap
  /\ Goto("outer", "after")
  /\ UNCHANGED <<plan, attempt, cur, results, ctx, heal, cache, suggested,
                 report, acted>>

\* The replay of the cached cfg came back: healed, or stale and the iteration
\* goes on as if there had been no entry.  The entry stays.
ReplayReturns(held) ==
  /\ At("outer", "replay")
  /\ held \in AssertAnswers
  /\ heal' = [heal EXCEPT !.held = held]
  /\ IF HealSucceeded(results["inner"]) /\ HealAssertPassed(held)
     THEN Healed("cache")
     ELSE Goto("outer", "bridge") /\ UNCHANGED <<cur, suggested>>
  /\ UNCHANGED <<plan, attempt, results, ctx, cache, report, acted>>

\* VisualBridge.check: an element that is there but hidden or disabled is
\* scrolled to or waited for, and the step is run again.
Bridge(answer) ==
  /\ At("outer", "bridge")
  /\ answer \in {"hidden", "disabled"} => Step("outer").element
  /\ CASE answer = "hidden"   -> RunNested(<<PreStep, ResolvedStep>>, "scroll_to")
       [] answer = "disabled" -> RunNested(<<PreStep, ResolvedStep>>, "wait")
       [] OTHER               -> Goto("outer", "capture") /\ UNCHANGED <<plan, results>>
  /\ UNCHANGED <<attempt, cur, ctx, heal, cache, suggested, report, acted>>

\* The injected pre-step and the step came back.  Only the step's own status
\* is looked at, and "skipped" passes for healed.  If it failed, a hidden
\* element goes on to the cascade and a disabled one fails the step.
InjectionReturns(place) ==
  /\ At("outer", place)
  /\ LET last == results["inner"][Len(results["inner"])] IN
     \/ /\ last.status # "failed"
        /\ cur' = [cur EXCEPT !["outer"].status = "healed",
                              !["outer"].cause = "injection"]
        /\ Goto("outer", "after")
     \/ /\ last.status = "failed"
        /\ place = "scroll_to"
        /\ Goto("outer", "capture")
        /\ UNCHANGED cur
     \/ /\ last.status = "failed"
        /\ place = "wait"
        /\ cur' = [cur EXCEPT !["outer"].status = "failed",
                              !["outer"].cause = "disabled"]
        /\ Goto("outer", "after")
  /\ UNCHANGED <<plan, attempt, results, ctx, heal, cache, suggested, report,
                 acted>>

\* DOMSnapshotCascade.capture raised: the iteration is lost on no rung.
CaptureFails ==
  /\ At("outer", "capture")
  /\ heal' = [heal EXCEPT !.tried = TriedAfter(heal)]
  /\ Goto("outer", "heal")
  /\ UNCHANGED <<plan, attempt, cur, results, ctx, cache, suggested, report, acted>>

\* The page was captured, and `direct' says whether it holds one sure match
\* (never one that strict order asked capture to skip).  The healer raises
\* HealingError (not on its free path), or it answers with replacement steps.
AskHealer(direct) ==
  /\ At("outer", "capture")
  /\ direct /\ Strict => ~(\E i \in 1..Len(heal.tried) :
                              heal.tried[i] = "embed_direct")
  /\ LET rung == TierFor(direct, IF Strict THEN heal.tried ELSE <<>>)
         h    == IF Strict THEN Charge(heal, rung) ELSE heal
     IN \/ /\ rung # "embed_direct"
           /\ heal' = [h EXCEPT !.tried = TriedAfter(h)]
           /\ Goto("outer", "heal")
           /\ UNCHANGED <<plan, results>>
        \/ \E steps \in IF rung = "embed_direct" THEN {<<DirectStep>>}
                                                 ELSE Replacements :
             /\ heal' = h
             /\ RunNested(steps, "cascade")
  /\ UNCHANGED <<attempt, cur, ctx, cache, suggested, report, acted>>

\* Mutant: the cfg is cached as soon as the replacement has passed.
LearnEarly(held) ==
  IF CacheEnabled /\ plan["inner"][1].element /\ HealSucceeded(results["inner"])
  THEN cache' = cache \cup {Step("outer").key} ELSE UNCHANGED cache

\* A proven cfg goes into the cache, if the first replacement step has one.
Learn(held) ==
  IF /\ CacheEnabled /\ plan["inner"][1].element
     /\ HealSucceeded(results["inner"]) /\ HealAssertPassed(held)
  THEN cache' = cache \cup {Step("outer").key} ELSE UNCHANGED cache

\* The replacement steps came back: healed, or the iteration is lost.
CascadeReturns(held) ==
  /\ At("outer", "cascade")
  /\ held \in AssertAnswers
  /\ Learn(held)
  /\ IF HealSucceeded(results["inner"]) /\ HealAssertPassed(held)
     THEN /\ Healed("cascade")
          /\ heal' = [heal EXCEPT !.held = held]
     ELSE /\ Goto("outer", "heal")
          /\ heal' = [heal EXCEPT !.held = held, !.tried = TriedAfter(heal)]
          /\ UNCHANGED <<cur, suggested>>
  /\ UNCHANGED <<plan, attempt, results, ctx, report, acted>>

-----------------------------------------------------------------------------
Init ==
  /\ \E p \in Plans :
       /\ plan = [l \in Level |-> IF l = "outer" THEN p ELSE <<>>]
       /\ pc = [l \in Level |-> IF l = "inner" THEN "idle"
                                ELSE IF p = <<>> THEN "done" ELSE "next"]
  /\ attempt = [l \in Level |-> 0]
  /\ cur = [l \in Level |-> Outcome("failed", "action")]
  /\ results = [l \in Level |-> <<>>]
  /\ ctx \in SUBSET Names
  /\ heal = HealStart
  /\ cache \in IF CacheEnabled THEN SUBSET Keys ELSE {{}}
  /\ suggested = {}
  /\ report = {}
  /\ acted = {}

RunStep(l) ==
  \/ MissingRefs(l)
  \/ GuardFalse(l)
  \/ GuardPassed(l)
  \/ BeforeHookAborts(l)
  \/ BeforeHooksPass(l)
  \/ \E status \in {"passed", "skipped", "failed"} : Dispatch(l, status)
  \/ AfterHooksKeep(l)
  \/ AfterHooksOverrule(l)

HealStep ==
  \/ HealIteration
  \/ GiveUp
  \/ \E held \in BOOLEAN : ReplayReturns(held)
  \/ \E answer \in {"none", "hidden", "disabled", "ok"} : Bridge(answer)
  \/ \E place \in {"scroll_to", "wait"} : InjectionReturns(place)
  \/ CaptureFails
  \/ \E direct \in BOOLEAN : AskHealer(direct)
  \/ \E held \in BOOLEAN : CascadeReturns(held)

\* run() has returned; nothing happens any more.
Terminated == pc["outer"] = "done" /\ UNCHANGED vars

Next == (\E l \in Level : RunStep(l)) \/ HealStep \/ Terminated

Spec == Init /\ [][Next]_vars

\* A run is one coroutine, and every await in it returns: actions, captures
\* and healer calls carry timeouts, and what they raise is caught.
FairSpec == Spec /\ WF_vars(Next)

-----------------------------------------------------------------------------
(* Properties *)

\* Every variable has its type; in particular only the tiers of the cascade are
\* ever filed in `tried', whatever way an iteration of the heal loop is lost.
TypeOK ==
  /\ plan \in [Level -> Seq(StepConfig)]
  /\ pc \in [Level -> Place]
  /\ attempt \in [Level -> Nat]
  /\ cur \in [Level -> Result]
  /\ results \in [Level -> Seq(Result)]
  /\ ctx \subseteq Names
  /\ heal \in HealState
  /\ cache \subseteq Keys
  /\ suggested \subseteq Nat
  /\ report \subseteq Level \X Status
  /\ acted \subseteq Nat

\* A step healed with new selectors was healed on evidence: every step of the
\* last nested run was reached and passed, and heal_assert, where the step
\* has one, was asked on the page as it then was and held.  Both halves were
\* once wrong in the code (a skipped replacement counted as a heal; the cache
\* path did not ask heal_assert).
HealedOnEvidence ==
  ( /\ pc["outer"] = "after"
    /\ cur["outer"].status = "healed"
    /\ cur["outer"].cause \in {"cache", "cascade"} ) =>
  /\ Len(results["inner"]) = Len(plan["inner"])
  /\ \A i \in 1..Len(plan["inner"]) : results["inner"][i].status = "passed"
  /\ plan["inner"] # <<>>
  /\ Step("outer").heal_assert => heal.held

\* Whatever route a heal took, the step itself was run again and passed.  The
\* scroll_to and wait injections break this: a step that is skipped the second
\* time (its guard no longer holds) is reported as healed.
HealMeansPassed ==
  pc["outer"] = "after" /\ cur["outer"].status = "healed" =>
    /\ results["inner"] # <<>>
    /\ results["inner"][Len(results["inner"])].status = "passed"

\* A cfg enters HealCache only in the step that heals its outer step: a
\* replacement that failed its heal_assert is not remembered for other runs.
CacheLearnsFromHealsOnly ==
  [][cache' # cache =>
       /\ cur'["outer"].status = "healed"
       /\ cur'["outer"].cause = "cascade"
       /\ Step("outer").heal_assert => heal'.held]_vars

\* A step that a guard, a missing reference or a before-hook kept from running
\* was never dispatched, neither by itself nor through a retry or a heal.
BarredStepsNeverAct ==
  \A i \in 1..Len(results["outer"]) :
    results["outer"][i].cause \in {"when", "refs", "hook"} => i \notin acted

\* A step gets at most three counted heal iterations, plus the free one that
\* strict order does not count; nothing the loop meets (an exception, a stale
\* cache entry, a failed heal_assert) buys it more.
HealBudget ==
  /\ heal.counted \in 0..3
  /\ heal.heal_attempt = heal.counted + IF heal.free_used THEN 1 ELSE 0
  /\ heal.free_used => Strict

\* Strict order: the sure match is tried once at most, the big model is asked
\* only after two cheap misses, and the cheap one no third time.
RungsInOrder ==
  LET Tries(tier) == {i \in 1..Len(heal.tried) : heal.tried[i] = tier} IN
  /\ \A i, j \in Tries("embed_direct") : i = j
  /\ \A b \in Tries("big") :
       \E i, j \in Tries("cheap") : i < j /\ j < b
  /\ \A i, j, k \in Tries("cheap") : ~(i < j /\ j < k)

\* With the full budget, strict order does not give up on a step before the
\* big model had its try, unless an iteration was lost before any rung.
BigModelHadItsTry ==
  ( /\ Strict
    /\ HealCap = 3
    /\ pc["outer"] = "after"
    /\ heal.counted = HealCap
    /\ cur["outer"].cause = "action"
    /\ Len(heal.tried) = heal.heal_attempt ) =>
  \E i \in 1..Len(heal.tried) : heal.tried[i] = "big"

\* heal_suggestions holds exactly the steps that were healed with new
\* selectors; one an after-hook overruled keeps its suggestion.
SuggestionsAreTheHeals ==
  pc["outer"] = "done" =>
    /\ \A i \in 1..Len(results["outer"]) :
         results["outer"][i].cause \in {"cache", "cascade"} => i \in suggested
    /\ \A i \in suggested :
         /\ i \in 1..Len(results["outer"])
         /\ results["outer"][i].cause \in {"cache", "cascade", "outcome"}
         /\ i \in acted

\* The overall verdict of AllureReporter.finish_suite over what was recorded.
SuiteFailed == \E l \in Level : <<l, "failed">> \in report

\* A suite in which every failure was healed is not painted as failed, as the
\* comment on STATUS_MAP wants it.  The nested runners share the reporter, so
\* a heal attempt that failed before another one worked breaks this.
HealedSuiteIsNotFailed ==
  pc["outer"] = "done" /\ SuiteFailed =>
    \E i \in 1..Len(results["outer"]) : results["outer"][i].status = "failed"

\* Seen through the statuses it settles, the runner is a WorkflowRun.
Run == INSTANCE WorkflowRun WITH
         plan <- plan["outer"],
         statuses <- [i \in 1..Len(results["outer"]) |-> results["outer"][i].status],
         over <- pc["outer"] = "done"

ImplementsWorkflowRun == Run!Spec

\* run() returns.
RunReturns == <>(pc["outer"] = "done")

=============================================================================
