# Formal models of the Stepper

TLA+ modules for the Stepper (`src/stepper`), a runner of declarative workflows
with self-healing selectors. TLC checks them on small instances, TLAPS proves
the central theorems for every value of the constants. `PROJECT.json` lists the
components, the runs, the definitions with the source lines they translate, the
hazards of the code with the properties that would catch them, a mutant for
every property, and the findings.

    tlc -config MCStepRunner.cfg MCStepRunner.tla      # one run
    tlapm StepRunnerProofs.tla                         # the proofs

Contents: [the system](#1-the-system-inventory) · [the modules](#2-the-modules-and-the-code) ·
[the runs](#3-the-runs-and-what-they-show) · [fairness](#4-fairness) ·
[the proofs](#5-what-is-proved) · [findings](#6-where-code-and-documentation-part) ·
[what is left out](#7-not-modelled) · [the plan](#8-plan)

## 1. The system: inventory

`main.py` plans a workflow, builds the sessions of the run, binds them to a
`StepRunner` and executes it; `cli.py` is the command line around it, and
`brightsky/` a second client that runs workflows from a store and reports back.
The program is single-threaded asyncio. What makes it hard is not parallelism
but the many places where an `await` may raise or find a world that has moved
on, the layers of recovery (retry, cache, bridge, cascade) that nest, state
shared between a runner and the runners it nests, and text that is substituted
in four passes with different strictness.

| Component (source under `src/stepper/`) | State it keeps | Operations | Interacts with | Hard behaviour | What makes it correct |
|---|---|---|---|---|---|
| **Step runner** `engine/runner/step_runner.py` | position, results, attempts, locals of the heal loop | `run`, `_run_step`, `_run_retry_loop`, `_run_heal_loop`, `_try_inject_pre_step` | sessions, resolver, healer, cache, hooks, reporter; nests itself | retries inside heals inside runs; five ways to lose a heal iteration | heals have evidence, barred steps never act, budget and order of the rungs, a hard stop stops |
| **Guards and interpolation** `engine/runner/when_eval.py`, `interpolation.py`, `*/conditions.py` | condition registry | `evaluate`, `resolve` | runner, planner, db domain | four passes with different strictness | no reference reaches an action or a table |
| **Planner and validator** `engine/planner/` | stack of includes | `plan`, `_expand_includes`, `validate`, `preflight` | `main` | files that include one another, steps within steps | what is accepted can be run and was checked |
| **Run pipeline** `main.py` | the run's files, its log handler, the shared browser | `prepare_run`, `run`, `run_data_rows`, `build_pipeline`, `execute_pipeline` | all of the above | exceptions at any await; rows that share a browser | rows stay apart, no row is lost silently |
| **Sessions** `engine/session.py`, `bootstrap/session.py`, `sites/*/session.py` | `_opened`, `_order`; the handles of each adapter | `get`, `adopt`, `close_all`; `open`, `close` | runner (on demand), `main` (teardown) | opens that fail half-way and are tried again; closes that fail | opened once, closed newest first, all of them |
| **Flow actions** `engine/actions/flow.py`, `sub_step_mixin.py`, `subflow.py` | loop position, tabs | parallel, for-each, paginate, ensure-login, subflow | runner (nested), sessions, shared context | concurrent tabs, one failing while others run; a bound on pages | failures of sub-steps are not swallowed; tabs are closed |
| **Data actions and context** `engine/interfaces.py`, `engine/actions/data.py` | `ExecutionContext` | extract, load, save, count | every step, concurrent tabs | one list, several writers between awaits | a page's rows are that page's |
| **Page actions** `engine/actions/basic.py`, `strategies.py`, `assertions.py` | none | one page interaction each | resolver, page | the page changes between lookup and click | acts on the element named, or on one that fits |
| **Element resolvers** `engine/resolvers/` | stage of the lookup | cascade, semantic filter, keywords, tree, AI pick, visual AI | page, AI service | locators are queries, evaluated anew at each use | the cascade's order, confidence gate, strictness |
| **Shadow runner, drift log** `engine/resolvers/shadow_runner.py` | tasks under way, records | compare, append, flush | resolver, `main` | background tasks outliving the run; a rolling log | what was finished is written |
| **AI service** `engine/ai/` | key index | `chat` | healer, AI pick | key rotation and provider fallback | the cheapest that answers, each key once |
| **Healer** `engine/healer/` | the cache file; the reply of a model | `tier_for`, `heal`, `capture`, `check`, cache `get`/`put` | heal loop, AI service, page | stale cache entries, model answers of any shape | what is cached was proven; a direct heal hits what was chosen |
| **Hooks** `engine/runner/hooks.py` | URL before a step | `before`, `after` | every runner, nested ones too | overrule a step after it was healed | a step stopped before it ran does not act |
| **Reporters** `engine/reporter/` | recorded results, files | `record_step`, `finish_suite` | every runner, shared with nested ones | superseded attempts are recorded too | verdict follows the results |
| **Mac domain** `sites/mac/` | child processes | six desktop actions | macOS accessibility, through children with timeouts | windows move between lookup and click; a child is killed half-way | the click lands where it was aimed; passed means the expectation was met |
| **Db domain** `sites/db/` | a connection | execute, query, assert | context | writes that outlive a failed step | no unresolved text is written or agreed with |
| **OpenLibrary** `sites/openlibrary/`, `src/poms/openLibrary/` | the reader's shelves (remote) | login, search, collect, add, clear, ensure, assert | page objects | a session that expires, pages read before or after they came, clicks that act and raise | what a top-up does to the list, by what its counts got wrong |
| **BrightSky client** `brightsky/client.py` | none (attempt count of a request) | `queue`, `get_workflow`, `report_run`, `propose_version` | the store over HTTP | lost, late, garbled answers; a retry of what was already done | one version per run |
| **BrightSky verification** `brightsky/verify.py`, `executor.py` | outcomes so far; the hook's URLs | `verify_slug`, `verify_all_unverified`, `executed_steps` | client, step runner | token revoked mid-walk; expectations judged across heals | what is said agrees with what is stored |
| **BrightSky mapping** `brightsky/mapping.py`, `targets.py` | none | `map_version`, `url_matches`, `target_from_element` | verification | refusal of what cannot run faithfully | the run stays on its site, a proposal maps again |
| **Other sites, browser, CLI** | none worth modelling | page objects, I/O, argument parsing | – | – | – |

## 2. The modules and the code

    WorkflowRun                what StepRunner.run() promises       (abstract)
      ^ implemented by
    StepRunner                 runner, retry loop, heal loop        MCStepRunner
      ^ proved about in        StepRunnerProofs

    RunLifecycle               sessions, rows, teardown             MCRunLifecycle
      ^ proved about in        RunLifecycleProofs

    ExecutionContext           the lists that steps share
      ParallelStep             tabs of one batch, its retries
      SubSteps                 loops, pages, logins, subflows
        FlowActions            both in one context                  MCFlowActions
          ^ proved about in    FlowActionsProofs

    AIProviders                chains, keys, the AI pick
      Resolution               from a cfg to an element
        ShadowRun              comparisons and the drift log
          Healing              bridge, capture, tiers
            WebStep            a step of the web domain             MCWebStep
              ^ proved about in WebStepProofs

    Templates                  references and their passes
      Guards                   `when'
        Planning               files to a checked plan
          PlannedRun           the plan is run                      MCPlannedRun
            ^ proved about in  PlannedRunProofs

    BrightSkyVerify            client, store, walk of the queue     MCBrightSkyVerify
    BrightSkyMapping           stored version <-> steps
      BrightSkyRun             the run of one version               MCBrightSkyRun
        ^ both proved about in BrightSkyProofs

    MacDomain                  a step on the desktop                MCMacDomain
      ^ proved about in        MacDomainProofs
    OpenLibrary                its workflows against the shelves    MCOpenLibrary
      ^ proved about in        OpenLibraryProofs

An indented module extends the one above it. Where a module meets a part that
another one models in detail, it takes any answer that part can give:
`RunLifecycle` sees the step runner as the client that asks for sessions and may
raise; `BrightSkyVerify` sees a sequence of results of the shape `StepRunner`
gives it; `StepRunner` sees a page, an action and a model that answer anything,
and `WebStep` shows what one attempt and its heals do to a page.

### StepRunner

One runner is a *level*: `"outer"` is the run, `"inner"` the nested
`StepRunner` of a heal. Both run the same code, so the actions of `run()` and
`_run_step` take the level as a parameter, and a function of the level holds
what is local to one runner (`plan`, `pc`, `attempt`, `cur`, `results`). The
shared objects (`ctx`, `cache`, `suggested`, `report`) are there once. Since a
runner awaits the one it nests, `Active` lets only one of them move.

| Code | Action |
|---|---|
| `run`, 241-253 | `MissingRefs` |
| `run`, 257-274 | `GuardFalse`, `GuardPassed` |
| `_run_step`, 319-330 | `BeforeHookAborts`, `BeforeHooksPass` |
| `_run_retry_loop` | `Dispatch`, one attempt, and the decision to retry, heal or finish |
| `_run_step`, 351-356 | `AfterHooksKeep`, `AfterHooksOverrule` |
| `_run_heal_loop`, `while` | `HealIteration`, `GiveUp` |
| `_run_heal_loop`, cache | `HealIteration` (hit), `ReplayReturns` |
| `_run_heal_loop`, bridge | `Bridge`, `InjectionReturns` |
| `_run_heal_loop`, cascade | `CaptureFails`, `AskHealer`, `CascadeReturns` |
| `record_step`, `results.append`, hard stop | `Settle`, part of each settling action |

A selector is the key `HealCache.make_key` computes; the name an action stores or
a step refers to is a model value. `held` remembers what `heal_assert` answered,
so that properties can refer to it. `acted` is the only history variable.

### WorkflowRun

The promise to the caller: steps are settled in order and one at a time, a
settled result is never revised, a failed step without `continue_on_failure`
ends the run. `StepRunner` implements it with `statuses` mapped to the
statuses in the outer runner's results and `over` to its being done. Everything
the hooks, the retries, and the heal loop with its nested runner do is a
stuttering step of it.

### RunLifecycle

`owed[d][x]` counts the resources of domain `d` acquired and not yet released;
`opened` is `SessionSet._opened` in insertion order, which is `_order` as well.
One await of `open()` is one `OpenLayer`; it is recorded by `OpenReturns` only,
as in `SessionSet.get`. An `open()` that raises is `PrimaryFails` (in
`build_pipeline`) or `DemandFails` (for a step, which the retry loop may try
again), and leaves its layers in `left`. `CloseLayer` releases one handle or
fails to; the nested `finally`s continue in either case. Exceptions are values
(`exc`), so that a replaced exception can be told from the first one. A run
and a data row differ in where their `try` blocks begin: `TeeFails`, `Leave`,
`HandlerAfter`, `Outside`.

### ExecutionContext, ParallelStep, SubSteps, FlowActions

`ExecutionContext` holds the lists of the run; an action that writes one
(`extract_data`, `load_test_data`, and the others) is an operator on it.
`ParallelStep` is `ParallelAction` under the retries of its runner: the gate
over all sub-steps (`GateRefuses`, `StartAll`), then one task per sub-step. A
task is `<<attempt, index>>` and goes through the stages opening, acting,
releasing; `gather` is what `asyncio.gather` has given the runner. It raises
with the first task that raises (`GatherRaises`) and leaves the others running,
so tasks of an earlier attempt may still write to the context during a later
one, and during the next step.
`SubSteps` has one loop at a time: `place` is where it is, `frame` its locals
(the item, the page, what the sub-steps gave). `for_each_item`, `ensure_login`
and `paginate` share the dispatch of `_run_sub_steps`; `run_workflow` runs a
runner of its own, of which only the results are seen. `FlowActions` runs a
parallel step and then a flow step in one context.

### AIProviders, Resolution, ShadowRun, Healing, WebStep

A page is a sequence of elements; `PageMoves` may replace it between any two
stages of a lookup, between the lookup and the interaction, and during the
comparisons. A locator is a query and an index, evaluated anew at each use
(`Target`), as Playwright's are. `Resolution` follows `ElementResolver.resolve`:
the keys of the cfg by priority (`KeyHits`, `KeyMisses`, `KeyIsAmbiguous`), the
semantic filter over several matches with its ties, then for a description the
keywords, the accessibility tree, the AI pick and the visual AI. Similarity and
confidence are numbers an element has. Each of filter, keywords and tree is one
atomic stage. `ShadowRun` has a task per `find`; `Healing` has the bridge,
`DOMSnapshotCascade.capture` with its scores, clear winner and pinned cfg, and
the tiers. `WebStep` composes them: the attempt (`StepAttempts`, `Found`,
`TooUnsure`, `Acts`), a heal by the bridge, by the pinned element or by a model,
and the end of the run, which flushes the log while comparisons are under way.
`Chat` and `GroqCall` are pure; `MCWebStep` compares them over all their inputs
with what they should compute (`CheapestAnswers`, `RotationSparesNoKey`).

### Templates, Guards, Planning, PlannedRun

A string is a sequence of literals and references, since which pass replaces a
reference, and what it leaves, is what matters. Steps that hold steps, and
conditions that hold conditions, are trees: functions from addresses to nodes,
where `<< >>` is the root and what a node holds lies one place further down. A
pass over all of a tree is then a function of the same domain (`SubstituteStep`,
`ResolveStep`), what a pass does not see is a smaller domain (`Kept`), and "however deep"
is a quantifier over addresses. `Guards` evaluates a condition
over the answers of the domains. `Planning` reads a workflow file and expands
its includes; `stack` holds the nested calls of `_expand_includes`, with the
variables of each. Then come settings, validation and the preflight of each
domain. `PlannedRun` runs the plan: `calls` is the stack of step lists (the
plan, a loop's body, a subflow), `counts` and `data` the context, `table` the
database's rows. Each of the runner's, the sub-steps', the planner's and the db
domain's passes over references is an operator used where that code uses it. A
page's and a table's answers are arbitrary; a whole number that a query answers
becomes a counter, as `ctx.set_count` has it. A step whose domain the run has no
session for, which only a subflow can name, fails in a run and gives up the
item in a loop (`CannotAct`).

### BrightSkyVerify, BrightSkyMapping, BrightSkyRun

In `BrightSkyVerify` one request is one action per attempt with the answer as
its parameter; what the store makes of it is independent of what the client
hears (`RunStored`, `VersionStored`). `late` holds POSTs the client timed out on
that the store may still take. `Revoke` may happen between any two steps. The
walk and the single slug are one module: `walk` decides what `Outcome` and
`Raised` lead to. The results come from `RunResults`, every sequence a
`StepRunner` can return for a navigate and `NumSteps` steps.
`BrightSkyMapping` translates `map_version` with every reason to refuse, and
the way back, `target_from_element`. `BrightSkyRun` runs one mapped version: the
hook (`Before`, `OutcomeHolds`, `OutcomeTimesOut`), the resolver that records the
first lookup (`Resolve`, `Located`), the healer that may swap an element and
nothing else (`Reply`, `ElementOnly`), and the report and proposal made of it.

### MacDomain

The screen is a line of points with one window per application; the user may
move a window, bring one to the front or change what one shows at any moment
(`DeskMoves`, `TreeIsBuilt`). A lookup, a click and a key press are child
processes with a timeout that may strike between any two of their steps
(`CutShort`); the step (`StepGoesOn`) starts them, checks what they print, and
polls the expectation. A history record notes where a click landed, at whom it
was aimed, and which expectations were met since the last act. Only an element,
or a point of a window that lies in it, is an aim (`TakesAim`).

### OpenLibrary

Two shelves, a session that may expire between any two requests, a book's page
that comes late, and buttons whose click may act and still raise. A workflow is
one of the shipped ones with its guards.

A count of the shelves (`_count_shelf`) is not one step and not exact. It goes
from page to page of a shelf, and the rows it adds up, whether it sees a Next,
and which page it is on are each read at another moment. `ahead` holds the books
on the page that is shown and behind it, `pending` says that a Next was clicked
whose page has not come.

| Code, `reading_list_page.py` | Action |
|---|---|
| `_count_shelf`, 68-71 | `GoesTo`: the first page of a shelf is there, its rows perhaps not |
| 74-75 | `CountRows`: as many rows as have come, of whichever page is shown |
| 77-79 | `LastPage`: no Next, or none yet |
| 80-83 | `NextPage`: the load state waited for may be the old page's |
| the browser, at any moment | `PageLands`: the page that was asked for, or the login form |
| an exception of the driver | `CountFails` |

So a live shelf can read short (rows or a Next that have not come, a page clicked
past) or long (the old page once more). `due` and `misread` are history: the rows a
right count would still read, and which of the counts that decide a step,
`ensure` and `assert`, went wrong and how. The properties say what each way to go
wrong can do. The links that clearing collects come the same way, and `Links`
lets some be missing and others be there twice.

Collecting goes entry by entry over a page of results (`ExamineEntry`) and page
by page (`TurnPage`), since what a page still gives depends on the books it has
given. Adding a book is the chain of fallbacks of `book_detail_page.py` and
`base_page.py` (`_interact`): the page object's click, the resolver by role, the
dropdown, css, the driver. `shelf` is what the site holds, `listed` what it held
when the run started.

## 3. The runs and what they show

| Run | Instance | Shows | States |
|---|---|---|---|
| `step_runner` | two-step plans that share a cache key, opt out, refer to a stored name; two replacements; `MaxHealAttempts` 2, cache and hooks on | `HealedOnEvidence`, `BarredStepsNeverAct`, `SuggestionsAreTheHeals`, `CacheLearnsFromHealsOnly`, `ImplementsWorkflowRun`, `RunReturns` | 728,562 |
| `step_runner_strict` | strict order, `MaxHealAttempts` 4 (above the hard cap of 3), no cache, no hooks | `TypeOK`, `HealBudget`, `RungsInOrder`, `BigModelHadItsTry` | 123,100 |
| `run_lifecycle` | domains web (3 layers), db (1), mac (0); plans that mix them, name an unknown one, log in; runs, and data runs of 0 and 2 rows; either primary | `OpenedOnceAndClosed`, `RowsStayApart`, `NoRowIsLost`, `NewestFirst`, `RunEnds` | 108,926 |
| `brightsky_verify` | a queue of a current, an unmappable and a stale entry, or the first alone; 2 steps | `OneVersionPerRun`, `StoreAndOutcomesAgree`, `WalkStopsForTheTokenOnly`, `PassedMeansStepsPassed`, `VerifyEnds` | 5,304 |
| `flow_actions` | five batches (extracting, reading, refused, isolated): a one-page pagination after each of them, every flow step after the refused one; two attempts; at most two rows a page | `PassedHidesNoFailure`, `StragglersHaveACause`, `LoopsKeepTheirBounds`, `StepsEndAndRelease` | 197,230 |
| `mac_domain` | twelve steps, of each action and kind of aim and expectation; one move of the user; windows at two places | `AimedClicksLand`, `PassedMeansMet`, `EndsWithoutTrace` | 220,121 |
| `web_step` | seven pages with twins, read-only and hidden elements; fifteen steps; one change of the page, one heal attempt; a drift log of one record | `StrictTouchesTheNamed`, `ChosenTakeTheAction`, `DirectHealsHitTheChosen`, `FinishedComparisonsAreWritten` | 6,448,459 |
| `planned_run` | workspaces with include cycles, diamonds, variables, bodies in each place, subflows that start themselves, db steps; a page that shows a reference; nesting of runs to 4 | `AcceptedPlansAreSound`, `NothingUncheckedIsOpened`, `NoReferenceIsStored` | 6,471 |
| `brightsky_run` | eleven versions, of every outcome kind and reason to refuse; four pages, one off the site; nine replies of the healer; two heals, one move of the page | `OpensItsSiteOnly`, `UrlChangesLeaveTheFirstPage`, `MatchesAreOfTheStoredTarget`, `RoleLessHealsMapAgain` | 1,906,176 |
| `open_library` | four books, two of them both too recent and without a link; the top-up to three books, the smoke test, the idempotency test; search pages of two results, shelf pages of one book, both turned | `TopUpNeverOvershoots`, `PassedTopUpIsExact` | 4,195,021 |
| `loop_variables` | a loop with `{{item_url}}` in its body | `LoopVariablesAreBound` is violated, see section 6 | |
| `proposals_keep_action` | as `brightsky_run` | `ProposalsKeepTheAction` is violated, see section 6 | |

Some properties are conjunctions of named parts, each with its own comment:
`OpenedOnceAndClosed` is `OpenOnce` and `OpenedIsClosed`; `RowsStayApart` is
`SharedOutlivesRows` and `LogsStayApart`; `StoreAndOutcomesAgree` is
`ProposalsFollowTheirReport` and `OutcomesAgreeWithTheStore`;
`WalkStopsForTheTokenOnly` is `RejectedTokenEndsTheWalk` and
`EveryEntryHasItsOutcome`; `PassedHidesNoFailure`, `LoopsKeepTheirBounds`,
`ChosenTakeTheAction` and `AcceptedPlansAreSound` have two parts each;
`StepsEndAndRelease` and `EndsWithoutTrace` are an end and what it leaves.
`NoReferenceIsStored` excepts the references that a page itself shows, which are
its text and nobody's to resolve; any other reference in a row or a stored value
would be one that a pass missed. Every module that a run checks states a type
invariant as well. That of `StepRunner` is checked and proved, the others are
proved.

**Bounds, and why they are enough.**

* The loops of the heal loop are bounded by the code itself (at most three
  counted iterations), so the runs go to their full depth: the strict run
  passes 4 to meet the cap of `__init__`. Two steps suffice for what one step
  leaves to the next (the cache entry, a stored name, a suggestion, the hard
  stop): nothing in the code relates three. Two replacement steps tell the first
  from the last result of a nested run.
* `MaxTries` 2 in `RunLifecycle` is one retry of a failed open, which is where a
  second open of the same adapter happens. Two rows suffice for what a row
  leaves to the next; zero rows is the empty data file. Three domains give every
  shape of adapter: layered, single, empty.
* Two acting steps in `BrightSkyVerify` distinguish the step that shares its
  number with the navigate from one that does not. `MaxHeals` 2 in
  `BrightSkyRun` is the second heal of a step, where what the first one left
  behind could be taken for the page before.
* `MaxAttempts` 2 in `ParallelStep` is one retry over tabs still at work;
  `MaxFound` 2 rows make a page longer, equal or shorter than what is wanted.
* `MaxMoves` 1 in `MacDomain` and `WebStep`: a change can fall into any window
  between a look and the act that relies on it, and one is enough to invalidate
  it. `MaxRecords` 1 with `FlushEvery` 2 makes the log roll over between flushes.
* Four books and a target of three make a list that is short, right, and long; a
  book too recent is the one that must not be added, one without a link the one
  that clearing leaves. Shelf pages of one book (`ShelfPage`) give a list that is
  short of three its second page, which a count can read again or miss.
  `MaxTurns` 2 clicks on Next read a page again, pass one over, and reach the end
  of a shelf of three; `MaxLinks` 2 links of one shelf repeat a book, or miss one.
* `MaxDepth` 4 stops a subflow that starts itself, which the code does not.

The deadlock check is on where only an ended run may stop (`Terminated`,
`Over`), and off in the modules whose invocations simply end: `RunLifecycle`,
`BrightSkyVerify`, `PlannedRun`, `BrightSkyRun`, `OpenLibrary`.

Every property has a mutant (`PROJECT.json`, `mutants`): a definition changed as
a bug in that code would change it, for which TLC finds the property violated.
Some are bugs the code once had and its docstrings report, such as
`NothingFailed` for `_heal_succeeded`, `HandlerAfterSuccess` for the `run.log`
handler, and a key rotation that starts over at every call.

## 4. Fairness

`StepRunner`, `RunLifecycle` and `BrightSkyVerify` have one weak fairness
condition each, on what the process itself does: every step of a runner or of an
invocation is an `await` that returns or raises, since page operations,
captures, model calls and requests carry timeouts (`TIMEOUT` in
`brightsky/client.py`), and the event loop always resumes a finished one. No
outcome is assumed fair: an attempt may fail every time, an answer may be lost
every time. In `BrightSkyVerify` the store and the revocation have no fairness:
a late proposal may never be stored.

`FlowActions` has weak fairness of the runner, of the flow step and of each tab
apart: the tabs are tasks of one event loop, which resumes each of them.
`MacDomain` has weak fairness of the step and of its child process (a child that
does not print is killed at its timeout), none of the user. `WebStep`,
`PlannedRun`, `BrightSkyRun` and `OpenLibrary` state safety only.

## 5. What is proved

Eight modules of proofs, each beside the module it is about. TLAPS checks them
for every value of the constants that satisfies the named assumptions. The
argument has the same shape everywhere: an inductive invariant `IInv`, made of
named parts, of which `TypeOK` is the first and the property to be shown a
consequence; one lemma per action or group of actions that says the step keeps
a part; and at the end `Init => IInv`, `IInv /\ [Next]_vars => IInv'`, PTL.

| Theorem | States | Module |
|---|---|---|
| `TypeCorrect`, `HealBudgetKept`, `RungsKeptInOrder`, `BigModelIsTried`, `BarredStepsStayBarred`, `HealsHaveEvidence`, `CacheLearns`, `SuggestionsAreComplete` | `TypeOK`, `HealBudget`, `RungsInOrder`, `BigModelHadItsTry`, `BarredStepsNeverAct`, `HealedOnEvidence`, `CacheLearnsFromHealsOnly`, `SuggestionsAreTheHeals` | `StepRunnerProofs` |
| `RefinesWorkflowRun` | `ImplementsWorkflowRun` | `StepRunnerProofs` |
| `LifecycleTypeCorrect`, `EveryOpenIsClosed`, `RowsAreApart`, `AllRowsAreCollected`, `ClosedNewestFirst` | `TypeOK`, `OpenedOnceAndClosed`, `RowsStayApart`, `NoRowIsLost`, `NewestFirst` | `RunLifecycleProofs` |
| `FlowTypeCorrect`, `FailuresAreNotHidden`, `StragglersAlwaysHaveACause`, `LoopsAreBounded` | `TypeOK`, `PassedHidesNoFailure`, `StragglersHaveACause`, `LoopsKeepTheirBounds` | `FlowActionsProofs` |
| `VerifyTypeCorrect`, `ProposedOnce`, `StoreAgrees`, `WalkEndsForTheToken`, `PromotionIsEarned` | `VerifyTypeOK`, `OneVersionPerRun`, `StoreAndOutcomesAgree`, `WalkStopsForTheTokenOnly`, `PassedMeansStepsPassed` | `BrightSkyProofs` |
| `TypeCorrect`, `SiteIsNotLeft`, `UrlChangesAreReal`, `MatchesAreOwn`, `RoleLessHealsMap` | `TypeOK`, `OpensItsSiteOnly`, `UrlChangesLeaveTheFirstPage`, `MatchesAreOfTheStoredTarget`, `RoleLessHealsMapAgain` | `BrightSkyProofs` |
| `TypeCorrect`, `StrictStepsTouchTheNamed`, `ComparisonsAreWritten`, `ChosenFit`, `DirectHealsHit` | `TypeOK`, `StrictTouchesTheNamed`, `FinishedComparisonsAreWritten`, `ChosenTakeTheAction`, `DirectHealsHitTheChosen` | `WebStepProofs` |
| `MacTypeCorrect`, `ClicksLandWhereAimed`, `PassedStepsWereMet`, `NothingStaysBehind` | `TypeOK`, `AimedClicksLand`, `PassedMeansMet`, `LeavesNoTrace` | `MacDomainProofs` |
| `TypeCorrect`, `NeverOvershoots`, `PassedIsExact` | `TypeOK`, `TopUpNeverOvershoots`, `PassedTopUpIsExact` | `OpenLibraryProofs` |
| `TypeCorrect`, `PlansAreSound`, `OnlyCheckedIsOpened`, `NoReferences` | `TypeOK`, `AcceptedPlansAreSound`, `NothingUncheckedIsOpened`, `NoReferenceIsStored` | `PlannedRunProofs` |

### StepRunnerProofs

* `Base` = `TypeOK` and `Control`. `TypeOK` is not inductive alone: `Step(l)` is
  a `StepConfig` only while `l` is at a step it has, and which runner is at work
  follows from the places. `Control` states that: a runner at a step has one,
  the nested runner never heals, it is running or has run when the heal loop
  waits and not otherwise. From it: `TypeCorrect`.
* `Budget`: `HealBudget` is not inductive, since that uncounting the free try
  leaves `counted` at 0 or more depends on the iteration having been counted.
  `Budget` adds that an iteration under way was. From it `HealBudgetKept`.
* `Rungs`: the rungs in `tried` are in order, the one in hand may follow them
  (what `TierFor` answers does), none is in hand before the page was captured,
  and a tried sure match has used the free try. From it `RungsKeptInOrder`, and
  with `Budget`, by counting iterations against rungs, `BigModelIsTried`.
* `Barred`: whatever has acted is the current step or an earlier one, the
  current step has not before its first attempt, and from then on no guard,
  reference or before-hook is the cause of its result. From it
  `BarredStepsStayBarred`.
* `Evidence`: a nested run heals nothing itself and stops early only on a
  failure, so one whose results all passed has reached its last step. From it
  `HealsHaveEvidence`. `CacheLearns` needs `Base` only, and the one action that
  writes the cache.
* `Suggesting`: the suggestions are those of settled heals and of the heal the
  runner is about to settle, and of steps that acted. From it
  `SuggestionsAreComplete`.
* `RefinesWorkflowRun`: the initial states map to initial states and every step
  to a step of `WorkflowRun` or a stutter, under `Base`.

The assumptions are that plans and replacements are sequences of `StepConfig`,
which the loader and `AiHealer._parse` guarantee, and that a replacement is not
empty, which `_parse` does too.

### RunLifecycleProofs

* `Accounts`: for every domain and resource, what is owed is what raising opens
  left behind, one of each layer of a session that is opened, and, of the
  session being opened or closed, the layers acquired so far or not yet
  released. This is what `OpenedIsClosed` needs, since it compares `owed` with
  `left` at the end, when the two sessions under way are gone.
* `Chain`: while the sessions are closed, those still pending are the reverse of
  those still opened, no domain twice. `NewestFirst` is an action property; it
  follows because the head of the one is the last of the other, and `OpenOnce`
  because what is opened is not opened again.
* `Rows`: which rows have been collected, whose log the handler writes and who
  holds the shared browser, by place; an exception in flight is never
  forgotten. The last conjunct is what `NoRowIsLost` rests on: a row that is not
  collected has raised, and what it raised is still there at the end.

Assumed: the layers of an adapter are a sequence of distinct resources
(`LayersAssumption`), a run without data has one row (`ConfigsAssumption`), and
`MaxTries` is positive.

### FlowActionsProofs

The parallel part and the flow part are inductive apart from one another: of
what they share, the context, a loop needs the type only, since tabs may write
to it at any moment.

* `ParallelInv`: the tasks of an attempt not begun do not exist, those of an
  attempt answered with a pass are closed, and a task that is not, in an attempt
  that was answered, has a sibling that raised. From it
  `StragglersAlwaysHaveACause` and the first half of `FailuresAreNotHidden`.
* `FailuresInv`: a failure of a sub-step is held by the frame until the step is
  answered, wherever the loop stands, so no path from a failed sub-step to
  `passed` remains. `run_workflow` and `ensure_login` are the cases that read a
  result of another kind.
* `BoundsInv`: the items tried are a prefix of those given, and the page and the
  rows of a pagination are within its bounds at each place of the loop, provided
  that the rows are where `paginate` looks (section 6 has what happens
  otherwise).

Assumed: `ContextAssumption`, `BatchAssumption`, `WidthAssumption` and
`FlowAssumption`, the types of batches, widths and flow steps.

### BrightSkyProofs: the verification

The module has both BrightSky parts; the definitions of `BrightSkyVerify` that
`BrightSkyRun` has a namesake of carry its name (`VerifyInit`, `VerifyTypeOK`,
`VerifyIInv`).

* `VerifyControl`: which request is under way, for which entry, with how many
  outcomes, by place.
* `Untouched`: the store has nothing of an entry the walk has not come to.
* `Reporting`: the report under way, or sent, is made of this run's results; the
  store's run of the entry, if it has one, is that report.
* `Proposing`: a proposal is sent only for a run that failed in the store, and,
  the first time and every further time, only while the store has no version of
  it but one that came late. A version that the first POST left, whose answer
  was lost, is found by `already_stored` before the second. From it
  `ProposedOnce`.
* `Claims`: what each outcome claims is in the store. From it `StoreAgrees`;
  with `VerifyControl`, `WalkEndsForTheToken`. `PromotionIsEarned` uses the lemma
  `AllPassedIsComplete`: a run stops early only on a failure.

Assumed: `EntriesAssumption`, `WalksAssumption`, `NumStepsAssumption`, the types
of the constants.

### BrightSkyProofs: the run of a version

* `MapFacts` and `MappedStep`: what `map_version` makes of a version it accepts.
  Its first step navigates to the site, no other step navigates, and none asks
  for an element by a text with a reference in it.
* `Control`: the steps at hand are those of the mapped version, the results are
  of the steps before, and a replacement differs from its step in the element
  only. With `MappedStep` this gives `SiteIsNotLeft`, whatever a healer answers.
* `FirstUrls`: the URL the hook compares with is the one it first saw. It is not
  inductive without the fact that what is recorded is recorded of steps come to
  (`Reached`), and never recorded again. From it `UrlChangesAreReal`.
* `OwnFirst`: a step is looked up itself before any replacement of it, since it
  holds no reference that could fail it before its lookup. So the first lookup,
  which alone is recorded, is of the stored target. From it `MatchesAreOwn`.
* `Bounded`: heals and their elements, and what is noted of steps, stay within
  their types. With `Control` it gives `TypeCorrect`.
* `Proposed` versions, without any state: a heal without a role is proposed as
  its first selector under the role the step had (`RoleLessTarget`), and a step
  whose target is exchanged that way maps as before, to the same action and
  value (`Retargeted`, `SameActionAgain`). Problems are found step by step
  (`MapsStepByStep`), so that one heal cannot spoil another's step. With what
  the invariant says of the elements in hand (`HealedElements`) this gives
  `RoleLessHealsMap`. The proof corrected the model and the property: a text
  that opens a `{{` and closes none is no reference for the runner, so such an
  element can heal a step, and the mapping of the proposal refuses it. The
  instance had no such text before; it has one now.

Assumed: `VersionsAssumption`, a version has at least one step, and steps the
keys that `models.py` checks and `mapping.py` reads; `RepliesAssumption`, a key
of an element that is answered has its text; `RolesAssumption`, the roles that
mean typing are not longer than the 64 characters that are kept of a role;
`RunAssumption`, every reference has a `{{`.

### WebStepProofs

* Places and orders: a query stands for a list of places of the page, in an
  order. `InOrder`, `AtPlaces` and `Ranked` say with sets which list it is, not
  how it is computed, since the provers see nothing of `SelectSeq` and
  `SortSeq`; the lemmas (`InOrderLists`, `AtPlacesLists`, `RankedLists`) say
  that it lists each place once, and how long it is.
* `StrictLookup`: a strict lookup has the cfg the step was written with and is
  at a key, found or missed; what it found is one of those keys with the value
  the step asks for. The interaction evaluates that query anew, so
  `StrictStepsTouchTheNamed` holds however the page has changed in between.
* `LogIsSound`: the records are the last of those appended, and the file is the
  last of those appended by the last flush, unless a write failed. The lemma it
  rests on, `LastOfAppend`, says that dropping the oldest records before or
  after appending is the same. From it `ComparisonsAreWritten`, for all sizes of
  the log and all intervals of flushing.
* `CInv` = `Stages`, `Candidates` and `TouchedIsGood`: which rung of the lookup
  may have which candidate in hand, and that a candidate is `Good` from the
  moment it is accepted until its element is touched. The page may change in
  between, which is why `Good` speaks of the page that was looked at
  (`ShortlistIsGood` is the lemma about the ranking). From it `ChosenFit`, for
  what the shortlist, the tree and the model choose. The proof corrected the
  property: between three matches of scores 85, 84 and 83, each within the
  tie-break window of the next, the first may not be in that of the last, and
  the description decides only among those that tie with the best
  (`Rivals`). The instance had no such page before; it has one now.
* `HInv` = `HealShape` and `Pinning`: the selectors of a capture are computed of
  the page it was taken of (`CapturedOnPage`), and one of them selects, on that
  page, the place it was computed for and no other (`PinnedSelects`); a direct
  heal is looked up by it (`DirectLookup`). From it `DirectHealsHit`.
* `TInv`: `TypeOK` with what keeps it. A lookup has several candidates in hand
  only by a key it has left behind or by a guess (`Collected`), with percentages
  (`ShortlistIsRated`, `AnswersAreSure`), so it never asks for a key beyond the
  last. The first direct heal of strict order is uncounted, so the number of
  heals stays natural only because each was counted before (`CountedFirst`).
  From it `TypeCorrect`.

Assumed: `ResolutionAssumption` and `ShadowAssumption`, the types of pages,
steps and the log's sizes, and `NamesAssumption`: the selectors that
`selectorFor` computes name one element of a page each, as it checks before it
returns one.

### MacDomainProofs

* `Control`: which child the step waits for, by place, and how far it may be.
* `Aiming`: while nobody stirs, the window that a lookup has found is in front
  and where the child read it, up to the click. It needs the stages of the
  lookup apart (`FoundIsInFront`), since the window is raised first and read
  after. From it `ClicksLandWhereAimed`.
* `Evidence`: what a check has seen was so when it looked, after the step's
  last act. From it `PassedStepsWereMet`.
* `Traces`: the button is down, and an accessibility tree switched on, only
  while a child that is alive holds it or polls, and the child remembers what
  the tree was before. From it `NothingStaysBehind`.

Assumed: `MacAssumption`, the types of steps and contents.

### OpenLibraryProofs

A top-up counts the lists, stores the gap, collects that many books, adds them
one by one and counts again. Its counts may be wrong, so what is proved of it
comes in layers. Whatever was counted, the list grows by no more than the gap,
and the gap is within the target. Unless the deciding count was short, the list
is not longer than the target afterwards (`TopUpNeverOvershoots`). And what a
run that passed says is true unless one of three misreadings happened; where
books were to be added, a check that read the shelves as they are is enough, the
deciding count notwithstanding (`PassedTopUpIsExact`). None of the three can be
left out: with any of them TLC finds a run that passed at a wrong number, as it
does for a check that nobody was logged in for. The parts of the invariant:

* `InStep`: what is in hand at which place of the workflow.
* `Collecting`: what a page may still give fits in what is missing. An entry
  met again on a later page takes a place of the page and none of the list, so
  repeats can make the list short and never long.
* `Order`: until books are added the list is as it was, and no books are added
  without a gap.
* `Fits`: what is on the shelf and still to be added stays within what was
  listed and the gap. If the count was not short and the session is there, it
  saw the whole list, so that sum is within the bound as well. Without a session
  nothing is shelved, and a session that is gone does not come back, because the
  login is the workflow's first step.
* `CountTells`: what a count under way has read, with what it has still to read
  (`due`), against the books on the shelves it has come to (`Reached`): no more
  unless rows were read again, no less unless it was short or the session is
  gone. The two halves are what the two kinds of misreading mean. It is kept by
  each of a count's steps apart: rows added up (`CountedTells`), a page landing
  under it (`ToppingCountsOn`), the other shelf (`ToppingGoesTo`).
* `Truth`: what the steps that passed have made true; with the check passed it is
  `Exact`, from which `PassedIsExact`.

Assumed: `BooksAssumption` and `BoundsAssumption`, finite books and bounds that
are natural numbers, a page of a shelf not empty, `WorkflowsAssumption` and `TopUpAssumption`, which say that workflows
are sequences of the shipped kinds of steps and that a top-up logs in first.

### PlannedRunProofs

Files become a plan, the plan is let through, and what was promised of it then
has to hold of every list of steps that is run later, after two more passes over
references have changed each step. `IInv` has five parts.

* `PlanOK`, of the planning. `PlanTypeOK`: each call of `_expand_includes` holds
  steps. `PathsDiffer`: no file is included while it is being included, and
  each exists. `IncludesNest` is not inductive without it; with it, the paths on
  the stack inject into the files, and the bound is the pigeonhole principle
  (`NestWithin`). `PlanIsVetted` and `PreflightAsked`: what the validator found
  and whom the preflight asked, about the plan as it stands from then on.
* `CallsOK`: a list that no subflow read holds steps that are sound, and of the
  plan's domains (`IsVetted`). The validator examined the plan alone, so the
  promise has to be carried down: to the body of a step (`BodyParts`,
  `BodySound`: what a loop will run is what the validator looked into) and through the
  passes, which change a step's texts and neither its action nor its conditions'
  names (`StepSound`).
* `StoreOK`: the rows and the stored values hold no reference but what a page
  showed. It is inductive because of what the passes do to a text that is full
  of references (`ResolveClean`): with every name answered by clean values, what
  comes out is clean, also when what comes in is part of a sentence.
* `LogOK` has the properties `ValidPlansDispatch` and `NothingUncheckedIsOpened`
  themselves. They follow at each step from `CallsOK`, and from `GuardAsks`: a guard
  asks domains of its vocabulary only, since a condition is evaluated by the
  registry that the run merged of them (`Vocabularies`).
* `OnlyWhileRunning`: nothing is run or opened before the plan was let through.

The first half of the module is about the operators, once and for all: a
substitution in turn (`InTurnType`, `StepByStep` for what is defined step by
step), a dict's merge (`MergedType`), one resolving pass (`ResolveType`,
`ResolveClean`), lists (`ListTail`, `ListConcat`, `ListReturn`), trees
(`Deeper`, `HeadAndTail`, `BodyType`).

Doing the proofs changed the model in three places. Steps and conditions were
nested records under recursive operators, beyond the provers, and are trees
under quantifiers now. `NoReferenceIsStored` was stated with a page that shows no
references; it now has the page show any, and says that those and no others may be
stored. A step of a domain without a session was dispatched as if it had one.

Assumed: `RegistryAssumption`, the primary domain is a registered one
(`get_domain` raises for any other) and an action has a domain and a kind;
`WorkspacesAssumption`, a directory has finitely many files, the workflow among
them, each with a dict of variables and a list of steps, which is the shape the
loader gives them; `AnswersAssumption`, collected URLs, scraped texts and
counts are values, and a count is a number, which holds no reference.

### What is only model-checked

Every invariant and action property that a run checks is proved. What is left
to TLC is liveness (`RunReturns`, `RunEnds`, `VerifyEnds`, `StepsEndAndRelease`,
`EndsWithoutTrace`), which is beyond the prover; of the last, the part that is
no liveness, `LeavesNoTrace`, is proved. So is what `Chat` and `GroqCall`
compute, which `MCWebStep` compares with what they should over all inputs of its
instance. What a recursive *function* computes can be had by a minimal
counterexample (`NatLessThanWellFounded` in place of an induction theorem, see
`StaysWithin`), and where a list is said with sets, or a tree with addresses,
no induction is needed at all; that is how the lists of `WebStep` and `OpenLibrary`
and the plans of `PlannedRun` came within reach.

## 6. Where code and documentation part

Two runs show a documented statement the code does not keep.

| Run | Property | What happens |
|---|---|---|
| `loop_variables` | `LoopVariablesAreBound` | `{{item_url}}` in the sub-steps of `for_each_item` is bound per item, the docs say; the runner's own check for missing references covers the sub-steps and fails the step before the loop begins. |
| `proposals_keep_action` | `ProposalsKeepTheAction` | A heal picks an element of another role; the proposal carries that role, and the role decides which action the stored step maps to the next time. |

Other statements are false of a model as well. They are defined beside the
properties and can be given to TLC as an `INVARIANT` with the configuration named.

| Property (configuration) | What happens |
|---|---|
| `HealMeansPassed` (`MCStepRunner.cfg`) | A step hidden behind its own guard: it fails, the bridge scrolls, the second time its `when` is false, it is skipped, and counts as healed. The docs say the retry *passed*. |
| `HealedSuiteIsNotFailed` (`MCStepRunner.cfg`) | A heal attempt that failed is recorded by the reporter it shares with the run; the suite is marked failed although every step ended healed. |
| `NothingLeftOpen` (`MCRunLifecycle.cfg`) | An `open()` that raises after the browser has started leaves it to nobody. |
| `FirstFailurePropagates` (`MCRunLifecycle.cfg`) | Two closes fail: the last failure propagates, not the first. |
| `LoginPersists` (`MCRunLifecycle.cfg`) | A run with a login action on a persisting site ends in `None.storage_state()`. |
| `PassedMeansAsStored` (`MCBrightSkyVerify.cfg`) | The navigate is healed, step 1 passes and replaces its result: reported `passed`, and promoted. |
| `AllResultsAreCollected` (`MCFlowActions.cfg`) | A tab that cannot be opened raises outside the `try` of its task; `gather` lets go of the others, whose results nobody reads (`flow.py:389` says all sub-step results are collected). |
| `AssertionsCheckTheNamed` (`MCWebStep.cfg`) | `element_resolver.py` keeps the semantic fallback from assertions, but a failed assertion is healed like any step, and passes on the element the heal chose. |
| `AddsOnlyTheNeeded` (`MCOpenLibrary.cfg`) | `ol_ensure_count` adds only the books needed (`reading_list_action.py:9`). It counts a shelf as soon as the document is there; a row or a Next that has not come makes the count short, the gap too large, and the list longer than the target. |

Divergences met while modelling, by part. No property is about them; most are
in a model as the code has them.

* **Desktop.** `mac_screenshot` ignores `extra.expect`, which every action takes
  (`mac_page.py:19`). `float()` of `element.wait_s` and `expect.timeout_s` is not
  guarded, although actions never raise (`mac_page.py:28`). A lookup killed at
  its timeout leaves `AXEnhancedUserInterface` on, a mouse child killed half-way
  leaves the button down, and a child that had acted when it was killed is
  retried, and acts twice. Between the lookup and the click the window may move.
* **Web.** `scroll_to` and `keyboard_press` ignore `extra.strict`. Nothing sets
  the step description `strategies.py:558` reads. The "full-page screenshot" of
  the visual AI is of the viewport. `fill`, `hover` and `select` have no
  confidence gate, which the README gives every action. The resolver's "errored"
  branch cannot be reached. Two elements without text never agree. Comparisons
  may run on the page the action navigated to, and those that end after the last
  flush are lost. A direct heal by embedding (0.85 and more) is not asked whether
  it fits the action. Accessibility duplicates without a role become `.first`.
  `measure_performance` never fails a step (`measurement.py:4-7` says it does).
* **Planning.** A workflow or an included file that is a bare list raises. Other
  keys of an include step, and the `settings` of the included file, are dropped.
  What a variable that holds a token becomes depends on the order of the dict.
  The validator's branch for an unknown domain cannot be reached. The steps of a
  subflow are neither validated nor preflighted, and a subflow that starts itself
  does not end. A guard that raises lets the step run, where `when_eval.py:41-46`
  says never. A counter hides a later `store` of the same name. A db commit that
  failed is made up for by a later one, so that a retry doubles the row. The
  `{{item_url}}` of an inner loop is the outer one's. Stored text that contains a
  reference is substituted again in a sub-step.
* **BrightSky.** The css fallback for an id does not escape it (`#a:b`). Heals
  with `{text, css}` or `{label, css}` propose the css alone. A page that moves by
  itself satisfies `url_change`. `session.url` may raise before the first step. A
  healed css with a `{{` that is no reference passes, and its proposal is refused
  when it is mapped again (`RoleLessHealsMapAgain` leaves that case out). Results that share a
  step number replace one another in `executed_steps`.
* **Flow.** `paginate` whose extract has a `key` other than `extracted_data`
  counts rows of an earlier step, and `max_items` no longer bounds the total.
* **OpenLibrary.** `ol_add_to_shelf` says which shelf it adds to, picks one at
  random, and warns of failures only. Its fallback rungs may take a shelved book
  off and report it added. The clear action says want-to-read, clears both
  shelves, and reports as removed all it was given. A late button makes it pass a
  book over. An expired session reads as an empty list, and `is_logged_in` is true
  once the URL is not the login's. The wait after Next is for a load state
  the old page is in already, and a fixed sleep. `ensure` at its target leaves an earlier `gap`
  in the context. The query of later pages is not quoted. A book already shelved
  counts as added, so that `delta` falls short.

## 7. Not modelled

* `apply_heals`, the building of reports and prompts, annotated screenshots, the
  screenshots of steps, `measure_performance`: output, or pure functions of it.
* The file of the heal cache: `StepRunner` has its entries, not how they are read
  and written.
* `db` commits that fail, and what a table's rows are; an assertion and a query
  take any answer.
* `ElectronSession`, `SessionSet.single` and `adopt`: they own nothing, or are
  handed what they hold.
* The page objects and registrations of the other sites, browser support, the
  rest of the CLI: I/O and wiring. The models take any of their answers.
* `bs_harness.py`, a harness for acceptance tests, and `schema_extractor`.
* Malformed entries of the BrightSky queue, and the wording of notes.
* The retries and heals of a step in `OpenLibrary`: its workflows run each step
  once there; `StepRunner` shows what a retried step may do.
* In `OpenLibrary`, a page of a shelf that lists a book of another page because a
  shelf was edited meanwhile: nobody else edits the shelves during a run.
* The status `warned`: `interfaces.py:108` lists it and the reporters know it, no
  action returns it any more (`basic.py:102` says why).
* The step the bridge puts before the repeated one (`step_runner.py:617`), in
  `WebStep`: its outcome is never read, and what it does to the page is a change
  that `PageMoves` makes. `StepRunner` has it (`PreStep`).
* In `MacDomain`, refusals of the calls that bring a window to the front: their
  answers are ignored (`_ax_child.py:224-227`), and `Raises` takes it that the
  desktop does what it is asked. Another application may take the front back at
  any moment.
* The stages filter, keywords and tree of `Resolution` are atomic: a page that
  changes between two elements of one of them is not considered.

## 8. Plan

Done: `WorkflowRun`, `StepRunner`, `RunLifecycle`, `FlowActions`,
`BrightSkyVerify`, `WebStep`, `MacDomain`, `OpenLibrary`, `BrightSkyRun`,
`PlannedRun`, checked and proved.

1. `apply_heals` with the heal cache and the suggestions of subflows, which
   share one file: what a second run makes of the first one's heals.
2. Transactions of the db domain: commits that fail, under the retries of the
   runner.
3. `OpenLibrary` composed with `StepRunner`: its actions retried and healed.
