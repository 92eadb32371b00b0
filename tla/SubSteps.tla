------------------------------ MODULE SubSteps ------------------------------
(***************************************************************************)
(* The actions that run other steps one after another: for_each_item,      *)
(* ensure_login and paginate (engine/actions/flow.py), run_workflow        *)
(* (engine/actions/subflow.py), and the dispatch they share                *)
(* (engine/actions/sub_step_mixin.py).  What a page, a condition, a        *)
(* session or a nested action answers is arbitrary.                        *)
(***************************************************************************)
EXTENDS ExecutionContext, FiniteSets

CONSTANTS FlowSteps     \* the flow steps a run may hold, see FlowStep

Statuses == {"passed", "failed", "skipped", "warned"}

FlowKinds == {"for_each_item", "ensure_login", "paginate", "run_workflow"}

\* A sub-step: whether the registry knows its action, whether it has a `when',
\* and what it does: "page" leaves the context alone, the others fill it.
SubStep == [known : BOOLEAN, guarded : BOOLEAN, does : {"page", "extract_data", "load_test_data"}]

\* How paginate turns a page: a missing configuration, by URL or by a button.
Turns == {"none", "url", "button"}

FlowStep == [kind : FlowKinds, subs : Seq(SubStep), check_url : BOOLEAN,
             extract : ExtractConfig, turns : Turns, max_pages : Nat, max_items : Nat]

ASSUME FlowAssumption == FlowSteps \subseteq FlowStep

VARIABLES
  step,       \* the flow step
  place,      \* where its _execute is
  frame,      \* its locals, see Frame
  log,        \* history: what became of each sub-step, <<round, index, how>>
  settled     \* the result of the step: a status, "raised", or "none"

subVars == <<step, place, frame, log, settled>>

Places == {"start", "check", "dispatch", "results", "return", "page", "turn", "done"}

\* `items' is the list for_each_item read at its start; `round' the item, or 1;
\* `next' the sub-step to dispatch; `got' what _run_sub_steps will return;
\* `failures' what is to be reported; `page' and `rows' belong to paginate.
Frame == [items : Nat, round : Nat, next : Nat, got : Seq(Statuses),
          failures : Seq(Nat), page : Nat, rows : Seq(Sources)]

NewFrame == [items |-> 0, round |-> 1, next |-> 1, got |-> << >>,
             failures |-> << >>, page |-> 1, rows |-> << >>]

How == Statuses \cup {"unguarded", "raised"}

FlowTypeOK ==
  /\ step \in FlowSteps
  /\ place \in Places
  /\ frame \in Frame
  /\ log \in Seq(Nat \X Nat \X How)
  /\ settled \in Statuses \cup {"none", "raised"}

Settle(status) ==
  /\ place' = "done"
  /\ settled' = status
  /\ UNCHANGED <<step, log>>

GoTo(p) ==
  /\ place' = p
  /\ UNCHANGED <<step, settled>>

(***************************************************************************)
(* _run_sub_steps.                                                         *)
(***************************************************************************)

Stops == step.kind = "ensure_login"        \* stop_on_failure

AtSub == place = "dispatch" /\ frame.next <= Len(step.subs)

Sub == step.subs[frame.next]

Noted(how) == log' = Append(log, <<frame.round, frame.next, how>>)

\* Only a `when' that is evaluated to false skips: one that raises lets the
\* sub-step run.  A skipped sub-step leaves no result.
SubSkipped ==
  /\ AtSub /\ Sub.guarded
  /\ Noted("unguarded")
  /\ frame' = [frame EXCEPT !.next = @ + 1]
  /\ GoTo("dispatch")
  /\ UNCHANGED ctx

\* The defect the docstring of ForEachItemAction reports: logged and dropped.
SubRaisesUnheard ==
  /\ AtSub
  /\ Noted("raised")
  /\ frame' = [frame EXCEPT !.round = @ + 1, !.next = 1, !.got = << >>]
  /\ GoTo("return")
  /\ UNCHANGED ctx

\* The action is unknown, its session cannot be opened, or it raises.
\* for_each_item counts the item and goes on to the next; ensure_login fails.
SubRaises ==
  /\ AtSub
  /\ Noted("raised")
  /\ IF step.kind = "for_each_item"
     THEN /\ frame' = [frame EXCEPT !.failures = Append(@, frame.round), !.round = @ + 1,
                                    !.next = 1, !.got = << >>]
          /\ GoTo("return")
     ELSE place' = "done" /\ settled' = "failed" /\ UNCHANGED <<step, frame>>
  /\ UNCHANGED ctx

AnswersOf(sub) ==
  CASE sub.does = "page" -> {[status |-> s, ctx |-> ctx] : s \in Statuses}
    [] sub.does = "extract_data" -> ExtractData(ctx, step.extract, "step")
    [] sub.does = "load_test_data" -> {a \in LoadTestData(ctx, "step") : a.status # "raised"}

SubReturns ==
  /\ AtSub /\ Sub.known
  /\ \E a \in AnswersOf(Sub) :
       /\ Noted(a.status)
       /\ ctx' = a.ctx
       /\ frame' = [frame EXCEPT !.got = Append(@, a.status), !.next = @ + 1]
       /\ GoTo(IF Stops /\ a.status # "passed" THEN "results" ELSE "dispatch")

SubsDone ==
  /\ place = "dispatch" /\ frame.next > Len(step.subs)
  /\ GoTo("results")
  /\ UNCHANGED <<frame, log, ctx>>

(***************************************************************************)
(* for_each_item.                                                          *)
(***************************************************************************)

\* The list is read once: a sub-step that collects anew does not change it.
\* With none collected, the legacy attribute of the page may still hold some.
ForEachStarts ==
  /\ place = "start" /\ step.kind = "for_each_item"
  /\ \E n \in (IF ctx.collected = << >> THEN 0..MaxFound ELSE {Len(ctx.collected)}) :
       frame' = [frame EXCEPT !.items = n]
  /\ GoTo("return")
  /\ UNCHANGED <<log, ctx>>

NextItem ==
  /\ place = "return" /\ step.kind = "for_each_item"
  /\ IF frame.round <= frame.items
     THEN GoTo("dispatch") /\ UNCHANGED log
     ELSE Settle(IF frame.failures = << >> THEN "passed" ELSE "failed")
  /\ UNCHANGED <<frame, ctx>>

FailedOf(got) == {i \in DOMAIN got : got[i] = "failed"}

ItemDone ==
  /\ place = "results" /\ step.kind = "for_each_item"
  /\ frame' = [frame EXCEPT !.failures = @ \o [i \in 1..Cardinality(FailedOf(frame.got)) |-> frame.round],
                            !.round = @ + 1, !.next = 1, !.got = << >>]
  /\ GoTo("return")
  /\ UNCHANGED <<log, ctx>>

(***************************************************************************)
(* ensure_login.                                                           *)
(***************************************************************************)

\* Both ways of loading the page to check may fail, the second one raises.
LoginCheckLoads ==
  /\ place = "start" /\ step.kind = "ensure_login"
  /\ GoTo("check")
  /\ UNCHANGED <<frame, log, ctx>>

LoginCheckRaises ==
  /\ place = "start" /\ step.kind = "ensure_login" /\ step.check_url
  /\ Settle("raised")
  /\ UNCHANGED <<frame, ctx>>

\* The URL, the selector or the lack of both decide; there may be no way to log in.
AlreadyLoggedIn ==
  /\ place = "check"
  /\ Settle("passed")
  /\ UNCHANGED <<frame, ctx>>

MustLogIn ==
  /\ place = "check"
  /\ IF step.subs = << >> THEN Settle("failed") ELSE GoTo("dispatch") /\ UNCHANGED log
  /\ UNCHANGED <<frame, ctx>>

LoginVerdict(got) == \A i \in DOMAIN got : got[i] = "passed"

LoginDone ==
  /\ place = "results" /\ step.kind = "ensure_login"
  /\ IF ~LoginVerdict(frame.got) THEN Settle("failed")
     ELSE \/ Settle("passed")
          \/ step.check_url /\ Settle("raised")
  /\ UNCHANGED <<frame, ctx>>

(***************************************************************************)
(* paginate.                                                               *)
(***************************************************************************)

\* Without what it needs, or with limits that are no numbers, the step fails.
PaginateStarts ==
  /\ place = "start" /\ step.kind = "paginate"
  /\ \/ Settle("failed")
     \/ /\ step.extract.selector /\ step.turns # "none"
        /\ GoTo("page") /\ UNCHANGED log
  /\ UNCHANGED <<frame, ctx>>

HasRoom == Len(frame.rows) < step.max_items /\ frame.page <= step.max_pages

\* Every page asked for as much as the first.
WantedAnew == [step.extract EXCEPT !.limit = Upto(@, step.max_items)]

\* The limit handed to extract_data shrinks with the rows still wanted.
Wanted == [step.extract EXCEPT !.limit = Upto(@, step.max_items - Len(frame.rows))]

\* A failed extraction adds nothing and is no failure of the step; a passed one
\* adds what the context then holds under extracted_data.
ReadPage ==
  /\ place = "page" /\ HasRoom
  /\ \E a \in ExtractData(ctx, Wanted, "step") :
       /\ ctx' = a.ctx
       /\ frame' = [frame EXCEPT !.rows = IF a.status = "passed" THEN @ \o a.ctx.extracted ELSE @]
  /\ GoTo("turn")
  /\ UNCHANGED log

Paginated ==
  /\ ctx' = [ctx EXCEPT !.paginated = frame.rows]
  /\ Settle("passed")

PagesRead ==
  /\ place = "page" /\ ~HasRoom
  /\ Paginated
  /\ UNCHANGED frame

PageTurned ==
  /\ place = "turn" /\ Len(frame.rows) < step.max_items
  /\ frame' = [frame EXCEPT !.page = @ + 1]
  /\ GoTo("page")
  /\ UNCHANGED <<log, ctx>>

\* The page number counted once for the URL that was tried, whether or not it
\* was reached; a button that is off is no next page.
LastPage ==
  /\ place = "turn"
  /\ Paginated
  /\ frame' = [frame EXCEPT !.page =
                 IF step.turns = "url" /\ Len(frame.rows) < step.max_items THEN @ + 1 ELSE @]

(***************************************************************************)
(* run_workflow: the nested run is a runner's own.                         *)
(***************************************************************************)

\* Unbound, without a path, without the file, or with something that is no list.
SubflowRefused ==
  /\ place = "start" /\ step.kind = "run_workflow"
  /\ Settle("failed")
  /\ UNCHANGED <<frame, ctx>>

\* Bad JSON raises, and so may the nested run.
SubflowRaises ==
  /\ place \in {"start", "dispatch"} /\ step.kind = "run_workflow"
  /\ Settle("raised")
  /\ UNCHANGED <<frame, ctx>>

SubflowStarts ==
  /\ place = "start" /\ step.kind = "run_workflow"
  /\ GoTo("dispatch")
  /\ UNCHANGED <<frame, log, ctx>>

SubflowStep(status) ==
  /\ AtSub
  /\ Noted(status)
  /\ frame' = [frame EXCEPT !.got = Append(@, status), !.next = @ + 1]
  /\ \/ GoTo("dispatch")
     \/ status = "failed" /\ GoTo("results")     \* no continue_on_failure
  /\ UNCHANGED ctx

SubflowDone ==
  /\ place = "results" /\ step.kind = "run_workflow"
  /\ Settle(IF FailedOf(frame.got) # {} THEN "failed" ELSE "passed")
  /\ UNCHANGED <<frame, ctx>>

Dispatch ==
  \/ step.kind \in {"for_each_item", "ensure_login"} /\ (SubSkipped \/ SubRaises \/ SubReturns)
  \/ step.kind = "run_workflow" /\ \E status \in Statuses : SubflowStep(status)
  \/ SubsDone

SubInit ==
  /\ step \in FlowSteps
  /\ place = "start"
  /\ frame = NewFrame
  /\ log = << >>
  /\ settled = "none"

SubNext ==
  \/ Dispatch
  \/ ForEachStarts \/ NextItem \/ ItemDone
  \/ LoginCheckLoads \/ LoginCheckRaises \/ AlreadyLoggedIn \/ MustLogIn \/ LoginDone
  \/ PaginateStarts \/ ReadPage \/ PagesRead \/ PageTurned \/ LastPage
  \/ SubflowRefused \/ SubflowRaises \/ SubflowStarts \/ SubflowDone

(***************************************************************************)
(* Properties.                                                             *)
(***************************************************************************)

\* A flow step that passes ran no sub-step that failed or raised, and a login
\* none that did anything but pass: continuing past a failure is not reporting
\* it passed (the docstring of ForEachItemAction).
FailuresSurface ==
  settled = "passed" =>
    \A i \in DOMAIN log :
      /\ log[i][3] \notin {"failed", "raised"}
      /\ step.kind = "ensure_login" => log[i][3] \in {"passed", "unguarded"}

\* A loop that is over dispatched every sub-step of every item it was given, up
\* to one that raised: a bad item does not abandon the rest of the collection.
EveryItemIsTried ==
  (step.kind = "for_each_item" /\ place = "done") =>
    \A item \in 1..frame.items, k \in 1..Len(step.subs) :
      \E i \in DOMAIN log :
        \/ log[i][1] = item /\ log[i][2] = k
        \/ log[i][1] = item /\ log[i][2] < k /\ log[i][3] = "raised"

\* max_items bounds the total and max_pages the pages, provided that
\* extract_data stores where paginate looks.
PaginatedWithinBounds ==
  (step.kind = "paginate" /\ step.extract.key = "extracted_data") =>
    /\ Len(frame.rows) <= step.max_items
    /\ frame.page <= step.max_pages + 1

\* A loop goes through all it was given, and no further than it may.
LoopsKeepTheirBounds == EveryItemIsTried /\ PaginatedWithinBounds

\* The step gets its result: no loop over items, sub-steps or pages goes on for
\* ever (max_pages, the collection and the list of sub-steps are finite).
FlowSettles == <>(place = "done")
=============================================================================
