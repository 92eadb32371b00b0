----------------------------- MODULE PlannedRun -----------------------------
(***************************************************************************)
(* A checked plan is run: the passes that resolve a step's references, its *)
(* guard, its action and its session (engine/runner/step_runner.py), the   *)
(* loops and subflows that run steps of their own                          *)
(* (engine/actions/flow.py, sub_step_mixin.py, subflow.py), and the db     *)
(* domain (sites/db), whose rows outlive the step.  There is no healer and *)
(* no retry here: StepRunner models them.  What a page answers is          *)
(* arbitrary.                                                              *)
(***************************************************************************)
EXTENDS Planning

CONSTANTS
  Items,      \* the URLs collected before the loop
  Scraped,    \* what `store' may read off the page
  Counts,     \* the numbers a query may answer
  MaxDepth    \* bound on runs within runs: a subflow may start itself

ASSUME AnswersAssumption ==
  /\ Items \in Seq(Values) /\ Scraped \subseteq Values
  /\ \A count \in Counts : count \in Values /\ count.type = "int" /\ Names(count) = {}

VARIABLES
  calls,      \* the lists of steps being run, the plan first
  counts,     \* ExecutionContext.counts
  data,       \* ExecutionContext._data
  table,      \* the rows of the database, and what each was to hold
  opened,     \* the domains whose session is open
  log         \* history: what became of each step that was reached

runVars == <<calls, counts, data, table, opened, log>>

vars == <<planVars, runVars>>

\* A list of steps being run: a "run" of StepRunner or the body of a loop
\* ("each"), at its next step, in which round; whether a step of it failed.
List(kind, steps, depth) ==
  [kind |-> kind, steps |-> steps, next |-> 1, round |-> 1, failed |-> FALSE, sub |-> depth]

Init ==
  /\ PlanInit
  /\ calls = << >>
  /\ counts = << >> /\ data = << >> /\ table = << >>
  /\ opened = {} /\ log = << >>

\* build_pipeline opens the primary session before the first step.
Start ==
  /\ phase = "accepted"
  /\ phase' = "running"
  /\ calls' = <<List("run", plan, FALSE)>>
  /\ opened' = {Primary}
  /\ UNCHANGED <<files, stack, plan, checked, counts, data, table, log>>

(***************************************************************************)
(* The step that is next, and what its references become.                  *)
(***************************************************************************)

Running == phase = "running"

Current == calls[Len(calls)]

Replace(call) == [calls EXCEPT ![Len(calls)] = call]

AtStep == Running /\ Current.next \in DOMAIN Current.steps

Raw == Current.steps[Current.next]

\* ExecutionContext.get: a counter hides a stored value of the same name.
Read == [name \in DOMAIN counts \cup DOMAIN data |->
           IF name \in DOMAIN counts THEN counts[name] ELSE data[name]]

Bind(known, key, value) ==
  [name \in DOMAIN known \cup {key} |-> IF name = key THEN value ELSE known[name]]

\* What for_each_item binds for a round.
LoopNames == {"item_url"}

LoopBinds == [name \in LoopNames |-> Items[Current.round]]

TextsOf(node) ==
  {node.param} \cup {node.vars[j][2] : j \in DOMAIN node.vars} \cup Operands(node.when)

\* _TEMPLATED_FIELDS of a step: `extra' among them, with its steps in it.
FieldsOf(step) == UNION {TextsOf(step[a]) : a \in Kept(step)}

ResolveNode(node, known) ==
  [node EXCEPT !.param = Resolve(@, known),
               !.vars  = [i \in DOMAIN @ |-> <<@[i][1], Resolve(@[i][2], known)>>],
               !.when  = Rewritten(@, [v \in Operands(@) |-> Resolve(v, known)])]

ResolveStep(raw, known) == [a \in DOMAIN raw |-> ResolveNode(raw[a], known)]

InRun == Current.kind = "run"

\* Strict before a step of a run, forgiving before a step of a loop.
Unresolved == IF InRun THEN UNION {Missing(v, Read) : v \in FieldsOf(Raw)} ELSE {}

Resolved == ResolveStep(Raw, IF InRun THEN Read ELSE LoopBinds)

Step == Own(Resolved)

Noted(how, names) == log' = Append(log, [how |-> how, names |-> names, sub |-> Current.sub])

\* A failed step ends a run unless it is to continue; a loop goes on.
After(ok) ==
  [Current EXCEPT !.failed = @ \/ ~ ok,
                  !.next = IF ok \/ ~ InRun \/ Own(Raw).cont = "yes" THEN @ + 1 ELSE Len(Current.steps) + 1]

Unchanged == UNCHANGED <<planVars, counts, data, table>>

StepUnresolved ==
  /\ AtStep /\ Unresolved # {}
  /\ calls' = Replace(After(FALSE))
  /\ Noted("unresolved", Unresolved)
  /\ UNCHANGED opened /\ Unchanged

(***************************************************************************)
(* The guard, the action and its session.                                  *)
(***************************************************************************)

Answers == [{"url_contains", "element_exists", "db_row_exists"} -> {"yes", "no", "raises"}]

\* A guard that raises lets the step run, in the runner and in a loop alike.
GuardSays(verdicts, asked) ==
  \E answers \in Answers :
    LET r == Evaluate(Step.when, Vocabulary, Read, answers)
    IN r.says \in verdicts /\ asked = r.asks

Asks == SUBSET DomainNames

StepSkipped ==
  /\ AtStep /\ Unresolved = {}
  /\ \E asked \in Asks :
       /\ GuardSays({"no"}, asked)
       /\ opened' = opened \cup asked
  /\ calls' = Replace(After(TRUE))
  /\ Noted("skipped", {})
  /\ Unchanged

UnknownGuard == UnknownKeys(Step.when, Vocabulary) # {}

Action == Actions[Step.action]

\* The factory knows the action, and the run has a session of its domain.
CanAct == Known(Step.action) /\ Action.domain \in DomainNames \cup {"none"}

\* The run counts a failed step; the loop gives up the item.
CannotAct ==
  /\ AtStep /\ Unresolved = {} /\ ~ CanAct
  /\ \E asked \in Asks :
       /\ GuardSays({"yes", "raises"}, asked)
       /\ opened' = opened \cup asked
  /\ calls' = Replace(IF InRun THEN After(FALSE)
                      ELSE [Current EXCEPT !.failed = TRUE, !.next = Len(Current.steps) + 1])
  /\ Noted("unknown", {})
  /\ Unchanged

\* The step is given its own domain's session, opened on first use.
Reached ==
  /\ AtStep /\ Unresolved = {} /\ CanAct
  /\ \E asked \in Asks :
       /\ GuardSays({"yes", "raises"}, asked)
       /\ opened' = opened \cup asked \cup ({Action.domain} \ {"none"})
  /\ Noted(IF UnknownGuard THEN "unknown" ELSE "reached", {})

\* An action of a page, which changes nothing here.
PageActs ==
  /\ Reached /\ Action.does = "page"
  /\ \E ok \in BOOLEAN : calls' = Replace(After(ok))
  /\ Unchanged

\* store puts what it reads off the page beside the counters.
PageStores ==
  /\ Reached /\ Action.does = "store"
  /\ \E value \in Scraped : data' = Bind(data, Step.key, value)
  /\ calls' = Replace(After(TRUE))
  /\ UNCHANGED <<planVars, counts, table>>

(***************************************************************************)
(* The db domain: resolve_params, then the statement.  Nothing unresolved  *)
(* is bound, and any error is a failed step.                               *)
(***************************************************************************)

Bound == Resolve(Step.param, Read)

Bindable == Missing(Step.param, Read) = {}

DbExecutes ==
  /\ Reached /\ Action.does = "execute"
  /\ \/ Bindable /\ table' = Append(table, Bound) /\ calls' = Replace(After(TRUE))
     \/ table' = table /\ calls' = Replace(After(FALSE))
  /\ UNCHANGED <<planVars, counts, data>>

\* The first column of the first row: here a count, or what a row holds.  A
\* whole number becomes a counter, anything else a stored value.
DbQueries ==
  /\ Reached /\ Action.does = "query"
  /\ \/ /\ Bindable
        /\ \E value \in Counts \cup {table[i] : i \in DOMAIN table} :
             IF value.type = "int"
             THEN counts' = Bind(counts, Step.key, value) /\ UNCHANGED data
             ELSE data' = Bind(data, Step.key, value) /\ UNCHANGED counts
        /\ calls' = Replace(After(TRUE))
     \/ calls' = Replace(After(FALSE)) /\ UNCHANGED <<counts, data>>
  /\ UNCHANGED <<planVars, table>>

\* Exactly one row is expected.
DbAsserts ==
  /\ Reached /\ Action.does = "check"
  /\ LET rows == {i \in DOMAIN table : table[i] = Bound} IN
     calls' = Replace(After(Bindable /\ Cardinality(rows) = 1))
  /\ Unchanged

(***************************************************************************)
(* Steps that run steps.                                                   *)
(***************************************************************************)

\* The steps a step holds, each a tree of its own.
Held(step) == {a \in Kept(step) : a # << >>}

Body(step) ==
  [i \in {Head(a) : a \in Held(step)} |->
    [b \in {Tail(a) : a \in {c \in Held(step) : Head(c) = i}} |-> step[<<i>> \o b]]]

LoopStarts ==
  /\ Reached /\ Action.does = "each"
  /\ calls' = IF Items = << >> THEN Replace(After(TRUE))
              ELSE Append(calls, List("each", Body(Resolved), Current.sub))
  /\ Unchanged

\* The file is read now: its includes are not expanded, nothing is validated,
\* and its variables give way to the step's vars.
SubflowStarts ==
  /\ Reached /\ Action.does = "subflow" /\ Len(calls) < MaxDepth
  /\ calls' = IF Step.path \notin DOMAIN files THEN Replace(After(FALSE))
              ELSE Append(calls, List("run",
                     SubstituteAll(files[Step.path].steps,
                                   Merged(files[Step.path].variables, Step.vars)), TRUE))
  /\ Unchanged

AtEnd == Running /\ Current.next \notin DOMAIN Current.steps

NextItem ==
  /\ AtEnd /\ Current.kind = "each" /\ Current.round < Len(Items)
  /\ calls' = Replace([Current EXCEPT !.round = @ + 1, !.next = 1])
  /\ UNCHANGED <<opened, log>> /\ Unchanged

\* The list is through: the step that started it passed if nothing in it
\* failed.
Returns ==
  /\ AtEnd /\ (Current.kind = "each" => Current.round >= Len(Items))
  /\ IF Len(calls) = 1
     THEN calls' = << >> /\ phase' = "over"
     ELSE LET caller == calls[Len(calls) - 1]
              ok     == ~ Current.failed
              goesOn == ok \/ caller.kind = "each" \/ Own(caller.steps[caller.next]).cont = "yes"
          IN /\ calls' = Append(SubSeq(calls, 1, Len(calls) - 2),
                 [caller EXCEPT !.failed = @ \/ ~ ok,
                                !.next = IF goesOn THEN @ + 1 ELSE Len(caller.steps) + 1])
             /\ UNCHANGED phase
  /\ UNCHANGED <<files, stack, plan, checked, opened, log, counts, data, table>>

RunNext ==
  \/ Start \/ StepUnresolved \/ StepSkipped \/ CannotAct
  \/ PageActs \/ PageStores \/ DbExecutes \/ DbQueries \/ DbAsserts
  \/ LoopStarts \/ SubflowStarts \/ NextItem \/ Returns

Next == (PlanNext /\ UNCHANGED runVars) \/ RunNext

Spec == Init /\ [][Next]_vars

(***************************************************************************)
(* Properties                                                              *)
(***************************************************************************)

Lists == {"kind", "steps", "next", "round", "failed", "sub"}

\* Types: of a list that is being run, and of the run.
IsRunning(list) ==
  /\ DOMAIN list = Lists /\ list.kind \in {"run", "each"} /\ list.sub \in BOOLEAN
  /\ list.kind = "each" => list.round \in DOMAIN Items
  /\ \A i \in DOMAIN list.steps : IsStep(list.steps[i])

TypeOK ==
  /\ PlanTypeOK
  /\ IsList(calls) /\ \A i \in DOMAIN calls : IsRunning(calls[i])
  /\ opened \subseteq DomainNames
  /\ table \in Seq(Values)
  /\ \A name \in DOMAIN Read : Read[name] \in Values
  /\ IsList(log)

\* What validate_plan promises: a plan it let through never names, at run
\* time, an action the factory does not have, a domain the run has no session
\* for or a condition no domain registered, however deep in a loop's body and
\* in whatever shape that was written; only a subflow, read later, may.
ValidPlansDispatch ==
  \A i \in DOMAIN log : log[i].how = "unknown" => log[i].sub

\* prepare_run checks every domain the run will open before any opens: a
\* session that a step, a step of a loop or a guard has opened is of a domain
\* whose preflight was asked, unless a subflow opened it.
NothingUncheckedIsOpened ==
  opened \subseteq checked \/ \E i \in DOMAIN log : log[i].sub

\* The references a page may show.
Shown == UNION {Names(value) : value \in Scraped}

\* The failure the db domain was built around (sites/db/params.py): a
\* reference nobody resolved is written as it stands, and a check against the
\* same reference agrees.  No row and no stored value holds one, whichever of
\* the four passes the text went through, but what a page itself showed.
NoReferenceIsStored ==
  /\ \A i \in DOMAIN table : Names(table[i]) \subseteq Shown
  /\ \A name \in DOMAIN Read : Names(Read[name]) \subseteq Shown

\* _expand_includes finds every cycle of files: the calls never nest deeper
\* than there are files to include, on top of the workflow itself.
IncludesNest == Len(stack) <= 1 + Cardinality(DOMAIN files)

\* A plan that was let through can be run: its includes end, and it names only
\* actions and conditions there are.
AcceptedPlansAreSound == IncludesNest /\ ValidPlansDispatch

\* ForEachItemAction documents {{item_url}} for its sub-steps
\* (engine/actions/flow.py): no step fails because only that is unresolved.
LoopVariablesAreBound ==
  \A i \in DOMAIN log : log[i].how = "unresolved" => ~ log[i].names \subseteq LoopNames
=============================================================================
