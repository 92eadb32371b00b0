------------------------------ MODULE Planning ------------------------------
(***************************************************************************)
(* From a workflow file to a checked plan, before anything opens:          *)
(* JsonFilePlanner with its includes, variables and settings               *)
(* (engine/planner/planner.py), the domains the plan needs                 *)
(* (engine/planner/domains.py), PlanValidator (engine/planner/validator.py)*)
(* and prepare_run (main.py).                                              *)
(*                                                                         *)
(* A raw step is a dict that may hold steps of its own: here a tree, a     *)
(* function from addresses to nodes, itself at << >> and the i-th step of  *)
(* the list under its `steps' key one <<i>> further down.  The data of a   *)
(* node is one templated value `param'; `shape' is where its steps are: in *)
(* "extra", "flat" beside the other keys of a step without extra, or       *)
(* "stray", beside an extra that lacks them.                               *)
(***************************************************************************)
EXTENDS Guards

CONSTANTS
  Workspaces,     \* the sets of workflow files a run may start from
  Actions,        \* the registry: action name -> [domain, does]
  DomainNames,    \* the registered domains
  Primary         \* the domain the workflow declares

ASSUME RegistryAssumption ==
  /\ Primary \in DomainNames
  /\ \A a \in DOMAIN Actions : Actions[a].domain \in STRING /\ Actions[a].does \in STRING

\* What is asked of a step: a tree that holds the path to each of its nodes,
\* and templated fields that are templates.
NodeFields ==
  {"include", "vars", "action", "described", "shape", "param", "when", "cont", "key", "path"}

IsNode(node) == DOMAIN node = NodeFields /\ node.param \in Values /\ node.vars \in Bindings

IsStep(step) ==
  /\ << >> \in DOMAIN step /\ DOMAIN step \subseteq Seq(Nat)
  /\ \A a \in DOMAIN step : IsNode(step[a]) /\ \A n \in 0..Len(a) : SubSeq(a, 1, n) \in DOMAIN step

IsList(steps) == steps \in Seq({steps[i] : i \in DOMAIN steps})

AreSteps(steps) == IsList(steps) /\ \A i \in DOMAIN steps : IsStep(steps[i])

\* A directory has finitely many files, the one named on the command line
\* among them.
ASSUME WorkspacesAssumption ==
  \A workspace \in Workspaces :
    /\ IsFiniteSet(DOMAIN workspace) /\ "main" \in DOMAIN workspace
    /\ \A path \in DOMAIN workspace :
         /\ workspace[path].variables \in Bindings /\ workspace[path].overrides \in Bindings
         /\ AreSteps(workspace[path].steps)

VARIABLES
  files,      \* path -> workflow file
  stack,      \* _expand_includes: its nested calls, the file itself first
  plan,       \* the planned steps
  checked,    \* the domains whose preflight was asked
  phase       \* "planning", "planned", "accepted", or how it ended

planVars == <<files, stack, plan, checked, phase>>

Refusals == {"raised", "invalid", "not_ready"}

(***************************************************************************)
(* JsonFilePlanner.plan                                                    *)
(***************************************************************************)

\* One call of _expand_includes: the steps still to expand, and its result.
IsCall(call) ==
  /\ DOMAIN call = {"path", "todo", "vars", "out"} /\ call.vars \in Bindings
  /\ AreSteps(call.todo) /\ AreSteps(call.out)

Call(path, steps, vars) == [path |-> path, todo |-> steps, vars |-> vars, out |-> << >>]

SubstituteNode(node, vars) ==
  [node EXCEPT !.param = Substitute(@, vars),
               !.vars  = [i \in DOMAIN @ |-> <<@[i][1], Substitute(@[i][2], vars)>>],
               !.when  = Rewritten(@, [v \in Operands(@) |-> Substitute(v, vars)])]

SubstituteStep(raw, vars) == [a \in DOMAIN raw |-> SubstituteNode(raw[a], vars)]

SubstituteAll(steps, vars) == [i \in DOMAIN steps |-> SubstituteStep(steps[i], vars)]

\* The step itself, without what it holds.
Own(raw) == raw[<< >>]

PlanInit ==
  /\ files \in Workspaces
  /\ stack = << >> /\ plan = << >> /\ checked = {}
  /\ phase = "planning"

Refuse(how) == phase' = how /\ UNCHANGED <<files, stack, plan, checked>>

\* The file's own variables give way to the caller's.  A file that is a bare
\* list has no `settings' to get.
ReadFile ==
  /\ phase = "planning" /\ stack = << >>
  /\ LET main == files["main"] IN
     IF main.bare THEN Refuse("raised")
     ELSE /\ stack' = <<Call("main", main.steps, Merged(main.variables, main.overrides))>>
          /\ UNCHANGED <<files, plan, checked, phase>>

Top == stack[Len(stack)]

Expanding == phase = "planning" /\ stack # << >> /\ Top.todo # << >>

SetTop(call) == stack' = [stack EXCEPT ![Len(stack)] = call]

KeepStep ==
  /\ Expanding /\ Own(Head(Top.todo)).include = ""
  /\ SetTop([Top EXCEPT !.todo = Tail(@), !.out = Append(@, Head(Top.todo))])
  /\ UNCHANGED <<files, plan, checked, phase>>

\* The files being included; the workflow itself is not among them.
BeingIncluded == {stack[i].path : i \in 2..Len(stack)}

IsCycle(path) == path \in BeingIncluded

\* included variables < the including file's < include.vars.  A cycle, a file
\* that is not there, or one that is a bare list, ends the planning.
Include ==
  /\ Expanding /\ Own(Head(Top.todo)).include # ""
  /\ LET step == Own(Head(Top.todo))
         path == step.include
     IN IF IsCycle(path) \/ path \notin DOMAIN files \/ files[path].bare
        THEN Refuse("raised")
        ELSE /\ stack' = Append(stack, Call(path, files[path].steps,
                                            Merged(Merged(files[path].variables, Top.vars), step.vars)))
             /\ UNCHANGED <<files, plan, checked, phase>>

Included ==
  /\ phase = "planning" /\ Len(stack) > 1 /\ Top.todo = << >>
  /\ LET caller == stack[Len(stack) - 1] IN
     stack' = Append(SubSeq(stack, 1, Len(stack) - 2),
                     [caller EXCEPT !.todo = Tail(@),
                                    !.out = @ \o SubstituteAll(Top.out, Top.vars)])
  /\ UNCHANGED <<files, plan, checked, phase>>

\* The settings of the workflow reach each step that says nothing itself.
Configured(step, settings) ==
  IF Own(step).cont = "unset" THEN [step EXCEPT ![<< >>].cont = settings] ELSE step

Planned ==
  /\ phase = "planning" /\ Len(stack) = 1 /\ Top.todo = << >>
  /\ plan' = [i \in DOMAIN Top.out |->
                Configured(SubstituteStep(Top.out[i], Top.vars), files["main"].settings)]
  /\ phase' = "planned" /\ stack' = << >>
  /\ UNCHANGED <<files, checked>>

(***************************************************************************)
(* What the plan reaches, and whether it is well formed.                   *)
(***************************************************************************)

\* dict_to_step_config: an extra wins, and without one the other keys are it.
KeepsBody(node) == node.shape # "stray"

Kept(raw) == IF KeepsBody(Own(raw)) THEN DOMAIN raw ELSE {<< >>}

\* body_of as it was first written: a step without extra has no body.
BodyInExtra(node) == node.shape = "extra"

\* body_of is to find what Kept will.
BodyOf(node) == node.shape # "stray"

Known(action) == action \in DOMAIN Actions

Dispatches(action) == Known(action) /\ Actions[action].does = "each"

DomainOf(action) == IF Known(action) THEN Actions[action].domain ELSE "none"

\* Only the steps of the plan itself.
DomainsOnTop(steps) == {DomainOf(Own(steps[i]).action) : i \in DOMAIN steps} \ {"none"}

\* _domains_in: any dict with an action, however deep.
DomainsWithin(step) == {DomainOf(step[a].action) : a \in Kept(step)}

DomainsUsed(steps) == (UNION {DomainsWithin(steps[i]) : i \in DOMAIN steps}) \ {"none"}

PlanDomains == {Primary} \cup DomainsUsed(plan)

\* plan_conditions.
Vocabulary == ConditionsOf(PlanDomains)

WhensWithin(step, registry) == UNION {UnknownKeys(step[a].when, registry) : a \in Kept(step)}

\* A body is checked if the action above it is known to dispatch one.
IsExamined(a, step) ==
  \A n \in 0..(Len(a) - 1) :
    LET above == step[SubSeq(a, 1, n)]
    IN Dispatches(above.action) /\ IF n = 0 THEN KeepsBody(above) ELSE BodyOf(above)

IsSound(step, registry) ==
  /\ \A a \in DOMAIN step : IsExamined(a, step) => Known(step[a].action) /\ step[a].described
  /\ WhensWithin(step, registry) = {}

\* build_validated_registry.  The vocabulary is merged before the validator
\* runs, so a domain nobody registered ends the planning there.
Validate ==
  /\ phase = "planned"
  /\ phase' = IF ~ PlanDomains \subseteq DomainNames THEN "raised"
              ELSE IF \A i \in DOMAIN plan : IsSound(plan[i], Vocabulary) THEN "valid" ELSE "invalid"
  /\ UNCHANGED <<files, stack, plan, checked>>

\* preflight_domains asks every one of them, whatever the others said.
Preflight ==
  /\ phase = "valid"
  /\ checked' = PlanDomains
  /\ phase' \in {"accepted", "not_ready"}
  /\ UNCHANGED <<files, stack, plan>>

PlanNext == ReadFile \/ KeepStep \/ Include \/ Included \/ Planned \/ Validate \/ Preflight

PlanTypeOK ==
  /\ files \in Workspaces
  /\ phase \in {"planning", "planned", "valid", "accepted", "running", "over"} \cup Refusals
  /\ IsList(stack) /\ \A i \in DOMAIN stack : IsCall(stack[i])
  /\ AreSteps(plan)
  /\ checked \subseteq DomainNames
=============================================================================
