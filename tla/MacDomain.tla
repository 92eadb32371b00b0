------------------------------ MODULE MacDomain ------------------------------
(***************************************************************************)
(* One step of the mac domain (sites/mac): the actions of mac_page.py, the *)
(* child processes MacHandle runs for them (session.py, _ax_child.py), and *)
(* the desktop, which the user and the applications go on changing while   *)
(* the step looks, clicks and checks.                                      *)
(*                                                                         *)
(* The screen is a line of points.  Every application has one window,      *)
(* Width points wide, and the window of the front application is on top.   *)
(***************************************************************************)
EXTENDS Naturals, Sequences, FiniteSets

CONSTANTS
  MacSteps,       \* the steps a run may hold, see MacStep
  Contents,       \* what a window may show: sequences of Element
  MaxPosition,    \* the points at which a window may begin: 0..MaxPosition
  MaxMoves,       \* bound on the changes the user makes during the step
  MaxPolls        \* bound on the polls of a lookup and of an expectation

Width == 2

Apps == {"named", "other"}

Expectations == {"front_app", "title", "element"}

Kinds == {"mac_run_script", "mac_click", "mac_type", "mac_keypress", "mac_drag", "mac_screenshot"}

\* An element whose label is the text looked for, contains it, or does not;
\* `at' is its centre, from the left of its window (Width or more: scrolled
\* out of sight), `drawn' whether it has a size.
Element == [label : {"exact", "contains", "other"}, at : Nat, drawn : BOOLEAN]

\* extra of a step.  `valid' abstracts what the action asks of its own keys, see
\* Refused; `wait' and `patience' are element.wait_s and expect.timeout_s in
\* polls, `odd' those that are no number; `tries' is the attempts the runner gives it.
MacStep ==
  [kind : Kinds, valid : BOOLEAN, confirm : BOOLEAN, aim : {"element", "window", "screen"},
   at : Nat, match : {"exact", "contains", "neither"}, app : BOOLEAN, raise : BOOLEAN,
   wait : 0..MaxPolls, expect : SUBSET Expectations,
   patience : 0..MaxPolls, odd : SUBSET {"wait_s", "timeout_s"}, tries : Nat \ {0}]

ASSUME MacAssumption ==
  /\ MacSteps \subseteq MacStep
  /\ Contents \subseteq Seq(Element)
  /\ MaxPosition \in Nat /\ MaxMoves \in Nat /\ MaxPolls \in Nat

VARIABLES
  desk,      \* the desktop, see Desktop
  step,      \* the step
  place,     \* where its execution is
  child,     \* the child process it waits for, see Child
  point,     \* [x, app]: where the mouse is to go, in whose window
  trial,     \* [attempt, polls] of this attempt
  outcome,   \* the result of the last attempt
  history    \* what happened so far, for the properties, see History

vars == <<desk, step, place, child, point, trial, outcome, history>>

\* `trees' are the applications whose AXEnhancedUserInterface is on, `titled'
\* those whose window title contains what the step expects.
Desktop ==
  [front : Apps, from : [Apps -> 0..MaxPosition], shows : [Apps -> Contents],
   titled : SUBSET Apps, trees : SUBSET Apps, held : BOOLEAN, moves : 0..MaxMoves]

Nowhere == MaxPosition + 100

Programs == {"find", "frame", "front", "expected", "mouse", "script", "screenshot"}

Stages == {"app", "raise", "window", "pick", "poll", "press", "release", "answered"}

\* `app' is the application the child found, `frame' the left of the window it
\* read, `was_on' what it has to restore, `got' and `x' what it printed.
Child ==
  [does : Programs, stage : Stages, app : Apps, frame : Nat, was_on : BOOLEAN,
   polls : Nat, got : {"no", "hidden", "ok"}, x : Nat]

\* Where a click, a key or a script of which attempt went, whether it was aimed
\* at the window of `app', and whether the desktop was stirred before.
Act ==
  [at : Apps \cup {"nothing"}, app : Apps, aimed : BOOLEAN, stirred : BOOLEAN, attempt : Nat]

\* `stirred': the user changed the desktop since the lookup began; `cut': a
\* child ended before it was through; `trees': what was on at first; `met':
\* the expectations that held at some time since the last of the acts.
History ==
  [stirred : BOOLEAN, cut : BOOLEAN, trees : SUBSET Apps, acts : Seq(Act), met : SUBSET Expectations]

TypeOK ==
  /\ desk \in Desktop /\ step \in MacSteps /\ child \in Child /\ history \in History
  /\ place \in {"preflight", "start", "aiming", "acting", "checking", "looking", "done", "refused"}
  /\ point \in [x : Nat, app : Apps]
  /\ trial \in [attempt : 1..step.tries, polls : 0..MaxPolls]
  /\ outcome \in {"none", "passed", "failed", "raised"}

(***************************************************************************)
(* The desktop.                                                            *)
(***************************************************************************)

InWindow(d, app, x) == x \in d.from[app] .. (d.from[app] + Width - 1)

\* The window a click at x goes to.
Under(d, x) ==
  IF InWindow(d, d.front, x) THEN d.front
  ELSE IF \E app \in Apps : InWindow(d, app, x) THEN CHOOSE app \in Apps : InWindow(d, app, x)
  ELSE "nothing"

\* pick: the first element with the exact label, else the first that contains
\* it; one without a size is no candidate.  {} if there is none.
Pick(shows, match) ==
  LET First(label) ==
        {i \in DOMAIN shows : /\ shows[i].drawn /\ shows[i].label = label
                              /\ \A j \in 1..(i - 1) : ~(shows[j].drawn /\ shows[j].label = label)}
  IN IF First("exact") # {} THEN First("exact")
     ELSE IF match = "contains" THEN First("contains") ELSE {}

Held(d) ==
  (IF d.front = "named" THEN {"front_app"} ELSE {})
  \cup (IF d.front \in d.titled THEN {"title"} ELSE {})
  \cup (IF \E app \in Apps : Pick(d.shows[app], "contains") # {} THEN {"element"} ELSE {})

Acting == place \in {"acting", "checking", "looking"}

Becomes(d, h) ==
  /\ desk' = d
  /\ history' = [h EXCEPT !.met = IF Acting THEN @ \cup Held(d) ELSE @]

\* The desktop with another window in front, elsewhere, with other contents, or
\* with other titles.
Moved ==
  {[desk EXCEPT !.front = app] : app \in Apps}
  \cup {[desk EXCEPT !.from = [@ EXCEPT ![app] = x]] : app \in Apps, x \in 0..MaxPosition}
  \cup {[desk EXCEPT !.shows = [@ EXCEPT ![app] = c]] : app \in Apps, c \in Contents}
  \cup {[desk EXCEPT !.titled = apps] : apps \in SUBSET Apps}

\* The user, or an application, changes what is there.
DeskMoves ==
  /\ place \notin {"preflight", "done", "refused"}
  /\ desk.moves < MaxMoves
  /\ \E d \in Moved \ {desk} :
       Becomes([d EXCEPT !.moves = @ + 1], [history EXCEPT !.stirred = TRUE])
  /\ UNCHANGED <<step, place, child, point, trial, outcome>>

\* An application asked for its web tree lists more once it has built it.
TreeIsBuilt ==
  /\ child.stage = "poll" /\ child.app \in desk.trees
  /\ \E c \in Contents : Becomes([desk EXCEPT !.shows = [@ EXCEPT ![child.app] = c]], history)
  /\ UNCHANGED <<step, place, child, point, trial, outcome>>

(***************************************************************************)
(* The children.  Each step below is what one does between two calls of    *)
(* the system.                                                             *)
(***************************************************************************)

Runs(does, stage) ==
  child' = [does |-> does, stage |-> stage, app |-> "named", frame |-> Nowhere,
            was_on |-> FALSE, polls |-> 0, got |-> "no", x |-> 0]

ChildOnly == UNCHANGED <<step, place, point, trial, outcome>>

Prints(got, x) == child' = [child EXCEPT !.stage = "answered", !.got = got, !.x = x]

InLookup(stage) == child.does \in {"find", "frame", "front", "expected"} /\ child.stage = stage

ByName == IF child.does = "expected" THEN "front_app" \in step.expect
          ELSE child.does # "front" /\ step.app

\* Bad arguments, no API, no permission, no such application, or no window.
LookupRefused ==
  /\ InLookup("app") \/ InLookup("window")
  /\ Prints("no", 0)
  /\ UNCHANGED <<desk, history>> /\ ChildOnly

FindsApp ==
  /\ InLookup("app")
  /\ child.does = "find" => step.match # "neither"
  /\ LET app == IF ByName THEN "named" ELSE desk.front
         next == CASE child.does = "front" -> "answered"
                   [] child.does \in {"find", "frame"} /\ step.raise -> "raise"
                   [] OTHER -> "window"
     IN child' = [child EXCEPT !.app = app, !.stage = next, !.got = "ok",
                               !.x = IF app \in desk.titled THEN 1 ELSE 0]
  /\ UNCHANGED <<desk, history>> /\ ChildOnly

\* The desktop does what it is asked, though AXRaise and AXFrontmost may be
\* refused and their answers are not read; another application may take the
\* front back at once (DeskMoves).
Raises ==
  /\ InLookup("raise")
  /\ child' = [child EXCEPT !.stage = "window"]
  /\ Becomes([desk EXCEPT !.front = child.app], history)
  /\ ChildOnly

\* The window as it is after it was raised.  find goes on without its position.
ReadsWindow ==
  /\ InLookup("window")
  /\ IF child.does = "frame"
     THEN Prints("ok", desk.from[child.app])
     ELSE \E frame \in {desk.from[child.app], Nowhere} :
            child' = [child EXCEPT !.stage = "pick", !.frame = frame]
  /\ UNCHANGED <<desk, history>> /\ ChildOnly

Sought == IF child.does = "expected" THEN "contains" ELSE step.match

Hits == Pick(desk.shows[child.app], Sought)

CentreOf(i) == desk.from[child.app] + desk.shows[child.app][i].at

Visible(x) == child.frame # Nowhere /\ x \in child.frame .. (child.frame + Width - 1)

\* A lookup that takes any hit for one to click at.
PrintsAnyHit(i) == Prints("ok", CentreOf(i))

PrintsHit(i) == Prints(IF Visible(CentreOf(i)) THEN "ok" ELSE "hidden", CentreOf(i))

Picks ==
  /\ InLookup("pick")
  /\ IF Hits # {}
     THEN /\ \E i \in Hits : PrintsHit(i)
          /\ UNCHANGED <<desk, history>>
     ELSE /\ child' = [child EXCEPT !.stage = "poll", !.was_on = child.app \in desk.trees]
          /\ Becomes([desk EXCEPT !.trees = @ \cup {child.app}], history)
  /\ ChildOnly

\* undo, in the finally of the search.
Restored == IF child.was_on THEN desk.trees ELSE desk.trees \ {child.app}

\* A search that puts the setting back only when it was worth it.
RestoredIfFound == IF Hits # {} THEN Restored ELSE desk.trees

AfterSearch == Restored

Wait == IF child.does = "expected" THEN 0 ELSE step.wait

\* The window is searched again, until there is a hit or the deadline passes.
PollsAgain ==
  /\ InLookup("poll") /\ child.polls < Wait
  /\ IF Hits # {}
     THEN /\ \E i \in Hits : PrintsHit(i)
          /\ Becomes([desk EXCEPT !.trees = AfterSearch], history)
     ELSE /\ child' = [child EXCEPT !.polls = @ + 1]
          /\ UNCHANGED <<desk, history>>
  /\ ChildOnly

GivesUp ==
  /\ InLookup("poll")
  /\ Prints("no", 0)
  /\ Becomes([desk EXCEPT !.trees = AfterSearch], history)
  /\ ChildOnly

Aims(aim) == /\ step.aim = aim
             /\ \/ step.kind = "mac_click"
                \/ step.kind = "mac_drag" /\ aim = "window"

\* The step names an element, or a point of a window that lies in it, and lets
\* the window be raised.
TakesAim == step.raise /\ (Aims("element") \/ (Aims("window") /\ step.at < Width))

\* What the child is about to do.
ThisAct ==
  LET mouse == child.does = "mouse"
  IN [at |-> IF mouse THEN Under(desk, point.x) ELSE desk.front, app |-> point.app,
      aimed |-> mouse /\ TakesAim, stirred |-> history.stirred, attempt |-> trial.attempt]

\* The mouse goes down at the point, or the script takes effect on whatever is
\* in front.
Acts ==
  /\ child.stage = "press"
  /\ child' = [child EXCEPT !.stage = "release"]
  /\ Becomes([desk EXCEPT !.held = @ \/ child.does = "mouse"],
             [history EXCEPT !.acts = Append(@, ThisAct), !.met = {}])
  /\ ChildOnly

Ends ==
  /\ child.stage = "release"
  /\ Prints("ok", 0)
  /\ Becomes([desk EXCEPT !.held = IF child.does = "mouse" THEN FALSE ELSE @], history)
  /\ ChildOnly

\* A child exits with an error before it acts.
ActRefused ==
  /\ \/ child.stage = "press"
     \/ child.does = "screenshot" /\ child.stage = "release"
  /\ Prints("no", 0)
  /\ UNCHANGED <<desk, history>> /\ ChildOnly

\* It is killed at its timeout, wherever it is, or stops half-way with an error.
CutShort ==
  /\ child.stage # "answered"
  /\ Prints("no", 0)
  /\ Becomes(desk, [history EXCEPT !.cut = TRUE])
  /\ ChildOnly

ChildWorks ==
  \/ LookupRefused \/ FindsApp \/ Raises \/ ReadsWindow \/ Picks \/ PollsAgain \/ GivesUp
  \/ Acts \/ Ends \/ ActRefused \/ CutShort

(***************************************************************************)
(* The step.                                                               *)
(***************************************************************************)

\* A failed attempt is made again while the step has tries.
Settle(result) ==
  /\ outcome' = result
  /\ IF result # "passed" /\ trial.attempt < step.tries
     THEN place' = "start" /\ trial' = [attempt |-> trial.attempt + 1, polls |-> 0]
     ELSE place' = "done" /\ UNCHANGED trial
  /\ history' = [history EXCEPT !.met = IF place' = "start" THEN {} ELSE @]
  /\ UNCHANGED <<desk, step, child, point>>

GoOn(to) == place' = to /\ UNCHANGED <<desk, step, trial, outcome>>

\* No macOS or no osascript: the run is refused before any step.
Preflight ==
  /\ place = "preflight"
  /\ place' \in {"start", "refused"}
  /\ UNCHANGED <<desk, step, child, point, trial, outcome, history>>

Refused == ~step.valid \/ (step.kind = "mac_run_script" /\ ~step.confirm)

StartFails == place = "start" /\ Refused /\ Settle("failed")

\* float() of element.wait_s is not guarded.
StartRaises ==
  /\ place = "start" /\ ~Refused
  /\ Aims("element") /\ "wait_s" \in step.odd
  /\ Settle("raised")

LooksUp ==
  /\ place = "start" /\ ~Refused
  /\ \/ Aims("element") /\ "wait_s" \notin step.odd /\ Runs("find", "app")
     \/ Aims("window") /\ Runs("frame", "app")
  /\ GoOn("aiming")
  /\ history' = [history EXCEPT !.stirred = FALSE]
  /\ UNCHANGED point

LookupFails == place = "aiming" /\ child.stage = "answered" /\ child.got # "ok" /\ Settle("failed")

Targets(x, app) ==
  /\ point' = [x |-> x, app |-> app]
  /\ Runs("mouse", "press")
  /\ GoOn("acting")
  /\ UNCHANGED history

Aimed ==
  /\ place = "aiming" /\ child.stage = "answered" /\ child.got = "ok"
  /\ Targets(child.x + (IF child.does = "frame" THEN step.at ELSE 0), child.app)

\* A point of the screen, a key, a text, a script, a screenshot.
ActsAtOnce ==
  /\ place = "start" /\ ~Refused /\ ~Aims("element") /\ ~Aims("window")
  /\ IF step.kind \in {"mac_click", "mac_drag"}
     THEN Targets(step.at, "named")
     ELSE /\ IF step.kind = "mac_screenshot" THEN Runs("screenshot", "release") ELSE Runs("script", "press")
          /\ GoOn("acting")
          /\ UNCHANGED <<point, history>>

ActDone == place = "acting" /\ child.stage = "answered"

ActFails == ActDone /\ child.got = "no" /\ Settle("failed")

\* A screenshot does not look at extra.expect.
Unchecked == step.kind = "mac_screenshot" \/ step.expect = {}

ActPasses == ActDone /\ child.got = "ok" /\ Unchecked /\ Settle("passed")

\* float() of expect.timeout_s is not guarded either, and the step has acted.
ExpectRaises ==
  /\ ActDone /\ child.got = "ok" /\ ~Unchecked /\ "timeout_s" \in step.odd
  /\ Settle("raised")

ChecksExpect ==
  /\ ActDone /\ child.got = "ok" /\ ~Unchecked /\ "timeout_s" \notin step.odd
  /\ Runs("front", "app")
  /\ GoOn("checking")
  /\ UNCHANGED <<point, history>>

Answered == place \in {"checking", "looking"} /\ child.stage = "answered"

\* A check that reads the title alone.
TitleProblem ==
  \/ child.got = "no"
  \/ "title" \in step.expect /\ child.x = 0

FrontProblem ==
  \/ child.got = "no"
  \/ "front_app" \in step.expect /\ child.app # "named"
  \/ "title" \in step.expect /\ child.x = 0

Problem == IF place = "checking" THEN FrontProblem ELSE child.got = "no"

FrontIsRight ==
  /\ Answered /\ place = "checking" /\ ~Problem /\ "element" \in step.expect
  /\ Runs("expected", "app")
  /\ GoOn("looking")
  /\ UNCHANGED <<point, history>>

ExpectationMet ==
  /\ Answered /\ ~Problem
  /\ place = "looking" \/ "element" \notin step.expect
  /\ Settle("passed")

LooksAgain ==
  /\ Answered /\ Problem /\ trial.polls < step.patience
  /\ Runs("front", "app")
  /\ trial' = [trial EXCEPT !.polls = @ + 1]
  /\ place' = "checking"
  /\ UNCHANGED <<desk, step, point, outcome, history>>

NotMet == Answered /\ Problem /\ Settle("failed")

StepGoesOn ==
  \/ Preflight \/ StartFails \/ StartRaises \/ LooksUp \/ LookupFails \/ Aimed \/ ActsAtOnce
  \/ ActFails \/ ActPasses \/ ExpectRaises \/ ChecksExpect
  \/ FrontIsRight \/ ExpectationMet \/ LooksAgain \/ NotMet

Init ==
  /\ step \in MacSteps
  /\ desk \in [front : Apps, from : [Apps -> {0}], shows : [Apps -> Contents],
               titled : {{}}, trees : {{}, {"named"}}, held : {FALSE}, moves : {0}]
  /\ place = "preflight"
  /\ child = [does |-> "front", stage |-> "answered", app |-> "named", frame |-> Nowhere,
              was_on |-> FALSE, polls |-> 0, got |-> "no", x |-> 0]
  /\ point = [x |-> 0, app |-> "named"]
  /\ trial = [attempt |-> 1, polls |-> 0]
  /\ outcome = "none"
  /\ history = [stirred |-> FALSE, cut |-> FALSE, trees |-> desk.trees, acts |-> << >>, met |-> {}]

Over == place \in {"done", "refused"} /\ UNCHANGED vars

Next == StepGoesOn \/ ChildWorks \/ DeskMoves \/ TreeIsBuilt \/ Over

\* subprocess.run returns, at its timeout if not before.
Fairness == WF_vars(StepGoesOn) /\ WF_vars(ChildWorks)

Spec == Init /\ [][Next]_vars /\ Fairness

(***************************************************************************)
(* What the step promises.                                                 *)
(***************************************************************************)

\* A click or a drag aimed at an element or at a point of a window, and not told
\* to leave the windows as they are, lands in the window of the application it
\* was aimed at, unless the user changed the desktop since the lookup began:
\* an element outside the visible part is refused, and nothing read before the
\* window was raised is used (_resolve_point, _ax_child.main).
AimedClicksLand ==
  \A i \in DOMAIN history.acts :
    LET a == history.acts[i] IN a.aimed /\ ~a.stirred => a.at = a.app

\* A step passes only if its last attempt acted and every expectation it names
\* held at some time since: "the click was sent" is not "the click worked", and
\* what an earlier attempt brought about does not count (_check_expect).
\* mac_screenshot checks none.
PassedMeansMet ==
  place = "done" /\ outcome = "passed" /\ step.kind # "mac_screenshot"
    => /\ \E i \in DOMAIN history.acts : history.acts[i].attempt = trial.attempt
       /\ step.expect \subseteq history.met

\* When the step is over the mouse button is up and AXEnhancedUserInterface is
\* as it was before, unless a child was cut short: its finally is not run, and
\* the next attempt takes the setting it left for the original one.
LeavesNoTrace ==
  place = "done" /\ ~history.cut => ~desk.held /\ desk.trees = history.trees

\* The step ends, since every lookup has its deadline and every child its
\* timeout, and leaves nothing behind when it has.
EndsWithoutTrace == <>[](place \in {"done", "refused"} /\ LeavesNoTrace)
===============================================================================
