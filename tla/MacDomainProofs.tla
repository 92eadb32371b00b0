--------------------------- MODULE MacDomainProofs ---------------------------
(***************************************************************************)
(* Proofs about MacDomain: what a step of the desktop domain promises      *)
(* holds for all steps, windows and moves of the user.                     *)
(***************************************************************************)
EXTENDS MacDomain, TLAPS

\* Which child the step waits for, by place, and how far that one may be.
Control ==
  /\ place \in {"preflight", "start", "done", "refused"} => child.stage = "answered"
  /\ place = "aiming" =>
       /\ \/ child.does = "find" /\ Aims("element")
          \/ child.does = "frame" /\ Aims("window")
       /\ child.stage \notin {"press", "release"}
  /\ place = "acting" =>
       /\ child.does \in {"mouse", "script", "screenshot"}
       /\ child.stage \in {"press", "release", "answered"}
       /\ child.does = "screenshot" <=> step.kind = "mac_screenshot"
  /\ place = "checking" => child.does = "front" /\ child.stage \in {"app", "answered"}
  /\ place = "looking" => child.does = "expected" /\ child.stage \notin {"raise", "press", "release"}

\* The window the child has found is in front, since it was raised, and where it
\* was when the child read it.
FoundIsInFront ==
  /\ step.raise /\ child.stage \in {"window", "pick", "poll"} => desk.front = child.app
  /\ child.stage \in {"pick", "poll"} =>
       child.does = "find" /\ child.frame \in {desk.from[child.app], Nowhere}
  /\ (child.stage = "answered" /\ child.got = "ok" /\ step.raise) =>
       /\ desk.front = child.app
       /\ child.does = "find" => InWindow(desk, child.app, child.x)
       /\ child.does = "frame" => child.x = desk.from[child.app]

PointIsInFront == desk.front = point.app /\ InWindow(desk, point.app, point.x)

\* While nobody stirs, what was looked up stays true up to the click.
Aiming ==
  ~history.stirred =>
    /\ place = "aiming" => FoundIsInFront
    /\ (place = "acting" /\ child.does = "mouse" /\ child.stage = "press" /\ TakesAim) => PointIsInFront

HasActed == \E i \in DOMAIN history.acts : history.acts[i].attempt = trial.attempt

\* The child of this attempt has acted.
TookEffect ==
  /\ place = "acting" /\ child.does \in {"mouse", "script"}
  /\ \/ child.stage = "release"
     \/ child.stage = "answered" /\ child.got = "ok"

\* What a check has seen was so when it looked, and after the step had acted.
Evidence ==
  /\ TookEffect \/ place \in {"checking", "looking"} => HasActed /\ Held(desk) \subseteq history.met
  /\ (place = "checking" /\ child.stage = "answered" /\ child.got # "no") =>
       /\ child.app = "named" => "front_app" \in history.met
       /\ child.x # 0 => "title" \in history.met
  /\ place = "looking" => step.expect \cap {"front_app", "title"} \subseteq history.met
  /\ (place = "looking" /\ child.stage = "answered" /\ child.got # "no") => "element" \in history.met

\* As long as no child was cut short, the button is down only while one holds
\* it, and the tree of an application is on beyond its time only while one polls.
Traces ==
  ~history.cut =>
    /\ desk.held <=> child.does = "mouse" /\ child.stage = "release"
    /\ IF child.stage = "poll"
       THEN /\ desk.trees = history.trees \cup {child.app}
            /\ child.was_on <=> child.app \in history.trees
       ELSE desk.trees = history.trees

IInv ==
  /\ TypeOK /\ Control /\ Aiming /\ Evidence /\ Traces
  /\ AimedClicksLand /\ PassedMeansMet

(***************************************************************************)
(* Types.                                                                  *)
(***************************************************************************)

LEMMA HistoryFields ==
  ASSUME NEW h \in History
  PROVE  /\ \A b \in BOOLEAN : /\ [h EXCEPT !.stirred = b] \in History
                               /\ [h EXCEPT !.cut = b] \in History
         /\ \A met \in SUBSET Expectations : [h EXCEPT !.met = met] \in History
         /\ \A acts \in Seq(Act) : [h EXCEPT !.acts = acts, !.met = {}] \in History
<1>1. ASSUME NEW b \in BOOLEAN PROVE [h EXCEPT !.stirred = b] \in History
  BY DEF History
<1>2. ASSUME NEW b \in BOOLEAN PROVE [h EXCEPT !.cut = b] \in History
  BY DEF History
<1>3. ASSUME NEW met \in SUBSET Expectations PROVE [h EXCEPT !.met = met] \in History
  BY DEF History
<1>4. ASSUME NEW acts \in Seq(Act) PROVE [h EXCEPT !.acts = acts, !.met = {}] \in History
  BY Zenon DEF History
<1> QED BY <1>1, <1>2, <1>3, <1>4

LEMMA HeldType == ASSUME NEW d PROVE Held(d) \subseteq Expectations
BY DEF Held, Expectations

LEMMA BecomesType ==
  ASSUME NEW d \in Desktop, NEW h \in History, Becomes(d, h)
  PROVE  desk' \in Desktop /\ history' \in History
<1>1. h.met \cup Held(d) \in SUBSET Expectations
  BY HeldType DEF History
<1>2. CASE Acting
  <2>1. history' = [h EXCEPT !.met = @ \cup Held(d)]
    BY <1>2 DEF Becomes
  <2> QED BY <1>1, <2>1 DEF Becomes, History
<1>3. CASE ~Acting
  BY <1>3 DEF Becomes, History
<1> QED BY <1>2, <1>3

LEMMA PrintsType ==
  ASSUME TypeOK, NEW got \in {"no", "hidden", "ok"}, NEW x \in Nat, Prints(got, x)
  PROVE  child' \in Child
BY DEF TypeOK, Prints, Child, Stages

LEMMA RunsType ==
  ASSUME NEW does \in Programs, NEW stage \in Stages, Runs(does, stage)
  PROVE  child' \in Child
BY MacAssumption DEF Runs, Child, Nowhere, Apps

LEMMA DesktopType ==
  ASSUME TypeOK
  PROVE  /\ \A app \in Apps : /\ desk.from[app] \in Nat /\ desk.from[app] <= MaxPosition
                              /\ desk.shows[app] \in Contents /\ desk.shows[app] \in Seq(Element)
         /\ desk.front \in Apps /\ child.app \in Apps
BY MacAssumption DEF TypeOK, Desktop, Child

LEMMA HitsAreElements ==
  ASSUME TypeOK
  PROVE  \A i \in Hits : CentreOf(i) \in Nat
<1> DEFINE shows == desk.shows[child.app]
<1>1. shows \in Seq(Element)
  BY DesktopType
<1>2. \A i \in Hits : i \in DOMAIN shows
  BY DEF Hits, Pick
<1>3. \A i \in DOMAIN shows : shows[i] \in Element
  BY <1>1
<1>4. \A i \in DOMAIN shows : shows[i].at \in Nat
  BY <1>3 DEF Element
<1> QED BY <1>2, <1>4, DesktopType DEF CentreOf

LEMMA ActType == TypeOK => ThisAct \in Act
<1> SUFFICES ASSUME TypeOK PROVE ThisAct \in Act
  OBVIOUS
<1> DEFINE mouse == child.does = "mouse"
<1>1. Under(desk, point.x) \in Apps \cup {"nothing"}
  BY DesktopType DEF Under
<1>2. (IF mouse THEN Under(desk, point.x) ELSE desk.front) \in Apps \cup {"nothing"}
  BY <1>1, DesktopType
<1>3. (mouse /\ TakesAim) \in BOOLEAN /\ history.stirred \in BOOLEAN /\ trial.attempt \in Nat /\ point.app \in Apps
  BY DEF TypeOK, History
<1> QED BY <1>2, <1>3 DEF ThisAct, Act

LEMMA ChildType == TypeOK /\ ChildWorks => TypeOK'
<1> SUFFICES ASSUME TypeOK, ChildWorks PROVE TypeOK'
  OBVIOUS
<1>1. ASSUME child' \in Child, desk' \in Desktop, history' \in History, ChildOnly
      PROVE  TypeOK'
  BY <1>1 DEF TypeOK, ChildOnly
<1>2. desk \in Desktop /\ child \in Child /\ history \in History /\ step \in MacStep
  BY MacAssumption DEF TypeOK
<1>3. ASSUME NEW d \in Desktop, Becomes(d, history)
      PROVE  desk' \in Desktop /\ history' \in History
  BY <1>2, <1>3, BecomesType
<1>4. CASE LookupRefused
  BY <1>1, <1>2, <1>4, PrintsType DEF LookupRefused
<1>5. CASE FindsApp
  <2>1. child' \in Child
    BY <1>2, <1>5, DesktopType DEF FindsApp, ByName, Child, Stages, Apps
  <2> QED BY <1>1, <1>2, <1>5, <2>1 DEF FindsApp
<1>6. CASE Raises
  <2>1. child' \in Child
    BY <1>2, <1>6 DEF Raises, Child, Stages
  <2>2. [desk EXCEPT !.front = child.app] \in Desktop
    BY <1>2, DesktopType DEF Desktop
  <2> QED BY <1>1, <1>3, <1>6, <2>1, <2>2 DEF Raises
<1>7. CASE ReadsWindow
  <2>1. CASE child.does = "frame"
    BY <1>1, <1>2, <1>7, <2>1, DesktopType, PrintsType DEF ReadsWindow
  <2>2. CASE child.does # "frame"
    <3>1. PICK frame \in {desk.from[child.app], Nowhere} :
            child' = [child EXCEPT !.stage = "pick", !.frame = frame]
      BY <1>7, <2>2 DEF ReadsWindow
    <3>2. frame \in Nat
      BY DesktopType, MacAssumption DEF Nowhere
    <3>3. child' \in Child
      BY <1>2, <3>1, <3>2 DEF Child, Stages
    <3> QED BY <1>1, <1>2, <1>7, <3>3 DEF ReadsWindow
  <2> QED BY <2>1, <2>2
<1>8. ASSUME NEW i \in Hits, PrintsHit(i) PROVE child' \in Child
  BY <1>8, HitsAreElements, PrintsType DEF PrintsHit
<1>9. ASSUME NEW trees \in SUBSET Apps PROVE [desk EXCEPT !.trees = trees] \in Desktop
  BY <1>2 DEF Desktop
<1>10. desk.trees \cup {child.app} \in SUBSET Apps /\ AfterSearch \in SUBSET Apps
  BY <1>2, DesktopType DEF Desktop, AfterSearch, Restored
<1>11. CASE Picks
  <2>1. CASE Hits # {}
    BY <1>1, <1>2, <1>8, <1>11, <2>1 DEF Picks
  <2>2. CASE Hits = {}
    <3>1. child' \in Child
      <4> DEFINE on == child.app \in desk.trees
      <4>1. child' = [child EXCEPT !.stage = "poll", !.was_on = on]
        BY <1>11, <2>2 DEF Picks
      <4>2. on \in BOOLEAN
        OBVIOUS
      <4> HIDE DEF on
      <4> QED BY <1>2, <4>1, <4>2 DEF Child, Stages
    <3>2. Becomes([desk EXCEPT !.trees = @ \cup {child.app}], history)
      BY <1>11, <2>2 DEF Picks
    <3> QED BY <1>1, <1>3, <1>9, <1>10, <1>11, <3>1, <3>2 DEF Picks
  <2> QED BY <2>1, <2>2
<1>12. CASE PollsAgain
  <2>1. CASE Hits # {}
    BY <1>1, <1>3, <1>8, <1>9, <1>10, <1>12, <2>1 DEF PollsAgain
  <2>2. CASE Hits = {}
    <3>1. child' \in Child
      BY <1>2, <1>12, <2>2 DEF PollsAgain, Child
    <3> QED BY <1>1, <1>2, <1>12, <2>2, <3>1 DEF PollsAgain
  <2> QED BY <2>1, <2>2
<1>13. CASE GivesUp
  BY <1>1, <1>3, <1>9, <1>10, <1>13, PrintsType DEF GivesUp
<1>14. CASE Acts
  <2> DEFINE d == [desk EXCEPT !.held = @ \/ child.does = "mouse"]
             acts == Append(history.acts, ThisAct)
  <2>1. child' \in Child
    BY <1>2, <1>14 DEF Acts, Child, Stages
  <2>2. acts \in Seq(Act)
    BY <1>2, ActType DEF History
  <2>3. d \in Desktop
    BY <1>2 DEF Desktop
  <2>4. Becomes(d, [history EXCEPT !.acts = acts, !.met = {}])
    BY <1>14 DEF Acts
  <2>5. desk' \in Desktop /\ history' \in History
    <3> HIDE DEF acts, d
    <3> QED BY <1>2, <2>2, <2>3, <2>4, HistoryFields, BecomesType
  <2> QED BY <1>1, <1>14, <2>1, <2>5 DEF Acts
<1>15. CASE Ends
  <2>1. [desk EXCEPT !.held = IF child.does = "mouse" THEN FALSE ELSE @] \in Desktop
    BY <1>2 DEF Desktop
  <2> QED BY <1>1, <1>3, <1>15, <2>1, PrintsType DEF Ends
<1>16. CASE ActRefused
  BY <1>1, <1>2, <1>16, PrintsType DEF ActRefused
<1>17. CASE CutShort
  <2>1. [history EXCEPT !.cut = TRUE] \in History
    BY <1>2 DEF History
  <2> QED BY <1>1, <1>2, <1>17, <2>1, PrintsType, BecomesType DEF CutShort
<1> QED
  BY <1>4, <1>5, <1>6, <1>7, <1>11, <1>12, <1>13, <1>14, <1>15, <1>16, <1>17 DEF ChildWorks

LEMMA SettleType ==
  ASSUME TypeOK, NEW result \in {"passed", "failed", "raised"}, Settle(result)
  PROVE  TypeOK'
<1>1. step \in MacStep
  BY MacAssumption DEF TypeOK
<1>2. history' \in History
  BY DEF TypeOK, Settle, History
<1>3. place' \in {"start", "done"} /\ trial' \in [attempt : 1..step.tries, polls : 0..MaxPolls]
  BY <1>1, MacAssumption DEF TypeOK, Settle, MacStep
<1> QED BY <1>2, <1>3 DEF TypeOK, Settle

LEMMA StepType == TypeOK /\ StepGoesOn => TypeOK'
<1> SUFFICES ASSUME TypeOK, StepGoesOn PROVE TypeOK'
  OBVIOUS
<1> DEFINE Places == {"preflight", "start", "aiming", "acting", "checking", "looking", "done", "refused"}
<1>1. step \in MacStep
  BY MacAssumption DEF TypeOK
<1>2. ASSUME NEW to \in Places, GoOn(to), child' \in Child, history' \in History, point' \in [x : Nat, app : Apps]
      PROVE  TypeOK'
  BY <1>2 DEF TypeOK, GoOn
<1>3. CASE Preflight
  BY <1>3 DEF Preflight, TypeOK
<1>4. CASE StartFails \/ StartRaises \/ LookupFails \/ ActFails \/ ActPasses \/ ExpectRaises
           \/ ExpectationMet \/ NotMet
  BY <1>4, SettleType
     DEF StartFails, StartRaises, LookupFails, ActFails, ActPasses, ExpectRaises, ExpectationMet, NotMet
<1>5. CASE LooksUp
  <2>1. child' \in Child
    BY <1>5, RunsType DEF LooksUp, Programs, Stages
  <2>2. history' \in History
    BY <1>5 DEF LooksUp, TypeOK, History
  <2> QED BY <1>2, <1>5, <2>1, <2>2 DEF LooksUp, TypeOK
<1>6. ASSUME NEW x \in Nat, NEW app \in Apps, Targets(x, app) PROVE TypeOK'
  <2>1. child' \in Child
    BY <1>6, RunsType DEF Targets, Programs, Stages
  <2> QED BY <1>2, <1>6, <2>1 DEF Targets, TypeOK
<1>7. CASE Aimed
  <2>1. child.x + (IF child.does = "frame" THEN step.at ELSE 0) \in Nat
    BY <1>1 DEF TypeOK, Child, MacStep
  <2> QED BY <1>6, <1>7, <2>1, DesktopType DEF Aimed
<1>8. CASE ActsAtOnce
  <2>1. CASE step.kind \in {"mac_click", "mac_drag"}
    BY <1>1, <1>6, <1>8, <2>1 DEF ActsAtOnce, MacStep, Apps
  <2>2. CASE step.kind \notin {"mac_click", "mac_drag"}
    <3>1. child' \in Child
      BY <1>8, <2>2, RunsType DEF ActsAtOnce, Programs, Stages
    <3> QED BY <1>2, <1>8, <2>2, <3>1 DEF ActsAtOnce, TypeOK
  <2> QED BY <2>1, <2>2
<1>9. CASE ChecksExpect
  <2>1. child' \in Child
    BY <1>9, RunsType DEF ChecksExpect, Programs, Stages
  <2> QED BY <1>2, <1>9, <2>1 DEF ChecksExpect, TypeOK
<1>10. CASE FrontIsRight
  <2>1. child' \in Child
    BY <1>10, RunsType DEF FrontIsRight, Programs, Stages
  <2> QED BY <1>2, <1>10, <2>1 DEF FrontIsRight, TypeOK
<1>11. CASE LooksAgain
  <2>1. child' \in Child
    BY <1>11, RunsType DEF LooksAgain, Programs, Stages
  <2>2. trial' \in [attempt : 1..step.tries, polls : 0..MaxPolls]
    BY <1>1, <1>11, MacAssumption DEF LooksAgain, TypeOK, MacStep
  <2> QED BY <1>11, <2>1, <2>2 DEF LooksAgain, TypeOK
<1> QED
  BY <1>3, <1>4, <1>5, <1>7, <1>8, <1>9, <1>10, <1>11 DEF StepGoesOn

LEMMA MoveType == TypeOK /\ (DeskMoves \/ TreeIsBuilt) => TypeOK'
<1> SUFFICES ASSUME TypeOK, DeskMoves \/ TreeIsBuilt PROVE TypeOK'
  OBVIOUS
<1>1. desk \in Desktop /\ history \in History
  BY DEF TypeOK
<1>2. ASSUME desk' \in Desktop, history' \in History, UNCHANGED <<step, place, child, point, trial, outcome>>
      PROVE  TypeOK'
  BY <1>2 DEF TypeOK
<1>3. CASE DeskMoves
  <2>1. PICK d \in Moved : Becomes([d EXCEPT !.moves = @ + 1], [history EXCEPT !.stirred = TRUE])
    BY <1>3 DEF DeskMoves
  <2>2. d \in Desktop /\ d.moves = desk.moves
    BY <1>1 DEF Desktop, Moved
  <2>3. [d EXCEPT !.moves = @ + 1] \in Desktop
    <3>1. d.moves + 1 \in 0..MaxMoves
      BY <1>1, <1>3, <2>2, MacAssumption DEF Desktop, DeskMoves
    <3> QED BY <2>2, <3>1 DEF Desktop
  <2>4. [history EXCEPT !.stirred = TRUE] \in History
    BY <1>1, HistoryFields
  <2> QED BY <1>2, <1>3, <2>1, <2>3, <2>4, BecomesType DEF DeskMoves
<1>4. CASE TreeIsBuilt
  <2>1. PICK c \in Contents : Becomes([desk EXCEPT !.shows = [@ EXCEPT ![child.app] = c]], history)
    BY <1>4 DEF TreeIsBuilt
  <2>2. [desk EXCEPT !.shows = [@ EXCEPT ![child.app] = c]] \in Desktop
    BY <1>1, <2>1, DesktopType DEF Desktop
  <2> QED BY <1>1, <1>2, <1>4, <2>1, <2>2, BecomesType DEF TreeIsBuilt
<1> QED BY <1>3, <1>4

LEMMA TypeStep == TypeOK /\ [Next]_vars => TypeOK'
<1> SUFFICES ASSUME TypeOK, [Next]_vars PROVE TypeOK'
  OBVIOUS
<1>1. CASE UNCHANGED vars \/ Over
  BY <1>1 DEF TypeOK, Over, vars
<1> QED BY <1>1, ChildType, StepType, MoveType DEF Next

(***************************************************************************)
(* The places.                                                             *)
(***************************************************************************)

LEMMA ControlStep == TypeOK /\ Control /\ [Next]_vars => Control'
<1> SUFFICES ASSUME TypeOK, Control, [Next]_vars PROVE Control'
  OBVIOUS
<1> USE DEF Control, Aims
<1>1. child \in Child
  BY DEF TypeOK
<1>1a. child.stage \notin {"app", "answered"} => child.does # "front"
  BY DEF TypeOK
<1>2. CASE UNCHANGED vars \/ Over \/ DeskMoves \/ TreeIsBuilt
  BY <1>2 DEF vars, Over, DeskMoves, TreeIsBuilt
<1>3. ASSUME NEW stage \in Stages, child'.does = child.does, child'.stage = stage, ChildOnly,
             place \notin {"preflight", "start", "done", "refused"},
             \/ stage = "answered"
             \/ /\ child.does \in {"find", "frame", "front", "expected"}
                /\ stage \in {"window", "pick", "poll"} /\ child.does # "front"
             \/ stage = "raise" /\ child.does \in {"find", "frame"}
             \/ stage = "release" /\ child.stage = "press"
      PROVE  Control'
  BY <1>3 DEF ChildOnly, Stages
<1>4. child.stage # "answered" => place \notin {"preflight", "start", "done", "refused"}
  OBVIOUS
<1>5. ASSUME NEW got, NEW x, Prints(got, x), child.stage # "answered", ChildOnly
      PROVE  Control'
  <2>1. child'.does = child.does /\ child'.stage = "answered"
    BY <1>1, <1>5 DEF Prints, Child
  <2> QED BY <1>3, <1>4, <1>5, <2>1 DEF Stages
<1>6. CASE LookupRefused \/ GivesUp \/ Ends \/ ActRefused \/ CutShort
  BY <1>5, <1>6 DEF LookupRefused, GivesUp, Ends, ActRefused, CutShort, InLookup
<1>7. CASE FindsApp
  <2>1. child'.does = child.does
    BY <1>1, <1>7 DEF FindsApp, Child
  <2>2. CASE child.does = "front"
    <3>1. child'.stage = "answered"
      BY <1>1, <1>7, <2>2 DEF FindsApp, Child
    <3> QED BY <1>3, <1>4, <1>7, <2>1, <3>1 DEF FindsApp, InLookup, Stages
  <2>3. CASE child.does \in {"find", "frame"} /\ step.raise
    <3>1. child'.stage = "raise"
      BY <1>1, <1>7, <2>3 DEF FindsApp, Child
    <3> QED BY <1>3, <1>4, <1>7, <2>1, <2>3, <3>1 DEF FindsApp, InLookup, Stages
  <2>4. CASE child.does # "front" /\ ~(child.does \in {"find", "frame"} /\ step.raise)
    <3>1. child'.stage = "window"
      BY <1>1, <1>7, <2>4 DEF FindsApp, Child
    <3> QED BY <1>3, <1>4, <1>7, <2>1, <2>4, <3>1 DEF FindsApp, InLookup, Stages
  <2> QED BY <2>2, <2>3, <2>4
<1>8. CASE Raises
  <2>1. child'.does = child.does /\ child'.stage = "window" /\ child.does # "front"
    BY <1>1, <1>1a, <1>8 DEF Raises, Child, InLookup
  <2> QED BY <1>3, <1>4, <1>8, <2>1 DEF Raises, InLookup, Stages
<1>9. CASE ReadsWindow
  <2>1. CASE child.does = "frame"
    BY <1>5, <1>9, <2>1 DEF ReadsWindow, InLookup
  <2>2. CASE child.does # "frame"
    <3>1. child'.does = child.does /\ child'.stage = "pick" /\ child.does # "front"
      BY <1>1, <1>1a, <1>9, <2>2 DEF ReadsWindow, Child, InLookup
    <3> QED BY <1>3, <1>4, <1>9, <3>1 DEF ReadsWindow, InLookup, Stages
  <2> QED BY <2>1, <2>2
<1>10. ASSUME NEW i, PrintsHit(i), child.stage # "answered", ChildOnly PROVE Control'
  BY <1>5, <1>10 DEF PrintsHit
<1>11. CASE Picks
  <2>1. CASE Hits # {}
    BY <1>10, <1>11, <2>1 DEF Picks, InLookup
  <2>2. CASE Hits = {}
    <3>1. child'.does = child.does /\ child'.stage = "poll" /\ child.does # "front"
      BY <1>1, <1>1a, <1>11, <2>2 DEF Picks, Child, InLookup
    <3> QED BY <1>3, <1>4, <1>11, <3>1 DEF Picks, InLookup, Stages
  <2> QED BY <2>1, <2>2
<1>12. CASE PollsAgain
  <2>1. CASE Hits # {}
    BY <1>10, <1>12, <2>1 DEF PollsAgain, InLookup
  <2>2. CASE Hits = {}
    <3>1. child'.does = child.does /\ child'.stage = "poll" /\ child.does # "front"
      BY <1>1, <1>1a, <1>12, <2>2 DEF PollsAgain, Child, InLookup
    <3> QED BY <1>3, <1>4, <1>12, <3>1 DEF PollsAgain, InLookup, Stages
  <2> QED BY <2>1, <2>2
<1>13. CASE Acts
  <2>1. child'.does = child.does /\ child'.stage = "release"
    BY <1>1, <1>13 DEF Acts, Child
  <2> QED BY <1>3, <1>4, <1>13, <2>1 DEF Acts, Stages
<1>14. ASSUME NEW result, Settle(result), child.stage = "answered" PROVE Control'
  BY <1>14 DEF Settle
<1>15. CASE StartFails \/ StartRaises \/ LookupFails \/ ActFails \/ ActPasses \/ ExpectRaises
            \/ ExpectationMet \/ NotMet
  BY <1>14, <1>15
     DEF StartFails, StartRaises, LookupFails, ActFails, ActPasses, ExpectRaises, ExpectationMet,
         NotMet, ActDone, Answered
<1>16. CASE Preflight
  BY <1>16 DEF Preflight
<1>17. CASE LooksUp
  BY <1>17 DEF LooksUp, GoOn, Runs
<1>18. CASE Aimed
  BY <1>18 DEF Aimed, Targets, GoOn, Runs
<1>19. CASE ActsAtOnce
  BY <1>19 DEF ActsAtOnce, Targets, GoOn, Runs
<1>20. CASE ChecksExpect \/ FrontIsRight \/ LooksAgain
  BY <1>20 DEF ChecksExpect, FrontIsRight, LooksAgain, GoOn, Runs
<1> QED
  BY <1>2, <1>6, <1>7, <1>8, <1>9, <1>11, <1>12, <1>13, <1>15, <1>16, <1>17, <1>18, <1>19, <1>20
     DEF Next, StepGoesOn, ChildWorks

(***************************************************************************)
(* What a step leaves on the desktop.                                      *)
(***************************************************************************)

LEMMA BecomesFields ==
  ASSUME NEW d, NEW h \in History, Becomes(d, h)
  PROVE  /\ desk' = d
         /\ history'.stirred = h.stirred /\ history'.cut = h.cut
         /\ history'.trees = h.trees /\ history'.acts = h.acts
         /\ history'.met = IF Acting THEN h.met \cup Held(d) ELSE h.met
BY Zenon DEF Becomes, History

\* The desktop after a move of the user.
LEMMA MovedFields ==
  ASSUME TypeOK, NEW d \in Moved
  PROVE  [d EXCEPT !.moves = @ + 1].held = desk.held /\ [d EXCEPT !.moves = @ + 1].trees = desk.trees
BY DEF TypeOK, Desktop, Moved

\* What the step does, other than waiting for its child: it settles an attempt,
\* or starts a child when the last one has answered.
LEMMA StepMakes ==
  ASSUME TypeOK, Control, StepGoesOn
  PROVE  /\ desk' = desk
         /\ history'.cut = history.cut /\ history'.trees = history.trees /\ history'.acts = history.acts
         /\ child.stage = "answered"
         /\ \/ child' = child
            \/ /\ child'.stage \in {"app", "press", "release"}
               /\ child'.stage = "release" => child'.does = "screenshot"
<1>1. history \in History
  BY DEF TypeOK
<1>2. ASSUME NEW result, Settle(result)
      PROVE  /\ desk' = desk /\ child' = child /\ history'.cut = history.cut
             /\ history'.trees = history.trees /\ history'.acts = history.acts
  BY <1>1, <1>2 DEF Settle, History
<1>3. CASE StartFails \/ StartRaises \/ LookupFails \/ ActFails \/ ActPasses \/ ExpectRaises
           \/ ExpectationMet \/ NotMet
  BY <1>2, <1>3
     DEF StartFails, StartRaises, LookupFails, ActFails, ActPasses, ExpectRaises, ExpectationMet,
         NotMet, ActDone, Answered, Control
<1>4. CASE Preflight
  BY <1>4 DEF Preflight, Control
<1>5. CASE LooksUp
  BY <1>1, <1>5 DEF LooksUp, GoOn, Runs, Control, History
<1>6. CASE Aimed
  BY <1>6 DEF Aimed, Targets, GoOn, Runs
<1>7. CASE ActsAtOnce
  BY <1>7 DEF ActsAtOnce, Targets, GoOn, Runs, Control
<1>8. CASE ChecksExpect \/ FrontIsRight \/ LooksAgain
  BY <1>8 DEF ChecksExpect, FrontIsRight, LooksAgain, GoOn, Runs, ActDone, Answered
<1> QED
  BY <1>3, <1>4, <1>5, <1>6, <1>7, <1>8 DEF StepGoesOn

LEMMA TracesStep == TypeOK /\ Control /\ Traces /\ [Next]_vars => Traces'
<1> SUFFICES ASSUME TypeOK, Control, Traces, [Next]_vars PROVE Traces'
  OBVIOUS
<1>1. child \in Child /\ history \in History /\ desk \in Desktop
  BY DEF TypeOK
<1>7. ASSUME NEW d, Becomes(d, history)
      PROVE  desk' = d /\ history'.cut = history.cut /\ history'.trees = history.trees
  BY <1>1, <1>7, BecomesFields
<1>2. CASE UNCHANGED vars \/ Over
  BY <1>2 DEF vars, Over, Traces
<1>3. CASE StepGoesOn
  BY <1>3, StepMakes DEF Traces
<1>4. CASE DeskMoves
  <2>1. PICK d \in Moved : Becomes([d EXCEPT !.moves = @ + 1], [history EXCEPT !.stirred = TRUE])
    BY <1>4 DEF DeskMoves
  <2>2. desk'.held = desk.held /\ desk'.trees = desk.trees
    <3>1. desk' = [d EXCEPT !.moves = @ + 1]
      BY <2>1 DEF Becomes
    <3> QED BY <2>1, <3>1, MovedFields
  <2>3. history'.cut = history.cut /\ history'.trees = history.trees
    <3>1. [history EXCEPT !.stirred = TRUE].cut = history.cut /\ [history EXCEPT !.stirred = TRUE].trees = history.trees
      BY <1>1 DEF History
    <3> QED BY <1>1, <2>1, <3>1, HistoryFields, BecomesFields
  <2> QED BY <1>4, <2>2, <2>3 DEF Traces, DeskMoves
<1>5. CASE TreeIsBuilt
  <2>1. PICK c \in Contents : Becomes([desk EXCEPT !.shows = [@ EXCEPT ![child.app] = c]], history)
    BY <1>5 DEF TreeIsBuilt
  <2>2. desk'.held = desk.held /\ desk'.trees = desk.trees
    <3>1. desk' = [desk EXCEPT !.shows = [@ EXCEPT ![child.app] = c]]
      BY <2>1 DEF Becomes
    <3> QED BY <1>1, <3>1 DEF Desktop
  <2>3. history'.cut = history.cut /\ history'.trees = history.trees
    BY <1>7, <2>1
  <2> QED BY <1>5, <2>2, <2>3 DEF Traces, TreeIsBuilt
<1>6. ASSUME NEW got, NEW x, Prints(got, x)
      PROVE  child'.stage = "answered"
  BY <1>1, <1>6 DEF Prints, Child
<1>8. CASE LookupRefused
  BY <1>6, <1>8 DEF LookupRefused, InLookup, Traces
<1>9. CASE FindsApp
  <2>1. child'.stage \notin {"poll", "release"}
    BY <1>1, <1>9 DEF FindsApp, Child
  <2> QED BY <1>9, <2>1 DEF FindsApp, InLookup, Traces
<1>10. CASE Raises
  <2>1. child'.stage = "window"
    BY <1>1, <1>10 DEF Raises, Child
  <2>2. Becomes([desk EXCEPT !.front = child.app], history)
    BY <1>10 DEF Raises
  <2>3. desk' = [desk EXCEPT !.front = child.app]
    BY <2>2 DEF Becomes
  <2>4. desk'.held = desk.held /\ desk'.trees = desk.trees
    BY <1>1, <2>3 DEF Desktop
  <2>5. history'.cut = history.cut /\ history'.trees = history.trees
    BY <1>7, <2>2
  <2> QED BY <1>10, <2>1, <2>4, <2>5 DEF Raises, InLookup, Traces
<1>11. CASE ReadsWindow
  <2>1. child'.stage \in {"answered", "pick"}
    BY <1>1, <1>6, <1>11 DEF ReadsWindow, Child
  <2> QED BY <1>11, <2>1 DEF ReadsWindow, InLookup, Traces
<1>12. CASE Picks
  <2>1. CASE Hits # {}
    BY <1>6, <1>12, <2>1 DEF Picks, PrintsHit, InLookup, Traces
  <2>2. CASE Hits = {}
    <3>1. child'.stage = "poll" /\ child'.app = child.app /\ (child'.was_on <=> child.app \in desk.trees)
      BY <1>1, <1>12, <2>2 DEF Picks, Child
    <3>2. Becomes([desk EXCEPT !.trees = @ \cup {child.app}], history)
      BY <1>12, <2>2 DEF Picks
    <3>3. desk' = [desk EXCEPT !.trees = @ \cup {child.app}]
      BY <3>2 DEF Becomes
    <3>4. desk'.held = desk.held /\ desk'.trees = desk.trees \cup {child.app}
      BY <1>1, <3>3 DEF Desktop
    <3>5. history'.cut = history.cut /\ history'.trees = history.trees
      BY <1>7, <3>2
    <3> QED BY <1>12, <3>1, <3>4, <3>5 DEF Picks, InLookup, Traces
  <2> QED BY <2>1, <2>2
<1>13. child.stage = "poll" /\ ~history.cut => AfterSearch = history.trees
  BY DEF Traces, AfterSearch, Restored
<1>14. ASSUME Becomes([desk EXCEPT !.trees = AfterSearch], history)
       PROVE  desk'.held = desk.held /\ desk'.trees = AfterSearch
              /\ history'.cut = history.cut /\ history'.trees = history.trees
  <2>1. desk' = [desk EXCEPT !.trees = AfterSearch]
    BY <1>14 DEF Becomes
  <2>2. desk'.held = desk.held /\ desk'.trees = AfterSearch
    BY <1>1, <2>1 DEF Desktop
  <2> QED BY <1>7, <1>14, <2>2
<1>15. CASE PollsAgain
  <2>1. CASE Hits # {}
    BY <1>6, <1>13, <1>14, <1>15, <2>1 DEF PollsAgain, PrintsHit, InLookup, Traces
  <2>2. CASE Hits = {}
    <3>1. child'.stage = child.stage /\ child'.app = child.app /\ child'.was_on = child.was_on
          /\ child'.does = child.does
      BY <1>1, <1>15, <2>2 DEF PollsAgain, Child
    <3> QED BY <1>15, <2>2, <3>1 DEF PollsAgain, Traces
  <2> QED BY <2>1, <2>2
<1>16. CASE GivesUp
  BY <1>6, <1>13, <1>14, <1>16 DEF GivesUp, InLookup, Traces
<1>17. CASE Acts
  <2>1. child'.stage = "release" /\ child'.does = child.does
    BY <1>1, <1>17 DEF Acts, Child
  <2>2. PICK acts \in Seq(Act) : Becomes([desk EXCEPT !.held = @ \/ child.does = "mouse"],
                                         [history EXCEPT !.acts = acts, !.met = {}])
    <3>1. Append(history.acts, ThisAct) \in Seq(Act)
      BY <1>1, ActType DEF History
    <3> QED BY <1>17, <3>1 DEF Acts
  <2>3. [history EXCEPT !.acts = acts, !.met = {}].cut = history.cut
        /\ [history EXCEPT !.acts = acts, !.met = {}].trees = history.trees
    BY <1>1, Zenon DEF History
  <2>4. desk' = [desk EXCEPT !.held = @ \/ child.does = "mouse"]
        /\ history'.cut = history.cut /\ history'.trees = history.trees
    BY <1>1, <2>2, <2>3, HistoryFields, BecomesFields
  <2>5. (desk'.held <=> desk.held \/ child.does = "mouse") /\ desk'.trees = desk.trees
    BY <1>1, <2>4 DEF Desktop
  <2> QED BY <1>17, <2>1, <2>4, <2>5 DEF Acts, Traces
<1>18. CASE Ends
  <2>1. Becomes([desk EXCEPT !.held = IF child.does = "mouse" THEN FALSE ELSE @], history)
    BY <1>18 DEF Ends
  <2>2. desk' = [desk EXCEPT !.held = IF child.does = "mouse" THEN FALSE ELSE @]
    BY <2>1 DEF Becomes
  <2>3. (desk'.held <=> desk.held /\ child.does # "mouse") /\ desk'.trees = desk.trees
    BY <1>1, <2>2 DEF Desktop
  <2>4. history'.cut = history.cut /\ history'.trees = history.trees
    BY <1>7, <2>1
  <2> QED BY <1>6, <1>18, <2>3, <2>4 DEF Ends, Traces
<1>19. CASE ActRefused
  BY <1>6, <1>19 DEF ActRefused, Traces
<1>20. CASE CutShort
  <2>1. [history EXCEPT !.cut = TRUE].cut
    BY <1>1 DEF History
  <2>2. history'.cut
    BY <1>1, <1>20, <2>1, HistoryFields, BecomesFields DEF CutShort
  <2> QED BY <2>2 DEF Traces
<1> QED
  BY <1>2, <1>3, <1>4, <1>5, <1>8, <1>9, <1>10, <1>11, <1>12, <1>15, <1>16, <1>17, <1>18, <1>19, <1>20
     DEF Next, ChildWorks

(***************************************************************************)
(* Where the clicks go.                                                    *)
(***************************************************************************)

\* What a child does to the desktop and to the history, but for the act itself.
LEMMA ChildMakes ==
  ASSUME TypeOK, ChildWorks, ~Acts
  PROVE  /\ history'.stirred = history.stirred /\ history'.acts = history.acts
         /\ desk'.from = desk.from
         /\ ~Raises => desk'.front = desk.front
<1>1. history \in History /\ desk \in Desktop
  BY DEF TypeOK
<1>2. ASSUME NEW d, Becomes(d, history)
      PROVE  desk' = d /\ history'.stirred = history.stirred /\ history'.acts = history.acts
  BY <1>1, <1>2, BecomesFields
<1>3. ASSUME NEW trees, Becomes([desk EXCEPT !.trees = trees], history)
      PROVE  /\ history'.stirred = history.stirred /\ history'.acts = history.acts
             /\ desk'.from = desk.from /\ desk'.front = desk.front
  <2>1. desk' = [desk EXCEPT !.trees = trees]
    BY <1>3 DEF Becomes
  <2>2. desk'.from = desk.from /\ desk'.front = desk.front
    BY <1>1, <2>1 DEF Desktop
  <2> QED BY <1>2, <1>3, <2>2
<1>4. CASE LookupRefused \/ FindsApp \/ ReadsWindow \/ ActRefused
  BY <1>4 DEF LookupRefused, FindsApp, ReadsWindow, ActRefused
<1>5. CASE Raises
  <2>1. Becomes([desk EXCEPT !.front = child.app], history)
    BY <1>5 DEF Raises
  <2>2. desk' = [desk EXCEPT !.front = child.app]
    BY <2>1 DEF Becomes
  <2>3. desk'.from = desk.from
    BY <1>1, <2>2 DEF Desktop
  <2> QED BY <1>2, <1>5, <2>1, <2>3
<1>6. CASE Picks
  BY <1>3, <1>6 DEF Picks
<1>7. CASE PollsAgain \/ GivesUp
  BY <1>3, <1>7 DEF PollsAgain, GivesUp
<1>8. CASE Ends
  <2>1. Becomes([desk EXCEPT !.held = IF child.does = "mouse" THEN FALSE ELSE @], history)
    BY <1>8 DEF Ends
  <2>2. desk' = [desk EXCEPT !.held = IF child.does = "mouse" THEN FALSE ELSE @]
    BY <2>1 DEF Becomes
  <2>3. desk'.from = desk.from /\ desk'.front = desk.front
    BY <1>1, <2>2 DEF Desktop
  <2> QED BY <1>2, <2>1, <2>3
<1>9. CASE CutShort
  <2>1. desk' = desk
    BY <1>9 DEF CutShort, Becomes
  <2>2. [history EXCEPT !.cut = TRUE].stirred = history.stirred
        /\ [history EXCEPT !.cut = TRUE].acts = history.acts
    BY <1>1 DEF History
  <2>3. history'.stirred = history.stirred /\ history'.acts = history.acts
    BY <1>1, <1>9, <2>2, HistoryFields, BecomesFields DEF CutShort
  <2> QED BY <2>1, <2>3
<1> QED
  BY <1>4, <1>5, <1>6, <1>7, <1>8, <1>9 DEF ChildWorks

\* What the child prints, when it prints.
LEMMA PrintsFields ==
  ASSUME TypeOK, NEW got, NEW x, Prints(got, x)
  PROVE  /\ child'.stage = "answered" /\ child'.got = got /\ child'.x = x
         /\ child'.app = child.app /\ child'.does = child.does
BY DEF TypeOK, Prints, Child

\* An element in sight lies in the window, if that is where the child read it.
LEMMA HitInWindow ==
  ASSUME TypeOK, NEW i \in Hits, PrintsHit(i),
         child.frame \in {desk.from[child.app], Nowhere}
  PROVE  /\ child'.stage = "answered" /\ child'.app = child.app /\ child'.does = child.does
         /\ child'.got = "ok" => InWindow(desk, child.app, child'.x)
<1>1. Prints(IF Visible(CentreOf(i)) THEN "ok" ELSE "hidden", CentreOf(i))
  BY DEF PrintsHit
<1> QED BY <1>1, PrintsFields DEF Visible, InWindow

LEMMA ChildAims ==
  TypeOK /\ Control /\ Aiming /\ ChildWorks => Aiming'
<1> SUFFICES ASSUME TypeOK, Control, Aiming, ChildWorks PROVE Aiming'
  OBVIOUS
<1>1. child \in Child
  BY DEF TypeOK
<1>2. UNCHANGED <<step, place, point, trial>>
  BY DEF ChildWorks, LookupRefused, FindsApp, Raises, ReadsWindow, Picks, PollsAgain, GivesUp, Acts,
         Ends, ActRefused, CutShort, ChildOnly
<1>3. CASE Acts
  <2>1. child.stage = "press" /\ child'.stage = "release"
    BY <1>1, <1>3 DEF Acts, Child
  <2> QED BY <1>2, <2>1 DEF Aiming, Control
<1>4. CASE ~Acts /\ place # "aiming"
  <2>1. ASSUME place = "acting" PROVE child'.stage = "answered"
    BY <1>4, <2>1, PrintsFields
       DEF Control, ChildWorks, LookupRefused, FindsApp, Raises, ReadsWindow, Picks, PollsAgain, GivesUp,
           Ends, ActRefused, CutShort, InLookup
  <2> QED BY <1>2, <1>4, <2>1 DEF Aiming
<1>5. CASE ~Acts /\ place = "aiming"
  <2> SUFFICES ASSUME ~history'.stirred PROVE FoundIsInFront'
    BY <1>2, <1>5 DEF Aiming
  <2>1. FoundIsInFront /\ desk'.from = desk.from /\ (~Raises => desk'.front = desk.front)
    BY <1>5, ChildMakes DEF Aiming
  <2>2. child.does \in {"find", "frame"} /\ child.stage \notin {"press", "release"}
    BY <1>5 DEF Control
  <2>3. ASSUME NEW x, Prints("no", x) PROVE FoundIsInFront'
    BY <2>3, PrintsFields DEF FoundIsInFront
  <2>4. CASE LookupRefused \/ GivesUp \/ CutShort \/ Ends \/ ActRefused
    BY <2>2, <2>3, <2>4 DEF LookupRefused, GivesUp, CutShort, Ends, ActRefused
  <2>5. CASE FindsApp
    <3>1. child'.stage = IF step.raise THEN "raise" ELSE "window"
      BY <1>1, <2>2, <2>5 DEF FindsApp, Child
    <3> QED BY <1>2, <3>1 DEF FoundIsInFront
  <2>6. CASE Raises
    <3>1. desk' = [desk EXCEPT !.front = child.app]
      BY <2>6 DEF Raises, Becomes
    <3>2. desk'.front = child.app
      BY <3>1 DEF TypeOK, Desktop
    <3>3. child'.stage = "window" /\ child'.app = child.app
      BY <1>1, <2>6 DEF Raises, Child
    <3> QED BY <3>2, <3>3 DEF FoundIsInFront
  <2>7. CASE ReadsWindow
    <3>1. desk' = desk /\ (step.raise => desk.front = child.app)
      BY <2>1, <2>7 DEF ReadsWindow, InLookup, FoundIsInFront
    <3>2. CASE child.does = "frame"
      <4>1. child'.stage = "answered" /\ child'.x = desk.from[child.app] /\ child'.app = child.app
            /\ child'.does = "frame"
        BY <2>7, <3>2, PrintsFields DEF ReadsWindow
      <4> QED BY <1>2, <3>1, <4>1 DEF FoundIsInFront
    <3>3. CASE child.does = "find"
      <4>1. child'.stage = "pick" /\ child'.app = child.app /\ child'.does = "find"
            /\ child'.frame \in {desk.from[child.app], Nowhere}
        BY <1>1, <2>7, <3>3 DEF ReadsWindow, Child
      <4> QED BY <1>2, <3>1, <4>1 DEF FoundIsInFront
    <3> QED BY <2>2, <3>2, <3>3
  <2>8. ASSUME NEW i \in Hits, PrintsHit(i), child.stage \in {"pick", "poll"}, ~Raises
        PROVE  FoundIsInFront'
    <3>1. child.does = "find" /\ child.frame \in {desk.from[child.app], Nowhere}
          /\ (step.raise => desk.front = child.app)
      BY <2>1, <2>8 DEF FoundIsInFront
    <3>2. /\ child'.stage = "answered" /\ child'.app = child.app /\ child'.does = "find"
          /\ child'.got = "ok" => InWindow(desk, child.app, child'.x)
      BY <2>8, <3>1, HitInWindow
    <3> QED BY <1>2, <2>1, <2>8, <3>1, <3>2 DEF FoundIsInFront, InWindow
  <2>9. CASE Picks
    <3>1. child.stage = "pick" /\ ~Raises
      BY <2>9 DEF Picks, InLookup, Raises
    <3>2. CASE Hits # {}
      BY <2>8, <2>9, <3>1, <3>2 DEF Picks
    <3>3. CASE Hits = {}
      <4>1. child'.stage = "poll" /\ child'.app = child.app /\ child'.does = child.does
            /\ child'.frame = child.frame
        BY <1>1, <2>9, <3>3 DEF Picks, Child
      <4> QED BY <1>2, <2>1, <3>1, <4>1 DEF FoundIsInFront
    <3> QED BY <3>2, <3>3
  <2>10. CASE PollsAgain
    <3>1. child.stage = "poll" /\ ~Raises
      BY <2>10 DEF PollsAgain, InLookup, Raises
    <3>2. CASE Hits # {}
      BY <2>8, <2>10, <3>1, <3>2 DEF PollsAgain
    <3>3. CASE Hits = {}
      <4>1. child'.stage = "poll" /\ child'.app = child.app /\ child'.does = child.does
            /\ child'.frame = child.frame
        BY <1>1, <2>10, <3>1, <3>3 DEF PollsAgain, Child
      <4> QED BY <1>2, <2>1, <3>1, <4>1 DEF FoundIsInFront
    <3> QED BY <3>2, <3>3
  <2> QED BY <1>5, <2>4, <2>5, <2>6, <2>7, <2>9, <2>10 DEF ChildWorks
<1> QED BY <1>3, <1>4, <1>5

LEMMA StepAims ==
  TypeOK /\ Control /\ Aiming /\ StepGoesOn => Aiming'
<1> SUFFICES ASSUME TypeOK, Control, Aiming, StepGoesOn PROVE Aiming'
  OBVIOUS
<1>1. step \in MacStep /\ child \in Child /\ history \in History
  BY MacAssumption DEF TypeOK
<1>2. ASSUME place' \notin {"aiming", "acting"} PROVE Aiming'
  BY <1>2 DEF Aiming
<1>3. CASE StartFails \/ StartRaises \/ LookupFails \/ ActFails \/ ActPasses \/ ExpectRaises
           \/ ExpectationMet \/ NotMet
  BY <1>2, <1>3
     DEF StartFails, StartRaises, LookupFails, ActFails, ActPasses, ExpectRaises, ExpectationMet,
         NotMet, Settle
<1>4. CASE Preflight \/ ChecksExpect \/ FrontIsRight \/ LooksAgain
  BY <1>2, <1>4 DEF Preflight, ChecksExpect, FrontIsRight, LooksAgain, GoOn
<1>5. CASE LooksUp
  <2>1. place' = "aiming" /\ child'.stage = "app"
    BY <1>5 DEF LooksUp, GoOn, Runs
  <2> QED BY <2>1 DEF Aiming, FoundIsInFront
<1>6. CASE Aimed
  <2> DEFINE x == child.x + (IF child.does = "frame" THEN step.at ELSE 0)
  <2>1. place' = "acting" /\ UNCHANGED <<step, desk, history>> /\ point'.app = child.app /\ point'.x = x
    BY <1>6 DEF Aimed, Targets, GoOn
  <2> SUFFICES ASSUME ~history.stirred, TakesAim PROVE PointIsInFront'
    BY <2>1 DEF Aiming, TakesAim, Aims
  <2>2. step.raise /\ (Aims("element") \/ (Aims("window") /\ step.at < Width))
    BY DEF TakesAim
  <2>3. desk.front = child.app
    BY <1>6, <2>2 DEF Aimed, Aiming, FoundIsInFront
  <2>4. CASE child.does = "find"
    <3>1. InWindow(desk, child.app, child.x) /\ x = child.x
      BY <1>1, <1>6, <2>2, <2>4 DEF Aimed, Aiming, FoundIsInFront, Child
    <3> QED BY <2>1, <2>3, <3>1 DEF PointIsInFront, InWindow
  <2>5. CASE child.does = "frame"
    <3>1. step.at < Width
      BY <1>6, <2>2, <2>5 DEF Control, Aimed, Aims
    <3>2. child.x = desk.from[child.app]
      BY <1>6, <2>2, <2>5 DEF Aimed, Aiming, FoundIsInFront
    <3>3. x \in desk.from[child.app] .. (desk.from[child.app] + Width - 1)
      BY <1>1, <2>5, <3>1, <3>2 DEF MacStep, Child, Width
    <3> QED BY <2>1, <2>3, <3>3 DEF PointIsInFront, InWindow
  <2> QED BY <1>6, <2>4, <2>5 DEF Control, Aimed
<1>7. CASE ActsAtOnce
  <2>1. place' = "acting" /\ UNCHANGED step /\ ~TakesAim
    BY <1>7 DEF ActsAtOnce, Targets, GoOn, TakesAim
  <2> QED BY <2>1 DEF Aiming, TakesAim, Aims
<1> QED
  BY <1>3, <1>4, <1>5, <1>6, <1>7 DEF StepGoesOn

LEMMA AimingStep ==
  TypeOK /\ Control /\ Aiming /\ [Next]_vars => Aiming'
<1> SUFFICES ASSUME TypeOK, Control, Aiming, [Next]_vars PROVE Aiming'
  OBVIOUS
<1>1. history \in History /\ desk \in Desktop
  BY DEF TypeOK
<1>2. CASE UNCHANGED vars \/ Over
  BY <1>2 DEF vars, Over, Aiming, FoundIsInFront, PointIsInFront, InWindow, TakesAim, Aims
<1>3. CASE DeskMoves
  <2>1. PICK d : Becomes(d, [history EXCEPT !.stirred = TRUE])
    BY <1>3 DEF DeskMoves
  <2>2. [history EXCEPT !.stirred = TRUE].stirred
    BY <1>1 DEF History
  <2>3. history'.stirred
    BY <1>1, <2>1, <2>2, HistoryFields, BecomesFields
  <2> QED BY <2>3 DEF Aiming
<1>4. CASE TreeIsBuilt
  <2>1. PICK c \in Contents : Becomes([desk EXCEPT !.shows = [@ EXCEPT ![child.app] = c]], history)
    BY <1>4 DEF TreeIsBuilt
  <2>2. desk' = [desk EXCEPT !.shows = [@ EXCEPT ![child.app] = c]]
    BY <2>1 DEF Becomes
  <2>3. desk'.from = desk.from /\ desk'.front = desk.front
    BY <1>1, <2>2 DEF Desktop
  <2>4. history'.stirred = history.stirred
    BY <1>1, <2>1, BecomesFields
  <2> QED
    BY <1>4, <2>3, <2>4
       DEF TreeIsBuilt, Aiming, FoundIsInFront, PointIsInFront, InWindow, TakesAim, Aims
<1> QED
  BY <1>2, <1>3, <1>4, ChildAims, StepAims DEF Next

LEMMA ClicksStep ==
  TypeOK /\ Control /\ Aiming /\ AimedClicksLand /\ [Next]_vars => AimedClicksLand'
<1> SUFFICES ASSUME TypeOK, Control, Aiming, AimedClicksLand, [Next]_vars PROVE AimedClicksLand'
  OBVIOUS
<1>1. history \in History /\ child \in Child
  BY DEF TypeOK
<1>2. ASSUME history'.acts = history.acts PROVE AimedClicksLand'
  BY <1>2 DEF AimedClicksLand
<1>3. CASE UNCHANGED vars \/ Over
  BY <1>2, <1>3 DEF vars, Over
<1>4. CASE StepGoesOn
  BY <1>2, <1>4, StepMakes
<1>5. CASE DeskMoves
  <2>1. PICK d : Becomes(d, [history EXCEPT !.stirred = TRUE])
    BY <1>5 DEF DeskMoves
  <2>2. [history EXCEPT !.stirred = TRUE].acts = history.acts
    BY <1>1 DEF History
  <2> QED BY <1>1, <1>2, <2>1, <2>2, HistoryFields, BecomesFields
<1>6. CASE TreeIsBuilt
  <2>1. PICK d : Becomes(d, history)
    BY <1>6 DEF TreeIsBuilt
  <2> QED BY <1>1, <1>2, <2>1, BecomesFields
<1>7. CASE ChildWorks /\ ~Acts
  BY <1>2, <1>7, ChildMakes
<1>8. CASE Acts
  <2>1. ThisAct.aimed /\ ~ThisAct.stirred => ThisAct.at = ThisAct.app
    <3> SUFFICES ASSUME ThisAct.aimed, ~ThisAct.stirred PROVE ThisAct.at = ThisAct.app
      OBVIOUS
    <3>1. child.does = "mouse" /\ TakesAim /\ ~history.stirred
          /\ ThisAct.at = Under(desk, point.x) /\ ThisAct.app = point.app
      BY DEF ThisAct
    <3>2. place = "acting" /\ child.stage = "press"
      BY <1>1, <1>8 DEF Acts, Control, TypeOK
    <3>3. PointIsInFront
      BY <3>1, <3>2 DEF Aiming
    <3> QED BY <3>1, <3>3 DEF PointIsInFront, Under
  <2>2. history.acts \in Seq(Act) /\ ThisAct \in Act
    BY <1>1, ActType DEF History
  <2>3. history'.acts = Append(history.acts, ThisAct)
    <3> DEFINE acts == Append(history.acts, ThisAct)
    <3>1. Becomes([desk EXCEPT !.held = @ \/ child.does = "mouse"],
                  [history EXCEPT !.acts = acts, !.met = {}])
      BY <1>8 DEF Acts
    <3>2. acts \in Seq(Act)
      BY <2>2
    <3> HIDE DEF acts
    <3>3. [history EXCEPT !.acts = acts, !.met = {}].acts = acts
      BY <1>1, Zenon DEF History
    <3>4. history'.acts = acts
      BY <1>1, <3>1, <3>2, <3>3, HistoryFields, BecomesFields
    <3> QED BY <3>4 DEF acts
  <2> QED BY <2>1, <2>2, <2>3 DEF AimedClicksLand
<1> QED
  BY <1>3, <1>4, <1>5, <1>6, <1>7, <1>8 DEF Next

(***************************************************************************)
(* What a check has seen.                                                  *)
(***************************************************************************)

\* Nothing that held since the act is forgotten while the step goes on.
LEMMA MetGrows ==
  ASSUME TypeOK, NEW d, NEW h \in History, Becomes(d, h), h.met = history.met
  PROVE  /\ history.met \subseteq history'.met
         /\ Acting => Held(desk') \subseteq history'.met
<1>1. desk' = d /\ history'.met = IF Acting THEN h.met \cup Held(d) ELSE h.met
  BY BecomesFields
<1> QED BY <1>1

LEMMA ChildKeepsMet ==
  ASSUME TypeOK, ChildWorks, ~Acts
  PROVE  /\ history.met \subseteq history'.met
         /\ (Acting /\ Held(desk) \subseteq history.met) => Held(desk') \subseteq history'.met
<1>1. history \in History
  BY DEF TypeOK
<1>2. CASE UNCHANGED <<desk, history>>
  BY <1>2 DEF Held
<1>3. ASSUME NEW d, Becomes(d, history)
      PROVE  /\ history.met \subseteq history'.met
             /\ Acting => Held(desk') \subseteq history'.met
  BY <1>1, <1>3, MetGrows
<1>4. CASE LookupRefused \/ FindsApp \/ ReadsWindow \/ ActRefused
  BY <1>2, <1>4 DEF LookupRefused, FindsApp, ReadsWindow, ActRefused
<1>5. CASE Raises \/ Ends \/ GivesUp
  BY <1>3, <1>5 DEF Raises, Ends, GivesUp
<1>6. CASE Picks
  BY <1>2, <1>3, <1>6 DEF Picks
<1>7. CASE PollsAgain
  BY <1>2, <1>3, <1>7 DEF PollsAgain
<1>8. CASE CutShort
  <2>1. [history EXCEPT !.cut = TRUE] \in History /\ [history EXCEPT !.cut = TRUE].met = history.met
    BY <1>1, HistoryFields DEF History
  <2> QED BY <1>8, <2>1, MetGrows DEF CutShort
<1> QED
  BY <1>4, <1>5, <1>6, <1>7, <1>8 DEF ChildWorks

\* An element the check has hit is one that was there.
LEMMA HitsAreHeld ==
  ASSUME TypeOK, child.does = "expected", Hits # {}
  PROVE  "element" \in Held(desk)
<1>1. Pick(desk.shows[child.app], "contains") # {} /\ child.app \in Apps
  BY DesktopType DEF Hits, Sought
<1> QED BY <1>1 DEF Held

LEMMA ActHolds ==
  ASSUME TypeOK, Control, Acts
  PROVE  HasActed' /\ Held(desk') \subseteq history'.met /\ place = "acting" /\ UNCHANGED <<place, step>>
<1>1. history \in History /\ child \in Child
  BY DEF TypeOK
<1> DEFINE acts == Append(history.acts, ThisAct)
           n == Len(history.acts) + 1
<1>2. history.acts \in Seq(Act) /\ acts \in Seq(Act)
  BY <1>1, ActType DEF History
<1>3. n \in DOMAIN acts /\ acts[n] = ThisAct
  BY <1>2, ActType
<1>4. place = "acting" /\ UNCHANGED <<place, step, trial>>
  BY <1>1 DEF Acts, Control, TypeOK, ChildOnly
<1>5. Becomes([desk EXCEPT !.held = @ \/ child.does = "mouse"],
              [history EXCEPT !.acts = acts, !.met = {}])
  BY DEF Acts
<1> HIDE DEF acts
<1>6. [history EXCEPT !.acts = acts, !.met = {}].acts = acts
  BY <1>1, Zenon DEF History
<1>7. [history EXCEPT !.acts = acts, !.met = {}] \in History
  BY <1>1, <1>2, HistoryFields
<1> DEFINE d == [desk EXCEPT !.held = @ \/ child.does = "mouse"]
           h == [history EXCEPT !.acts = acts, !.met = {}]
<1>8. h \in History /\ h.acts = acts /\ Becomes(d, h)
  BY <1>5, <1>6, <1>7
<1> HIDE DEF d, h
<1>9. desk' = d /\ history'.acts = acts /\ (Acting => Held(d) \subseteq history'.met)
  BY <1>8, BecomesFields
<1>10. Held(desk') \subseteq history'.met
  BY <1>4, <1>9 DEF Acting
<1>11. ThisAct.attempt = trial.attempt
  BY DEF ThisAct
<1>12. HasActed'
  BY <1>3, <1>4, <1>9, <1>11 DEF HasActed
<1> QED BY <1>4, <1>10, <1>12

LEMMA ChildEvidence ==
  TypeOK /\ Control /\ Evidence /\ ChildWorks => Evidence'
<1> SUFFICES ASSUME TypeOK, Control, Evidence, ChildWorks PROVE Evidence'
  OBVIOUS
<1>1. child \in Child
  BY DEF TypeOK
<1>2. CASE Acts
  <2>1. HasActed' /\ Held(desk') \subseteq history'.met /\ place' = "acting"
    BY <1>2, ActHolds
  <2> QED BY <2>1 DEF Evidence
<1>3. CASE ~Acts
  <2>1. UNCHANGED <<step, place, point, trial>>
    BY DEF ChildWorks, LookupRefused, FindsApp, Raises, ReadsWindow, Picks, PollsAgain, GivesUp, Acts,
           Ends, ActRefused, CutShort, ChildOnly
  <2>2. history.met \subseteq history'.met /\ history'.acts = history.acts
        /\ ((Acting /\ Held(desk) \subseteq history.met) => Held(desk') \subseteq history'.met)
    BY <1>3, ChildKeepsMet, ChildMakes
  <2>3. HasActed' <=> HasActed
    BY <2>1, <2>2 DEF HasActed
  <2>4. ASSUME TookEffect' PROVE TookEffect
    <3>1. place = "acting" /\ child.stage \in {"press", "release", "answered"}
          /\ child.does \in {"mouse", "script", "screenshot"}
      BY <2>1, <2>4 DEF TookEffect, Control
    <3>2. CASE Ends
      <4>1. child'.does = child.does
        BY <3>2, PrintsFields DEF Ends
      <4> QED BY <2>4, <3>1, <3>2, <4>1 DEF Ends, TookEffect
    <3>3. CASE ~Ends
      <4>1. child'.stage = "answered" /\ child'.got = "no"
        BY <1>3, <3>1, <3>3, PrintsFields
           DEF ChildWorks, LookupRefused, FindsApp, Raises, ReadsWindow, Picks, PollsAgain, GivesUp,
               ActRefused, CutShort, InLookup
      <4> QED BY <2>4, <4>1 DEF TookEffect
    <3> QED BY <3>2, <3>3
  <2>5. TookEffect' \/ place' \in {"checking", "looking"} => HasActed' /\ Held(desk') \subseteq history'.met
    BY <2>1, <2>2, <2>3, <2>4 DEF Evidence, Acting, TookEffect
  <2>6. ASSUME place' = "checking", child'.stage = "answered", child'.got # "no"
        PROVE  /\ child'.app = "named" => "front_app" \in history'.met
               /\ child'.x # 0 => "title" \in history'.met
    <3>1. child.does = "front" /\ child.stage \in {"app", "answered"} /\ Held(desk) \subseteq history.met
      BY <2>1, <2>6 DEF Control, Evidence
    <3>2. FindsApp
      BY <1>3, <2>6, <3>1, PrintsFields
         DEF ChildWorks, LookupRefused, Raises, ReadsWindow, Picks, PollsAgain, GivesUp, Ends,
             ActRefused, CutShort, InLookup
    <3>3. child'.app = desk.front /\ child'.x = IF desk.front \in desk.titled THEN 1 ELSE 0
      BY <1>1, <3>1, <3>2 DEF FindsApp, ByName, Child
    <3> QED BY <2>2, <3>1, <3>3 DEF Held
  <2>7. step'.expect \cap {"front_app", "title"} \subseteq history'.met \/ place' # "looking"
    BY <2>1, <2>2 DEF Evidence
  <2>8. ASSUME place' = "looking", child'.stage = "answered", child'.got # "no"
        PROVE  "element" \in history'.met
    <3>1. child.does = "expected" /\ child.stage \notin {"raise", "press", "release"}
          /\ Held(desk) \subseteq history.met
      BY <2>1, <2>8 DEF Control, Evidence
    <3>2. ASSUME FindsApp PROVE FALSE
      <4>1. child'.stage = "window"
        BY <1>1, <3>1, <3>2 DEF FindsApp, Child
      <4> QED BY <2>8, <4>1
    <3>3. ASSUME ReadsWindow PROVE FALSE
      <4>1. child'.stage = "pick"
        BY <1>1, <3>1, <3>3 DEF ReadsWindow, Child
      <4> QED BY <2>8, <4>1
    <3>4. Picks \/ PollsAgain
      BY <1>3, <2>8, <3>1, <3>2, <3>3, PrintsFields
         DEF ChildWorks, LookupRefused, Raises, GivesUp, Ends, ActRefused, CutShort, InLookup
    <3>5. ASSUME Hits = {} PROVE FALSE
      <4>1. child'.stage = "poll"
        BY <1>1, <3>4, <3>5 DEF Picks, PollsAgain, Child, InLookup
      <4> QED BY <2>8, <4>1
    <3> QED BY <2>2, <3>1, <3>5, HitsAreHeld
  <2> QED BY <2>5, <2>6, <2>7, <2>8 DEF Evidence
<1> QED BY <1>2, <1>3

LEMMA MoveEvidence ==
  TypeOK /\ Evidence /\ (DeskMoves \/ TreeIsBuilt) => Evidence'
<1> SUFFICES ASSUME TypeOK, Evidence, DeskMoves \/ TreeIsBuilt PROVE Evidence'
  OBVIOUS
<1>1. history \in History
  BY DEF TypeOK
<1>2. \E d : \E stirred \in BOOLEAN : Becomes(d, [history EXCEPT !.stirred = stirred])
  <2>1. CASE DeskMoves
    BY <2>1 DEF DeskMoves
  <2>2. CASE TreeIsBuilt
    <3>1. [history EXCEPT !.stirred = history.stirred] = history /\ history.stirred \in BOOLEAN
      BY <1>1 DEF History
    <3> QED BY <2>2, <3>1 DEF TreeIsBuilt
  <2> QED BY <2>1, <2>2
<1>2a. PICK d : \E stirred \in BOOLEAN : Becomes(d, [history EXCEPT !.stirred = stirred])
  BY <1>2
<1>2b. PICK stirred \in BOOLEAN : Becomes(d, [history EXCEPT !.stirred = stirred])
  BY <1>2a
<1> DEFINE h == [history EXCEPT !.stirred = stirred]
<1>3. h \in History /\ h.met = history.met /\ h.acts = history.acts
  BY <1>1, HistoryFields DEF History
<1> HIDE DEF h
<1>4. Becomes(d, h)
  BY <1>2b DEF h
<1>5. history'.acts = history.acts /\ history.met \subseteq history'.met
      /\ (Acting => Held(desk') \subseteq history'.met)
  BY <1>3, <1>4, MetGrows, BecomesFields
<1>6. UNCHANGED <<step, place, child, point, trial, outcome>>
  BY DEF DeskMoves, TreeIsBuilt
<1> QED BY <1>5, <1>6 DEF Evidence, TookEffect, HasActed, Acting

LEMMA SettleKeeps ==
  ASSUME TypeOK, NEW result, Settle(result)
  PROVE  /\ place' \in {"start", "done"} /\ outcome' = result /\ UNCHANGED step
         /\ place' = "done" => UNCHANGED trial /\ history'.met = history.met /\ history'.acts = history.acts
BY DEF Settle, TypeOK, History

LEMMA StepEvidence ==
  TypeOK /\ Control /\ Evidence /\ PassedMeansMet /\ StepGoesOn => Evidence' /\ PassedMeansMet'
<1> SUFFICES ASSUME TypeOK, Control, Evidence, PassedMeansMet, StepGoesOn PROVE Evidence' /\ PassedMeansMet'
  OBVIOUS
<1>1. step \in MacStep /\ history \in History
  BY MacAssumption DEF TypeOK
<1>2. ASSUME place' \notin {"acting", "checking", "looking", "done"} PROVE Evidence' /\ PassedMeansMet'
  BY <1>2 DEF Evidence, TookEffect, PassedMeansMet
<1>3. ASSUME NEW result, Settle(result), result = "passed" => place # "done" /\ HasActed,
             result = "passed" /\ step.kind # "mac_screenshot" => step.expect \subseteq history.met
      PROVE  Evidence' /\ PassedMeansMet'
  BY <1>3, SettleKeeps DEF Evidence, TookEffect, PassedMeansMet, HasActed
<1>4. CASE Preflight \/ LooksUp
  BY <1>2, <1>4 DEF Preflight, LooksUp, GoOn
<1>5. CASE StartFails \/ StartRaises \/ LookupFails \/ ActFails \/ ExpectRaises \/ NotMet
  BY <1>3, <1>5 DEF StartFails, StartRaises, LookupFails, ActFails, ExpectRaises, NotMet
<1>6. ASSUME place' = "acting", child'.stage = "press" \/ child'.does = "screenshot"
      PROVE  Evidence' /\ PassedMeansMet'
  BY <1>6 DEF Evidence, TookEffect, PassedMeansMet
<1>7. CASE Aimed
  BY <1>6, <1>7 DEF Aimed, Targets, GoOn, Runs
<1>8. CASE ActsAtOnce
  BY <1>6, <1>8 DEF ActsAtOnce, Targets, GoOn, Runs
<1>9. ASSUME place' \in {"checking", "looking"}, child'.stage = "app", UNCHANGED <<desk, step, history>>,
             trial'.attempt = trial.attempt, TookEffect \/ place \in {"checking", "looking"},
             place' = "looking" => step.expect \cap {"front_app", "title"} \subseteq history.met
      PROVE  Evidence' /\ PassedMeansMet'
  BY <1>9 DEF Evidence, TookEffect, PassedMeansMet, HasActed, Held
<1>10. CASE ChecksExpect
  <2>1. TookEffect
    BY <1>10 DEF ChecksExpect, ActDone, Unchecked, Control, TookEffect
  <2> QED BY <1>9, <1>10, <2>1 DEF ChecksExpect, GoOn, Runs
<1>11. ASSUME Answered, ~Problem, place = "checking"
       PROVE  step.expect \cap {"front_app", "title"} \subseteq history.met
  BY <1>11 DEF Answered, Problem, FrontProblem, Evidence
<1>12. CASE FrontIsRight
  BY <1>9, <1>11, <1>12 DEF FrontIsRight, GoOn, Runs
<1>13. CASE LooksAgain
  <2>1. trial'.attempt = trial.attempt
    BY <1>13 DEF LooksAgain, TypeOK
  <2> QED BY <1>9, <1>13, <2>1 DEF LooksAgain, Answered, Runs
<1>14. CASE ActPasses
  <2>1. CASE step.kind = "mac_screenshot"
    <3>1. outcome' = "passed" /\ UNCHANGED step /\ place' \in {"start", "done"}
      BY <1>14, SettleKeeps DEF ActPasses
    <3> QED BY <2>1, <3>1 DEF Evidence, TookEffect, PassedMeansMet
  <2>2. CASE step.kind # "mac_screenshot"
    <3>1. TookEffect /\ step.expect = {}
      BY <1>14, <2>2 DEF ActPasses, ActDone, Unchecked, Control, TookEffect
    <3> QED BY <1>3, <1>14, <3>1 DEF ActPasses, ActDone, Evidence
  <2> QED BY <2>1, <2>2
<1>15. CASE ExpectationMet
  <2>1. HasActed /\ place # "done"
    BY <1>15 DEF ExpectationMet, Answered, Evidence
  <2>2. step.expect \subseteq {"front_app", "title", "element"}
    BY <1>1 DEF MacStep, Expectations
  <2>3. CASE place = "checking"
    BY <1>3, <1>11, <1>15, <2>1, <2>2, <2>3 DEF ExpectationMet
  <2>4. CASE place = "looking"
    <3>1. "element" \in history.met /\ step.expect \cap {"front_app", "title"} \subseteq history.met
      BY <1>15, <2>4 DEF ExpectationMet, Answered, Problem, Evidence
    <3> QED BY <1>3, <1>15, <2>1, <2>2, <3>1 DEF ExpectationMet
  <2> QED BY <1>15, <2>3, <2>4 DEF ExpectationMet, Answered
<1> QED
  BY <1>4, <1>5, <1>7, <1>8, <1>10, <1>12, <1>13, <1>14, <1>15 DEF StepGoesOn

LEMMA EvidenceStep ==
  TypeOK /\ Control /\ Evidence /\ PassedMeansMet /\ [Next]_vars => Evidence' /\ PassedMeansMet'
<1> SUFFICES ASSUME TypeOK, Control, Evidence, PassedMeansMet, [Next]_vars
             PROVE  Evidence' /\ PassedMeansMet'
  OBVIOUS
<1>1. CASE UNCHANGED vars \/ Over
  BY <1>1 DEF vars, Over, Evidence, TookEffect, HasActed, Held, PassedMeansMet
<1>2. CASE StepGoesOn
  BY <1>2, StepEvidence
<1>3. ASSUME place \notin {"done"}, UNCHANGED place PROVE PassedMeansMet'
  BY <1>3 DEF PassedMeansMet
<1>4. CASE DeskMoves \/ TreeIsBuilt
  BY <1>3, <1>4, MoveEvidence DEF DeskMoves, TreeIsBuilt, Control
<1>5. CASE ChildWorks
  <2>1. child.stage # "answered" /\ UNCHANGED place
    BY <1>5
       DEF ChildWorks, LookupRefused, FindsApp, Raises, ReadsWindow, Picks, PollsAgain, GivesUp, Acts,
           Ends, ActRefused, CutShort, ChildOnly, InLookup
  <2> QED BY <1>3, <1>5, <2>1, ChildEvidence DEF Control
<1> QED BY <1>1, <1>2, <1>4, <1>5 DEF Next

(***************************************************************************)
(* The theorems.                                                           *)
(***************************************************************************)

LEMMA InitIInv == Init => IInv
<1> SUFFICES ASSUME Init PROVE IInv
  OBVIOUS
<1>1. step \in MacStep
  BY MacAssumption DEF Init
<1>2. desk \in Desktop
  <2>1. desk.from \in [Apps -> 0..MaxPosition] /\ 0 \in 0..MaxMoves
    BY MacAssumption DEF Init
  <2>2. {} \in SUBSET Apps /\ {"named"} \in SUBSET Apps
    BY DEF Apps
  <2> QED BY <2>1, <2>2 DEF Init, Desktop
<1>3. child \in Child /\ child.stage = "answered" /\ child.got = "no"
  BY MacAssumption DEF Init, Child, Programs, Stages, Apps, Nowhere
<1>4. desk.trees \in SUBSET Apps /\ desk.held = FALSE
  BY <1>2 DEF Desktop, Init
<1>5. << >> \in Seq(Act)
  OBVIOUS
<1>6. history \in History
  BY <1>4, <1>5 DEF Init, History
<1>7. trial \in [attempt : 1..step.tries, polls : 0..MaxPolls]
  BY <1>1, MacAssumption DEF Init, MacStep
<1>8. TypeOK
  BY <1>2, <1>3, <1>6, <1>7 DEF Init, TypeOK, Apps
<1>9. Control /\ Aiming /\ Evidence
  BY <1>3 DEF Init, Control, Aiming, Evidence, TookEffect
<1>10. Traces
  BY <1>3, <1>4 DEF Init, Traces
<1>11. AimedClicksLand /\ PassedMeansMet
  BY DEF Init, AimedClicksLand, PassedMeansMet
<1> QED BY <1>8, <1>9, <1>10, <1>11 DEF IInv

LEMMA Inductive == Spec => []IInv
<1>1. IInv /\ [Next]_vars => IInv'
  BY TypeStep, ControlStep, TracesStep, AimingStep, ClicksStep, EvidenceStep DEF IInv
<1> QED BY <1>1, InitIInv, PTL DEF Spec

\* Every variable keeps its type, for all steps, contents and bounds.
THEOREM MacTypeCorrect == Spec => []TypeOK
<1>1. IInv => TypeOK
  BY DEF IInv
<1> QED BY <1>1, Inductive, PTL

\* A click or a drag that was aimed at a window lands in it, unless the desktop
\* was stirred between the lookup and the click (_resolve_point, _ax_child.main).
THEOREM ClicksLandWhereAimed == Spec => []AimedClicksLand
<1>1. IInv => AimedClicksLand
  BY DEF IInv
<1> QED BY <1>1, Inductive, PTL

\* A step that passed has acted in its last attempt, and each of its
\* expectations held after that (_check_expect).
THEOREM PassedStepsWereMet == Spec => []PassedMeansMet
<1>1. IInv => PassedMeansMet
  BY DEF IInv
<1> QED BY <1>1, Inductive, PTL

\* A step none of whose children was cut short leaves the mouse button up and
\* the accessibility trees as they were (_ax_child's finally, _MOUSE_PY).
THEOREM NothingStaysBehind == Spec => []LeavesNoTrace
<1>1. IInv => LeavesNoTrace
  BY DEF IInv, Traces, Control, LeavesNoTrace
<1> QED BY <1>1, Inductive, PTL
==============================================================================
