--------------------------- MODULE BrightSkyProofs ---------------------------
(***************************************************************************)
(* Proofs about the two halves of BrightSky.  What the run of one stored   *)
(* version promises (BrightSkyRun) holds for all versions, pages and       *)
(* replies of a healer; what the walk of the verification queue promises   *)
(* (BrightSkyVerify), for every queue and every length of a version.       *)
(***************************************************************************)
EXTENDS BrightSkyRun, BrightSkyVerify, SequenceTheorems, TLAPS

(***************************************************************************)
(* The run of one stored version: the invariant                            *)
(***************************************************************************)

\* The hook before, the action and the checks after it, of one execution.
Executing == phase \in {"before", "act", "acting", "after", "amend"}

Running == Executing \/ phase \in {"heal", "reply"}

HealedCfgs == {<< >>} \cup {reply[1].cfg : reply \in {r \in Replies : Len(r) = 1}}

Results == [status : {"passed", "healed", "failed"}, healed : HealedCfgs, left : {p.url : p \in Pages}]

\* A version that is run was mapped; the results are those of the steps before
\* the one at hand; a replacement differs from its step in the element only.
Control ==
  /\ version \in Versions /\ page \in Pages /\ at \in Nat /\ results \in Seq(Results)
  /\ Running \/ phase \in {"fetched", "unmappable", "done"}
  /\ phase \in {"fetched", "unmappable"} =>
       /\ at = 1 /\ steps = << >> /\ opened = {} /\ results = << >>
       /\ urls = << >> /\ first = << >> /\ looked = << >> /\ tiers = << >>
  /\ Running \/ phase = "done" => steps = map_version(version) /\ steps # << >>
  /\ Running =>
       /\ at \in 1..Len(steps) /\ Len(results) = at - 1
       /\ try.how \in {"own", "scroll", "wait", "reply"}
       /\ try.action = steps[at].action /\ try.url = steps[at].url
       /\ IF try.how = "reply" THEN try.cfg \in HealedCfgs ELSE try.cfg = steps[at].cfg
  /\ phase = "done" =>
       /\ at \in 1..Len(steps) /\ Len(results) = at
       /\ Len(results) = Len(steps) \/ results[Len(results)].status = "failed"

\* What is recorded of steps is recorded of those the run has come to.
Reached ==
  /\ DOMAIN tiers = DOMAIN looked
  /\ Running \/ phase = "done" => DOMAIN first \cup DOMAIN urls \cup DOMAIN looked \subseteq 1..at
  /\ Running /\ at \in DOMAIN first \cup DOMAIN urls \cup DOMAIN looked
     => phase # "before" \/ Inner

\* The URL the hook compares with is the one it first saw.
FirstUrls ==
  /\ \A i \in DOMAIN first : steps[i].kind = "url_change" => i \in DOMAIN urls /\ urls[i] = first[i]
  /\ DOMAIN urls \subseteq DOMAIN first \cup DOMAIN looked

\* The step itself is looked up before any replacement of it.
OwnFirst ==
  /\ \A i \in DOMAIN tiers : i # 1 /\ (tiers[i] # "none" => looked[i])
  /\ Running /\ at # 1 =>
       /\ at \in DOMAIN looked \/ (~ Inner /\ phase \in {"before", "act"})
       /\ at \in DOMAIN looked => Inner \/ phase \notin {"before", "act"}
       /\ ~ Inner /\ phase \in {"acting", "after"} => looked[at]
  /\ Running /\ phase = "amend" => Inner
  /\ \A i \in DOMAIN results :
       results[i].status = "passed" /\ i # 1 => i \in DOMAIN looked /\ looked[i]

IInv ==
  Control /\ Reached /\ FirstUrls /\ OwnFirst /\ OpensItsSiteOnly /\ UrlChangesLeaveTheFirstPage

(***************************************************************************)
(* Lemmas on what a mapped version is and on sequences                     *)
(***************************************************************************)

\* map_version gives the navigate, and then one step for each stored step.
LEMMA MapsStepByStep ==
  ASSUME NEW v, Len(v.steps) \in Nat \ {0}, DOMAIN v.steps = 1..Len(v.steps), map_version(v) # << >>
  PROVE  /\ Problems(v) = {}
         /\ Len(map_version(v)) = Len(v.steps) + 1
         /\ DOMAIN map_version(v) = 1..(Len(v.steps) + 1)
         /\ map_version(v)[1] = Navigate(v)
         /\ \A n \in DOMAIN v.steps : map_version(v)[n + 1] = Acting(v.steps[n], n)
<1> DEFINE S == {Navigate(v)} \cup {Acting(v.steps[n], n) : n \in DOMAIN v.steps}
           T == [n \in DOMAIN v.steps |-> Acting(v.steps[n], n)]
<1>1. Len(v.steps) \in Nat \ {0} /\ DOMAIN v.steps = 1..Len(v.steps)
  OBVIOUS
<1>2. Problems(v) = {} /\ map_version(v) = <<Navigate(v)>> \o T
  BY DEF map_version
<1>3. T \in Seq(S) /\ Len(T) = Len(v.steps) /\ \A n \in DOMAIN v.steps : T[n] = Acting(v.steps[n], n)
  <2> HIDE DEF S
  <2>1. \A n \in DOMAIN v.steps : Acting(v.steps[n], n) \in S
    BY DEF S
  <2>2. T \in [1..Len(v.steps) -> S] /\ \A n \in DOMAIN v.steps : T[n] = Acting(v.steps[n], n)
    BY <1>1, <2>1
  <2> QED BY <1>1, <2>2
<1>4. <<Navigate(v)>> \in Seq(S) /\ Len(<<Navigate(v)>>) = 1 /\ <<Navigate(v)>>[1] = Navigate(v)
  OBVIOUS
<1> HIDE DEF S, T
<1>5. /\ Len(map_version(v)) = Len(v.steps) + 1
      /\ DOMAIN map_version(v) = 1..(Len(v.steps) + 1)
  BY <1>1, <1>2, <1>3, <1>4
<1>6. map_version(v)[1] = Navigate(v)
  BY <1>1, <1>2, <1>3, <1>4
<1>7. ASSUME NEW n \in DOMAIN v.steps PROVE map_version(v)[n + 1] = Acting(v.steps[n], n)
  BY <1>1, <1>2, <1>3, <1>4
<1> QED BY <1>1, <1>2, <1>5, <1>6, <1>7

\* So it does with the stored versions.
LEMMA MapFacts ==
  ASSUME NEW v \in Versions, map_version(v) # << >>
  PROVE  /\ Problems(v) = {} /\ Len(v.steps) \in Nat \ {0} /\ DOMAIN v.steps = 1..Len(v.steps)
         /\ Len(map_version(v)) = Len(v.steps) + 1
         /\ DOMAIN map_version(v) = 1..(Len(v.steps) + 1)
         /\ map_version(v)[1] = Navigate(v)
         /\ \A n \in DOMAIN v.steps : map_version(v)[n + 1] = Acting(v.steps[n], n)
<1>1. Len(v.steps) \in Nat \ {0} /\ DOMAIN v.steps = 1..Len(v.steps)
  BY VersionsAssumption
<1> QED BY <1>1, MapsStepByStep

\* The navigate opens the site, and only the first step navigates; none holds a
\* reference (map_version).
LEMMA MappedStep ==
  ASSUME NEW v \in Versions, map_version(v) # << >>, NEW i \in 1..Len(map_version(v))
  PROVE  /\ map_version(v)[1].action = "navigate"
         /\ OnSite(map_version(v)[1].url[1], v.site)
         /\ i # 1 => map_version(v)[i].action \in {"click", "fill"}
         /\ i # 1 => TextsOf(map_version(v)[i].cfg) \cap Templated = {}
<1>a. /\ Problems(v) = {} /\ Len(v.steps) \in Nat \ {0} /\ DOMAIN v.steps = 1..Len(v.steps)
      /\ Len(map_version(v)) = Len(v.steps) + 1
      /\ map_version(v)[1] = Navigate(v)
      /\ \A n \in DOMAIN v.steps : map_version(v)[n + 1] = Acting(v.steps[n], n)
  BY MapFacts
<1>1. map_version(v)[1].action = "navigate" /\ map_version(v)[1].url[1] = NavigateHost(v)
  <2>1. Navigate(v).action = "navigate"
    BY DEF Navigate
  <2>2. Navigate(v).url = <<NavigateHost(v), NavigatePath(v.steps[1])>>
    BY DEF Navigate
  <2>3. map_version(v)[1] = Navigate(v)
    BY <1>a
  <2> QED BY <2>1, <2>2, <2>3
<1>2. OnSite(NavigateHost(v), v.site)
  <2>1. ~ NavigateProblem(v)
    BY <1>a DEF Problems
  <2> QED BY <2>1 DEF NavigateProblem
<1>3. ASSUME i # 1
      PROVE  map_version(v)[i].action \in {"click", "fill"} /\ TextsOf(map_version(v)[i].cfg) \cap Templated = {}
  <2> DEFINE n == i - 1
  <2>1. n \in DOMAIN v.steps /\ map_version(v)[i] = Acting(v.steps[n], n)
    BY <1>3, <1>a
  <2>2. ~ StepProblem(v.steps[n], n, v)
    BY <1>a, <2>1 DEF Problems
  <2>3. TextsOf(Element(TheTarget(v.steps[n]))) \cap Templated = {}
    BY <2>2 DEF StepProblem
  <2>4. map_version(v)[i].action = ActionOf(v.steps[n]) /\ map_version(v)[i].cfg = Element(TheTarget(v.steps[n]))
    BY <2>1 DEF Acting
  <2>5. ActionOf(v.steps[n]) \in {"click", "fill"}
    BY DEF ActionOf
  <2> QED BY <2>3, <2>4, <2>5
<1> QED BY <1>1, <1>2, <1>3

(***************************************************************************)
(* What is proposed maps anew                                             *)
(***************************************************************************)

\* An element of which every key has a text.
IsElement(cfg) == \A key \in DOMAIN cfg : 1 \in DOMAIN cfg[key]

SELECTOR_KEYS == {"placeholder", "id", "css", "xpath"}

\* The selectors that say something that the cfg says.
Saying(cfg) == [by : SELECTOR_KEYS, of : TextsOf(cfg) \ Blank]

LEMMA SelectorsSay ==
  ASSUME NEW cfg, IsElement(cfg)
  PROVE  SelectorsOf(cfg) \in Seq(Saying(cfg))
<1>1. ASSUME NEW key \in SELECTOR_KEYS PROVE Selector(cfg, key) \in Seq(Saying(cfg))
  <2>1. CASE key \in DOMAIN cfg /\ cfg[key][1] \notin Blank \cup Overlong
    <3>1. cfg[key][1] \in TextsOf(cfg)
      <4>1. cfg[key][1] \in ToSet(cfg[key])
        BY <2>1 DEF IsElement, ToSet
      <4> QED BY <2>1, <4>1 DEF TextsOf
    <3>2. Written(key, cfg[key][1]) \in Saying(cfg)
      BY <2>1, <3>1 DEF Written, Saying, SELECTOR_KEYS
    <3>3. Selector(cfg, key) = <<Written(key, cfg[key][1])>>
      BY <2>1 DEF Selector
    <3> QED BY <3>2, <3>3
  <2>2. CASE ~ (key \in DOMAIN cfg /\ cfg[key][1] \notin Blank \cup Overlong)
    <3>1. Selector(cfg, key) = << >>
      BY <2>2 DEF Selector
    <3> QED BY <3>1
  <2> QED BY <2>1, <2>2
<1> DEFINE S == Saying(cfg)
           a == Selector(cfg, "placeholder")
           b == Selector(cfg, "id")
           c == Selector(cfg, "css")
           d == Selector(cfg, "xpath")
<1>2. a \in Seq(S) /\ b \in Seq(S) /\ c \in Seq(S) /\ d \in Seq(S)
  BY <1>1 DEF SELECTOR_KEYS
<1>3. SelectorsOf(cfg) = a \o b \o c \o d
  BY DEF SelectorsOf
<1> HIDE DEF S, a, b, c, d
<1>4. a \o b \o c \o d \in Seq(S)
  BY <1>2
<1> QED BY <1>3, <1>4 DEF S

LEMMA OneOrMore ==
  ASSUME NEW S, NEW s \in Seq(S), s # << >>
  PROVE  /\ Len(s) \in Nat \ {0} /\ DOMAIN s = 1..Len(s) /\ 1 \in DOMAIN s
         /\ \A i \in DOMAIN s : s[i] \in S
OBVIOUS

LEMMA SetOfOne ==
  ASSUME NEW x
  PROVE  ToSet(<<x>>) = {x}
<1>1. DOMAIN <<x>> = {1} /\ <<x>>[1] = x
  OBVIOUS
<1> QED BY <1>1 DEF ToSet

LEMMA FirstOfRange ==
  ASSUME NEW n \in Nat \ {0}
  PROVE  Min(1..n) = 1
<1>1. 1 \in 1..n /\ \A y \in 1..n : 1 =< y
  OBVIOUS
<1>2. Min(1..n) \in 1..n /\ \A y \in 1..n : Min(1..n) =< y
  BY <1>1 DEF Min
<1> QED BY <1>1, <1>2

\* A target without a name is the element of its first selector.
LEMMA PinnedElement ==
  ASSUME NEW cfg, NEW sel \in Seq(Saying(cfg)), sel # << >>,
         NEW t, t.name = "", t.selectors = sel
  PROVE  DOMAIN Element(t) # {} /\ TextsOf(Element(t)) \subseteq TextsOf(cfg)
<1>1. NameKeys(t) = {}
  BY TextsAssumption DEF NameKeys
<1>2. /\ Len(sel) \in Nat \ {0} /\ DOMAIN sel = 1..Len(sel) /\ 1 \in DOMAIN sel
      /\ \A i \in DOMAIN sel : sel[i] \in Saying(cfg)
  BY OneOrMore
<1>3. \A i \in DOMAIN sel : sel[i].of \in TextsOf(cfg) \ Blank
  BY <1>2 DEF Saying
<1>4. Pins(t) = DOMAIN sel
  BY <1>3 DEF Pins
<1>5. Min(Pins(t)) = 1
  <2>1. Pins(t) = 1..Len(sel)
    BY <1>2, <1>4
  <2> QED BY <1>2, <2>1, FirstOfRange
<1>6. Pinned(t) = sel[1]
  BY <1>5 DEF Pinned
<1>7. Element(t) = [key \in {sel[1].by} |-> <<sel[1].of>>]
  <2>1. NameKeys(t) \cup {Pinned(t).by : i \in Pins(t)} = {sel[1].by}
    BY <1>1, <1>2, <1>4, <1>6
  <2>2. Element(t) = [key \in {sel[1].by} |->
                        IF key \notin NameKeys(t) THEN <<Pinned(t).of>>
                        ELSE IF key = "role" THEN <<t.role, t.name>> ELSE <<t.name>>]
    BY <2>1 DEF Element
  <2> QED BY <1>1, <1>6, <2>2
<1>8. ToSet(<<sel[1].of>>) = {sel[1].of}
  BY SetOfOne
<1>9. TextsOf(Element(t)) = {sel[1].of}
  BY <1>7, <1>8 DEF TextsOf
<1> QED BY <1>2, <1>3, <1>7, <1>9

\* A role-less heal becomes a target with the step's own role, or without one
\* if the store does not take that.
LEMMA RoleLessTarget ==
  ASSUME NEW cfg, IsElement(cfg), ~ IsNamed(cfg), TextsOf(cfg) \cap Templated = {},
         NEW original, target_from_element(cfg, original) # {}
  PROVE  \E t :
           /\ target_from_element(cfg, original) = {t} /\ t.malformed = FALSE
           /\ t.role = IF original.role \in Overlong THEN "" ELSE original.role
           /\ DOMAIN Element(t) # {} /\ TextsOf(Element(t)) \cap Templated = {}
<1> DEFINE role == IF original.role \in Overlong THEN "" ELSE original.role
           t == [malformed |-> FALSE, role |-> role, name |-> "", selectors |-> SelectorsOf(cfg)]
<1>1. KeptRole(cfg, original) = <<role, "">>
  BY DEF KeptRole
<1>2. SelectorsOf(cfg) # << >>
  BY DEF target_from_element
<1>3. target_from_element(cfg, original) = {t}
  <2>1. KeptRole(cfg, original)[1] = role /\ KeptRole(cfg, original)[2] = ""
    BY DEF KeptRole
  <2> HIDE DEF role
  <2> QED BY <1>2, <2>1 DEF target_from_element
<1>4. t.malformed = FALSE /\ t.role = role /\ t.name = "" /\ t.selectors = SelectorsOf(cfg)
  OBVIOUS
<1> HIDE DEF t, role
<1>5. DOMAIN Element(t) # {} /\ TextsOf(Element(t)) \subseteq TextsOf(cfg)
  BY <1>2, <1>4, SelectorsSay, PinnedElement
<1>6. t.role = IF original.role \in Overlong THEN "" ELSE original.role
  BY <1>4 DEF role
<1> QED BY <1>3, <1>4, <1>5, <1>6

\* A step that has the target of a role-less heal, and else what it had.
Retargeted(step, anew) ==
  \E t :
    /\ anew.target = {t} /\ t.malformed = FALSE
    /\ t.role = IF RoleOf(step) \in Overlong THEN "" ELSE RoleOf(step)
    /\ DOMAIN Element(t) # {} /\ TextsOf(Element(t)) \cap Templated = {}
    /\ anew.malformed = step.malformed /\ anew.title = step.title /\ anew.quoted = step.quoted
    /\ anew.domain = step.domain /\ anew.mode = step.mode /\ anew.outcome = step.outcome

\* Such a step maps as before.
LEMMA SameActionAgain ==
  ASSUME NEW v, NEW w, w.site = v.site, NEW n, NEW step, ~ StepProblem(step, n, v),
         NEW anew, Retargeted(step, anew)
  PROVE  /\ ~ StepProblem(anew, n, w)
         /\ ActionOf(anew) = ActionOf(step) /\ ValueOf(anew) = ValueOf(step)
<1>1. PICK t :
        /\ anew.target = {t} /\ t.malformed = FALSE
        /\ t.role = IF RoleOf(step) \in Overlong THEN "" ELSE RoleOf(step)
        /\ DOMAIN Element(t) # {} /\ TextsOf(Element(t)) \cap Templated = {}
        /\ anew.malformed = step.malformed /\ anew.title = step.title /\ anew.quoted = step.quoted
        /\ anew.domain = step.domain /\ anew.mode = step.mode /\ anew.outcome = step.outcome
  BY DEF Retargeted
<1>2. TheTarget(anew) = t /\ RoleOf(anew) = t.role
  BY <1>1 DEF TheTarget, Value, RoleOf
<1>3. /\ Kind(anew) = Kind(step) /\ OutcomeElement(anew) = OutcomeElement(step)
      /\ UrlContains(anew) = UrlContains(step) /\ (OutcomeProblem(anew) <=> OutcomeProblem(step))
  <2>1. Kind(anew) = Kind(step)
    BY <1>1, Zenon DEF Kind
  <2>2. OutcomeElement(anew) = OutcomeElement(step)
    BY <1>1, Zenon DEF OutcomeElement
  <2>3. UrlContains(anew) = UrlContains(step)
    BY <1>1, Zenon DEF UrlContains
  <2>4. OutcomeProblem(anew) <=> OutcomeProblem(step)
    BY <1>1, Zenon DEF OutcomeProblem
  <2> QED BY <2>1, <2>2, <2>3, <2>4
<1>4. /\ RoleOf(anew) \in FILL_ROLES <=> RoleOf(step) \in FILL_ROLES
      /\ RoleOf(anew) \notin UNSUPPORTED_ROLES
  <2>1. RoleOf(step) \notin UNSUPPORTED_ROLES
    BY DEF StepProblem
  <2>2. "" \notin FILL_ROLES \cup UNSUPPORTED_ROLES
    BY DEF FILL_ROLES, UNSUPPORTED_ROLES
  <2>3. RoleOf(step) \in FILL_ROLES => RoleOf(step) \notin Overlong
    BY RolesAssumption
  <2> QED BY <1>1, <1>2, <2>1, <2>2, <2>3
<1>5. ActionOf(anew) = ActionOf(step)
  BY <1>3, <1>4 DEF ActionOf
<1>6. ValueOf(anew) = ValueOf(step)
  BY <1>1, <1>5 DEF ValueOf
<1>7. ~ TargetProblem(anew.target)
  BY <1>1 DEF TargetProblem
<1>8. \A cfg \in {Element(TheTarget(anew))} \cup OutcomeElement(anew) : TextsOf(cfg) \cap Templated = {}
  BY <1>1, <1>2, <1>3 DEF StepProblem
<1>9. ~ StepProblem(anew, n, w)
  BY <1>1, <1>3, <1>4, <1>5, <1>6, <1>7, <1>8 DEF StepProblem
<1> QED BY <1>5, <1>6, <1>9

LEMMA Appended ==
  ASSUME NEW S, NEW s \in Seq(S), NEW e \in S
  PROVE  /\ Append(s, e) \in Seq(S) /\ Len(Append(s, e)) = Len(s) + 1 /\ Len(s) \in Nat
         /\ DOMAIN s = 1..Len(s) /\ DOMAIN Append(s, e) = 1..(Len(s) + 1)
         /\ Append(s, e)[Len(s) + 1] = e
         /\ \A i \in DOMAIN s : Append(s, e)[i] = s[i]
OBVIOUS

(***************************************************************************)
(* How a step ends, and what is kept                                       *)
(***************************************************************************)

\* Two records that say the same of every step but the one at hand.
SameElsewhere(notes, later) ==
  \A i : i # at => (i \in DOMAIN later <=> i \in DOMAIN notes) /\ (i \in DOMAIN notes => later[i] = notes[i])

\* The step that is run is the mapped one, as map_version makes them.
LEMMA RunsAreMapped ==
  ASSUME Control, Running \/ phase = "done"
  PROVE  /\ Len(steps) \in Nat \ {0} /\ DOMAIN steps = 1..Len(steps)
         /\ version \in Versions /\ Len(steps) = Len(version.steps) + 1 /\ DOMAIN version.steps = 1..Len(version.steps)
         /\ steps[1].action = "navigate" /\ OnSite(steps[1].url[1], version.site)
         /\ \A i \in 1..Len(steps) : i # 1 =>
              steps[i].action \in {"click", "fill"} /\ TextsOf(steps[i].cfg) \cap Templated = {}
<1>1. version \in Versions /\ steps = map_version(version) /\ steps # << >>
  BY DEF Control
<1>3. Len(version.steps) \in Nat \ {0} /\ DOMAIN version.steps = 1..Len(version.steps)
      /\ Len(steps) = Len(version.steps) + 1 /\ DOMAIN steps = 1..(Len(version.steps) + 1)
  BY <1>1, MapFacts
<1>4. 1 \in 1..Len(map_version(version)) /\ Len(steps) \in Nat \ {0} /\ DOMAIN steps = 1..Len(steps)
  BY <1>1, <1>3
<1>5. steps[1].action = "navigate" /\ OnSite(steps[1].url[1], version.site)
  <2>1. map_version(version)[1].action = "navigate" /\ OnSite(map_version(version)[1].url[1], version.site)
    BY <1>1, <1>4, MappedStep
  <2> QED BY <1>1, <2>1
<1>6. ASSUME NEW i \in 1..Len(steps), i # 1
      PROVE  steps[i].action \in {"click", "fill"} /\ TextsOf(steps[i].cfg) \cap Templated = {}
  <2>1. /\ map_version(version)[i].action \in {"click", "fill"}
        /\ TextsOf(map_version(version)[i].cfg) \cap Templated = {}
    BY <1>1, <1>6, MappedStep
  <2> QED BY <1>1, <2>1
<1> QED BY <1>1, <1>3, <1>4, <1>5, <1>6

\* Where a step's end leads.
LEMMA EndsFacts ==
  ASSUME Control, Running, NEW status \in {"passed", "healed", "failed"}, NEW healed \in HealedCfgs,
         Ends(status, healed), UNCHANGED <<version, steps>>, page' \in Pages
  PROVE  /\ Control'
         /\ DOMAIN results = 1..(at - 1) /\ DOMAIN results' = 1..at
         /\ \A i \in DOMAIN results : results'[i] = results[i]
         /\ results'[at].status = status /\ results'[at].left = page.url
         /\ \/ phase' = "done" /\ at' = at
            \/ phase' = "before" /\ at' = at + 1 /\ try'.how = "own"
<1> DEFINE e == [status |-> status, healed |-> healed, left |-> page.url]
<1>1. /\ at \in 1..Len(steps) /\ Len(results) = at - 1 /\ results \in Seq(Results)
      /\ version \in Versions /\ page \in Pages /\ at \in Nat
      /\ steps = map_version(version) /\ steps # << >>
  BY DEF Control
<1>2. e \in Results /\ e.status = status /\ e.left = page.url
  BY <1>1 DEF Results
<1>3. results' = Append(results, e)
  BY DEF Ends
<1> HIDE DEF e
<1>4. /\ results' \in Seq(Results) /\ Len(results') = at
      /\ DOMAIN results = 1..(at - 1) /\ DOMAIN results' = 1..at
      /\ results'[at] = e
      /\ \A i \in DOMAIN results : results'[i] = results[i]
  BY <1>1, <1>2, <1>3, Appended
<1>5. Len(steps) \in Nat
  BY RunsAreMapped
<1>6. CASE status = "failed" \/ at = Len(steps)
  <2>1. phase' = "done" /\ at' = at
    BY <1>6 DEF Ends
  <2>2. Control'
    BY <1>1, <1>2, <1>4, <1>5, <1>6, <2>1 DEF Control, Running, Executing
  <2> QED BY <1>2, <1>4, <2>1, <2>2
<1>7. CASE ~ (status = "failed" \/ at = Len(steps))
  <2>1. /\ phase' = "before" /\ at' = at + 1
        /\ try' = [how |-> "own", action |-> steps[at + 1].action, cfg |-> steps[at + 1].cfg,
                   url |-> steps[at + 1].url]
    BY <1>7 DEF Ends
  <2>2. /\ try'.how = "own" /\ try'.action = steps'[at'].action /\ try'.url = steps'[at'].url
        /\ try'.cfg = steps'[at'].cfg
    BY <2>1
  <2>3. at' \in 1..Len(steps')
    BY <1>1, <1>5, <1>7, <2>1
  <2>4. Control'
    BY <1>1, <1>4, <2>1, <2>2, <2>3 DEF Control, Running, Executing
  <2> QED BY <1>2, <1>4, <2>1, <2>2, <2>4
<1> QED BY <1>6, <1>7

\* A step that ends keeps the invariant, if what it was ended with is true of it.
LEMMA EndsKeeps ==
  ASSUME IInv, Running, NEW status \in {"passed", "healed", "failed"}, NEW healed \in HealedCfgs,
         Ends(status, healed), UNCHANGED <<version, steps>>, page' \in Pages,
         SameElsewhere(first, first'), SameElsewhere(urls, urls'),
         SameElsewhere(looked, looked'), SameElsewhere(tiers, tiers'),
         FirstUrls', OpensItsSiteOnly', DOMAIN tiers' = DOMAIN looked',
         at \in DOMAIN tiers' => at # 1 /\ (tiers'[at] # "none" => looked'[at]),
         status = "passed" /\ at # 1 => at \in DOMAIN looked' /\ looked'[at],
         status # "failed" /\ steps[at].kind = "url_change" /\ at \in DOMAIN first' => page.url # first'[at]
  PROVE  IInv'
<1>1. /\ Control' /\ at \in 1..Len(steps) /\ Len(steps) \in Nat
      /\ DOMAIN results = 1..(at - 1) /\ DOMAIN results' = 1..at
      /\ \A i \in DOMAIN results : results'[i] = results[i]
      /\ results'[at].status = status /\ results'[at].left = page.url
      /\ \/ phase' = "done" /\ at' = at
         \/ phase' = "before" /\ at' = at + 1 /\ try'.how = "own"
  BY EndsFacts, RunsAreMapped DEF IInv, Control
<1>2. Reached'
  <2>1. DOMAIN first \cup DOMAIN urls \cup DOMAIN looked \subseteq 1..at
    BY DEF IInv, Reached
  <2>2. DOMAIN first' \cup DOMAIN urls' \cup DOMAIN looked' \subseteq 1..at
    BY <1>1, <2>1 DEF SameElsewhere
  <2> QED BY <1>1, <2>2 DEF Reached, Running, Executing
<1>3. OwnFirst'
  <2>1. \A i \in DOMAIN tiers' : i # 1 /\ (tiers'[i] # "none" => looked'[i])
    <3> SUFFICES ASSUME NEW i \in DOMAIN tiers', i # at
                 PROVE  i # 1 /\ (tiers'[i] # "none" => looked'[i])
      OBVIOUS
    <3>1. i \in DOMAIN tiers /\ tiers'[i] = tiers[i]
      BY DEF SameElsewhere
    <3>2. i \in DOMAIN looked /\ looked'[i] = looked[i]
      BY <3>1 DEF IInv, Reached, SameElsewhere
    <3> QED BY <3>1, <3>2 DEF IInv, OwnFirst
  <2>2. ASSUME NEW i \in DOMAIN results', results'[i].status = "passed", i # 1
        PROVE  i \in DOMAIN looked' /\ looked'[i]
    <3>1. CASE i = at
      BY <1>1, <2>2, <3>1
    <3>2. CASE i # at
      <4>1. i \in DOMAIN results /\ results[i].status = "passed"
        BY <1>1, <2>2, <3>2
      <4>2. i \in DOMAIN looked /\ looked[i]
        BY <2>2, <4>1 DEF IInv, OwnFirst
      <4> QED BY <3>2, <4>2 DEF SameElsewhere
    <3> QED BY <3>1, <3>2
  <2>3. phase' = "before" => at' \notin DOMAIN looked' /\ ~ Inner'
    <3>1. DOMAIN looked' \subseteq 1..at
      BY <1>1 DEF IInv, Reached, SameElsewhere
    <3> QED BY <1>1, <3>1 DEF Inner
  <2> QED BY <1>1, <2>1, <2>2, <2>3 DEF OwnFirst, Running, Executing
<1>4. UrlChangesLeaveTheFirstPage'
  <2> SUFFICES ASSUME NEW i \in DOMAIN results' \cap DOMAIN first',
                      results'[i].status # "failed", steps[i].kind = "url_change"
               PROVE  results'[i].left # first'[i]
    BY DEF UrlChangesLeaveTheFirstPage
  <2>1. CASE i = at
    BY <1>1, <2>1
  <2>2. CASE i # at
    <3>1. i \in DOMAIN results \cap DOMAIN first /\ results'[i] = results[i] /\ first'[i] = first[i]
      BY <1>1, <2>2 DEF SameElsewhere
    <3> QED BY <3>1 DEF IInv, UrlChangesLeaveTheFirstPage
  <2> QED BY <2>1, <2>2
<1> QED BY <1>1, <1>2, <1>3, <1>4 DEF IInv

\* A step that does not end keeps it too.
LEMMA StaysKeeps ==
  ASSUME IInv, Running, Running', Control', UNCHANGED <<version, steps, at, results>>,
         SameElsewhere(first, first'), SameElsewhere(urls, urls'),
         SameElsewhere(looked, looked'), SameElsewhere(tiers, tiers'),
         FirstUrls', OpensItsSiteOnly', DOMAIN tiers' = DOMAIN looked',
         at \in DOMAIN tiers' => at # 1 /\ (tiers'[at] # "none" => looked'[at]),
         at \in DOMAIN first' \cup DOMAIN urls' \cup DOMAIN looked' => phase' # "before" \/ Inner',
         at # 1 => at \in DOMAIN looked' \/ (~ Inner' /\ phase' \in {"before", "act"}),
         at # 1 /\ at \in DOMAIN looked' => Inner' \/ phase' \notin {"before", "act"},
         at # 1 /\ ~ Inner' /\ phase' \in {"acting", "after"} => looked'[at],
         phase' = "amend" => Inner'
  PROVE  IInv'
<1>1. at \in 1..Len(steps) /\ Len(steps) \in Nat /\ DOMAIN results = 1..(at - 1)
  <2>1. at \in 1..Len(steps) /\ Len(results) = at - 1 /\ results \in Seq(Results)
    BY DEF IInv, Control
  <2>2. Len(steps) \in Nat
    BY RunsAreMapped DEF IInv
  <2> QED BY <2>1, <2>2
<1>2. Reached'
  <2>1. DOMAIN first \cup DOMAIN urls \cup DOMAIN looked \subseteq 1..at
    BY DEF IInv, Reached
  <2>2. DOMAIN first' \cup DOMAIN urls' \cup DOMAIN looked' \subseteq 1..at
    BY <1>1, <2>1 DEF SameElsewhere
  <2> QED BY <2>2 DEF Reached
<1>3. OwnFirst'
  <2>1. \A i \in DOMAIN tiers' : i # 1 /\ (tiers'[i] # "none" => looked'[i])
    <3> SUFFICES ASSUME NEW i \in DOMAIN tiers', i # at
                 PROVE  i # 1 /\ (tiers'[i] # "none" => looked'[i])
      OBVIOUS
    <3>1. i \in DOMAIN tiers /\ tiers'[i] = tiers[i]
      BY DEF SameElsewhere
    <3>2. i \in DOMAIN looked /\ looked'[i] = looked[i]
      BY <3>1 DEF IInv, Reached, SameElsewhere
    <3> QED BY <3>1, <3>2 DEF IInv, OwnFirst
  <2>2. ASSUME NEW i \in DOMAIN results', results'[i].status = "passed", i # 1
        PROVE  i \in DOMAIN looked' /\ looked'[i]
    <3>1. i \in DOMAIN looked /\ looked[i] /\ i # at
      BY <1>1, <2>2 DEF IInv, OwnFirst
    <3> QED BY <3>1 DEF SameElsewhere
  <2> QED BY <2>1, <2>2 DEF OwnFirst
<1>4. UrlChangesLeaveTheFirstPage'
  <2> SUFFICES ASSUME NEW i \in DOMAIN results' \cap DOMAIN first',
                      results'[i].status # "failed", steps[i].kind = "url_change"
               PROVE  results'[i].left # first'[i]
    BY DEF UrlChangesLeaveTheFirstPage
  <2>1. i \in DOMAIN results \cap DOMAIN first /\ first'[i] = first[i]
    BY <1>1 DEF SameElsewhere
  <2> QED BY <2>1 DEF IInv, UrlChangesLeaveTheFirstPage
<1> QED BY <1>2, <1>3, <1>4 DEF IInv

\* Nothing is noted in most steps.
Unnoted == UNCHANGED <<version, steps, urls, first, tiers, looked>>

\* What a step finds that notes nothing.
LEMMA UnnotedKeeps ==
  ASSUME IInv, Running, Unnoted, OpensItsSiteOnly'
  PROVE  /\ SameElsewhere(first, first') /\ SameElsewhere(urls, urls')
         /\ SameElsewhere(looked, looked') /\ SameElsewhere(tiers, tiers')
         /\ FirstUrls' /\ DOMAIN tiers' = DOMAIN looked'
         /\ at \in DOMAIN tiers' => at # 1 /\ (tiers'[at] # "none" => looked'[at])
         /\ version' = version /\ steps' = steps
<1>1. FirstUrls'
  BY DEF IInv, FirstUrls, Unnoted
<1>2. DOMAIN tiers' = DOMAIN looked'
  BY DEF IInv, Reached, Unnoted
<1>3. at \in DOMAIN tiers' => at # 1 /\ (tiers'[at] # "none" => looked'[at])
  BY DEF IInv, OwnFirst, Unnoted
<1> QED BY <1>1, <1>2, <1>3 DEF Unnoted, SameElsewhere

\* A step that notes nothing may end at any place but that it must not claim to
\* have passed, or healed, what did not hold.
LEMMA UnnotedEnds ==
  ASSUME IInv, Running, Unnoted, OpensItsSiteOnly', page' \in Pages,
         NEW status \in {"passed", "healed", "failed"}, NEW healed \in HealedCfgs, Ends(status, healed),
         status = "passed" /\ at # 1 => at \in DOMAIN looked /\ looked[at],
         status # "failed" /\ steps[at].kind = "url_change" /\ at \in DOMAIN first => page.url # first[at]
  PROVE  IInv'
<1>1. looked' = looked /\ first' = first
  BY DEF Unnoted
<1> QED BY <1>1, UnnotedKeeps, EndsKeeps

\* A replacement that has failed.  The step itself fails after its lookup only,
\* but for the first, which looks nothing up.
LEMMA UnnotedFails ==
  ASSUME IInv, Running, Unnoted, OpensItsSiteOnly', page' \in Pages, Fails,
         at # 1 => at \in DOMAIN looked
  PROVE  IInv'
<1>1. CASE try.how = "wait"
  <2>1. Ends("failed", << >>) /\ << >> \in HealedCfgs
    BY <1>1 DEF Fails, HealedCfgs
  <2> QED BY <2>1, UnnotedEnds
<1>2. CASE try.how # "wait"
  <2>1. UNCHANGED <<at, try, heals, results>> /\ phase' \in {"reply", "heal"}
    BY <1>2 DEF Fails
  <2>2. Running' /\ Control' /\ Inner' = Inner
    <3>1. Running' /\ Inner' = Inner
      BY <2>1 DEF Running, Inner
    <3>2. version' = version /\ steps' = steps
      BY DEF Unnoted
    <3> QED BY <2>1, <3>1, <3>2 DEF IInv, Control, Running
  <2>3. looked' = looked
    BY DEF Unnoted
  <2> QED BY <2>1, <2>2, <2>3, UnnotedKeeps, StaysKeeps
<1> QED BY <1>1, <1>2

\* A step that notes nothing and does not end moves on, but only from a lookup
\* to an execution that it was found for.
LEMMA UnnotedStays ==
  ASSUME IInv, Running, Unnoted, OpensItsSiteOnly', page' \in Pages, UNCHANGED <<at, results>>,
         phase' \in {"before", "after", "amend", "heal", "reply"},
         Control', at # 1 => at \in DOMAIN looked,
         phase' = "before" => Inner',
         at # 1 /\ ~ Inner' /\ phase' = "after" => looked[at],
         phase' = "amend" => Inner'
  PROVE  IInv'
<1>1. Running'
  BY DEF Running, Executing
<1>2. looked' = looked /\ version' = version /\ steps' = steps
  BY DEF Unnoted
<1> QED BY <1>1, <1>2, UnnotedKeeps, StaysKeeps

(***************************************************************************)
(* The actions                                                             *)
(***************************************************************************)

LEMMA SiteKept ==
  ASSUME IInv, UNCHANGED <<version, opened>>
  PROVE  OpensItsSiteOnly'
BY DEF IInv, OpensItsSiteOnly

\* Who is at work, as the actions use it.
LEMMA AtWork ==
  ASSUME IInv, Running
  PROVE  /\ page \in Pages /\ at \in 1..Len(steps) /\ Len(steps) \in Nat
         /\ try.action = steps[at].action /\ try.url = steps[at].url
         /\ try.how \in {"own", "scroll", "wait", "reply"}
         /\ try.how = "reply" => try.cfg \in HealedCfgs
         /\ try.how # "reply" => try.cfg = steps[at].cfg
         /\ try.action = "navigate" <=> at = 1
         /\ at # 1 => at \in DOMAIN looked \/ (~ Inner /\ phase \in {"before", "act"})
<1>1. /\ page \in Pages /\ at \in 1..Len(steps)
      /\ try.action = steps[at].action /\ try.url = steps[at].url
      /\ try.how \in {"own", "scroll", "wait", "reply"}
      /\ try.how = "reply" => try.cfg \in HealedCfgs
      /\ try.how # "reply" => try.cfg = steps[at].cfg
  BY DEF IInv, Control
<1>2. /\ Len(steps) \in Nat /\ steps[1].action = "navigate"
      /\ \A i \in 1..Len(steps) : i # 1 => steps[i].action \in {"click", "fill"}
  BY RunsAreMapped DEF IInv
<1>3. try.action = "navigate" <=> at = 1
  BY <1>1, <1>2
<1>4. at # 1 => at \in DOMAIN looked \/ (~ Inner /\ phase \in {"before", "act"})
  BY DEF IInv, OwnFirst
<1> QED BY <1>1, <1>2, <1>3, <1>4

LEMMA MapStep ==
  ASSUME IInv, MapVersion
  PROVE  IInv'
<1>1. /\ phase = "fetched" /\ version \in Versions /\ page \in Pages /\ at \in Nat
      /\ results = << >> /\ opened = {} /\ urls = << >> /\ first = << >> /\ looked = << >> /\ tiers = << >>
  BY DEF IInv, Control, MapVersion
<1>2. /\ UNCHANGED <<version, at, page, results, opened, urls, first, looked, tiers>>
      /\ steps' = map_version(version)
  BY DEF MapVersion, pageVars, hookVars
<1>3. CASE steps' = << >>
  <2>1. phase' = "unmappable"
    BY <1>3 DEF MapVersion
  <2> QED BY <1>1, <1>2, <1>3, <2>1
    DEF IInv, Control, Reached, FirstUrls, OwnFirst, OpensItsSiteOnly, UrlChangesLeaveTheFirstPage, Running, Executing
<1>4. CASE steps' # << >>
  <2>1. /\ phase' = "before"
        /\ try' = [how |-> "own", action |-> "navigate", cfg |-> << >>, url |-> steps'[1].url]
    BY <1>4 DEF MapVersion
  <2>2. /\ Len(steps') \in Nat \ {0} /\ steps'[1] = Navigate(version)
    BY <1>1, <1>2, <1>4, MapFacts
  <2>3. steps'[1].action = "navigate" /\ steps'[1].cfg = << >>
    <3>1. Navigate(version).action = "navigate" /\ Navigate(version).cfg = << >>
      BY DEF Navigate
    <3> QED BY <2>2, <3>1
  <2>4. /\ try'.how = "own" /\ try'.action = steps'[1].action /\ try'.url = steps'[1].url
        /\ try'.cfg = steps'[1].cfg
    BY <2>1, <2>3
  <2>5. at = 1
    BY DEF IInv, Control, MapVersion
  <2> QED BY <1>1, <1>2, <1>4, <2>1, <2>2, <2>4, <2>5
    DEF IInv, Control, Reached, FirstUrls, OwnFirst, OpensItsSiteOnly, UrlChangesLeaveTheFirstPage, Running, Executing
<1> QED BY <1>3, <1>4

LEMMA ReplyUnresolvedStep ==
  ASSUME IInv, ReplyUnresolved
  PROVE  IInv'
<1>1. /\ Running /\ Unnoted /\ Fails /\ Unresolved /\ page' = page
      /\ UNCHANGED <<version, opened>>
  BY DEF ReplyUnresolved, Running, Executing, Unnoted, pageVars, hookVars
<1>2. at # 1 => at \in DOMAIN looked
  <2> SUFFICES ASSUME at # 1, at \notin DOMAIN looked PROVE FALSE
    OBVIOUS
  <2>1. try.cfg = steps[at].cfg /\ at \in 1..Len(steps)
    BY <1>1, AtWork DEF Inner
  <2>2. TextsOf(steps[at].cfg) \cap Templated = {}
    BY <1>1, <2>1, RunsAreMapped DEF IInv
  <2> QED BY <1>1, <2>1, <2>2, RunAssumption DEF Unresolved
<1> QED BY <1>1, <1>2, AtWork, SiteKept, UnnotedFails

LEMMA NavigateStep ==
  ASSUME IInv, NavigateActs
  PROVE  IInv'
<1>1. /\ Running /\ Unnoted /\ page' \in Pages /\ version' = version
      /\ opened' = opened \cup {try.url} /\ phase = "act"
  BY DEF NavigateActs, Running, Executing, Unnoted, hookVars
<1>2. at = 1 /\ try.url = steps[1].url
  BY <1>1, AtWork DEF NavigateActs
<1>3. OpensItsSiteOnly'
  <2>1. OnSite(try.url[1], version.site)
    BY <1>1, <1>2, RunsAreMapped DEF IInv
  <2> QED BY <1>1, <2>1 DEF IInv, OpensItsSiteOnly
<1>4. CASE Fails
  BY <1>1, <1>2, <1>3, <1>4, UnnotedFails
<1>5. CASE Succeeds
  <2>1. phase' = "after" /\ UNCHANGED <<at, try, heals, results>>
    BY <1>5 DEF Succeeds
  <2>2. Control'
    BY <1>1, <2>1 DEF IInv, Control, Running, Executing, Unnoted
  <2> QED BY <1>1, <1>2, <1>3, <2>1, <2>2, UnnotedStays
<1> QED BY <1>4, <1>5 DEF NavigateActs

LEMMA ActsStep ==
  ASSUME IInv, Acts
  PROVE  IInv'
<1>1. /\ Running /\ Unnoted /\ phase = "acting" /\ UNCHANGED <<version, opened>>
  BY DEF Acts, Running, Executing, Unnoted, hookVars
<1>2. page' \in Pages /\ (Succeeds \/ Fails)
  BY <1>1, AtWork DEF Acts, pageVars
<1>3. at # 1 => at \in DOMAIN looked
  BY <1>1, AtWork
<1>4. CASE Fails
  BY <1>1, <1>2, <1>3, <1>4, SiteKept, UnnotedFails
<1>5. CASE Succeeds
  <2>1. phase' = "after" /\ UNCHANGED <<at, try, heals, results>>
    BY <1>5 DEF Succeeds
  <2>2. Control' /\ Inner' = Inner
    BY <1>1, <1>2, <2>1 DEF IInv, Control, Running, Executing, Unnoted, Inner
  <2>3. at # 1 /\ ~ Inner => looked[at]
    BY <1>1 DEF IInv, OwnFirst
  <2> QED BY <1>1, <1>2, <1>3, <2>1, <2>2, <2>3, SiteKept, UnnotedStays
<1> QED BY <1>2, <1>4, <1>5

LEMMA OutcomeStep ==
  ASSUME IInv, OutcomeHolds
  PROVE  IInv'
<1>1. /\ Running /\ Unnoted /\ phase = "after" /\ Holds(at) /\ page' = page
      /\ UNCHANGED <<version, opened>>
  BY DEF OutcomeHolds, Running, Executing, Unnoted, pageVars, hookVars
<1>2. page' \in Pages /\ (at # 1 => at \in DOMAIN looked)
  BY <1>1, AtWork
<1>3. CASE ~ Inner
  <2>1. Ends("passed", << >>) /\ << >> \in HealedCfgs
    BY <1>3 DEF OutcomeHolds, HealedCfgs
  <2>2. at # 1 => looked[at]
    BY <1>1, <1>3 DEF IInv, OwnFirst
  <2>3. steps[at].kind = "url_change" /\ at \in DOMAIN first => page.url # first[at]
    BY <1>1 DEF Holds, IInv, FirstUrls
  <2> QED BY <1>1, <1>2, <2>1, <2>2, <2>3, SiteKept, UnnotedEnds
<1>4. CASE Inner /\ try.how = "reply" /\ ~ HasUrl(steps[at].contains)
  <2>1. Fails
    BY <1>4 DEF OutcomeHolds
  <2> QED BY <1>1, <1>2, <2>1, SiteKept, UnnotedFails
<1>5. CASE Inner /\ ~ (try.how = "reply" /\ ~ HasUrl(steps[at].contains))
  <2>1. phase' = "amend" /\ UNCHANGED <<at, try, heals, results>>
    BY <1>5 DEF OutcomeHolds
  <2>2. Control' /\ Inner'
    BY <1>1, <1>2, <1>5, <2>1 DEF IInv, Control, Running, Executing, Unnoted, Inner
  <2> QED BY <1>1, <1>2, <2>1, <2>2, SiteKept, UnnotedStays
<1> QED BY <1>3, <1>4, <1>5

LEMMA HealStep ==
  ASSUME IInv, HealHolds
  PROVE  IInv'
<1>1. /\ Running /\ Unnoted /\ phase = "amend" /\ Holds(at) /\ page' = page
      /\ UNCHANGED <<version, opened>>
  BY DEF HealHolds, Running, Executing, Unnoted, pageVars, hookVars
<1>2. page' \in Pages /\ (try.how = "reply" => try.cfg \in HealedCfgs)
  BY <1>1, AtWork
<1>3. steps[at].kind = "url_change" /\ at \in DOMAIN first => page.url # first[at]
  BY <1>1 DEF Holds, IInv, FirstUrls
<1>4. (IF try.how = "reply" THEN try.cfg ELSE << >>) \in HealedCfgs
  BY <1>2 DEF HealedCfgs
<1>5. Ends("healed", IF try.how = "reply" THEN try.cfg ELSE << >>)
  BY DEF HealHolds
<1> QED BY <1>1, <1>2, <1>3, <1>4, <1>5, SiteKept, UnnotedEnds

LEMMA TimesOutStep ==
  ASSUME IInv, OutcomeTimesOut
  PROVE  IInv'
<1>1. /\ Running /\ Unnoted /\ phase \in {"after", "amend"} /\ page' = page
      /\ UNCHANGED <<version, opened>>
  BY DEF OutcomeTimesOut, Running, Executing, Unnoted, pageVars, hookVars
<1>2. page' \in Pages /\ (at # 1 => at \in DOMAIN looked)
  BY <1>1, AtWork
<1>3. << >> \in HealedCfgs /\ (Fails \/ Ends("failed", << >>))
  BY DEF OutcomeTimesOut, HealedCfgs
<1> QED BY <1>1, <1>2, <1>3, SiteKept, UnnotedFails, UnnotedEnds

LEMMA HealAttemptStep ==
  ASSUME IInv, HealAttempt
  PROVE  IInv'
<1>1. /\ Running /\ Unnoted /\ phase = "heal" /\ page' = page /\ UNCHANGED <<version, opened, at, results>>
  BY DEF HealAttempt, Running, Unnoted, pageVars, hookVars
<1>2. page' \in Pages /\ (at # 1 => at \in DOMAIN looked)
  BY <1>1, AtWork
<1>3. CASE phase' = "reply" /\ try' = try
  <2>1. Control'
    BY <1>1, <1>2, <1>3 DEF IInv, Control, Running, Unnoted
  <2> QED BY <1>1, <1>2, <1>3, <2>1, SiteKept, UnnotedStays
<1>4. ASSUME NEW how \in {"scroll", "wait"}, phase' = "before", try' = [Own EXCEPT !.how = how]
      PROVE  IInv'
  <2>1. /\ try'.how = how /\ try'.action = steps[at].action /\ try'.url = steps[at].url
        /\ try'.cfg = steps[at].cfg
    BY <1>4 DEF Own
  <2>2. Control' /\ Inner'
    BY <1>1, <1>2, <1>4, <2>1 DEF IInv, Control, Running, Executing, Unnoted, Inner
  <2> QED BY <1>1, <1>2, <1>4, <2>2, SiteKept, UnnotedStays
<1> QED BY <1>3, <1>4 DEF HealAttempt

LEMMA ReplyStep ==
  ASSUME IInv, NEW reply \in Replies, Reply(reply)
  PROVE  IInv'
<1>1. /\ Running /\ Unnoted /\ phase = "reply" /\ page' = page /\ UNCHANGED <<version, opened, at, results>>
  BY DEF Reply, Running, Unnoted, pageVars, hookVars
<1>2. page' \in Pages /\ (at # 1 => at \in DOMAIN looked)
  BY <1>1, AtWork
<1>3. CASE ElementOnly(reply)
  <2>1. phase' = "before" /\ try' = Swapped(reply)
    BY <1>3 DEF Reply
  <2>2. /\ try'.how = "reply" /\ try'.action = steps[at].action /\ try'.url = steps[at].url
        /\ try'.cfg = reply[1].cfg
    BY <2>1 DEF Swapped, Own
  <2>3. try'.cfg \in HealedCfgs
    BY <1>3, <2>2 DEF HealedCfgs, ElementOnly
  <2>4. Control' /\ Inner'
    BY <1>1, <1>2, <2>1, <2>2, <2>3 DEF IInv, Control, Running, Executing, Unnoted, Inner
  <2> QED BY <1>1, <1>2, <2>1, <2>4, SiteKept, UnnotedStays
<1>4. CASE ~ ElementOnly(reply)
  <2>1. phase' = "heal" /\ try' = try
    BY <1>4 DEF Reply
  <2>2. Control'
    BY <1>1, <1>2, <2>1 DEF IInv, Control, Running, Unnoted
  <2> QED BY <1>1, <1>2, <2>1, <2>2, SiteKept, UnnotedStays
<1> QED BY <1>3, <1>4

LEMMA NoReplyStep ==
  ASSUME IInv, NoReply
  PROVE  IInv'
<1>1. /\ Running /\ Unnoted /\ phase = "reply" /\ phase' = "heal" /\ page' = page /\ try' = try
      /\ UNCHANGED <<version, opened, at, results>>
  BY DEF NoReply, Running, Unnoted, pageVars, hookVars
<1>2. page' \in Pages /\ (at # 1 => at \in DOMAIN looked)
  BY <1>1, AtWork
<1>3. Control'
  BY <1>1, <1>2 DEF IInv, Control, Running, Unnoted
<1> QED BY <1>1, <1>2, <1>3, SiteKept, UnnotedStays

LEMMA RunOutStep ==
  ASSUME IInv, HealsRunOut
  PROVE  IInv'
<1>1. /\ Running /\ Unnoted /\ page' = page /\ UNCHANGED <<version, opened>>
  BY DEF HealsRunOut, Running, Unnoted, pageVars, hookVars
<1>2. Ends("failed", << >>) /\ << >> \in HealedCfgs
  BY DEF HealsRunOut, HealedCfgs
<1> QED BY <1>1, <1>2, AtWork, SiteKept, UnnotedEnds

LEMMA PageStep ==
  ASSUME IInv, PageMoves
  PROVE  IInv'
<1>1. /\ page' \in Pages
      /\ UNCHANGED <<version, steps, phase, at, try, results, urls, first, tiers, looked, opened>>
  BY DEF PageMoves, hookVars
<1> QED BY <1>1
    DEF IInv, Control, Reached, FirstUrls, OwnFirst, OpensItsSiteOnly, UrlChangesLeaveTheFirstPage,
        Running, Executing, Inner

\* What the hook records before a step, or a replacement of it.
LEMMA BeforeNotes ==
  ASSUME IInv, NEW readable \in BOOLEAN, Before(readable)
  PROVE  /\ SameElsewhere(first, first') /\ SameElsewhere(urls, urls') /\ FirstUrls'
<1>1. /\ steps' = steps /\ looked' = looked
      /\ urls' = IF readable /\ steps[at].kind = "url_change" THEN Noted(urls, at, page.url) ELSE urls
      /\ first' = IF readable /\ at \notin DOMAIN looked /\ at \notin DOMAIN first
                  THEN Noted(first, at, page.url) ELSE first
  BY DEF Before, Recorded
<1>2. /\ \A i \in DOMAIN first : steps[i].kind = "url_change" => i \in DOMAIN urls /\ urls[i] = first[i]
      /\ DOMAIN urls \subseteq DOMAIN first \cup DOMAIN looked
  BY DEF IInv, FirstUrls
<1>3. /\ DOMAIN urls' \subseteq DOMAIN urls \cup {at}
      /\ \A i \in DOMAIN urls : i \in DOMAIN urls' /\ urls'[i] = urls[i]
      /\ at \in DOMAIN urls' /\ at \notin DOMAIN urls => readable
      /\ readable /\ steps[at].kind = "url_change" /\ at \notin DOMAIN urls =>
           at \in DOMAIN urls' /\ urls'[at] = page.url
  <2>1. CASE readable /\ steps[at].kind = "url_change"
    BY <1>1, <2>1 DEF Noted
  <2>2. CASE ~ (readable /\ steps[at].kind = "url_change")
    BY <1>1, <2>2
  <2> QED BY <2>1, <2>2
<1>4. /\ DOMAIN first' \subseteq DOMAIN first \cup {at}
      /\ \A i \in DOMAIN first : i \in DOMAIN first' /\ first'[i] = first[i]
      /\ at \in DOMAIN first' /\ at \notin DOMAIN first =>
           readable /\ at \notin DOMAIN looked /\ first'[at] = page.url
      /\ readable => at \in DOMAIN first' \cup DOMAIN looked
  <2>1. CASE readable /\ at \notin DOMAIN looked /\ at \notin DOMAIN first
    BY <1>1, <2>1 DEF Noted
  <2>2. CASE ~ (readable /\ at \notin DOMAIN looked /\ at \notin DOMAIN first)
    BY <1>1, <2>2
  <2> QED BY <2>1, <2>2
<1>5. ASSUME NEW i \in DOMAIN first', steps[i].kind = "url_change"
      PROVE  i \in DOMAIN urls' /\ urls'[i] = first'[i]
  <2>1. CASE i \in DOMAIN first
    BY <1>2, <1>3, <1>4, <1>5, <2>1
  <2>2. CASE i \notin DOMAIN first
    BY <1>2, <1>3, <1>4, <1>5, <2>2
  <2> QED BY <2>1, <2>2
<1>6. DOMAIN urls' \subseteq DOMAIN first' \cup DOMAIN looked'
  BY <1>1, <1>2, <1>3, <1>4
<1>7. FirstUrls'
  BY <1>1, <1>5, <1>6 DEF FirstUrls
<1> QED BY <1>3, <1>4, <1>7 DEF SameElsewhere

LEMMA BeforeStep ==
  ASSUME IInv, NEW readable \in BOOLEAN, Before(readable)
  PROVE  IInv'
<1>1. /\ Running /\ phase = "before" /\ page' = page /\ looked' = looked /\ tiers' = tiers
      /\ UNCHANGED <<version, steps, opened>>
  BY DEF Before, Running, Executing, pageVars
<1>2. /\ page' \in Pages /\ << >> \in HealedCfgs
      /\ at # 1 => at \in DOMAIN looked \/ ~ Inner
  BY <1>1, AtWork DEF HealedCfgs
<1>3. /\ SameElsewhere(looked, looked') /\ SameElsewhere(tiers, tiers') /\ DOMAIN tiers' = DOMAIN looked'
      /\ at \in DOMAIN tiers' => at # 1 /\ (tiers'[at] # "none" => looked'[at])
      /\ OpensItsSiteOnly'
      /\ SameElsewhere(first, first') /\ SameElsewhere(urls, urls') /\ FirstUrls'
  <2>1. OpensItsSiteOnly'
    BY <1>1, SiteKept
  <2>2. DOMAIN tiers' = DOMAIN looked'
    BY <1>1 DEF IInv, Reached
  <2>3. at \in DOMAIN tiers' => at # 1 /\ (tiers'[at] # "none" => looked'[at])
    BY <1>1 DEF IInv, OwnFirst
  <2>4. SameElsewhere(looked, looked') /\ SameElsewhere(tiers, tiers')
    BY <1>1 DEF SameElsewhere
  <2> QED BY <2>1, <2>2, <2>3, <2>4, BeforeNotes
<1>4. CASE phase' = "act" /\ UNCHANGED <<at, try, heals, results>>
  <2>1. Running' /\ Control' /\ Inner' = Inner
    BY <1>1, <1>2, <1>4 DEF IInv, Control, Running, Executing, Inner
  <2>2. at # 1 /\ at \in DOMAIN looked => Inner
    BY <1>1 DEF IInv, OwnFirst
  <2> QED BY <1>1, <1>2, <1>3, <1>4, <2>1, <2>2, StaysKeeps
<1>5. CASE Ends("failed", << >>)
  BY <1>1, <1>2, <1>3, <1>5, EndsKeeps
<1>6. CASE Inner /\ Fails
  <2>1. CASE try.how = "wait"
    BY <1>5, <1>6, <2>1 DEF Fails
  <2>2. CASE try.how # "wait"
    <3>1. phase' \in {"reply", "heal"} /\ UNCHANGED <<at, try, heals, results>>
      BY <1>6, <2>2 DEF Fails
    <3>2. Running' /\ Control' /\ Inner' = Inner
      BY <1>1, <1>2, <3>1 DEF IInv, Control, Running, Executing, Inner
    <3> QED BY <1>1, <1>2, <1>3, <1>6, <3>1, <3>2, StaysKeeps
  <2> QED BY <2>1, <2>2
<1> QED BY <1>4, <1>5, <1>6 DEF Before

LEMMA ResolveStep ==
  ASSUME IInv, Resolve
  PROVE  IInv'
<1> DEFINE tier == IF Find(try.cfg) = {} THEN "none" ELSE FindingKeys(try.cfg)[1]
           found == Find(steps[at].cfg) # {}
<1>1. /\ Running /\ phase = "act" /\ page' = page /\ first' = first /\ urls' = urls
      /\ UNCHANGED <<version, steps, opened>>
  BY DEF Resolve, Running, Executing, pageVars, hookVars
<1>2. tiers' = Noted(tiers, at, tier) /\ looked' = Noted(looked, at, found)
  BY DEF Resolve, FirstTier
<1>3. /\ page' \in Pages /\ << >> \in HealedCfgs /\ at # 1
      /\ at \in DOMAIN looked \/ ~ Inner
      /\ at \in DOMAIN looked => Inner
      /\ ~ Inner => try.cfg = steps[at].cfg
  <2>1. at # 1
    BY <1>1, AtWork DEF Resolve
  <2> QED BY <1>1, <2>1, AtWork DEF HealedCfgs, Inner, IInv, OwnFirst
<1>4. DOMAIN tiers = DOMAIN looked /\ (at \in DOMAIN tiers /\ tiers[at] # "none" => looked[at])
  BY DEF IInv, Reached, OwnFirst
<1>5. /\ DOMAIN tiers' = DOMAIN tiers \cup {at}
      /\ \A k \in DOMAIN tiers : tiers'[k] = tiers[k]
      /\ at \notin DOMAIN tiers => tiers'[at] = tier
  <2> HIDE DEF tier
  <2> QED BY <1>2 DEF Noted
<1>6. /\ DOMAIN looked' = DOMAIN looked \cup {at}
      /\ \A k \in DOMAIN looked : looked'[k] = looked[k]
      /\ at \notin DOMAIN looked => looked'[at] = found
  <2> HIDE DEF found
  <2> QED BY <1>2 DEF Noted
<1>7. tiers'[at] # "none" => looked'[at]
  <2>1. CASE at \in DOMAIN looked
    BY <1>4, <1>5, <1>6, <2>1
  <2>2. CASE at \notin DOMAIN looked
    <3>1. looked'[at] = found /\ tiers'[at] = tier
      BY <1>4, <1>5, <1>6, <2>2
    <3>2. try.cfg = steps[at].cfg
      BY <1>3, <2>2
    <3>3. tier # "none" => found
      BY <3>2
    <3> QED BY <3>1, <3>3
  <2> QED BY <2>1, <2>2
<1>8. /\ SameElsewhere(looked, looked') /\ SameElsewhere(tiers, tiers') /\ DOMAIN tiers' = DOMAIN looked'
      /\ SameElsewhere(first, first') /\ SameElsewhere(urls, urls') /\ FirstUrls' /\ OpensItsSiteOnly'
  <2>1. SameElsewhere(looked, looked')
    BY <1>6 DEF SameElsewhere
  <2>2. SameElsewhere(tiers, tiers')
    BY <1>5 DEF SameElsewhere
  <2>3. FirstUrls'
    BY <1>1, <1>6 DEF IInv, FirstUrls
  <2>4. SameElsewhere(first, first') /\ SameElsewhere(urls, urls')
    BY <1>1 DEF SameElsewhere
  <2> QED BY <1>1, <1>4, <1>5, <1>6, <2>1, <2>2, <2>3, <2>4, SiteKept
<1> HIDE DEF tier, found
<1>9. CASE Find(try.cfg) # {}
  <2>1. phase' = "acting" /\ UNCHANGED <<at, try, heals, results>>
    BY <1>9 DEF Resolve
  <2>2. Running' /\ Control' /\ Inner' = Inner
    BY <1>1, <1>3, <2>1 DEF IInv, Control, Running, Executing, Inner
  <2>3. ~ Inner => looked'[at]
    <3> SUFFICES ASSUME ~ Inner PROVE looked'[at]
      OBVIOUS
    <3>1. looked'[at] = found
      BY <1>3, <1>6
    <3> QED BY <1>3, <1>9, <3>1 DEF found
  <2> QED BY <1>1, <1>3, <1>6, <1>7, <1>8, <2>1, <2>2, <2>3, StaysKeeps
<1>10. CASE Find(try.cfg) = {}
  <2>1. Fails
    BY <1>10 DEF Resolve
  <2>2. CASE try.how = "wait"
    <3>1. Ends("failed", << >>)
      BY <2>1, <2>2 DEF Fails
    <3> QED BY <1>1, <1>3, <1>7, <1>8, <3>1, EndsKeeps
  <2>3. CASE try.how # "wait"
    <3>1. phase' \in {"reply", "heal"} /\ UNCHANGED <<at, try, heals, results>>
      BY <2>1, <2>3 DEF Fails
    <3>2. Running' /\ Control' /\ Inner' = Inner
      BY <1>1, <1>3, <3>1 DEF IInv, Control, Running, Executing, Inner
    <3> QED BY <1>1, <1>3, <1>6, <1>7, <1>8, <3>1, <3>2, StaysKeeps
  <2> QED BY <2>2, <2>3
<1> QED BY <1>9, <1>10

(***************************************************************************)
(* The theorems                                                            *)
(***************************************************************************)

\* The counters keep their bounds, and the fields are those of the elements.
Bounded == moves \in 0..MaxMoves /\ heals \in 0..MaxHeals /\ DOMAIN values = DOMAIN Marks

LEMMA StaysBounded == Spec => []Bounded
<1>1. Init => Bounded
  <2> SUFFICES ASSUME Init PROVE Bounded
    OBVIOUS
  <2>1. heals = 0 /\ moves = 0 /\ values = [e \in DOMAIN Marks |-> ""]
    BY DEF Init
  <2>2. DOMAIN values = DOMAIN Marks
    BY <2>1
  <2>3. 0 \in 0..MaxHeals /\ 0 \in 0..MaxMoves
    BY RunAssumption
  <2> QED BY <2>1, <2>2, <2>3 DEF Bounded
<1>2. Bounded /\ [Next]_vars => Bounded'
  <2> SUFFICES ASSUME Bounded, [Next]_vars PROVE Bounded'
    OBVIOUS
  <2>1. 0 \in 0..MaxHeals /\ MaxHeals \in Nat /\ MaxMoves \in Nat
    BY RunAssumption
  <2>2. (heals' = heals \/ heals' = 0) /\ moves' = moves /\ DOMAIN values' = DOMAIN values => Bounded'
    BY <2>1 DEF Bounded
  <2>3. ASSUME NEW status, NEW healed, Ends(status, healed) PROVE heals' = 0
    BY <2>3 DEF Ends
  <2>4. Fails \/ Succeeds => heals' = heals \/ heals' = 0
    BY <2>3 DEF Fails, Succeeds
  <2>5. CASE UNCHANGED vars
    BY <2>2, <2>5 DEF vars, pageVars
  <2>6. CASE MapVersion \/ ReplyUnresolved \/ NavigateActs \/ Resolve
    BY <2>2, <2>4, <2>6 DEF MapVersion, ReplyUnresolved, NavigateActs, Resolve, pageVars
  <2>7. CASE Acts
    <3>1. DOMAIN values' = DOMAIN values
      BY <2>7 DEF Acts, pageVars
    <3>2. heals' = heals \/ heals' = 0
      BY <2>4, <2>7 DEF Acts
    <3>3. moves' = moves
      BY <2>7 DEF Acts
    <3> QED BY <2>2, <3>1, <3>2, <3>3
  <2>8. CASE OutcomeHolds \/ HealHolds \/ OutcomeTimesOut \/ HealsRunOut \/ NoReply
    BY <2>2, <2>3, <2>4, <2>8 DEF OutcomeHolds, HealHolds, OutcomeTimesOut, HealsRunOut, NoReply, pageVars
  <2>9. CASE HealAttempt
    BY <2>1, <2>9 DEF HealAttempt, Bounded, pageVars
  <2>10. CASE PageMoves
    BY <2>1, <2>10 DEF PageMoves, Bounded
  <2>11. ASSUME NEW readable \in BOOLEAN, Before(readable) PROVE Bounded'
    BY <2>2, <2>3, <2>4, <2>11 DEF Before, pageVars
  <2>12. ASSUME NEW reply \in Replies, Reply(reply) PROVE Bounded'
    BY <2>2, <2>12 DEF Reply, pageVars
  <2> QED BY <2>5, <2>6, <2>7, <2>8, <2>9, <2>10, <2>11, <2>12 DEF Next
<1> QED BY <1>1, <1>2, PTL DEF Spec

LEMMA InitIInv == Init => IInv
<1> SUFFICES ASSUME Init PROVE IInv
  OBVIOUS
<1>1. /\ version \in Versions /\ page \in Pages /\ phase = "fetched" /\ at = 1 /\ steps = << >>
      /\ results = << >> /\ opened = {} /\ urls = << >> /\ first = << >> /\ looked = << >> /\ tiers = << >>
  BY DEF Init
<1>2. Control
  BY <1>1 DEF Control, Running, Executing
<1>3. Reached /\ FirstUrls /\ OwnFirst
  BY <1>1 DEF Reached, FirstUrls, OwnFirst, Running, Executing
<1>4. OpensItsSiteOnly /\ UrlChangesLeaveTheFirstPage
  BY <1>1 DEF OpensItsSiteOnly, UrlChangesLeaveTheFirstPage
<1> QED BY <1>2, <1>3, <1>4 DEF IInv

LEMMA Inductive == Spec => []IInv
<1>1. IInv /\ [Next]_vars => IInv'
  <2> SUFFICES ASSUME IInv, [Next]_vars PROVE IInv'
    OBVIOUS
  <2>1. CASE UNCHANGED vars
    BY <2>1 DEF vars, pageVars, hookVars, IInv, Control, Reached, FirstUrls, OwnFirst, OpensItsSiteOnly,
                UrlChangesLeaveTheFirstPage, Running, Executing, Inner
  <2> QED
    BY <2>1, MapStep, ReplyUnresolvedStep, NavigateStep, ResolveStep, ActsStep, OutcomeStep, HealStep,
       TimesOutStep, HealAttemptStep, NoReplyStep, RunOutStep, PageStep, BeforeStep, ReplyStep DEF Next
<1> QED BY <1>1, InitIInv, PTL DEF Spec

\* The variables keep their types: a run that was mapped has one result for each
\* step it has left, and nothing noted of a step it does not have.
THEOREM TypeCorrect == Spec => []TypeOK
<1>1. IInv /\ Bounded => TypeOK
  <2> SUFFICES ASSUME IInv, Bounded PROVE TypeOK
    OBVIOUS
  <2>1. /\ version \in Versions /\ page \in Pages /\ results \in Seq(Results)
        /\ Running \/ phase \in {"fetched", "unmappable", "done"}
        /\ Running => try.how \in {"own", "scroll", "wait", "reply"}
    BY DEF IInv, Control
  <2>2. \A i \in DOMAIN results : results[i].status \in {"passed", "healed", "failed"}
    <3>1. \A i \in DOMAIN results : results[i] \in Results
      BY <2>1
    <3> QED BY <3>1 DEF Results
  <2>3. /\ at \in 1..(Len(steps) + 1) /\ Len(results) \in {at - 1, at}
        /\ DOMAIN urls \cup DOMAIN first \cup DOMAIN looked \cup DOMAIN tiers \subseteq DOMAIN steps
    <3>1. CASE Running \/ phase = "done"
      <4>1. Len(steps) \in Nat \ {0} /\ DOMAIN steps = 1..Len(steps)
        BY <3>1, RunsAreMapped DEF IInv
      <4>2. at \in 1..Len(steps) /\ Len(results) \in {at - 1, at}
        BY <3>1 DEF IInv, Control
      <4>3. /\ DOMAIN tiers = DOMAIN looked
            /\ DOMAIN first \cup DOMAIN urls \cup DOMAIN looked \subseteq 1..at
        BY <3>1 DEF IInv, Reached
      <4>4. 1..at \subseteq DOMAIN steps
        BY <4>1, <4>2
      <4> QED BY <4>1, <4>2, <4>3, <4>4
    <3>2. CASE phase \in {"fetched", "unmappable"}
      BY <3>2 DEF IInv, Control
    <3> QED BY <2>1, <3>1, <3>2
  <2>4. phase \notin {"fetched", "unmappable", "done"} => Running
    BY <2>1
  <2>5. phase \in {"fetched", "unmappable", "before", "act", "acting", "after", "amend", "heal", "reply", "done"}
    BY <2>1 DEF Running, Executing
  <2> QED BY <2>1, <2>2, <2>3, <2>4, <2>5 DEF TypeOK, Bounded
<1> QED BY <1>1, Inductive, StaysBounded, PTL

\* Whatever a stored version or a healer says, the runner opens the workflow's
\* site or a subdomain of it and nothing else (map_version, _ElementOnlyHealer).
THEOREM SiteIsNotLeft == Spec => []OpensItsSiteOnly
<1>1. IInv => OpensItsSiteOnly
  BY DEF IInv
<1> QED BY <1>1, Inductive, PTL

\* A url_change that held has left the page the step's hook first saw, after any
\* number of replacements (ExpectationHook).
THEOREM UrlChangesAreReal == Spec => []UrlChangesLeaveTheFirstPage
<1>1. IInv => UrlChangesLeaveTheFirstPage
  BY DEF IInv
<1> QED BY <1>1, Inductive, PTL

\* A step is reported as matched only if its own stored target was on the page
\* when it was first looked for (RecordingResolver, executed_steps).
THEOREM MatchesAreOwn == Spec => []MatchesAreOfTheStoredTarget
<1>1. IInv => MatchesAreOfTheStoredTarget
  <2> SUFFICES ASSUME IInv, phase \in {"done", "unmappable"}, NEW n \in Numbers, ReportedStep(n).matched
               PROVE  LastOf(n) \in DOMAIN looked /\ looked[LastOf(n)]
    BY DEF MatchesAreOfTheStoredTarget
  <2>1. phase = "done" /\ ExecutedStep(n).matched
    BY DEF ReportedStep
  <2>2. /\ Len(results) \in 1..Len(steps) /\ DOMAIN results = 1..Len(results) /\ Len(steps) \in Nat
        /\ Len(results) = Len(steps) \/ results[Len(results)].status = "failed"
        /\ n \in Nat \ {0} /\ Len(steps) # 1
    <3>1. /\ at \in 1..Len(steps) /\ Len(results) = at /\ results \in Seq(Results)
          /\ Len(results) = Len(steps) \/ results[Len(results)].status = "failed"
      BY <2>1 DEF IInv, Control
    <3>2. /\ Len(steps) \in Nat /\ version \in Versions /\ Len(steps) = Len(version.steps) + 1
          /\ DOMAIN version.steps = 1..Len(version.steps)
      BY <2>1, RunsAreMapped DEF IInv
    <3>3. Len(version.steps) \in Nat \ {0} /\ n \in 1..Len(version.steps)
      BY <3>2, VersionsAssumption DEF Numbers
    <3>4. n \in Nat \ {0} /\ Len(steps) # 1
      BY <3>2, <3>3
    <3> QED BY <3>1, <3>2, <3>4
  <2>3. LastOf(n) = 1 => n = 1 /\ 2 \notin DOMAIN results
    BY <2>2 DEF LastOf
  <2> DEFINE i == LastOf(n)
  <2>4. /\ i \in DOMAIN results
        /\ results[i].status = "passed" \/ (results[i].status # "healed" /\ Tier(i) # "none")
    BY <2>1 DEF ExecutedStep
  <2>5. i # 1
    <3> SUFFICES ASSUME i = 1 PROVE FALSE
      OBVIOUS
    <3>1. n = 1 /\ 2 \notin DOMAIN results
      BY <2>3
    <3>2. results[1].status = "failed"
      <4>1. Len(results) = 1
        BY <2>2, <3>1
      <4>2. Len(steps) # 1
        BY <2>2
      <4> QED BY <2>2, <4>1, <4>2
    <3>3. Tier(1) = "none"
      BY DEF Tier, IInv, OwnFirst
    <3> QED BY <2>4, <3>2, <3>3
  <2> HIDE DEF i
  <2>6. CASE results[i].status = "passed"
    BY <2>4, <2>5, <2>6 DEF IInv, OwnFirst, i
  <2>7. CASE results[i].status # "passed"
    <3>1. i \in DOMAIN tiers /\ tiers[i] # "none"
      BY <2>4, <2>7 DEF Tier
    <3> QED BY <3>1 DEF IInv, OwnFirst, Reached, i
  <2> QED BY <2>6, <2>7
<1> QED BY <1>1, Inductive, PTL

\* What was healed in a run that proposes are steps of the version, by elements
\* that a healer answered.
LEMMA HealedElements ==
  ASSUME IInv, Proposes, NEW n \in DOMAIN Healed
  PROVE  n \in DOMAIN version.steps /\ IsElement(Healed[n])
<1>1. /\ n \in DOMAIN version.steps /\ ExecutedStep(n).healed /\ Healed[n] = results[LastOf(n)].healed
  BY DEF Healed, Numbers
<1>2. LastOf(n) \in DOMAIN results
  BY <1>1 DEF ExecutedStep
<1>3. results[LastOf(n)] \in Results
  BY <1>2 DEF IInv, Control
<1>4. Healed[n] \in HealedCfgs
  BY <1>1, <1>3 DEF Results
<1>5. Healed[n] # << >>
  BY DEF Proposes, Proposable
<1> QED BY <1>1, <1>4, <1>5, RepliesAssumption DEF HealedCfgs, IsElement

\* Role-less heals leave a proposal that maps again, to the steps' actions and
\* values (target_from_element, map_version).
THEOREM RoleLessHealsMap == Spec => []RoleLessHealsMapAgain
<1>1. IInv => RoleLessHealsMapAgain
  <2> SUFFICES ASSUME IInv, Proposes,
                      \A n \in DOMAIN Healed : ~ IsNamed(Healed[n]) /\ TextsOf(Healed[n]) \cap Templated = {}
               PROVE  LET anew == map_version(Proposed(version, Healed)) IN
                      /\ anew # << >>
                      /\ \A i \in DOMAIN steps :
                           anew[i].action = steps[i].action /\ anew[i].value = steps[i].value
    BY DEF RoleLessHealsMapAgain
  <2> DEFINE v == version
             h == Healed
             w == Proposed(v, h)
             N == Len(v.steps)
  <2>1. /\ v \in Versions /\ steps = map_version(v) /\ steps # << >>
        /\ DOMAIN v = {"site", "steps"} /\ N \in Nat \ {0} /\ DOMAIN v.steps = 1..N
        /\ \A n \in 1..N : DOMAIN v.steps[n] = STEP_KEYS
    <3>1. v \in Versions /\ steps = map_version(v) /\ steps # << >>
      BY DEF Proposes, IInv, Control
    <3> QED BY <3>1, VersionsAssumption DEF STEP_KEYS
  <2>2. /\ Problems(v) = {} /\ Len(steps) = N + 1 /\ DOMAIN steps = 1..(N + 1) /\ steps[1] = Navigate(v)
        /\ \A n \in 1..N : steps[n + 1] = Acting(v.steps[n], n)
    BY <2>1, MapFacts
  <2> DEFINE changed == [n \in 1..N |-> IF n \in DOMAIN h
                                        THEN [v.steps[n] EXCEPT !.target = NewTargets(v, h)[n]] ELSE v.steps[n]]
  <2>3. w = [v EXCEPT !.steps = changed]
    BY <2>1 DEF Proposed
  <2>4. w.site = v.site /\ w.steps = changed
    <3> HIDE DEF w, changed, v
    <3> QED BY <2>1, <2>3
  <2>5. Len(w.steps) = N /\ DOMAIN w.steps = 1..N
    <3> DEFINE S == {changed[n] : n \in 1..N}
    <3>1. changed \in [1..N -> S]
      OBVIOUS
    <3> HIDE DEF changed, S, N
    <3>2. changed \in Seq(S) /\ Len(changed) = N /\ DOMAIN changed = 1..N
      BY <2>1, <3>1
    <3> QED BY <2>4, <3>2
  <2>6. ASSUME NEW n \in 1..N
        PROVE  /\ ~ StepProblem(w.steps[n], n, w)
               /\ ActionOf(w.steps[n]) = ActionOf(v.steps[n]) /\ ValueOf(w.steps[n]) = ValueOf(v.steps[n])
               /\ w.steps[n].domain = v.steps[n].domain /\ w.steps[n].url = v.steps[n].url
               /\ w.steps[n].mode = v.steps[n].mode /\ w.steps[n].repeats = v.steps[n].repeats
    <3>1. ~ StepProblem(v.steps[n], n, v)
      BY <2>1, <2>2 DEF Problems
    <3>2. CASE n \notin DOMAIN h
      <4>1. w.steps[n] = v.steps[n]
        BY <2>4, <3>2
      <4>2. ~ StepProblem(v.steps[n], n, w)
        BY <2>4, <3>1 DEF StepProblem
      <4> QED BY <4>1, <4>2
    <3>3. CASE n \in DOMAIN h
      <4> DEFINE original == TheTarget(v.steps[n])
      <4>1. NewTargets(v, h)[n] = target_from_element(h[n], original) /\ NewTargets(v, h)[n] # {}
        BY <3>3 DEF NewTargets, Proposes, Proposable
      <4>2. IsElement(h[n]) /\ ~ IsNamed(h[n]) /\ TextsOf(h[n]) \cap Templated = {}
        BY <3>3, HealedElements
      <4> HIDE DEF h
      <4>3. PICK t :
              /\ target_from_element(h[n], original) = {t} /\ t.malformed = FALSE
              /\ t.role = IF original.role \in Overlong THEN "" ELSE original.role
              /\ DOMAIN Element(t) # {} /\ TextsOf(Element(t)) \cap Templated = {}
        BY <4>1, <4>2, RoleLessTarget
      <4>4. w.steps[n] = [v.steps[n] EXCEPT !.target = {t}]
        BY <2>4, <3>3, <4>1, <4>3
      <4>5. t.role = IF RoleOf(v.steps[n]) \in Overlong THEN "" ELSE RoleOf(v.steps[n])
        BY <4>3 DEF RoleOf
      <4>6. DOMAIN v.steps[n] = STEP_KEYS
        BY <2>1
      <4> HIDE DEF w, v, original
      <4>7. /\ ~ StepProblem(w.steps[n], n, w)
            /\ ActionOf(w.steps[n]) = ActionOf(v.steps[n]) /\ ValueOf(w.steps[n]) = ValueOf(v.steps[n])
        <5>1. w.site = v.site
          BY <2>4
        <5>2. t.malformed = FALSE /\ DOMAIN Element(t) # {} /\ TextsOf(Element(t)) \cap Templated = {}
          BY <4>3
        <5> DEFINE step == v.steps[n]
                   anew == w.steps[n]
        <5>3. /\ anew.target = {t} /\ anew.malformed = step.malformed /\ anew.title = step.title
              /\ anew.quoted = step.quoted /\ anew.domain = step.domain /\ anew.mode = step.mode
              /\ anew.outcome = step.outcome
          BY <4>4, <4>6 DEF STEP_KEYS
        <5>4. Retargeted(step, anew)
          BY <4>5, <5>2, <5>3 DEF Retargeted
        <5> QED BY <3>1, <5>1, <5>4, SameActionAgain
      <4>8. /\ w.steps[n].domain = v.steps[n].domain /\ w.steps[n].url = v.steps[n].url
            /\ w.steps[n].mode = v.steps[n].mode /\ w.steps[n].repeats = v.steps[n].repeats
        BY <4>4, <4>6 DEF STEP_KEYS
      <4> QED BY <4>7, <4>8
    <3> QED BY <3>2, <3>3
  <2> HIDE DEF changed, w, v, h, N
  <2>7. ~ NavigateProblem(w)
    <3>1. ~ NavigateProblem(v)
      BY <2>1, <2>2 DEF Problems
    <3>2. 1 \in 1..N
      BY <2>1
    <3>3. NavigateHost(w) = NavigateHost(v) /\ NavigatePath(w.steps[1]) = NavigatePath(v.steps[1])
      BY <2>4, <2>6, <3>2 DEF NavigateHost, NavigatePath
    <3> QED BY <2>4, <2>6, <3>1, <3>2, <3>3 DEF NavigateProblem
  <2>8. Problems(w) = {}
    BY <2>5, <2>6, <2>7 DEF Problems
  <2>9. map_version(w) # << >>
    <3> DEFINE tail == [n \in 1..N |-> Acting(w.steps[n], n)]
               S == {Navigate(w)} \cup {tail[n] : n \in 1..N}
    <3>1. map_version(w) = <<Navigate(w)>> \o tail
      BY <2>5, <2>8 DEF map_version
    <3>2. tail \in Seq(S) /\ <<Navigate(w)>> \in Seq(S) /\ Len(<<Navigate(w)>>) = 1
      <4>1. tail \in [1..N -> S]
        OBVIOUS
      <4> HIDE DEF tail
      <4>2. Navigate(w) \in S
        OBVIOUS
      <4> HIDE DEF S
      <4> QED BY <2>1, <4>1, <4>2
    <3> HIDE DEF tail, S
    <3>3. Len(<<Navigate(w)>> \o tail) # 0
      BY <3>2
    <3> QED BY <3>1, <3>3
  <2>10. /\ map_version(w)[1] = Navigate(w)
         /\ \A n \in 1..N : map_version(w)[n + 1] = Acting(w.steps[n], n)
    BY <2>1, <2>5, <2>9, MapsStepByStep
  <2>11. ASSUME NEW i \in DOMAIN steps
         PROVE  map_version(w)[i].action = steps[i].action /\ map_version(w)[i].value = steps[i].value
    <3>1. CASE i = 1
      <4>1. Navigate(w).action = Navigate(v).action /\ Navigate(w).value = Navigate(v).value
        BY DEF Navigate
      <4> QED BY <2>2, <2>10, <3>1, <4>1
    <3>2. CASE i # 1
      <4>1. i - 1 \in 1..N /\ (i - 1) + 1 = i
        BY <2>1, <2>2, <3>2
      <4>2. steps[i] = Acting(v.steps[i - 1], i - 1) /\ map_version(w)[i] = Acting(w.steps[i - 1], i - 1)
        BY <2>2, <2>10, <4>1
      <4> QED BY <2>6, <4>1, <4>2 DEF Acting
    <3> QED BY <3>1, <3>2
  <2> QED BY <2>9, <2>11 DEF w, v, h
<1> QED BY <1>1, Inductive, PTL

(***************************************************************************)
(* The walk of the verification queue.                                     *)
(*                                                                         *)
(* The argument: an entry the walk has not come to is untouched in the     *)
(* store (Untouched), a report is of the run's results (Reporting), the    *)
(* POST of a proposal is only sent for a failed run and while the store    *)
(* has no version of it but a late one (Proposing), and there is one       *)
(* outcome for every entry done with (VerifyControl).                      *)
(***************************************************************************)

Working == {"fetch", "execute", "report", "propose", "reread"}

\* One outcome for every entry before the one at work.
VerifyControl ==
  /\ exit = "running" <=> pc # "ended"
  /\ pc = "queue" => entry = 0 /\ outcomes = <<>>
  /\ pc \in Working => entry > 0 /\ Len(outcomes) = entry - 1
  /\ Len(outcomes) <= entry
  /\ WalkStopsForTheTokenOnly

\* Nothing was sent for an entry the walk has not come to, and no proposal
\* before its report.
Untouched ==
  \A e \in Ids :
    /\ (e > entry \/ (e = entry /\ pc \in {"fetch", "execute", "report"})) =>
         versions[e] = 0 /\ e \notin late /\ e \notin overtaken
    /\ (e > entry \/ (e = entry /\ pc \in {"fetch", "execute"})) => runs[e] = "none"

\* A report is of the results its run returned.
Reporting ==
  /\ pc = "report" /\ Entries[entry].mappable => ran[entry] \in RunResults
  /\ \A e \in Ids : /\ runs[e] = "none" \/ runs[e] = ReportOf(e)
                    /\ runs[e] = "passed" => ran[e] \in RunResults

\* A proposal is of a failed run; when it is sent the store has no version, or
\* took one up late.
Proposing ==
  /\ pc \in {"propose", "reread"} => runs[entry] = "failed"
  /\ pc = "propose" /\ entry \notin overtaken => versions[entry] = 0
  /\ \A e \in late : runs[e] = "failed"
  /\ OneVersionPerRun
  /\ ProposalsFollowTheirReport

\* An outcome agrees with the store, and what is on its way will not change that.
Claims ==
  /\ OutcomesAgreeWithTheStore
  /\ \A e \in 1..Len(outcomes) : outcomes[e].status = "skipped" => e \notin late

VerifyIInv == VerifyTypeOK /\ VerifyControl /\ Untouched /\ Reporting /\ Proposing /\ Claims

-----------------------------------------------------------------------------
(* What a request leads to: the next place, an outcome, or the end *)

Goes(place) == pc' = place /\ UNCHANGED <<entry, outcomes, exit, told>>

Yields(status, proposed) == Outcome(status, proposed) /\ UNCHANGED told

\* The command ends without an outcome; never on a request that failed, in a
\* walk that has its queue.
Stops ==
  /\ pc' = "ended"
  /\ UNCHANGED <<entry, outcomes>>
  /\ exit' \in {"error", "rejected", "crashed"}
  /\ told' \in BOOLEAN /\ (told' <=> exit' = "rejected")
  /\ walk /\ entry > 0 => exit' # "error"

LEMMA EntriesAreASequence ==
  Entries \in Seq(Entry) /\ Len(Entries) \in Nat /\ Len(Entries) > 0 /\ Ids = 1..Len(Entries)
BY EntriesAssumption, EmptySeq, LenProperties DEF Ids

\* The queue is read again, has been read, or the command ends.
LEMMA QueueLeadsTo ==
  ASSUME VerifyTypeOK, VerifyControl, NEW answer \in Answers, ReadQueue(answer)
  PROVE  /\ pc = "queue"
         /\ \/ Goes("queue")
            \/ pc' = "fetch" /\ entry' = 1 /\ UNCHANGED <<outcomes, exit, told>>
            \/ Stops
<1>1. told \in BOOLEAN /\ told' \in BOOLEAN
  <2>1. told' = told \/ told' = TRUE
    BY DEF ReadQueue, Retry, Rejected
  <2> QED BY <2>1 DEF VerifyTypeOK
<1>2. pc = "queue" /\ exit = "running" /\ entry = 0 /\ ~told
  BY DEF ReadQueue, VerifyControl, WalkStopsForTheTokenOnly, RejectedTokenEndsTheWalk
<1>3. CASE ~Settles(answer, attempt)
  BY <1>2, <1>3 DEF ReadQueue, Retry, Goes
<1>4. CASE Settles(answer, attempt)
  BY <1>1, <1>2, <1>4 DEF ReadQueue, Rejected, Finish, Stops
<1> QED BY <1>2, <1>3, <1>4

LEMMA RaisedLeadsTo ==
  ASSUME VerifyTypeOK, VerifyControl, pc \in Working, Raised, UNCHANGED told
  PROVE  Yields("failed", FALSE) \/ Stops
<1>1. ~told /\ told' \in BOOLEAN
  BY DEF VerifyControl, Working, WalkStopsForTheTokenOnly, RejectedTokenEndsTheWalk, VerifyTypeOK
<1> QED BY <1>1 DEF Raised, Yields, Stops, Finish

LEMMA FetchLeadsTo ==
  ASSUME VerifyTypeOK, VerifyControl, NEW answer \in Answers, Fetch(answer)
  PROVE  /\ pc = "fetch"
         /\ \/ Goes("fetch")
            \/ Goes("execute")
            \/ Goes("report") /\ ~Entries[entry].mappable
            \/ Yields("failed", FALSE) \/ Yields("skipped", FALSE)
            \/ Stops
<1>1. CASE ~Settles(answer, attempt)
  BY <1>1 DEF Fetch, Retry, Goes
<1>2. CASE Settles(answer, attempt) /\ answer # "ok"
  <2>1. pc = "fetch" /\ pc \in Working /\ Raised /\ UNCHANGED told
    BY <1>2 DEF Fetch, Working
  <2> QED BY <2>1, RaisedLeadsTo
<1>3. CASE Settles(answer, attempt) /\ answer = "ok"
  BY <1>3 DEF Fetch, Goes, Yields
<1> QED BY <1>1, <1>2, <1>3

LEMMA ReportedLeadsTo ==
  ASSUME Reported, UNCHANGED told
  PROVE  \/ Yields("failed", FALSE) \/ Yields("healed", FALSE)
         \/ Yields("passed", FALSE) /\ ReportOf(entry) = "passed"
         \/ /\ Goes("propose") /\ ReportOf(entry) = "failed"
<1>1. CASE ~Entries[entry].mappable
  BY <1>1 DEF Reported, Yields
<1>2. CASE Entries[entry].mappable /\ AllPassed(ran[entry])
  <2>1. ~OnlyHeals(ran[entry])
    BY <1>2 DEF AllPassed, OnlyHeals, HealedStatus
  <2> QED BY <1>2, <2>1 DEF Reported, Yields, ReportOf
<1>3. CASE Entries[entry].mappable /\ ~AllPassed(ran[entry])
  BY <1>3 DEF Reported, Yields, ReportOf, Goes
<1> QED BY <1>1, <1>2, <1>3

\* The outcome "passed", and a proposal, follow a report that was taken.
LEMMA ReportLeadsTo ==
  ASSUME VerifyTypeOK, VerifyControl, NEW answer \in Answers, Report(answer)
  PROVE  /\ pc = "report"
         /\ \/ Goes("report")
            \/ Yields("failed", FALSE) \/ Yields("healed", FALSE)
            \/ Yields("passed", FALSE) /\ FileRun /\ ReportOf(entry) = "passed"
            \/ Goes("propose") /\ FileRun /\ ReportOf(entry) = "failed"
            \/ Stops
<1>1. CASE ~Settles(answer, attempt)
  BY <1>1 DEF Report, Retry, Goes
<1>2. CASE Settles(answer, attempt) /\ answer = "rejected"
  BY <1>2 DEF Report, Rejected, Finish, Stops, IsSuccess
<1>3. CASE Settles(answer, attempt) /\ IsSuccess(answer)
  <2>1. answer # "rejected"
    BY <1>3 DEF IsSuccess
  <2>2. pc = "report" /\ Reported /\ UNCHANGED told /\ FileRun
    BY <1>3, <2>1 DEF Report, RunStored, IsSuccess, Unsure
  <2> QED BY <2>2, ReportedLeadsTo
<1>4. CASE Settles(answer, attempt) /\ answer # "rejected" /\ ~IsSuccess(answer)
  BY <1>4 DEF Report, Yields
<1> QED BY <1>1, <1>2, <1>3, <1>4

\* A version is claimed only with an answer that it was stored.
LEMMA ProposeLeadsTo ==
  ASSUME VerifyTypeOK, VerifyControl, NEW answer \in Answers, Propose(answer)
  PROVE  /\ pc = "propose"
         /\ \/ Goes("reread")
            \/ Yields("failed", FALSE) \/ Yields("healed", FALSE)
            \/ Yields("healed", TRUE) /\ AddVersion(entry) /\ UNCHANGED late
            \/ Stops
<1>0. pc = "propose" /\ pc \in Working
  BY DEF Propose, Working
<1>1. CASE ~Settles(answer, attempt)
  BY <1>0, <1>1 DEF Propose, RetryAt, Goes
<1>2. CASE Settles(answer, attempt) /\ answer = "ok"
  BY <1>0, <1>2 DEF Propose, Yields, VersionStored, IsSuccess, Unsure
<1>3. CASE Settles(answer, attempt) /\ answer = "garbled"
  <2>1. Raised /\ UNCHANGED told
    BY <1>3 DEF Propose
  <2> QED BY <1>0, <2>1, RaisedLeadsTo
<1>4. CASE Settles(answer, attempt) /\ answer \notin {"ok", "garbled"}
  <2>1. ProposalFailed(answer)
    BY <1>4 DEF Propose
  <2> QED BY <1>0, <2>1 DEF ProposalFailed, Rejected, Finish, Stops, Yields
<1> QED BY <1>1, <1>2, <1>3, <1>4

\* The POST is sent again only if the store has no version.
LEMMA RereadLeadsTo ==
  ASSUME VerifyTypeOK, VerifyControl, NEW answer \in Answers, Reread(answer)
  PROVE  /\ pc = "reread"
         /\ \/ Goes("reread")
            \/ Goes("propose") /\ versions[entry] = 0
            \/ Yields("healed", FALSE)
            \/ Yields("healed", TRUE) /\ versions[entry] > 0
<1>1. pc = "reread"
  BY DEF Reread
<1>2. versions[entry] \in Nat
  BY <1>1, EntriesAreASequence DEF VerifyTypeOK, VerifyControl, Working
<1>3. CASE ~Settles(answer, again)
  BY <1>1, <1>3 DEF Reread, Goes
<1>4. CASE Settles(answer, again)
  BY <1>1, <1>2, <1>4 DEF Reread, Yields, Goes, SendAgain
<1> QED BY <1>3, <1>4

-----------------------------------------------------------------------------
(* The places and the outcomes *)

OutcomeRecord == [status : OutcomeStatus, proposed : BOOLEAN]

Placed ==
  /\ pc \in Place /\ entry \in 0..Len(Entries)
  /\ outcomes \in Seq(OutcomeRecord)
  /\ exit \in {"running", "done", "error", "rejected", "crashed"}
  /\ told \in BOOLEAN

\* An outcome is that of the entry at work; the next one is untouched.
LEMMA OutcomeIsOfTheEntry ==
  ASSUME VerifyTypeOK, VerifyControl, pc \in Working,
         NEW status \in OutcomeStatus, NEW proposed \in BOOLEAN, Yields(status, proposed)
  PROVE  /\ outcomes' \in Seq(OutcomeRecord)
         /\ Len(outcomes') = entry
         /\ outcomes'[entry] = [status |-> status, proposed |-> proposed]
         /\ \A e \in 1..Len(outcomes) : outcomes'[e] = outcomes[e]
         /\ UNCHANGED told
         /\ \/ /\ pc' = "fetch" /\ entry' = entry + 1 /\ entry' \in Ids /\ UNCHANGED exit
            \/ /\ pc' = "ended" /\ exit' = "done" /\ UNCHANGED entry
               /\ walk => entry = Len(Entries)
<1> DEFINE r == [status |-> status, proposed |-> proposed]
<1>1. r \in OutcomeRecord /\ outcomes \in Seq(OutcomeRecord)
  BY DEF OutcomeRecord, VerifyTypeOK
<1>2. outcomes' = Append(outcomes, r) /\ UNCHANGED told
  BY DEF Yields, Outcome
<1>3. Len(outcomes) \in Nat /\ Len(outcomes) = entry - 1 /\ entry \in 1..Len(Entries)
  BY <1>1, EntriesAreASequence, LenProperties DEF VerifyControl, VerifyTypeOK
<1>4. /\ outcomes' \in Seq(OutcomeRecord)
      /\ Len(outcomes') = Len(outcomes) + 1
      /\ outcomes'[Len(outcomes) + 1] = r
      /\ \A e \in 1..Len(outcomes) : outcomes'[e] = outcomes[e]
  BY <1>1, <1>2, AppendProperties
<1>5. \/ /\ pc' = "fetch" /\ entry' = entry + 1 /\ entry' \in Ids /\ UNCHANGED exit
      \/ /\ pc' = "ended" /\ exit' = "done" /\ UNCHANGED entry
         /\ walk => entry = Len(Entries)
  BY <1>3, EntriesAreASequence DEF Yields, Outcome
<1> QED BY <1>2, <1>3, <1>4, <1>5

LEMMA YieldMoves ==
  ASSUME VerifyTypeOK, VerifyControl, pc \in Working,
         NEW status \in OutcomeStatus, NEW proposed \in BOOLEAN, Yields(status, proposed)
  PROVE  /\ pc' \in {"fetch", "ended"} /\ entry' \in Nat /\ entry' >= entry
         /\ entry' = entry => pc' = "ended"
<1>1. \/ pc' = "fetch" /\ entry' = entry + 1
      \/ pc' = "ended" /\ UNCHANGED entry
  BY OutcomeIsOfTheEntry
<1> QED BY <1>1 DEF VerifyTypeOK

LEMMA YieldsKeepsControl ==
  ASSUME VerifyTypeOK, VerifyControl, pc \in Working, UNCHANGED walk,
         NEW status \in OutcomeStatus, NEW proposed \in BOOLEAN, Yields(status, proposed)
  PROVE  Placed' /\ VerifyControl'
<1>1. entry \in 1..Len(Entries) /\ Len(Entries) \in Nat /\ Ids = 1..Len(Entries)
  BY EntriesAreASequence DEF VerifyTypeOK, VerifyControl
<1>2. exit = "running" /\ told = FALSE
  BY DEF VerifyControl, Working, WalkStopsForTheTokenOnly, RejectedTokenEndsTheWalk, VerifyTypeOK
<1>4. outcomes' \in Seq(OutcomeRecord) /\ Len(outcomes') = entry /\ told' = FALSE /\ told' \in BOOLEAN
  BY <1>2, OutcomeIsOfTheEntry
<1>5. CASE pc' = "fetch" /\ entry' = entry + 1 /\ entry' \in Ids /\ UNCHANGED exit
  <2>1. Placed'
    BY <1>1, <1>2, <1>4, <1>5 DEF Placed, Place
  <2>2. VerifyControl'
    BY <1>1, <1>2, <1>4, <1>5
       DEF VerifyControl, Working, WalkStopsForTheTokenOnly, RejectedTokenEndsTheWalk,
           EveryEntryHasItsOutcome
  <2> QED BY <2>1, <2>2
<1>6. CASE /\ pc' = "ended" /\ exit' = "done" /\ UNCHANGED entry
           /\ walk => entry = Len(Entries)
  <2>1. Placed'
    BY <1>1, <1>2, <1>4, <1>6 DEF Placed, Place
  <2>2. VerifyControl'
    BY <1>1, <1>2, <1>4, <1>6
       DEF VerifyControl, Working, WalkStopsForTheTokenOnly, RejectedTokenEndsTheWalk,
           EveryEntryHasItsOutcome
  <2> QED BY <2>1, <2>2
<1> QED BY <1>5, <1>6, OutcomeIsOfTheEntry

LEMMA GoesKeepsControl ==
  ASSUME VerifyTypeOK, VerifyControl, pc \in Working, UNCHANGED walk,
         NEW place \in Working, Goes(place)
  PROVE  Placed' /\ VerifyControl'
BY DEF Goes, Placed, VerifyControl, Working, Place, VerifyTypeOK, OutcomeRecord, WalkStopsForTheTokenOnly,
       RejectedTokenEndsTheWalk, EveryEntryHasItsOutcome

LEMMA StopsKeepsControl ==
  ASSUME VerifyTypeOK, VerifyControl, pc # "ended", UNCHANGED walk, Stops
  PROVE  Placed' /\ VerifyControl'
<1>1. Placed'
  <2>1. told' \in BOOLEAN
    BY DEF Stops
  <2> QED BY <2>1 DEF Stops, Placed, Place, VerifyTypeOK, OutcomeRecord
<1>2. WalkStopsForTheTokenOnly'
  BY DEF Stops, WalkStopsForTheTokenOnly, RejectedTokenEndsTheWalk, EveryEntryHasItsOutcome
<1>3. VerifyControl'
  BY <1>2 DEF Stops, VerifyControl, Working
<1> QED BY <1>1, <1>3

LEMMA ControlKept ==
  ASSUME VerifyTypeOK, VerifyControl, Client
  PROVE  Placed' /\ VerifyControl'
<1>0. UNCHANGED walk
  BY DEF Client, Execute, ReadQueue, Fetch, Report, Propose, Reread
<1>1. CASE Execute
  <2>1. CASE pc' = "report" /\ UNCHANGED exit
    <3>1. pc \in Working /\ Goes("report") /\ "report" \in Working
      BY <1>1, <2>1 DEF Execute, Goes, Working
    <3> QED BY <3>1, <1>0, GoesKeepsControl
  <2>2. CASE pc' = "ended" /\ exit' = "crashed"
    <3>1. pc # "ended" /\ Stops
      BY <1>1, <2>2 DEF Execute, Stops, VerifyControl, WalkStopsForTheTokenOnly,
                        RejectedTokenEndsTheWalk, VerifyTypeOK
    <3> QED BY <3>1, <1>0, StopsKeepsControl
  <2> QED BY <1>1, <2>1, <2>2 DEF Execute
<1>2. ASSUME NEW answer \in Answers, ReadQueue(answer)
      PROVE  Placed' /\ VerifyControl'
  <2>1. CASE Stops
    BY <1>0, <1>2, <2>1, QueueLeadsTo, StopsKeepsControl
  <2>2. CASE Goes("queue")
    BY <1>0, <1>2, <2>2, QueueLeadsTo
       DEF Goes, Placed, VerifyControl, Working, Place, VerifyTypeOK, OutcomeRecord,
           WalkStopsForTheTokenOnly, RejectedTokenEndsTheWalk, EveryEntryHasItsOutcome
  <2>3. CASE pc' = "fetch" /\ entry' = 1 /\ UNCHANGED <<outcomes, exit, told>>
    <3>1. pc = "queue" /\ outcomes = <<>> /\ Len(outcomes) = 0
      BY <1>2, QueueLeadsTo, EmptySeq DEF VerifyControl
    <3>2. Len(Entries) \in Nat /\ Len(Entries) > 0
      BY EntriesAreASequence
    <3> QED BY <1>0, <2>3, <3>1, <3>2
            DEF Placed, VerifyControl, Working, Place, VerifyTypeOK, OutcomeRecord,
                WalkStopsForTheTokenOnly, RejectedTokenEndsTheWalk, EveryEntryHasItsOutcome
  <2> QED BY <1>2, <2>1, <2>2, <2>3, QueueLeadsTo
<1>3. ASSUME NEW answer \in Answers,
             Fetch(answer) \/ Report(answer) \/ Propose(answer) \/ Reread(answer)
      PROVE  Placed' /\ VerifyControl'
  <2>1. /\ pc \in Working
        /\ \/ \E place \in Working : Goes(place)
           \/ \E status \in OutcomeStatus, proposed \in BOOLEAN : Yields(status, proposed)
           \/ Stops
    <3>1. CASE Fetch(answer)
      BY <3>1, FetchLeadsTo DEF Working, OutcomeStatus
    <3>2. CASE Report(answer)
      BY <3>2, ReportLeadsTo DEF Working, OutcomeStatus
    <3>3. CASE Propose(answer)
      BY <3>3, ProposeLeadsTo DEF Working, OutcomeStatus
    <3>4. CASE Reread(answer)
      BY <3>4, RereadLeadsTo DEF Working, OutcomeStatus
    <3> QED BY <1>3, <3>1, <3>2, <3>3, <3>4
  <2>2. CASE \E place \in Working : Goes(place)
    BY <1>0, <2>1, <2>2, GoesKeepsControl
  <2>3. CASE \E status \in OutcomeStatus, proposed \in BOOLEAN : Yields(status, proposed)
    BY <1>0, <2>1, <2>3, YieldsKeepsControl
  <2>4. CASE Stops
    BY <1>0, <2>1, <2>4, StopsKeepsControl DEF Working
  <2> QED BY <2>1, <2>2, <2>3, <2>4
<1> QED BY <1>1, <1>2, <1>3 DEF Client

-----------------------------------------------------------------------------
(* The types *)

LEMMA EntryAtWork ==
  ASSUME VerifyTypeOK, VerifyControl, pc \in Working
  PROVE  entry \in Ids /\ entry \in 1..Len(Entries)
BY EntriesAreASequence DEF VerifyTypeOK, VerifyControl

\* What a client's request may do to the store.
LEMMA ReportFiles ==
  ASSUME VerifyTypeOK, VerifyControl, NEW answer \in Answers, Report(answer)
  PROVE  /\ pc = "report" /\ entry \in Ids
         /\ UNCHANGED <<ran, versions, late, overtaken>>
         /\ FileRun \/ UNCHANGED runs
<1>1. pc = "report" /\ entry \in Ids
  BY EntryAtWork DEF Report, Working
<1>2. FileRun \/ UNCHANGED runs
  <2>1. RunStored(answer)
    BY DEF Report
  <2>2. IsSuccess(answer) => ~(answer \in Unsure)
    BY DEF IsSuccess, Unsure
  <2> QED BY <2>1, <2>2 DEF RunStored
<1> QED BY <1>1, <1>2 DEF Report

LEMMA ProposeStores ==
  ASSUME VerifyTypeOK, VerifyControl, NEW answer \in Answers, Propose(answer)
  PROVE  /\ pc = "propose" /\ entry \in Ids
         /\ UNCHANGED <<ran, runs, overtaken>>
         /\ AddVersion(entry) \/ UNCHANGED versions
         /\ late' = late \cup {entry} \/ UNCHANGED late
<1>1. pc = "propose" /\ entry \in Ids
  BY EntryAtWork DEF Propose, Working
<1>2. /\ AddVersion(entry) \/ UNCHANGED versions
      /\ late' = late \cup {entry} \/ UNCHANGED late
  <2>1. VersionStored(answer)
    BY DEF Propose
  <2>2. IsSuccess(answer) => ~(answer \in Unsure)
    BY DEF IsSuccess, Unsure
  <2> QED BY <2>1, <2>2 DEF VersionStored
<1> QED BY <1>1, <1>2 DEF Propose

LEMMA OneMoreAttempt ==
  ASSUME NEW answer, NEW n \in 1..2, ~Settles(answer, n)
  PROVE  n + 1 \in 1..2
BY DEF Settles

LEMMA TypeKept ==
  ASSUME VerifyTypeOK, VerifyControl, [VerifyNext]_verifyVars
  PROVE  VerifyTypeOK'
<1>1. CASE Client
  <2>1. Placed'
    BY <1>1, ControlKept
  <2>2. walk' \in BOOLEAN /\ revoked' \in BOOLEAN /\ overtaken' \subseteq Ids
    BY <1>1 DEF Client, Execute, ReadQueue, Fetch, Report, Propose, Reread, store, VerifyTypeOK
  <2>3. attempt' \in 1..2 /\ again' \in 1..2
    <3>1. CASE Execute
      BY <3>1 DEF Execute, VerifyTypeOK
    <3>2. ASSUME NEW answer \in Answers,
                 ReadQueue(answer) \/ Fetch(answer) \/ Report(answer)
          PROVE  attempt' \in 1..2 /\ again' \in 1..2
      <4>1. again' = again /\ (Settles(answer, attempt) => attempt' = 1)
        BY <3>2 DEF ReadQueue, Fetch, Report
      <4>2. ~Settles(answer, attempt) => attempt' = attempt + 1
        BY <3>2 DEF ReadQueue, Fetch, Report, Retry
      <4> QED BY <4>1, <4>2, OneMoreAttempt DEF VerifyTypeOK
    <3>3. ASSUME NEW answer \in Answers, Propose(answer)
          PROVE  attempt' \in 1..2 /\ again' \in 1..2
      <4>1. again' = 1 /\ (Settles(answer, attempt) => attempt' = 1)
        BY <3>3 DEF Propose
      <4>2. ~Settles(answer, attempt) => attempt' = attempt + 1
        BY <3>3 DEF Propose
      <4> QED BY <4>1, <4>2, OneMoreAttempt DEF VerifyTypeOK
    <3>4. ASSUME NEW answer \in Answers, Reread(answer)
          PROVE  attempt' \in 1..2 /\ again' \in 1..2
      <4>1. entry \in Ids /\ versions[entry] \in Nat
        BY <3>4, EntryAtWork DEF Reread, Working, VerifyTypeOK
      <4>2. CASE Settles(answer, again)
        <5>1. again' = 1
          BY <3>4, <4>2 DEF Reread
        <5>2. attempt' = 1 \/ attempt' = attempt
          BY <3>4, <4>1, <4>2 DEF Reread, SendAgain
        <5> QED BY <5>1, <5>2 DEF VerifyTypeOK
      <4>3. CASE ~Settles(answer, again)
        BY <3>4, <4>3, OneMoreAttempt DEF Reread, VerifyTypeOK
      <4> QED BY <4>2, <4>3
    <3> QED BY <1>1, <3>1, <3>2, <3>3, <3>4 DEF Client
  <2>4. ran' \in [Ids -> RunResults \cup {<<>>}]
    BY <1>1 DEF Client, Execute, ReadQueue, Fetch, Report, Propose, Reread, VerifyTypeOK
  <2>5. /\ runs' \in [Ids -> {"none", "passed", "failed"}]
        /\ versions' \in [Ids -> Nat] /\ late' \subseteq Ids
    <3>1. CASE \E answer \in Answers : Report(answer)
      BY <3>1, ReportFiles DEF FileRun, ReportOf, VerifyTypeOK
    <3>2. CASE \E answer \in Answers : Propose(answer)
      BY <3>2, ProposeStores DEF AddVersion, VerifyTypeOK
    <3>3. CASE UNCHANGED store
      BY <3>3 DEF store, VerifyTypeOK
    <3> QED BY <1>1, <3>1, <3>2, <3>3 DEF Client, Execute, ReadQueue, Fetch, Reread
  <2> QED BY <2>1, <2>2, <2>3, <2>4, <2>5 DEF Placed, VerifyTypeOK, OutcomeRecord
<1>2. CASE \E e \in Ids : StoredLate(e)
  BY <1>2 DEF StoredLate, AddVersion, VerifyTypeOK
<1>3. CASE Revoke \/ UNCHANGED verifyVars
  BY <1>3 DEF Revoke, verifyVars, store, VerifyTypeOK
<1> QED BY <1>1, <1>2, <1>3 DEF VerifyNext

LEMMA ControlStays ==
  ASSUME VerifyControl, UNCHANGED <<walk, pc, entry, outcomes, exit, told>>
  PROVE  VerifyControl'
BY DEF VerifyControl, Working, WalkStopsForTheTokenOnly, RejectedTokenEndsTheWalk,
       EveryEntryHasItsOutcome

-----------------------------------------------------------------------------
(* The store *)

\* Outcomes given stay true when nothing but a late proposal reaches the store.
LEMMA ClaimsStay ==
  ASSUME VerifyTypeOK, VerifyTypeOK', Claims, UNCHANGED outcomes, Len(outcomes) <= Len(Entries),
         \A e \in 1..Len(outcomes) :
           /\ runs'[e] = runs[e] /\ versions'[e] >= versions[e]
           /\ e \in late' => e \in late
           /\ e \notin late => versions'[e] = versions[e]
  PROVE  Claims'
<1>1. Len(outcomes) \in Nat /\ Len(Entries) \in Nat /\ Ids = 1..Len(Entries)
  BY EntriesAreASequence, LenProperties DEF VerifyTypeOK
<1> SUFFICES ASSUME NEW e \in 1..Len(outcomes)
             PROVE  /\ outcomes[e].status = "passed" => runs'[e] = "passed"
                    /\ outcomes[e].proposed => versions'[e] > 0 /\ outcomes[e].status = "healed"
                    /\ outcomes[e].status = "skipped" =>
                         runs'[e] = "none" /\ versions'[e] = 0 /\ e \notin late'
  BY DEF Claims, OutcomesAgreeWithTheStore
<1>2. versions[e] \in Nat /\ versions'[e] \in Nat
  BY <1>1 DEF VerifyTypeOK
<1> QED BY <1>2 DEF Claims, OutcomesAgreeWithTheStore

\* A new outcome that is true of its entry leaves all of them true.
LEMMA ClaimsGrow ==
  ASSUME VerifyTypeOK, VerifyTypeOK', VerifyControl, Claims, pc \in Working,
         NEW status \in OutcomeStatus, NEW proposed \in BOOLEAN, Yields(status, proposed),
         \A e \in Ids : e # entry =>
           runs'[e] = runs[e] /\ versions'[e] = versions[e] /\ (e \in late' => e \in late),
         status = "passed" => runs'[entry] = "passed",
         proposed => versions'[entry] > 0 /\ status = "healed",
         status = "skipped" =>
           runs'[entry] = "none" /\ versions'[entry] = 0 /\ entry \notin late'
  PROVE  Claims'
<1>1. /\ entry \in 1..Len(Entries) /\ Ids = 1..Len(Entries) /\ Len(Entries) \in Nat
      /\ Len(outcomes) = entry - 1
  BY EntryAtWork, EntriesAreASequence DEF VerifyControl
<1>2. /\ Len(outcomes') = entry
      /\ outcomes'[entry] = [status |-> status, proposed |-> proposed]
      /\ \A e \in 1..Len(outcomes) : outcomes'[e] = outcomes[e]
  BY OutcomeIsOfTheEntry
<1> SUFFICES ASSUME NEW e \in 1..entry
             PROVE  /\ outcomes'[e].status = "passed" => runs'[e] = "passed"
                    /\ outcomes'[e].proposed => versions'[e] > 0 /\ outcomes'[e].status = "healed"
                    /\ outcomes'[e].status = "skipped" =>
                         runs'[e] = "none" /\ versions'[e] = 0 /\ e \notin late'
  BY <1>2 DEF Claims, OutcomesAgreeWithTheStore
<1>3. CASE e = entry
  BY <1>2, <1>3
<1>4. CASE e # entry
  <2>1. e \in 1..Len(outcomes) /\ e \in Ids /\ outcomes'[e] = outcomes[e]
    BY <1>1, <1>2, <1>4
  <2> QED BY <1>4, <2>1 DEF Claims, OutcomesAgreeWithTheStore
<1> QED BY <1>3, <1>4

\* The entries behind the one at work are all that a request of another place
\* finds untouched.
LEMMA UntouchedKept ==
  ASSUME VerifyTypeOK, Untouched, pc \in Working \cup {"queue"},
         entry' \in Nat /\ entry' >= entry,
         entry' = entry => pc' \notin {"fetch", "execute"} \/ UNCHANGED <<runs, versions, late>>,
         entry' = entry /\ pc' \in {"fetch", "execute"} => pc \in {"fetch", "execute"},
         entry' = entry /\ pc' = "report" =>
           pc \in {"fetch", "execute", "report"} /\ UNCHANGED <<versions, late>>,
         UNCHANGED overtaken,
         \A e \in Ids : e # entry =>
           runs'[e] = runs[e] /\ versions'[e] = versions[e] /\ (e \in late' => e \in late)
  PROVE  Untouched'
<1> SUFFICES ASSUME NEW e \in Ids
             PROVE  /\ (e > entry' \/ (e = entry' /\ pc' \in {"fetch", "execute", "report"})) =>
                         versions'[e] = 0 /\ e \notin late' /\ e \notin overtaken'
                    /\ (e > entry' \/ (e = entry' /\ pc' \in {"fetch", "execute"})) =>
                         runs'[e] = "none"
  BY DEF Untouched
<1>1. entry \in Nat /\ e \in Nat
  BY EntriesAreASequence DEF VerifyTypeOK
<1>2. CASE e > entry
  BY <1>1, <1>2 DEF Untouched
<1>3. CASE e < entry
  BY <1>1, <1>3
<1>4. CASE e = entry
  BY <1>1, <1>4 DEF Untouched
<1> QED BY <1>1, <1>2, <1>3, <1>4

-----------------------------------------------------------------------------
(* Every step *)

StoreInv == Untouched /\ Reporting /\ Proposing /\ Claims

\* A request that leaves the store alone, and does not lead to a proposal.
LEMMA StoreUntouched ==
  ASSUME VerifyIInv, VerifyTypeOK', VerifyControl', UNCHANGED <<ran, store>>,
         UNCHANGED <<pc, entry, outcomes>>
  PROVE  StoreInv'
<1>1. UNCHANGED <<runs, versions, late, overtaken>>
  BY DEF store
<1>2. Untouched' /\ Proposing'
  BY <1>1 DEF VerifyIInv, Untouched, Proposing, OneVersionPerRun, ProposalsFollowTheirReport
<1>3. Reporting'
  BY <1>1 DEF VerifyIInv, Reporting, ReportOf
<1>4. Claims'
  BY <1>1 DEF VerifyIInv, Claims, OutcomesAgreeWithTheStore
<1> QED BY <1>2, <1>3, <1>4 DEF StoreInv

LEMMA QueueKeeps ==
  ASSUME VerifyIInv, VerifyTypeOK', VerifyControl', NEW answer \in Answers, ReadQueue(answer)
  PROVE  StoreInv'
<1>1. /\ pc = "queue" /\ entry = 0 /\ outcomes' = outcomes /\ outcomes = <<>>
      /\ Len(outcomes) = 0 /\ 0 \notin Ids
  BY QueueLeadsTo, EmptySeq DEF VerifyIInv, VerifyControl, Goes, Stops, Ids
<1>2. UNCHANGED <<ran, runs, versions, late, overtaken>>
  BY DEF ReadQueue, store
<1>3. entry' \in {0, 1} /\ pc' \in {"queue", "fetch", "ended"} /\ (entry' = 0 => pc' # "fetch")
  BY <1>1, QueueLeadsTo DEF VerifyIInv, Goes, Stops
<1>4. Untouched'
  BY <1>1, <1>2, <1>3, UntouchedKept DEF VerifyIInv
<1>5. Reporting'
  BY <1>2, <1>3 DEF VerifyIInv, Reporting, ReportOf
<1>6. Proposing'
  BY <1>2, <1>3 DEF VerifyIInv, Proposing, OneVersionPerRun, ProposalsFollowTheirReport
<1>7. Claims'
  BY <1>1, <1>2 DEF VerifyIInv, Claims, OutcomesAgreeWithTheStore
<1> QED BY <1>4, <1>5, <1>6, <1>7 DEF StoreInv

LEMMA FetchKeeps ==
  ASSUME VerifyIInv, VerifyTypeOK', VerifyControl', NEW answer \in Answers, Fetch(answer)
  PROVE  StoreInv'
<1>1. /\ pc = "fetch" /\ pc \in Working /\ entry \in Ids /\ entry \in Nat
      /\ runs[entry] = "none" /\ versions[entry] = 0 /\ entry \notin late
  <2>1. pc = "fetch" /\ pc \in Working
    BY DEF Fetch, Working
  <2>2. entry \in Ids /\ entry \in Nat
    BY <2>1, EntryAtWork, EntriesAreASequence DEF VerifyIInv
  <2> QED BY <2>1, <2>2 DEF VerifyIInv, Untouched
<1>2. UNCHANGED <<ran, runs, versions, late, overtaken>>
  BY DEF Fetch, store
<1>3. \/ /\ UNCHANGED <<entry, outcomes>> /\ pc' \in {"fetch", "execute", "report", "ended"}
         /\ pc' = "report" => ~Entries[entry].mappable
      \/ Yields("failed", FALSE)
      \/ Yields("skipped", FALSE)
  BY FetchLeadsTo DEF VerifyIInv, Goes, Stops
<1>4. CASE UNCHANGED <<entry, outcomes>> /\ pc' \in {"fetch", "execute", "report", "ended"}
           /\ (pc' = "report" => ~Entries[entry].mappable)
  <2>1. Untouched'
    BY <1>1, <1>2, <1>4, UntouchedKept DEF VerifyIInv
  <2>2. Reporting'
    BY <1>2, <1>4 DEF VerifyIInv, Reporting, ReportOf
  <2>3. Proposing'
    BY <1>2, <1>4 DEF VerifyIInv, Proposing, OneVersionPerRun, ProposalsFollowTheirReport
  <2>4. Claims'
    BY <1>2, <1>4 DEF VerifyIInv, Claims, OutcomesAgreeWithTheStore
  <2> QED BY <2>1, <2>2, <2>3, <2>4 DEF StoreInv
<1>5. ASSUME NEW status \in {"failed", "skipped"}, Yields(status, FALSE)
      PROVE  StoreInv'
  <2>1. /\ pc' \in {"fetch", "ended"} /\ entry' \in Nat /\ entry' >= entry
        /\ entry' = entry => pc' = "ended"
    BY <1>1, <1>5, YieldMoves DEF VerifyIInv, OutcomeStatus
  <2>2. Untouched'
    BY <1>1, <1>2, <2>1, UntouchedKept DEF VerifyIInv
  <2>3. Reporting'
    BY <1>2, <2>1 DEF VerifyIInv, Reporting, ReportOf
  <2>4. Proposing'
    BY <1>2, <2>1 DEF VerifyIInv, Proposing, OneVersionPerRun, ProposalsFollowTheirReport
  <2>5. Claims'
    BY <1>1, <1>2, <1>5, ClaimsGrow DEF VerifyIInv, OutcomeStatus
  <2> QED BY <2>2, <2>3, <2>4, <2>5 DEF StoreInv
<1> QED BY <1>3, <1>4, <1>5

LEMMA ExecuteKeeps ==
  ASSUME VerifyIInv, VerifyTypeOK', VerifyControl', Execute
  PROVE  StoreInv'
<1>1. /\ pc = "execute" /\ pc \in Working /\ entry \in Ids /\ entry \in Nat
      /\ runs[entry] = "none"
  BY EntryAtWork, EntriesAreASequence DEF VerifyIInv, Working, Untouched, Execute
<1>2. UNCHANGED <<entry, outcomes, runs, versions, late, overtaken>> /\ pc' \in {"report", "ended"}
  BY DEF Execute, store
<1>3. Untouched'
  BY <1>1, <1>2, UntouchedKept DEF VerifyIInv
<1>4. \A e \in Ids : e # entry => ran'[e] = ran[e]
  BY DEF Execute, VerifyIInv, VerifyTypeOK
<1>5. pc' = "report" => ran'[entry] \in RunResults
  BY <1>1 DEF Execute, VerifyIInv, VerifyTypeOK
<1>6. Reporting'
  BY <1>1, <1>2, <1>4, <1>5 DEF VerifyIInv, Reporting, ReportOf
<1>7. Proposing'
  BY <1>2 DEF VerifyIInv, Proposing, OneVersionPerRun, ProposalsFollowTheirReport
<1>8. Claims'
  BY <1>2 DEF VerifyIInv, Claims, OutcomesAgreeWithTheStore
<1> QED BY <1>3, <1>6, <1>7, <1>8 DEF StoreInv

LEMMA ReportKeeps ==
  ASSUME VerifyIInv, VerifyTypeOK', VerifyControl', NEW answer \in Answers, Report(answer)
  PROVE  StoreInv'
<1>1. pc = "report" /\ pc \in Working /\ entry \in Ids /\ entry \in Nat
  BY ReportFiles, EntriesAreASequence DEF VerifyIInv, Working
<1>2. versions[entry] = 0 /\ entry \notin late
  BY <1>1 DEF VerifyIInv, Untouched
<1>3. UNCHANGED <<ran, versions, late, overtaken>> /\ (FileRun \/ UNCHANGED runs)
  BY ReportFiles DEF VerifyIInv
<1>4. \A e \in Ids : e # entry => runs'[e] = runs[e]
  BY <1>3 DEF FileRun, VerifyIInv, VerifyTypeOK
<1>5. /\ runs'[entry] = runs[entry] \/ runs'[entry] = ReportOf(entry)
      /\ FileRun => runs'[entry] = ReportOf(entry)
  BY <1>1, <1>3 DEF FileRun, VerifyIInv, VerifyTypeOK, Reporting
<1>6. Reporting'
  <2>1. pc' # "report" \/ UNCHANGED entry
    BY <1>1, ReportLeadsTo, YieldMoves DEF VerifyIInv, Goes, Stops, OutcomeStatus
  <2>2. ReportOf(entry) = "passed" => ran[entry] \in RunResults
    BY <1>1 DEF VerifyIInv, Reporting, ReportOf
  <2>3. \A e \in Ids : /\ runs'[e] = "none" \/ runs'[e] = ReportOf(e)
                       /\ runs'[e] = "passed" => ran[e] \in RunResults
    BY <1>4, <1>5, <2>2 DEF VerifyIInv, Reporting
  <2> QED BY <1>1, <1>3, <2>1, <2>3 DEF VerifyIInv, Reporting, ReportOf
<1>7. ASSUME pc' = "propose" => runs'[entry] = "failed" /\ UNCHANGED entry,
             pc' # "reread"
      PROVE  Proposing'
  <2>1. \A e \in late : runs'[e] = "failed"
    BY <1>2, <1>4 DEF VerifyIInv, VerifyTypeOK, Proposing
  <2>2. ProposalsFollowTheirReport'
    BY <1>2, <1>3, <1>4 DEF VerifyIInv, Proposing, ProposalsFollowTheirReport
  <2>3. OneVersionPerRun'
    BY <1>3 DEF VerifyIInv, Proposing, OneVersionPerRun
  <2> QED BY <1>2, <1>3, <1>7, <2>1, <2>2, <2>3 DEF Proposing
<1>8. CASE \/ Goes("report") \/ Stops
           \/ Goes("propose") /\ FileRun /\ ReportOf(entry) = "failed"
  <2>1. /\ UNCHANGED <<entry, outcomes>> /\ pc' \in {"report", "propose", "ended"}
        /\ pc' = "propose" => runs'[entry] = "failed"
    BY <1>5, <1>8 DEF Goes, Stops
  <2>2. Untouched'
    BY <1>1, <1>3, <1>4, <2>1, UntouchedKept DEF VerifyIInv
  <2>3. Proposing'
    BY <1>7, <2>1
  <2>4. Len(outcomes) <= Len(Entries) /\ \A e \in 1..Len(outcomes) : e \in Ids /\ e # entry
    BY <1>1, EntryAtWork, EntriesAreASequence DEF VerifyIInv, VerifyControl
  <2>5. \A e \in 1..Len(outcomes) : versions[e] \in Nat
    BY <2>4 DEF VerifyIInv, VerifyTypeOK
  <2>6. Claims'
    BY <1>3, <1>4, <2>1, <2>4, <2>5, ClaimsStay DEF VerifyIInv
  <2> QED BY <1>6, <2>2, <2>3, <2>6 DEF StoreInv
<1>9. ASSUME NEW status \in {"failed", "healed", "passed"}, Yields(status, FALSE),
             status = "passed" => runs'[entry] = "passed"
      PROVE  StoreInv'
  <2>1. /\ pc' \in {"fetch", "ended"} /\ entry' \in Nat /\ entry' >= entry
        /\ entry' = entry => pc' = "ended"
    BY <1>1, <1>9, YieldMoves DEF VerifyIInv, OutcomeStatus
  <2>2. Untouched'
    BY <1>1, <1>3, <1>4, <2>1, UntouchedKept DEF VerifyIInv
  <2>3. Proposing'
    BY <1>7, <2>1
  <2>4. Claims'
    BY <1>1, <1>3, <1>4, <1>9, ClaimsGrow DEF VerifyIInv, OutcomeStatus
  <2> QED BY <1>6, <2>2, <2>3, <2>4 DEF StoreInv
<1>10. \/ Goes("report") \/ Stops
       \/ Goes("propose") /\ FileRun /\ ReportOf(entry) = "failed"
       \/ Yields("failed", FALSE) \/ Yields("healed", FALSE)
       \/ Yields("passed", FALSE) /\ FileRun /\ ReportOf(entry) = "passed"
  BY ReportLeadsTo DEF VerifyIInv
<1> QED BY <1>5, <1>8, <1>9, <1>10

LEMMA ProposeKeeps ==
  ASSUME VerifyIInv, VerifyTypeOK', VerifyControl', NEW answer \in Answers, Propose(answer)
  PROVE  StoreInv'
<1>1. pc = "propose" /\ pc \in Working /\ entry \in Ids /\ entry \in Nat
  BY ProposeStores, EntriesAreASequence DEF VerifyIInv, Working
<1>2. /\ UNCHANGED <<ran, runs, overtaken>>
      /\ AddVersion(entry) \/ UNCHANGED versions
      /\ late' = late \cup {entry} \/ UNCHANGED late
  BY ProposeStores DEF VerifyIInv
<1>3. /\ \A e \in Ids : e # entry => versions'[e] = versions[e] /\ (e \in late' => e \in late)
      /\ AddVersion(entry) => versions'[entry] = versions[entry] + 1
      /\ versions[entry] \in Nat
  BY <1>1, <1>2 DEF AddVersion, VerifyIInv, VerifyTypeOK
<1>4. pc' # "propose" /\ (pc' = "reread" => UNCHANGED entry) /\ pc' \notin {"report", "execute"}
  BY <1>1, ProposeLeadsTo, YieldMoves DEF VerifyIInv, Goes, Stops, OutcomeStatus
<1>5. Reporting'
  BY <1>2, <1>4 DEF VerifyIInv, Reporting, ReportOf
<1>6. Proposing'
  <2>1. runs[entry] = "failed" /\ (entry \notin overtaken => versions[entry] = 0)
    BY <1>1 DEF VerifyIInv, Proposing
  <2>2. OneVersionPerRun'
    <3> SUFFICES ASSUME NEW e \in Ids, versions'[e] > 1, e \notin overtaken
                 PROVE  FALSE
      BY <1>2 DEF OneVersionPerRun
    <3>1. CASE e = entry
      <4>1. versions'[e] \in {0, 1}
        BY <1>2, <1>3, <2>1, <3>1
      <4> QED BY <4>1
    <3>2. CASE e # entry
      BY <1>3, <3>2 DEF VerifyIInv, Proposing, OneVersionPerRun
    <3> QED BY <3>1, <3>2
  <2>3. ProposalsFollowTheirReport'
    BY <1>2, <1>3, <2>1 DEF VerifyIInv, Proposing, ProposalsFollowTheirReport
  <2>4. \A e \in late' : runs[e] = "failed"
    BY <1>2, <2>1 DEF VerifyIInv, Proposing
  <2> QED BY <1>2, <1>4, <2>1, <2>2, <2>3, <2>4 DEF Proposing
<1>7. CASE Goes("reread") \/ Stops
  <2>1. UNCHANGED <<entry, outcomes>> /\ pc' \in {"reread", "ended"}
    BY <1>7 DEF Goes, Stops
  <2>2. Untouched'
    BY <1>1, <1>2, <1>3, <2>1, UntouchedKept DEF VerifyIInv
  <2>3. Len(outcomes) <= Len(Entries) /\ \A e \in 1..Len(outcomes) : e \in Ids /\ e # entry
    BY <1>1, EntryAtWork, EntriesAreASequence DEF VerifyIInv, VerifyControl
  <2>4. \A e \in 1..Len(outcomes) : versions[e] \in Nat
    BY <2>3 DEF VerifyIInv, VerifyTypeOK
  <2>5. Claims'
    BY <1>2, <1>3, <2>1, <2>3, <2>4, ClaimsStay DEF VerifyIInv
  <2> QED BY <1>5, <1>6, <2>2, <2>5 DEF StoreInv
<1>8. ASSUME NEW status \in {"failed", "healed"}, NEW proposed \in BOOLEAN,
             Yields(status, proposed), proposed => status = "healed" /\ AddVersion(entry)
      PROVE  StoreInv'
  <2>1. /\ pc' \in {"fetch", "ended"} /\ entry' \in Nat /\ entry' >= entry
        /\ entry' = entry => pc' = "ended"
    BY <1>1, <1>8, YieldMoves DEF VerifyIInv, OutcomeStatus
  <2>2. Untouched'
    BY <1>1, <1>2, <1>3, <2>1, UntouchedKept DEF VerifyIInv
  <2>3. proposed => versions'[entry] > 0
    BY <1>3, <1>8
  <2>4. Claims'
    BY <1>1, <1>2, <1>3, <1>8, <2>3, ClaimsGrow DEF VerifyIInv, OutcomeStatus
  <2> QED BY <1>5, <1>6, <2>2, <2>4 DEF StoreInv
<1>9. \/ Goes("reread") \/ Stops
      \/ Yields("failed", FALSE) \/ Yields("healed", FALSE)
      \/ Yields("healed", TRUE) /\ AddVersion(entry)
  BY ProposeLeadsTo DEF VerifyIInv
<1> QED BY <1>7, <1>8, <1>9

LEMMA RereadKeeps ==
  ASSUME VerifyIInv, VerifyTypeOK', VerifyControl', NEW answer \in Answers, Reread(answer)
  PROVE  StoreInv'
<1>1. pc = "reread" /\ pc \in Working /\ entry \in Ids /\ entry \in Nat
  <2>1. pc = "reread" /\ pc \in Working
    BY DEF Reread, Working
  <2> QED BY <2>1, EntryAtWork, EntriesAreASequence DEF VerifyIInv
<1>2. UNCHANGED <<ran, runs, versions, late, overtaken>>
  BY DEF Reread, store
<1>3. CASE Goes("reread") \/ (Goes("propose") /\ versions[entry] = 0)
  <2>1. /\ UNCHANGED <<entry, outcomes>> /\ pc' \in {"reread", "propose"}
        /\ pc' = "propose" => versions[entry] = 0
    BY <1>3 DEF Goes
  <2>2. Untouched'
    BY <1>1, <1>2, <2>1, UntouchedKept DEF VerifyIInv
  <2>3. Reporting'
    BY <1>2, <2>1 DEF VerifyIInv, Reporting, ReportOf
  <2>4. Proposing'
    BY <1>1, <1>2, <2>1 DEF VerifyIInv, Proposing, OneVersionPerRun, ProposalsFollowTheirReport
  <2>5. Claims'
    BY <1>2, <2>1 DEF VerifyIInv, Claims, OutcomesAgreeWithTheStore
  <2> QED BY <2>2, <2>3, <2>4, <2>5 DEF StoreInv
<1>4. ASSUME NEW proposed \in BOOLEAN, Yields("healed", proposed), proposed => versions[entry] > 0
      PROVE  StoreInv'
  <2>1. /\ pc' \in {"fetch", "ended"} /\ entry' \in Nat /\ entry' >= entry
        /\ entry' = entry => pc' = "ended"
    BY <1>1, <1>4, YieldMoves DEF VerifyIInv, OutcomeStatus
  <2>2. Untouched'
    BY <1>1, <1>2, <2>1, UntouchedKept DEF VerifyIInv
  <2>3. Reporting'
    BY <1>2, <2>1 DEF VerifyIInv, Reporting, ReportOf
  <2>4. Proposing'
    BY <1>2, <2>1 DEF VerifyIInv, Proposing, OneVersionPerRun, ProposalsFollowTheirReport
  <2>5. Claims'
    BY <1>1, <1>2, <1>4, ClaimsGrow DEF VerifyIInv, OutcomeStatus
  <2> QED BY <2>2, <2>3, <2>4, <2>5 DEF StoreInv
<1>5. \/ Goes("reread")
      \/ Goes("propose") /\ versions[entry] = 0
      \/ Yields("healed", FALSE)
      \/ Yields("healed", TRUE) /\ versions[entry] > 0
  BY RereadLeadsTo DEF VerifyIInv
<1>6. Yields("healed", FALSE) => StoreInv'
  BY <1>4
<1>7. Yields("healed", TRUE) /\ versions[entry] > 0 => StoreInv'
  BY <1>4
<1> QED BY <1>3, <1>5, <1>6, <1>7

LEMMA LateKeeps ==
  ASSUME VerifyIInv, VerifyTypeOK', NEW x \in Ids, StoredLate(x)
  PROVE  StoreInv'
<1>1. /\ UNCHANGED <<pc, entry, outcomes, ran, runs>>
      /\ x \in late /\ late' = late \ {x} /\ overtaken' = overtaken \cup {x}
      /\ \A e \in Ids : e # x => versions'[e] = versions[e]
      /\ versions'[x] = versions[x] + 1 /\ versions[x] \in Nat
  BY DEF StoredLate, AddVersion, VerifyIInv, VerifyTypeOK
<1>2. Untouched'
  BY <1>1 DEF VerifyIInv, Untouched
<1>3. Reporting'
  BY <1>1 DEF VerifyIInv, Reporting, ReportOf
<1>4. Proposing'
  <2>1. pc = "propose" => entry \in Ids
    BY EntryAtWork DEF VerifyIInv, Working
  <2>2. OneVersionPerRun' /\ ProposalsFollowTheirReport'
    BY <1>1 DEF VerifyIInv, Proposing, OneVersionPerRun, ProposalsFollowTheirReport
  <2> QED BY <1>1, <2>1, <2>2 DEF VerifyIInv, Proposing
<1>5. Claims'
  <2>1. Len(outcomes) \in Nat /\ Len(outcomes) <= Len(Entries) /\ Ids = 1..Len(Entries)
    BY EntriesAreASequence, LenProperties DEF VerifyIInv, VerifyControl, VerifyTypeOK
  <2> SUFFICES ASSUME NEW e \in 1..Len(outcomes)
               PROVE  /\ outcomes[e].status = "passed" => runs[e] = "passed"
                      /\ outcomes[e].proposed => versions'[e] > 0 /\ outcomes[e].status = "healed"
                      /\ outcomes[e].status = "skipped" =>
                           runs[e] = "none" /\ versions'[e] = 0 /\ e \notin late'
    BY <1>1 DEF Claims, OutcomesAgreeWithTheStore
  <2>2. e \in Ids /\ versions[e] \in Nat
    <3>1. e \in Ids
      BY <2>1, EntriesAreASequence
    <3> QED BY <3>1 DEF VerifyIInv, VerifyTypeOK
  <2>3. CASE e = x
    BY <1>1, <2>2, <2>3 DEF VerifyIInv, Claims, OutcomesAgreeWithTheStore
  <2>4. CASE e # x
    BY <1>1, <2>2, <2>4 DEF VerifyIInv, Claims, OutcomesAgreeWithTheStore
  <2> QED BY <2>3, <2>4
<1> QED BY <1>2, <1>3, <1>4, <1>5 DEF StoreInv

LEMMA InvKept ==
  ASSUME VerifyIInv, [VerifyNext]_verifyVars
  PROVE  VerifyIInv'
<1>1. VerifyTypeOK'
  BY TypeKept DEF VerifyIInv
<1>2. VerifyControl'
  <2>1. CASE Client
    BY <2>1, ControlKept DEF VerifyIInv
  <2>2. CASE ~Client
    BY <2>2, ControlStays DEF VerifyIInv, VerifyNext, Revoke, StoredLate, verifyVars
  <2> QED BY <2>1, <2>2
<1>3. StoreInv'
  <2>1. CASE Client
    BY <1>1, <1>2, <2>1, QueueKeeps, FetchKeeps, ExecuteKeeps, ReportKeeps, ProposeKeeps,
       RereadKeeps DEF Client
  <2>2. CASE \E e \in Ids : StoredLate(e)
    BY <1>1, <2>2, LateKeeps
  <2>3. CASE Revoke \/ UNCHANGED verifyVars
    BY <1>1, <1>2, <2>3, StoreUntouched DEF Revoke, verifyVars, store
  <2> QED BY <2>1, <2>2, <2>3 DEF VerifyNext
<1> QED BY <1>1, <1>2, <1>3 DEF VerifyIInv, StoreInv

LEMMA InvHolds == VerifySpec => []VerifyIInv
<1>1. VerifyInit => VerifyIInv
  <2> SUFFICES ASSUME VerifyInit PROVE VerifyIInv
    OBVIOUS
  <2>1. /\ Len(Entries) \in Nat /\ Len(Entries) > 0 /\ Ids = 1..Len(Entries)
        /\ outcomes = <<>> /\ outcomes \in Seq(OutcomeRecord) /\ Len(outcomes) = 0
    BY EntriesAreASequence, EmptySeq DEF VerifyInit
  <2>2. VerifyTypeOK
    <3>1. walk \in BOOLEAN /\ revoked \in BOOLEAN /\ told \in BOOLEAN
      BY WalksAssumption DEF VerifyInit
    <3>2. outcomes \in Seq([status : OutcomeStatus, proposed : BOOLEAN])
      BY <2>1 DEF OutcomeRecord
    <3>3. /\ ran \in [Ids -> RunResults \cup {<<>>}]
          /\ runs \in [Ids -> {"none", "passed", "failed"}] /\ versions \in [Ids -> Nat]
          /\ late \subseteq Ids /\ overtaken \subseteq Ids
      BY DEF VerifyInit
    <3> QED BY <2>1, <3>1, <3>2, <3>3 DEF VerifyInit, VerifyTypeOK, Place
  <2>3. VerifyControl
    BY <2>1 DEF VerifyInit, VerifyControl, Working, WalkStopsForTheTokenOnly, RejectedTokenEndsTheWalk,
                EveryEntryHasItsOutcome
  <2>4. Untouched /\ Reporting /\ Proposing
    BY DEF VerifyInit, Untouched, Reporting, Proposing, OneVersionPerRun, ProposalsFollowTheirReport
  <2>5. Claims
    BY <2>1 DEF Claims, OutcomesAgreeWithTheStore
  <2> QED BY <2>2, <2>3, <2>4, <2>5 DEF VerifyIInv
<1>2. VerifyIInv /\ [VerifyNext]_verifyVars => VerifyIInv'
  BY InvKept
<1> QED BY <1>1, <1>2, PTL DEF VerifySpec

-----------------------------------------------------------------------------
(* The theorems *)

\* Every variable of the client, the walk and the store keeps its type: no
\* request is sent a third time (_request).
THEOREM VerifyTypeCorrect == VerifySpec => []VerifyTypeOK
<1>1. VerifyIInv => VerifyTypeOK
  BY DEF VerifyIInv
<1> QED BY <1>1, InvHolds, PTL

\* However answers are lost, late or garbled, and for every queue: a run's heals
\* are two versions only if the store took one up after the client had timed
\* out on it (propose_version).
THEOREM ProposedOnce == VerifySpec => []OneVersionPerRun
<1>1. VerifyIInv => OneVersionPerRun
  BY DEF VerifyIInv, Proposing
<1> QED BY <1>1, InvHolds, PTL

\* Nothing is proposed on a report that was not taken, and no outcome claims what
\* the store does not hold (verify_slug).
THEOREM StoreAgrees == VerifySpec => []StoreAndOutcomesAgree
<1>1. VerifyIInv => StoreAndOutcomesAgree
  BY DEF VerifyIInv, Proposing, Claims, StoreAndOutcomesAgree
<1> QED BY <1>1, InvHolds, PTL

\* A walk that has its queue gives every entry its outcome, or was refused its
\* token, or crashed (verify_all_unverified).
THEOREM WalkEndsForTheToken == VerifySpec => []WalkStopsForTheTokenOnly
<1>1. VerifyIInv => WalkStopsForTheTokenOnly
  BY DEF VerifyIInv, VerifyControl
<1> QED BY <1>1, InvHolds, PTL

\* A run whose steps all count as passed has run to its end: a failed step is the
\* last one, and the last result of its number (executed_steps).
LEMMA AllPassedIsComplete ==
  ASSUME NEW r \in RunResults, AllPassed(r)
  PROVE  Len(r) = NumSteps + 1 /\ \A i \in 2..NumSteps + 1 : r[i] = "passed"
<1>1. PICK n \in 1..NumSteps + 1 : r \in [1..n -> StepStatus]
  BY DEF RunResults
<1>2. n \in Nat /\ Len(r) = n
  BY <1>1, NumStepsAssumption
<1>3. Len(r) < NumSteps + 1 => r[Len(r)] = "failed"
  BY DEF RunResults
<1>4. \A k \in 1..NumSteps : ResultOf(r, k) = "passed"
  BY DEF AllPassed, Executed
<1>5. Len(r) = NumSteps + 1
  <2>1. CASE n = 1 /\ n < NumSteps + 1
    <3>1. ResultOf(r, 1) = r[1]
      BY <1>2, <2>1 DEF ResultOf
    <3> QED BY <1>2, <1>3, <1>4, <2>1, <3>1, NumStepsAssumption
  <2>2. CASE n > 1 /\ n < NumSteps + 1
    <3>1. n - 1 \in 1..NumSteps /\ ResultOf(r, n - 1) = r[n]
      BY <1>1, <1>2, <2>2, NumStepsAssumption DEF ResultOf
    <3> QED BY <1>2, <1>3, <1>4, <2>2, <3>1
  <2> QED BY <1>1, <1>2, <2>1, <2>2, NumStepsAssumption
<1>6. ASSUME NEW i \in 2..NumSteps + 1
      PROVE  r[i] = "passed"
  <2>1. i - 1 \in 1..NumSteps /\ ResultOf(r, i - 1) = r[i]
    BY <1>2, <1>5, <1>6, NumStepsAssumption DEF ResultOf
  <2> QED BY <1>4, <2>1
<1> QED BY <1>5, <1>6

\* A report that promotes a version is of a run that reached its end and in which
\* every acting step passed unhealed, for every length of a version.
THEOREM PromotionIsEarned == VerifySpec => []PassedMeansStepsPassed
<1>1. VerifyIInv => PassedMeansStepsPassed
  <2> SUFFICES ASSUME VerifyIInv, NEW e \in Ids, runs[e] = "passed"
               PROVE  /\ Len(ran[e]) = NumSteps + 1
                      /\ \A i \in 2..NumSteps + 1 : ran[e][i] = "passed"
    BY DEF PassedMeansStepsPassed
  <2>1. ran[e] \in RunResults /\ AllPassed(ran[e])
    BY DEF VerifyIInv, Reporting, ReportOf
  <2> QED BY <2>1, AllPassedIsComplete
<1> QED BY <1>1, InvHolds, PTL

=============================================================================
