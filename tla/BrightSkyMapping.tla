-------------------------- MODULE BrightSkyMapping --------------------------
(***************************************************************************)
(* A stored BrightSky workflow version as strict steps of the runner       *)
(* (brightsky/mapping.py), a healed element as a target of the store       *)
(* (brightsky/targets.py), and the proposal made of them                   *)
(* (brightsky/verify.py).  Pure: nothing here has state.                   *)
(*                                                                         *)
(* A host is the sequence of its labels, << >> a text that is no host name;*)
(* a path is the sequence of its segments.  An optional field is a set of  *)
(* at most one value.  The texts that the code tells apart are the members *)
(* of the sets below; any other text is plain.                             *)
(***************************************************************************)
EXTENDS Integers, SequencesExt, TLC

CONSTANTS
  Numeric,      \* last labels a browser takes for an IPv4 number
  Templated,    \* texts with a {{ in them
  EnvNames,     \* texts that name an environment variable
  Blank,        \* texts without a visible character, "" among them
  Overlong,     \* texts longer than the store takes
  Regexes,      \* what the expected URLs that are regular expressions match
  IdSelectors   \* what may follow the # of a plain id selector

ASSUME TextsAssumption == "" \in Blank /\ Blank \cap (Templated \cup EnvNames) = {}

MATCH_MODES == {"startsWith", "includes", "regex"}
ELEMENT_OUTCOMES == {"value_set", "element_gone", "element_appears"}
OUTCOME_KINDS == ELEMENT_OUTCOMES \cup {"url_change"}
FILL_ROLES == {"textbox", "searchbox", "spinbutton"}
UNSUPPORTED_ROLES == {"combobox", "listbox", "slider"}

\* MAX_ROLE_LENGTH is well beyond the roles that fill.
ASSUME RolesAssumption == FILL_ROLES \cap Overlong = {}

\* The fields of a stored step.
STEP_KEYS == {"malformed", "repeats", "title", "quoted", "domain", "url", "mode", "target", "outcome"}

\* The value of an optional field that is given.
Value(field) == CHOOSE v \in field : TRUE

(***************************************************************************)
(* Hosts and URLs                                                          *)
(***************************************************************************)

IsHost(host) == host # << >>

SiteIsSound(site) == IsHost(site) /\ Len(site) > 1 /\ Last(site) \notin Numeric

OnSite(host, site) == IsHost(host) /\ IsSuffix(site, host)

Within(part, whole) == \E i \in 0..Len(whole) : IsPrefix(part, SubSeq(whole, i + 1, Len(whole)))

\* A bad regular expression counts as startsWith.
url_matches(path, expected, mode) ==
  CASE mode = "includes" -> Within(expected, path)
    [] mode = "regex" /\ expected \in DOMAIN Regexes -> path \in Regexes[expected]
    [] OTHER -> IsPrefix(expected, path)

NavigateHost(version) ==
  IF version.steps[1].domain = {} THEN version.site ELSE Value(version.steps[1].domain)

NavigatePath(step) ==
  IF step.url # {} /\ step.mode \subseteq {"startsWith"} THEN Value(step.url) ELSE << >>

(***************************************************************************)
(* Targets                                                                 *)
(***************************************************************************)

\* The key that a target is named by: a role is never without a name.
NameKeys(target) ==
  IF target.name \in Blank THEN {} ELSE IF target.role \in Blank THEN {"text"} ELSE {"role"}

\* The places of its selectors that say something; the first is taken.
Pins(target) == {i \in DOMAIN target.selectors : target.selectors[i].of \notin Blank}

Pinned(target) == target.selectors[Min(Pins(target))]

\* An element cfg: a function from its keys.
Element(target) ==
  [key \in NameKeys(target) \cup {Pinned(target).by : i \in Pins(target)} |->
     IF key \notin NameKeys(target) THEN <<Pinned(target).of>>
     ELSE IF key = "role" THEN <<target.role, target.name>> ELSE <<target.name>>]

TextsOf(cfg) == UNION {ToSet(cfg[key]) : key \in DOMAIN cfg}

\* "malformed" stands for a field of another type than the store promises.
TargetProblem(target) == target = {} \/ \E t \in target : t.malformed \/ DOMAIN Element(t) = {}

TheTarget(step) == Value(step.target)

RoleOf(step) == TheTarget(step).role

Kind(step) == IF step.outcome = {} THEN "none" ELSE Value(step.outcome).kind

OutcomeProblem(step) ==
  \E o \in step.outcome :
    o.kind \notin OUTCOME_KINDS \/ (o.kind \in ELEMENT_OUTCOMES /\ TargetProblem(o.target))

OutcomeElement(step) ==
  UNION {{Element(t) : t \in o.target} : o \in {p \in step.outcome : p.kind \in ELEMENT_OUTCOMES}}

UrlContains(step) ==
  UNION {o.contains : o \in {p \in step.outcome : p.kind = "url_change"}}

(***************************************************************************)
(* map_version                                                             *)
(***************************************************************************)

ActionOf(step) == IF RoleOf(step) \in FILL_ROLES \/ Kind(step) = "value_set" THEN "fill" ELSE "click"

\* The first quoted text of the title, or else of the explanation.
ValueOf(step) ==
  IF ActionOf(step) = "click" THEN ""
  ELSE IF step.quoted.title # "" THEN step.quoted.title ELSE step.quoted.explanation

\* What keeps step n from being mapped.
StepProblem(step, n, version) ==
  \/ step.malformed
  \/ n > 1 /\ \E host \in step.domain : ~ OnSite(host, version.site)
  \/ ~ step.mode \subseteq MATCH_MODES
  \/ TargetProblem(step.target)
  \/ RoleOf(step) \in UNSUPPORTED_ROLES
  \/ OutcomeProblem(step)
  \/ ActionOf(step) = "fill" /\ ValueOf(step) \in Blank \cup EnvNames
  \/ step.title \in Templated \/ ValueOf(step) \in Templated
  \/ \E cfg \in {Element(TheTarget(step))} \cup OutcomeElement(step) : TextsOf(cfg) \cap Templated # {}
  \/ \E url \in UrlContains(step) : ToSet(url) \cap Templated # {}

NavigateProblem(version) ==
  \/ ~ SiteIsSound(version.site)
  \/ ~ OnSite(NavigateHost(version), version.site)
  \/ ToSet(NavigatePath(version.steps[1])) \cap Templated # {}
  \/ version.steps[1].repeats

\* The steps that cannot be mapped; the first is reported.
Problems(version) ==
  {n \in DOMAIN version.steps :
     StepProblem(version.steps[n], n, version) \/ (n = 1 /\ NavigateProblem(version))}

Navigate(version) ==
  [action |-> "navigate", number |-> 1, cfg |-> << >>, value |-> "", enter |-> FALSE,
   url |-> <<NavigateHost(version), NavigatePath(version.steps[1])>>,
   starts |-> {}, mode |-> {}, kind |-> "none", target |-> {}, contains |-> {}]

\* A step with its StepExpectation: the first has no expected URL, its page is
\* the navigate's.
Acting(step, n) ==
  [action |-> ActionOf(step), number |-> n, cfg |-> Element(TheTarget(step)), value |-> ValueOf(step),
   enter |-> ActionOf(step) = "fill" /\ Kind(step) = "url_change",
   url |-> << >>,
   starts |-> IF n > 1 THEN step.url ELSE {}, mode |-> IF n > 1 THEN step.mode ELSE {},
   kind |-> Kind(step), target |-> OutcomeElement(step), contains |-> UrlContains(step)]

map_version(version) ==
  IF Problems(version) # {} THEN << >>
  ELSE <<Navigate(version)>> \o [n \in DOMAIN version.steps |-> Acting(version.steps[n], n)]

(***************************************************************************)
(* target_from_element and _proposal                                       *)
(***************************************************************************)

\* An id that is no plain name comes back from the store as a css selector.
Written(key, of) ==
  IF key = "id" /\ of \notin IdSelectors THEN [by |-> "css", of |-> of] ELSE [by |-> key, of |-> of]

\* What the cfg gives under a key, if the store takes it.
Selector(cfg, key) ==
  IF key \in DOMAIN cfg /\ cfg[key][1] \notin Blank \cup Overlong
  THEN <<Written(key, cfg[key][1])>> ELSE << >>

\* In the order of the resolver's cascade.
SelectorsOf(cfg) ==
  Selector(cfg, "placeholder") \o Selector(cfg, "id") \o Selector(cfg, "css") \o Selector(cfg, "xpath")

IsNamed(cfg) == "role" \in DOMAIN cfg /\ ToSet(cfg["role"]) \cap (Blank \cup Overlong) = {}

\* A role-less heal that forgets the step's role.
NoRole(cfg, original) == IF IsNamed(cfg) THEN cfg["role"] ELSE <<"", "">>

\* The role of the original is kept beside a role-less heal, never its name.
KeptRole(cfg, original) ==
  IF IsNamed(cfg) THEN cfg["role"]
  ELSE <<IF original.role \in Overlong THEN "" ELSE original.role, "">>

\* None, when the store cannot describe the element.
target_from_element(cfg, original) ==
  LET kept == KeptRole(cfg, original) IN
  IF ~ IsNamed(cfg) /\ SelectorsOf(cfg) = << >> THEN {}
  ELSE {[malformed |-> FALSE, role |-> kept[1], name |-> kept[2], selectors |-> SelectorsOf(cfg)]}

NewTargets(version, healed) ==
  [n \in DOMAIN healed |-> target_from_element(healed[n], TheTarget(version.steps[n]))]

\* `healed' maps the numbers of the healed steps to their new elements.
Proposable(version, healed) ==
  \A n \in DOMAIN healed : healed[n] # << >> /\ NewTargets(version, healed)[n] # {}

Proposed(version, healed) ==
  [version EXCEPT !.steps =
     [n \in DOMAIN @ |-> IF n \in DOMAIN healed
                         THEN [@[n] EXCEPT !.target = NewTargets(version, healed)[n]] ELSE @[n]]]
=============================================================================
