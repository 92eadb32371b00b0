---------------------------- MODULE BrightSkyRun ----------------------------
(***************************************************************************)
(* The run of one mapped BrightSky version (brightsky/executor.py): the    *)
(* hook before and after each step, the first lookup that a resolver       *)
(* records, the heals that may change an element only, and what the run    *)
(* reports and proposes.  StepRunner's heal loop is reduced to what a heal *)
(* tries; StepRunner.tla has its rungs and budget.                         *)
(*                                                                         *)
(* The page is outside the repository: any action may leave any page       *)
(* behind, and the page may move by itself.  A reply of the healer is a    *)
(* step of its own: an action, an element and a URL.                       *)
(***************************************************************************)
EXTENDS BrightSkyMapping, FiniteSetsExt

CONSTANTS
  Versions,   \* the stored versions to verify
  Pages,      \* what the browser may show: [url, shows]
  References, \* texts that the runner takes for a reference
  Marks,      \* element -> the <<key, value>> pairs a lookup finds it by
  Replies,    \* sequences of steps a healer may answer with
  MaxHeals,   \* the attempts of a heal loop, the free one included
  MaxMoves    \* bound on the changes of the page by itself

ASSUME RunAssumption ==
  /\ MaxHeals \in Nat /\ MaxMoves \in Nat
  /\ \A p \in Pages : p.shows \subseteq DOMAIN Marks
  /\ References \subseteq Templated

\* WorkflowDetail refuses a version without steps.
ASSUME VersionsAssumption ==
  \A v \in Versions :
    /\ DOMAIN v = {"site", "steps"}
    /\ Len(v.steps) \in Nat \ {0} /\ DOMAIN v.steps = 1..Len(v.steps)
    /\ \A n \in DOMAIN v.steps : DOMAIN v.steps[n] = STEP_KEYS

\* A key of an element that is answered comes with its text.
ASSUME RepliesAssumption ==
  \A reply \in Replies :
    Len(reply) = 1 => \A key \in DOMAIN reply[1].cfg : 1 \in DOMAIN reply[1].cfg[key]

VARIABLES
  version,    \* the version fetched
  steps,      \* its mapped steps
  phase,      \* where the run is
  at,         \* index of the step
  try,        \* what is being executed: the step itself, or a heal of it
  heals,      \* attempts of this step's heal loop
  page,       \* what the browser shows
  values,     \* element -> what its field holds
  moves,      \* how often the page moved by itself
  urls,       \* ExpectationHook._urls_before: step -> the URL recorded
  tiers,      \* RecordingResolver.tiers: step -> key of the first lookup
  results,    \* what StepRunner returned so far
  opened,     \* history: the URLs the runner opened
  first,      \* history: step -> the URL when its hook was first asked
  looked      \* history: step -> whether its first lookup was for its own target

hookVars == <<urls, first>>
pageVars == <<page, values>>
vars == <<version, steps, phase, at, try, heals, page, values, moves, urls, tiers, results, opened, first, looked>>

\* Something is noted of a step, if nothing of it was noted before.
Noted(notes, i, what) ==
  [k \in DOMAIN notes \cup {i} |-> IF k \in DOMAIN notes THEN notes[k] ELSE what]

Own == [how |-> "own", action |-> steps[at].action, cfg |-> steps[at].cfg, url |-> steps[at].url]

\* The step that is executed is a heal's replacement, run by a runner of its own.
Inner == try.how # "own"

Cascade == <<"role", "placeholder", "text", "id", "css", "xpath">>

FoundBy(key, cfg) == {e \in page.shows : <<key, cfg[key]>> \in Marks[e]}

\* The first key of the cascade that finds anything wins; strict mode has
\* nothing beyond it.
FindingKeys(cfg) ==
  SelectSeq(Cascade, LAMBDA key : key \in DOMAIN cfg /\ FoundBy(key, cfg) # {})

Find(cfg) == IF FindingKeys(cfg) = << >> THEN {} ELSE FoundBy(FindingKeys(cfg)[1], cfg)

\* The hook's own lookup: one key of the cfg, by another order, and no other.
Located(cfg) ==
  LET given == SelectSeq(<<"role", "text", "css", "xpath", "id">>, LAMBDA key : key \in DOMAIN cfg)
  IN FoundBy(given[1], cfg)

Init ==
  /\ version \in Versions
  /\ steps = << >> /\ phase = "fetched" /\ at = 1 /\ try = << >> /\ heals = 0
  /\ page \in Pages /\ values = [e \in DOMAIN Marks |-> ""] /\ moves = 0
  /\ urls = << >> /\ tiers = << >> /\ results = << >>
  /\ opened = {} /\ first = << >> /\ looked = << >>

\* verify_slug: a version that cannot be mapped is reported and nothing runs.
MapVersion ==
  /\ phase = "fetched"
  /\ steps' = map_version(version)
  /\ IF steps' = << >> THEN phase' = "unmappable" /\ UNCHANGED try
     ELSE /\ phase' = "before"
          /\ try' = [how |-> "own", action |-> "navigate", cfg |-> << >>, url |-> steps'[1].url]
  /\ UNCHANGED <<version, at, heals, pageVars, moves, hookVars, tiers, results, opened, looked>>

(***************************************************************************)
(* How a step ends                                                         *)
(***************************************************************************)

\* The result of the step; a failed one is the run's last.
Ends(status, healed) ==
  /\ results' = Append(results, [status |-> status, healed |-> healed, left |-> page.url])
  /\ IF status = "failed" \/ at = Len(steps)
     THEN phase' = "done" /\ UNCHANGED <<at, try>>
     ELSE /\ at' = at + 1 /\ phase' = "before"
          /\ try' = [how |-> "own", action |-> steps[at + 1].action,
                     cfg |-> steps[at + 1].cfg, url |-> steps[at + 1].url]
  /\ heals' = 0

\* A failed execution: a wait that did not help ends the loop, a scroll that
\* did not lets the attempt ask the healer, anything else starts an attempt.
Fails ==
  IF try.how = "wait" THEN Ends("failed", << >>)
  ELSE /\ phase' = IF try.how = "scroll" THEN "reply" ELSE "heal"
       /\ UNCHANGED <<at, try, heals, results>>

Succeeds == phase' = "after" /\ UNCHANGED <<at, try, heals, results>>

(***************************************************************************)
(* ExpectationHook.before                                                  *)
(***************************************************************************)

\* The URL is recorded anew each time the hook is asked.
RecordedAnew(i) == (i :> page.url) @@ urls

\* The URL of the first time is kept.
Recorded(i) == Noted(urls, i, page.url)

OnExpectedPage(step) ==
  \A expected \in step.starts :
    url_matches(page.url[2], expected, IF step.mode = {} THEN "startsWith" ELSE Value(step.mode))

\* The runner resolves references first; no step of a mapped run stores any.
Unresolved == TextsOf(try.cfg) \cap References # {}

\* The runner's pass over a replacement with a reference fails it.
ReplyUnresolved ==
  /\ phase = "before" /\ Unresolved
  /\ Fails
  /\ UNCHANGED <<version, steps, pageVars, moves, hookVars, tiers, opened, looked>>

\* The URL may not be readable: nothing is recorded, and a step with an
\* expected URL fails.  A step that is stopped here is not healed; a
\* replacement that is stopped has failed.
Before(readable) ==
  /\ phase = "before" /\ ~ Unresolved
  /\ urls' = IF readable /\ steps[at].kind = "url_change" THEN Recorded(at) ELSE urls
  /\ first' = IF readable /\ at \notin DOMAIN looked /\ at \notin DOMAIN first
              THEN Noted(first, at, page.url) ELSE first
  /\ IF steps[at].starts = {} \/ (readable /\ OnExpectedPage(steps[at]))
     THEN phase' = "act" /\ UNCHANGED <<at, try, heals, results>>
     ELSE IF Inner THEN Fails ELSE Ends("failed", << >>)
  /\ UNCHANGED <<version, steps, pageVars, moves, tiers, opened, looked>>

(***************************************************************************)
(* The actions                                                             *)
(***************************************************************************)

\* The site answers with any page.
NavigateActs ==
  /\ phase = "act" /\ try.action = "navigate"
  /\ opened' = opened \cup {try.url}
  /\ page' \in Pages /\ UNCHANGED values
  /\ Succeeds \/ Fails
  /\ UNCHANGED <<version, steps, moves, hookVars, tiers, looked>>

\* The tier of whatever was looked up last.
LastTier(i, tier) == (i :> tier) @@ tiers

\* RecordingResolver keeps the first, also when it found nothing.
FirstTier(i, tier) == Noted(tiers, i, tier)

Resolve ==
  /\ phase = "act" /\ try.action \in {"click", "fill"}
  /\ tiers' = FirstTier(at, IF Find(try.cfg) = {} THEN "none" ELSE FindingKeys(try.cfg)[1])
  /\ looked' = Noted(looked, at, Find(steps[at].cfg) # {})
  /\ IF Find(try.cfg) = {} THEN Fails
     ELSE phase' = "acting" /\ UNCHANGED <<at, try, heals, results>>
  /\ UNCHANGED <<version, steps, pageVars, moves, hookVars, opened>>

\* The locator is looked up again.  An action that fails may have acted.
Acts ==
  /\ phase = "acting"
  /\ \/ /\ Find(try.cfg) # {}
        /\ IF try.action = "fill"
           THEN /\ \E e \in Find(try.cfg) : values' = [values EXCEPT ![e] = steps[at].value]
                /\ IF steps[at].enter THEN page' \in Pages ELSE UNCHANGED page
           ELSE page' \in Pages /\ UNCHANGED values
        /\ Succeeds \/ Fails
     \/ UNCHANGED pageVars /\ Fails
  /\ UNCHANGED <<version, steps, moves, hookVars, tiers, opened, looked>>

(***************************************************************************)
(* ExpectationHook.after, and the end of a heal                            *)
(***************************************************************************)

HasUrl(contains) == \A part \in contains : Within(part, page.url[1] \o page.url[2])

\* _check: a url_change without a recorded URL cannot be made, nor can the value be
\* read of a target that several elements match.
Holds(i) ==
  LET step == steps[i] IN
  CASE step.kind = "none" -> TRUE
    [] step.kind = "url_change" -> i \in DOMAIN urls /\ page.url # urls[i] /\ HasUrl(step.contains)
    [] step.kind = "element_appears" -> \A cfg \in step.target : Located(cfg) # {}
    [] step.kind = "element_gone" -> \A cfg \in step.target : Located(cfg) = {}
    [] OTHER -> \A cfg \in step.target :
                   \E e \in Located(cfg) : Located(cfg) = {e} /\ values[e] = step.value

\* _holds polls until the outcome holds.  heal_assert is asked of a heal by the
\* healer, and not of a scroll or a wait; a heal is then checked once more.
OutcomeHolds ==
  /\ phase = "after" /\ Holds(at)
  /\ IF ~ Inner THEN Ends("passed", << >>)
     ELSE IF try.how = "reply" /\ ~ HasUrl(steps[at].contains) THEN Fails
     ELSE phase' = "amend" /\ UNCHANGED <<at, try, heals, results>>
  /\ UNCHANGED <<version, steps, pageVars, moves, hookVars, tiers, opened, looked>>

\* The hook of the step itself sees the heal's result.
HealHolds ==
  /\ phase = "amend" /\ Holds(at)
  /\ Ends("healed", IF try.how = "reply" THEN try.cfg ELSE << >>)
  /\ UNCHANGED <<version, steps, pageVars, moves, hookVars, tiers, opened, looked>>

\* The last poll did not hold, or raised.
OutcomeTimesOut ==
  /\ phase \in {"after", "amend"} /\ steps[at].kind # "none"
  /\ IF phase = "after" /\ Inner THEN Fails ELSE Ends("failed", << >>)
  /\ UNCHANGED <<version, steps, pageVars, moves, hookVars, tiers, opened, looked>>

(***************************************************************************)
(* The heal loop                                                           *)
(***************************************************************************)

\* An attempt: the visual bridge finds the element hidden or disabled and a
\* scroll or a wait is tried before the step itself, or the healer is asked.
HealAttempt ==
  /\ phase = "heal" /\ heals < MaxHeals
  /\ heals' = heals + 1
  /\ \/ phase' = "reply" /\ UNCHANGED try
     \/ /\ Find(steps[at].cfg) # {}
        /\ \E how \in {"scroll", "wait"} : try' = [Own EXCEPT !.how = how]
        /\ phase' = "before"
  /\ UNCHANGED <<version, steps, at, pageVars, moves, hookVars, tiers, results, opened, looked>>

\* _ElementOnlyHealer: one step of the same action, with an element.
ElementOnly(reply) ==
  /\ Len(reply) = 1
  /\ reply[1].action = steps[at].action /\ reply[1].cfg # << >>

\* The step as the healer answered it.
AsReplied(reply) == [how |-> "reply", action |-> reply[1].action, cfg |-> reply[1].cfg, url |-> reply[1].url]

\* The failed step, with the reply's element swapped in.
Swapped(reply) == [Own EXCEPT !.how = "reply", !.cfg = reply[1].cfg]

Reply(reply) ==
  /\ phase = "reply"
  /\ IF ElementOnly(reply)
     THEN try' = Swapped(reply) /\ phase' = "before"
     ELSE phase' = "heal" /\ UNCHANGED try
  /\ UNCHANGED <<version, steps, at, heals, pageVars, moves, hookVars, tiers, results, opened, looked>>

\* The healer raises: no answer, or none it could read.
NoReply ==
  /\ phase = "reply" /\ phase' = "heal"
  /\ UNCHANGED <<version, steps, at, try, heals, pageVars, moves, hookVars, tiers, results, opened, looked>>

HealsRunOut ==
  /\ phase = "heal" /\ heals = MaxHeals
  /\ Ends("failed", << >>)
  /\ UNCHANGED <<version, steps, pageVars, moves, hookVars, tiers, opened, looked>>

(***************************************************************************)
(* The page, and the whole                                                 *)
(***************************************************************************)

PageMoves ==
  /\ phase \notin {"fetched", "unmappable", "done"} /\ moves < MaxMoves
  /\ page' \in Pages \ {page} /\ moves' = moves + 1
  /\ UNCHANGED <<version, steps, phase, at, try, heals, values, hookVars, tiers, results, opened, looked>>

Next ==
  \/ MapVersion \/ ReplyUnresolved \/ NavigateActs \/ Resolve \/ Acts
  \/ OutcomeHolds \/ HealHolds \/ OutcomeTimesOut
  \/ HealAttempt \/ NoReply \/ HealsRunOut \/ PageMoves
  \/ \E readable \in BOOLEAN : Before(readable)
  \/ \E reply \in Replies : Reply(reply)

Spec == Init /\ [][Next]_vars

(***************************************************************************)
(* executed_steps and the report                                           *)
(***************************************************************************)

\* The result of a BrightSky step: the navigate and the first acting step are
\* both step 1, and the last of them counts.
LastOf(n) == IF n + 1 \in DOMAIN results THEN n + 1 ELSE IF n = 1 THEN 1 ELSE 0

Tier(i) == IF i \in DOMAIN tiers THEN tiers[i] ELSE "none"

ExecutedStep(n) ==
  IF LastOf(n) \notin DOMAIN results THEN [outcome |-> "unchecked", matched |-> FALSE, healed |-> FALSE]
  ELSE LET r == results[LastOf(n)] IN
       CASE r.status = "passed" -> [outcome |-> "passed", matched |-> TRUE, healed |-> FALSE]
         [] r.status = "healed" -> [outcome |-> "failed", matched |-> FALSE, healed |-> TRUE]
         [] OTHER -> [outcome |-> "failed", matched |-> Tier(LastOf(n)) # "none", healed |-> FALSE]

Numbers == DOMAIN version.steps

\* A version that cannot be mapped is reported by its first bad step.
ReportedStep(n) ==
  IF phase # "unmappable" THEN ExecutedStep(n)
  ELSE [outcome |-> IF n = Min(Problems(version)) THEN "failed" ELSE "unchecked",
        matched |-> FALSE, healed |-> FALSE]

\* The heals of a run in which nothing else failed.
Healed ==
  IF \A n \in Numbers : ExecutedStep(n).outcome = "passed" \/ ExecutedStep(n).healed
  THEN [n \in {m \in Numbers : ExecutedStep(m).healed} |-> results[LastOf(n)].healed]
  ELSE << >>

Proposes == phase = "done" /\ DOMAIN Healed # {} /\ Proposable(version, Healed)

(***************************************************************************)
(* Properties                                                              *)
(***************************************************************************)

\* The values of the variables: a run has one result for each step it has left.
TypeOK ==
  /\ version \in Versions /\ page \in Pages /\ moves \in 0..MaxMoves /\ heals \in 0..MaxHeals
  /\ phase \in {"fetched", "unmappable", "before", "act", "acting", "after", "amend", "heal", "reply", "done"}
  /\ at \in 1..(Len(steps) + 1) /\ Len(results) \in {at - 1, at}
  /\ \A i \in DOMAIN results : results[i].status \in {"passed", "healed", "failed"}
  /\ phase \notin {"fetched", "unmappable", "done"} => try.how \in {"own", "scroll", "wait", "reply"}
  /\ DOMAIN urls \cup DOMAIN first \cup DOMAIN looked \cup DOMAIN tiers \subseteq DOMAIN steps
  /\ DOMAIN values = DOMAIN Marks

\* The host guard of map_version and the rejection of any reply but a new
\* element (executor.py): whatever a version or a healer says, the runner
\* itself opens the workflow's site or a subdomain of it and nothing else.
OpensItsSiteOnly == \A url \in opened : OnSite(url[1], version.site)

\* A url_change that held, after however many replacements, has left the page
\* the step's hook first saw: what a failed attempt did to the page is never
\* taken for the page before (ExpectationHook keeps the first URL).
UrlChangesLeaveTheFirstPage ==
  \A i \in DOMAIN results \cap DOMAIN first :
    results[i].status # "failed" /\ steps[i].kind = "url_change" => results[i].left # first[i]

\* A step that is reported failed but matched, or passed, had its own stored
\* target on the page when it was first looked for: no lookup of a heal is
\* taken for it (RecordingResolver).
MatchesAreOfTheStoredTarget ==
  phase \in {"done", "unmappable"} =>
    \A n \in Numbers :
      ReportedStep(n).matched => LastOf(n) \in DOMAIN looked /\ looked[LastOf(n)]

\* A heal without a role and a name is proposed with the step's own role, so
\* that the proposed version maps again, to the same actions and values, unless
\* a {{ keeps it from being mapped at all (targets.py, and map_version for the
\* next verification).
RoleLessHealsMapAgain ==
  /\ Proposes
  /\ \A n \in DOMAIN Healed : ~ IsNamed(Healed[n]) /\ TextsOf(Healed[n]) \cap Templated = {}
  =>
    LET again == map_version(Proposed(version, Healed)) IN
    /\ again # << >>
    /\ \A i \in DOMAIN steps : again[i].action = steps[i].action /\ again[i].value = steps[i].value

(***************************************************************************)
(* What the documentation says and the code does not do                    *)
(***************************************************************************)

\* target_from_element "keeps the step's action" (targets.py), and "a proposed
\* step keeps its action" (spec.md).
ProposalsKeepTheAction ==
  Proposes =>
    LET again == map_version(Proposed(version, Healed)) IN
    /\ again # << >>
    /\ \A i \in DOMAIN steps : again[i].action = steps[i].action
=============================================================================
