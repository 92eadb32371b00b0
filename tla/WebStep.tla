------------------------------- MODULE WebStep -------------------------------
(***************************************************************************)
(* One step of the web domain: its attempt (engine/actions/basic.py and    *)
(* assertions.py) on an element the resolver finds, the heals after a      *)
(* failure, and the end of the run, which writes the drift log.            *)
(***************************************************************************)
EXTENDS Healing

CONSTANT MaxHealAttempts   \* 0 without a healer

ASSUME MaxHealAssumption == MaxHealAttempts \in 0..3

VARIABLES
  place,     \* where the execution is
  attempt,   \* [phase, cfg]: which attempt it is, and the element of its step
  outcome,   \* the status of the step
  acted,     \* the element of this attempt's interaction, for the properties: {} or one record
  due        \* the records appended before the last flush, for the properties

stepVars == <<place, attempt, outcome, acted, due>>
vars == <<page, moves, task, lookup, comparisons, log, heal, setup, place, attempt, outcome, acted, due>>

TypeOK ==
  /\ page \in Pages /\ moves \in 0..MaxMoves /\ task \in Tasks
  /\ IsLookup(lookup) /\ IsHeal(heal)
  /\ \A i \in DOMAIN comparisons : IsComparison(comparisons[i])
  /\ place \in {"start", "lookup", "act", "bridge", "capture", "pin", "heal", "over", "flushed", "closed"}
  /\ attempt.phase \in {"first", "hidden", "disabled", "replacement"}
  /\ outcome \in {"none", "passed", "failed", "healed"}

WrittenCfg == [k \in task.keys |-> "asked"]

(***************************************************************************)
(* The page moves at any time, under a lookup, a locator or a capture.     *)
(***************************************************************************)

PageMoves ==
  /\ moves < MaxMoves /\ place # "closed"
  /\ page' \in Pages \ {page}
  /\ moves' = moves + 1
  /\ lookup' = [lookup EXCEPT !.moved = TRUE]
  /\ heal' = [heal EXCEPT !.moved = TRUE]
  /\ UNCHANGED <<task, comparisons, log, setup, stepVars>>

(***************************************************************************)
(* An attempt.                                                             *)
(***************************************************************************)

AttemptOnly == UNCHANGED <<page, moves, task, log, heal, setup, due>>

Goes(to) == place' = to

\* Which attempt failed decides what the heal loop does next.
HealGoesOn == IF heal.counted < MaxHealAttempts THEN "bridge" ELSE "over"

NextPlace(ok) ==
  IF ok THEN "over"
  ELSE CASE attempt.phase \in {"first", "replacement"} -> HealGoesOn
         [] attempt.phase = "hidden" -> "capture"
         [] attempt.phase = "disabled" -> "over"

Ends(ok) ==
  /\ place' = NextPlace(ok)
  /\ outcome' = IF ~ok THEN "failed" ELSE IF attempt.phase = "first" THEN "passed" ELSE "healed"
  /\ UNCHANGED attempt

Clicks == {"click", "click_js", "click_force"}

\* A value from an environment variable that is not set, an assertion without
\* extra.expected, a store without extra.key, a key press without a key.
IsMissing == ~task.valued /\ task.action \in Clicks \cup {"fill", "assert_text", "store", "keyboard_press"}

ValueMissing ==
  /\ place = "start" /\ IsMissing
  /\ Ends(FALSE)
  /\ UNCHANGED <<lookup, comparisons, acted>> /\ AttemptOnly

NeedsNoElement == task.action \in Untold /\ DOMAIN attempt.cfg = {}

\* scroll_to fails without an element, keyboard_press presses the key anyway.
ActsWithoutElement ==
  /\ place = "start" /\ NeedsNoElement /\ ~IsMissing
  /\ Ends(task.action = "keyboard_press")
  /\ UNCHANGED <<lookup, comparisons, acted>> /\ AttemptOnly

LooksForElement ==
  /\ place = "start" /\ ~NeedsNoElement /\ ~IsMissing
  /\ Begin(attempt.cfg)
  /\ Goes("lookup")
  /\ UNCHANGED <<comparisons, attempt, outcome, acted>> /\ AttemptOnly

LookupGoesOn ==
  /\ place = "lookup"
  /\ Resolves
  /\ UNCHANGED <<comparisons, log, heal, setup, stepVars>>

\* Only an assertion that something is hidden is content with nothing.
NotFound ==
  /\ place = "lookup" /\ lookup.at = "missed"
  /\ Ends(task.action = "assert_hidden")
  /\ UNCHANGED <<lookup, comparisons, acted>> /\ AttemptOnly

Found ==
  /\ place = "lookup" /\ lookup.at = "found"
  /\ \E loc \in lookup.loc : Compares(attempt.cfg, loc)
  /\ Goes("act")
  /\ UNCHANGED <<lookup, attempt, outcome, acted>> /\ AttemptOnly

\* Of the actions only a click asks how sure the resolver was.
TooUnsure == task.action \in Clicks /\ lookup.confidence < CONFIDENCE_WARN

\* What the interactions ask of an element: Playwright waits for it to be in a
\* state to take them, and the forced clicks do not.
ClickLands(e) ==
  CASE task.action = "click_js" -> TRUE
    [] task.action = "click_force" -> e.state # "hidden"
    [] OTHER -> e.state = "ready"

FillLands(e) == e.state = "ready" /\ "fill" \in e.shape

SelectLands(e) == e.state = "ready" /\ "select" \in e.shape

HoverLands(e) == e.state # "hidden"

VisibleAsAsserted(e) == (task.action = "assert_hidden") <=> (e.state = "hidden")

Lands(e) ==
  /\ task.action \in Clicks => ClickLands(e)
  /\ task.action = "fill" => FillLands(e)
  /\ task.action = "select" => SelectLands(e)
  /\ task.action \in {"hover", "scroll_to"} => HoverLands(e)
  /\ task.action \in {"assert_visible", "assert_hidden"} => VisibleAsAsserted(e)

\* The locator is looked up again, on the page as it now is.
Acts ==
  /\ place = "act" /\ ~TooUnsure
  /\ \E loc \in lookup.loc : \E e \in Target(loc) :
       /\ Lands(e)
       /\ acted' = {[e |-> e, loc |-> loc]}
  /\ Ends(TRUE)
  /\ UNCHANGED <<lookup, comparisons>> /\ AttemptOnly

\* An element that is no longer there is not visible.
GoneAsAsserted == task.action = "assert_hidden" /\ \E loc \in lookup.loc : Target(loc) = {}

\* Below the gate, gone, in no state for it, not there in time, or not as expected.
TouchesNothing ==
  /\ place = "act"
  /\ Ends(GoneAsAsserted)
  /\ UNCHANGED <<lookup, comparisons, acted>> /\ AttemptOnly

StepAttempts ==
  ValueMissing \/ ActsWithoutElement \/ LooksForElement \/ LookupGoesOn \/ NotFound \/ Found \/ Acts \/ TouchesNothing

(***************************************************************************)
(* A heal.                                                                 *)
(***************************************************************************)

HealOnly == UNCHANGED <<page, moves, task, comparisons, log, setup, due>>

Attempts(phase, cfg) ==
  /\ attempt' = [phase |-> phase, cfg |-> cfg]
  /\ acted' = {}
  /\ lookup' = NoLookup
  /\ Goes("start")

\* An element that is there but hidden or disabled: scroll to it, or wait, and
\* make the attempt once more.  Of the step put before it nothing is told but that
\* the page may move meanwhile (PageMoves): its outcome is never read.
BridgeInjects ==
  /\ place = "bridge" /\ BridgeAnswer \in {"hidden", "disabled"}
  /\ heal' = [heal EXCEPT !.counted = @ + 1]
  /\ Attempts(BridgeAnswer, WrittenCfg)
  /\ UNCHANGED outcome /\ HealOnly

BridgePasses ==
  /\ place = "bridge" /\ BridgeAnswer \in {"ok", "none"}
  /\ heal' = [heal EXCEPT !.counted = @ + 1]
  /\ Goes("capture")
  /\ UNCHANGED <<lookup, attempt, outcome, acted>> /\ HealOnly

\* After a direct heal that failed, in strict order, the candidates are asked for.
SkipDirect == setup.strict_order /\ "embed_direct" \in ToSet(heal.tried)

Captures ==
  /\ place = "capture"
  /\ LET dom == Captured(SkipDirect)
     IN /\ heal' = [heal EXCEPT !.strategy = dom.strategy, !.chosen = dom.chosen,
                                !.pinned = << >>, !.moved = FALSE]
        /\ Goes(IF dom.strategy = "embed_direct" THEN "pin" ELSE "heal")
  /\ UNCHANGED <<lookup, attempt, outcome, acted>> /\ HealOnly

Pins ==
  /\ place = "pin"
  /\ \E e \in heal.chosen : heal' = [heal EXCEPT !.pinned = PinnedCfg(e)]
  /\ Goes("heal")
  /\ UNCHANGED <<lookup, attempt, outcome, acted>> /\ HealOnly

\* Only strict order tells the healer what was tried, and gives the first direct
\* heal for nothing.
Tier == TierFor(heal.chosen # {}, IF setup.strict_order THEN heal.tried ELSE << >>)

Tried ==
  LET free == setup.strict_order /\ Tier = "embed_direct" /\ ~heal.free_used
  IN [heal EXCEPT !.tried = IF setup.strict_order THEN Append(@, Tier) ELSE @,
                  !.free_used = @ \/ free, !.counted = IF free THEN @ - 1 ELSE @]

HealsDirectly ==
  /\ place = "heal" /\ Tier = "embed_direct"
  /\ heal' = Tried
  /\ Attempts("replacement", heal.pinned)
  /\ UNCHANGED outcome /\ HealOnly

AsksAI ==
  /\ place = "heal" /\ Tier # "embed_direct"
  /\ heal' = [Tried EXCEPT !.chosen = {}]
  /\ \E answer \in AnswersOfAI :
       \/ \E cfg \in answer : Attempts("replacement", cfg) /\ UNCHANGED outcome
       \/ /\ answer = {}
          /\ Goes(IF heal.counted < MaxHealAttempts THEN "bridge" ELSE "over")
          /\ UNCHANGED <<lookup, attempt, outcome, acted>>
  /\ HealOnly

Heals == BridgeInjects \/ BridgePasses \/ Captures \/ Pins \/ HealsDirectly \/ AsksAI

(***************************************************************************)
(* The end of the run.                                                     *)
(***************************************************************************)

\* A log that is left as it is.
NoFlush(l) == {l}

LastFlush(l) == Flushed(l)

RunEnds ==
  /\ place = "over"
  /\ log' \in LastFlush(log)
  /\ due' = Len(log.appended)
  /\ Goes("flushed")
  /\ UNCHANGED <<page, moves, task, lookup, comparisons, heal, setup, attempt, outcome, acted>>

\* The sessions are closed; what is still being compared is lost.
Closes ==
  /\ place = "flushed"
  /\ comparisons' = << >>
  /\ Goes("closed")
  /\ UNCHANGED <<page, moves, task, lookup, log, heal, setup, attempt, outcome, acted, due>>

Over == place = "closed" /\ UNCHANGED vars

Init ==
  /\ page \in Pages /\ moves = 0 /\ task \in Tasks
  /\ lookup = NoLookup
  /\ comparisons = << >>
  /\ log = [records |-> << >>, unflushed |-> 0, disk |-> << >>, failed |-> FALSE, appended |-> << >>]
  /\ heal = NoHeal
  /\ setup \in [reranks : BOOLEAN, strict_order : BOOLEAN]
  /\ place = "start"
  /\ attempt = [phase |-> "first", cfg |-> [k \in task.keys |-> "asked"]]
  /\ outcome = "none" /\ acted = {} /\ due = 0

ShadowGoesOn == ShadowWorks /\ UNCHANGED <<healVars, stepVars>>

Next == StepAttempts \/ Heals \/ RunEnds \/ Closes \/ Over \/ PageMoves \/ ShadowGoesOn

Spec == Init /\ [][Next]_vars

(***************************************************************************)
(* What a step promises.                                                   *)
(***************************************************************************)

\* A step that does not want to be rescued touches, in its own attempt, an
\* element that a key of its cfg selects at that moment, however the page moves
\* between the lookup and the interaction: the description is never consulted,
\* and what a locator stands for is decided by its query (resolve, strict=True).
StrictTouchesTheNamed ==
  ((task.strict /\ task.action \notin Untold) \/ task.action \in Reads) /\ attempt.phase # "replacement"
    => \A a \in acted : a.e.keys \cap task.keys # {}

\* The elements a locator's query selects and, with a description, the ones among
\* them that are like it, and as like it as any, within the tie-break window.
Rivals(loc) ==
  LET all == Selected(loc.by, loc.of)
  IN {e \in all : task.described => /\ e.score >= SEMANTIC_THRESHOLD
                                   /\ \A f \in all : f.score <= e.score + TieBreakWindow}

Takes(e) == Reached(task.action, e) /\ task.action \in e.shape

\* While the page stands still, an element found by the description alone can
\* take the action: a click does not settle on a heading that shares the
\* button's word (action_fit.py).
GuessesTakeTheAction ==
  lookup.guess /\ ~lookup.moved /\ task.action \in FitActions
    => \A a \in acted : Takes(a.e)

\* While the page stands still, of several matches of a key that the description
\* cannot tell apart from the best, one that cannot take the action is chosen only
\* if none can (_semantic_filter, _fitting_first).
TiesGoToTheFitting ==
  ~lookup.guess /\ ~lookup.moved /\ ~Strict /\ task.action \in FitActions
    => \A a \in acted :
         a.e \in Rivals(a.loc) /\ ~Takes(a.e) => \A e \in Rivals(a.loc) : ~Takes(e)

\* What the resolver settles on can take the action, be it guessed from the
\* description or picked from several matches.
ChosenTakeTheAction == GuessesTakeTheAction /\ TiesGoToTheFitting

\* While the page stands still after a capture, the replacement of a direct heal
\* touches the element that was chosen: the cfg it was given does not select
\* another one first (_pinned_cfg).
DirectHealsHitTheChosen ==
  attempt.phase = "replacement" /\ heal.chosen # {} /\ ~heal.moved
    => \A a \in acted : a.e \in heal.chosen

\* A comparison that ended before the last flush is in the file, as far as the
\* file reaches back, unless a write failed (DriftLog, execute_pipeline).
FinishedComparisonsAreWritten ==
  place \in {"flushed", "closed"} /\ ~log.failed
    => \E n \in due..Len(log.appended) :
         log.disk = LastOf(SubSeq(log.appended, 1, n), MaxRecords)

\* An assertion passes on what it names: "an assertion that heals itself asserts
\* nothing" (element_resolver.py).
AssertionsCheckTheNamed ==
  place = "over" /\ outcome \in {"passed", "healed"} /\ task.action \in Reads
    => \A a \in acted : a.e.keys \cap task.keys # {}
=============================================================================
