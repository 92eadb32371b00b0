----------------------------- MODULE Resolution -----------------------------
(***************************************************************************)
(* How an element is found (engine/resolvers): the strategies for the keys *)
(* of a cfg in the order of their priority, the semantic filter over       *)
(* several matches of one key, and for a description without a match the   *)
(* keywords, the accessibility tree, the AI pick and the visual AI.        *)
(*                                                                         *)
(* A page is a sequence of elements in document order, and it changes      *)
(* between any two stages of a lookup.  A locator is a query and an index, *)
(* evaluated anew each time it is used.  Similarity and confidence are     *)
(* percentages.                                                            *)
(***************************************************************************)
EXTENDS AIProviders

CONSTANTS
  Pages,         \* the pages the browser may show: sequences of Element
  Tasks,         \* the steps, see Task
  MaxMoves,      \* bound on the changes of the page
  UseVisualAI    \* use_visual_ai

Cascade == <<"role", "label", "placeholder", "text", "id", "css", "xpath">>

Keys == ToSet(Cascade)

KeyConfidence ==
  [role |-> 95, label |-> 93, placeholder |-> 90, text |-> 85, id |-> 82, css |-> 75, xpath |-> 70]

CONFIDENCE_WARN == 50
SEMANTIC_THRESHOLD == 80
AI_PICK_THRESHOLD == 70
MIN_SIMILARITY == 40
TOP_K == 3
TieBreakWindow == 1

\* The actions fits() models; `click_js' and `click_force' are clicks with
\* extra.js_click and extra.force.
FitActions == {"click", "click_js", "click_force", "fill", "select", "hover"}

Reads == {"assert_text", "assert_visible", "assert_hidden", "store"}

\* Actions that do not tell the resolver what they are about to do.
Untold == {"scroll_to", "keyboard_press"}

\* `keys' are the keys of the step's cfg that select it, `control' says whether
\* a heal considers it, `is' is its role and name
\* in the accessibility tree ("" for none), `raw' what the healer makes of its
\* attributes, `words' the keywords of the description in its text, `score' and
\* `cross' its similarity to the description by the two models, `shape' the
\* actions its tag and role allow, `suits' those the healer's own check does.
Element ==
  [name : STRING, keys : SUBSET Keys, control : BOOLEAN, is : STRING, raw : STRING, words : SUBSET {1, 2},
   text : STRING, score : 0..100, cross : 0..100, state : {"ready", "hidden", "disabled"},
   shape : SUBSET FitActions, suits : SUBSET FitActions]

\* A step: its action, the keys of its element, whether it has a description,
\* extra.strict, and whether its value is there.
Task ==
  [action : FitActions \cup Reads \cup Untold, keys : SUBSET Keys,
   described : BOOLEAN, strict : BOOLEAN, valued : BOOLEAN]

ASSUME ResolutionAssumption ==
  /\ Pages \subseteq Seq(Element) /\ << >> \notin Pages
  /\ Tasks \subseteq Task
  /\ MaxMoves \in Nat /\ UseVisualAI \in BOOLEAN

\* A name stands for the selector the browser computes at the capture: one that
\* matches its element and nothing else (selectorFor in _ELEMENT_QUERY_JS).
ASSUME NamesAssumption ==
  \A p \in Pages : \A i, j \in DOMAIN p :
    /\ p[i].name = p[j].name => i = j
    /\ "asked" \notin {p[i].name, p[i].raw}

VARIABLES
  page,      \* what the browser shows
  moves,     \* how often it changed
  task,      \* the step
  lookup     \* the call of ElementResolver.resolve, see Lookup

pageVars == <<page, moves>>

\* A cfg maps its keys to what they ask for: "asked" is the value the step was
\* written with, any other value one a heal took from an element: a role and
\* name, or a css selector that pins it.
\* `found' are the candidates with their similarity, best first.
IsLookup(l) ==
  /\ l.at \in {"idle", "cascade", "filter", "words", "nodes", "pick", "visual", "found", "missed"}
  /\ DOMAIN l.cfg \subseteq Keys /\ l.key \in 1..(Len(Cascade) + 1)
  /\ l.confidence \in 0..100 /\ l.moved \in BOOLEAN /\ l.guess \in BOOLEAN

\* Whether a query selects an element; one by role and name goes by what the
\* browser says the element is, and sees no hidden one.
Selects(loc, e) ==
  IF loc.by = "word" THEN loc.of \in e.words
  ELSE IF loc.of = "asked" THEN loc.by \in e.keys
  ELSE IF loc.by \in {"node", "role"} THEN e.is = loc.of /\ e.state # "hidden"
  ELSE e.name = loc.of

\* A finite set as a sequence, in the order of a relation on it.
InOrder(S, order) ==
  LET ahead(x) == {y \in S : <<y, x>> \in order}
  IN [k \in 1..Cardinality(S) |-> CHOOSE x \in S : Cardinality(ahead(x)) = k - 1]

\* What is at some places of a sequence, in document order or the order it had.
AtPlaces(seq, places) ==
  LET earlier == {p \in places \X places : p[1] < p[2]}
  IN [k \in 1..Cardinality(places) |-> seq[InOrder(places, earlier)[k]]]

\* The places of the elements a query selects now.
PlacesOf(by, of) == {i \in DOMAIN page : Selects([by |-> by, of |-> of, nth |-> 1], page[i])}

Selected(by, of) == {page[i] : i \in PlacesOf(by, of)}

\* The elements a locator stands for now: one or none.
Target(loc) ==
  LET upto(i) == {j \in 1..i : Selects(loc, page[j])}
  IN {page[i] : i \in {j \in DOMAIN page : Selects(loc, page[j]) /\ Cardinality(upto(j)) = loc.nth}}

\* How many elements a query selects now.
CountOfMatches(by, of) == Cardinality(PlacesOf(by, of))

\* strategy.collect: loc.all(), an nth locator for every element.
Collect(by, of) == [i \in 1..CountOfMatches(by, of) |-> [by |-> by, of |-> of, nth |-> i]]

Reached(fit, e) ==
  CASE fit = "click_js" -> e.state # "disabled"
    [] fit = "hover" -> e.state # "hidden"
    [] OTHER -> e.state = "ready"

\* A filter that lets everything pass.
AnyFits(loc) == TRUE

\* fits: a candidate that can no longer be read is kept.
Fits(loc) ==
  task.action \in FitActions =>
    \A e \in Target(loc) : Reached(task.action, e) /\ task.action \in e.shape

\* An acting step that takes strict for a wish.
StrictAssertions == task.action \in Reads

\* scroll_to and keyboard_press do not pass extra.strict on.
Strict == task.action \in Reads \/ (task.action \in FitActions /\ task.strict)

(***************************************************************************)
(* Beginning and ending a lookup.                                          *)
(***************************************************************************)

NoLookup ==
  [at |-> "idle", cfg |-> << >>, key |-> 1, found |-> << >>, loc |-> {}, confidence |-> 0,
   guess |-> FALSE, moved |-> FALSE]

\* resolve(cfg, ...): no key is known, or the cascade begins.
Begin(cfg) ==
  LET at == IF DOMAIN cfg # {} THEN "cascade"
            ELSE IF ~Strict /\ task.described THEN "words" ELSE "missed"
  IN lookup' = [NoLookup EXCEPT !.at = at, !.cfg = cfg, !.guess = at = "words"]

Finds(loc, confidence) ==
  lookup' = [lookup EXCEPT !.at = "found", !.loc = {loc}, !.confidence = confidence]

Misses == lookup' = [lookup EXCEPT !.at = "missed"]

GoesTo(at) == lookup' = [lookup EXCEPT !.at = at]

PageOnly == UNCHANGED <<page, moves, task>>

(***************************************************************************)
(* The cascade.                                                            *)
(***************************************************************************)

AtKey == lookup.at = "cascade" /\ lookup.key <= Len(Cascade)

Key == Cascade[lookup.key]

Matches == IF Key \in DOMAIN lookup.cfg THEN Collect(Key, lookup.cfg[Key]) ELSE << >>

\* No match, or an error, which every strategy takes for no match.
KeyMisses ==
  /\ AtKey /\ Matches = << >>
  /\ lookup' = [lookup EXCEPT !.key = @ + 1]
  /\ PageOnly

\* One match, or the first of several for a strict caller.
KeyHits ==
  /\ AtKey /\ Matches # << >>
  /\ Len(Matches) = 1 \/ Strict
  /\ Finds(Matches[1], KeyConfidence[Key])
  /\ PageOnly

KeyIsAmbiguous ==
  /\ AtKey /\ Len(Matches) > 1 /\ ~Strict
  /\ lookup' = [lookup EXCEPT !.at = "filter",
                              !.found = [i \in DOMAIN Matches |-> [loc |-> Matches[i], score |-> 0]]]
  /\ PageOnly

(***************************************************************************)
(* Ranking.                                                                *)
(***************************************************************************)

ScoreOf(loc) == IF Target(loc) = {} THEN 0 ELSE (CHOOSE e \in Target(loc) : TRUE).score

\* A sequence of candidates by similarity; equal ones keep their order.
Ranked(seq) ==
  LET better == {p \in (DOMAIN seq) \X (DOMAIN seq) :
                   \/ seq[p[1]].score > seq[p[2]].score
                   \/ seq[p[1]].score = seq[p[2]].score /\ p[1] < p[2]}
  IN [k \in 1..Cardinality(DOMAIN seq) |-> seq[InOrder(DOMAIN seq, better)[k]]]

Fitting(seq) == AtPlaces(seq, {i \in DOMAIN seq : Fits(seq[i].loc)})

Unfitting(seq) == AtPlaces(seq, {i \in DOMAIN seq : ~Fits(seq[i].loc)})

\* The candidates of at least some similarity.
AtLeast(seq, score) == AtPlaces(seq, {i \in DOMAIN seq : seq[i].score >= score})

\* _fitting_first: those that can take the action before the others, or, with
\* `exclusive', without them, as long as there is one.
FittingFirst(seq, exclusive) ==
  IF Fitting(seq) = << >> THEN seq
  ELSE Fitting(seq) \o (IF exclusive THEN << >> ELSE Unfitting(seq))

\* The shortlist of _semantic_filter: the matches the description fits, and of
\* those it cannot tell apart the ones that can take the action.
Shortlist ==
  LET scored == [i \in DOMAIN lookup.found |->
                   [loc |-> lookup.found[i].loc, score |-> ScoreOf(lookup.found[i].loc)]]
      good == Ranked(AtLeast(scored, SEMANTIC_THRESHOLD))
      tied == AtLeast(good, good[1].score - TieBreakWindow)
      rest == SubSeq(good, Len(tied) + 1, Len(good))
  IN IF task.action \in FitActions /\ Len(tied) > 1 THEN FittingFirst(tied, TRUE) \o rest ELSE good

\* Without a description: the first match that can take the action, at 0.70.
FirstOfSeveral ==
  /\ lookup.at = "filter" /\ ~task.described
  /\ Finds((IF task.action \in FitActions THEN FittingFirst(lookup.found, FALSE) ELSE lookup.found)[1].loc, 70)
  /\ PageOnly

\* The description fits no match: the next key has its turn.
SemanticMiss ==
  /\ lookup.at = "filter" /\ task.described /\ Shortlist = << >>
  /\ lookup' = [lookup EXCEPT !.at = "cascade", !.key = @ + 1, !.found = << >>]
  /\ PageOnly

SemanticHit ==
  /\ lookup.at = "filter" /\ task.described /\ Len(Shortlist) = 1
  /\ Finds(Shortlist[1].loc, Shortlist[1].score)
  /\ PageOnly

StillAmbiguous ==
  /\ lookup.at = "filter" /\ task.described /\ Len(Shortlist) > 1
  /\ lookup' = [lookup EXCEPT !.at = "pick", !.found = Shortlist]
  /\ PageOnly

\* No key found anything: the description is all there is, and a strict caller
\* does not want it.
CascadeFails ==
  /\ lookup.at = "cascade" /\ lookup.key > Len(Cascade)
  /\ lookup' = [lookup EXCEPT
       !.at = IF Strict THEN "missed" ELSE IF task.described THEN "words" ELSE "visual",
       !.guess = TRUE, !.found = << >>]
  /\ PageOnly

(***************************************************************************)
(* The description.                                                        *)
(***************************************************************************)

\* KeywordFuzzyResolver.find: the matches of both keywords that can take the
\* action, without those that read the same as an earlier one.
WordMatches ==
  LET all == Collect("word", 1) \o Collect("word", 2)
      able == {i \in DOMAIN all : Fits(all[i])}
      reads(i) == {e.text : e \in Target(all[i])}
      fresh == {i \in able : reads(i) # {""} /\ \A j \in able : j < i => reads(j) # reads(i)}
  IN AtPlaces(all, fresh)

WordHits ==
  /\ lookup.at = "words" /\ Len(WordMatches) = 1
  /\ Finds(WordMatches[1], 85)
  /\ PageOnly

WordsFail ==
  /\ lookup.at = "words" /\ Len(WordMatches) # 1
  /\ GoesTo("nodes")
  /\ PageOnly

\* find_candidates: the nodes of the accessibility tree like the description, each
\* by the first element of its role and name, that can take the action; the best three.
NodeMatches ==
  LET alike(e) == e.is # "" /\ e.state # "hidden" /\ e.score >= MIN_SIMILARITY
      nodes == AtPlaces(page, {i \in DOMAIN page : alike(page[i])})
      all == [i \in DOMAIN nodes |->
                [loc |-> [by |-> "node", of |-> nodes[i].is, nth |-> 1], score |-> nodes[i].score]]
      kept == Ranked(Fitting(all))
  IN SubSeq(kept, 1, IF Len(kept) < TOP_K THEN Len(kept) ELSE TOP_K)

NodesFail ==
  /\ lookup.at = "nodes" /\ NodeMatches = << >>
  /\ GoesTo("visual")
  /\ PageOnly

NodeHits ==
  /\ lookup.at = "nodes" /\ Len(NodeMatches) = 1
  /\ Finds(NodeMatches[1].loc, (NodeMatches[1].score * 9) \div 10)
  /\ PageOnly

NodesAreMany ==
  /\ lookup.at = "nodes" /\ Len(NodeMatches) > 1
  /\ lookup' = [lookup EXCEPT !.at = "pick", !.found = NodeMatches]
  /\ PageOnly

\* _ai_pick: an uncertain answer is no find, which sends a key's matches on to the
\* next key; without an answer the best match is taken.
Picks ==
  /\ lookup.at = "pick"
  /\ \E answer \in PickAnswers(Len(lookup.found)) :
       \/ answer = {} /\ Finds(lookup.found[1].loc, lookup.found[1].score)
       \/ \E a \in answer :
            \/ a.confidence >= AI_PICK_THRESHOLD /\ Finds(lookup.found[a.choice].loc, a.confidence)
            \/ /\ a.confidence < AI_PICK_THRESHOLD
               /\ IF lookup.guess THEN Misses
                  ELSE lookup' = [lookup EXCEPT !.at = "cascade", !.key = @ + 1, !.found = << >>]
  /\ PageOnly

\* VisualAIResolver.collect: the first element of a selector the model made up,
\* from a screenshot and the cfg, or nothing; checked like the other guesses.
Looks ==
  /\ lookup.at = "visual"
  /\ \/ Misses
     \/ /\ UseVisualAI
        /\ \E i \in DOMAIN page, confidence \in {45, 85} :
             LET loc == [by |-> "selector", of |-> page[i].name, nth |-> 1]
             IN Fits(loc) /\ Finds(loc, confidence)
  /\ PageOnly

Resolves ==
  \/ KeyMisses \/ KeyHits \/ KeyIsAmbiguous \/ FirstOfSeveral \/ SemanticMiss \/ SemanticHit
  \/ StillAmbiguous \/ CascadeFails \/ WordHits \/ WordsFail \/ NodesFail \/ NodeHits
  \/ NodesAreMany \/ Picks \/ Looks
=============================================================================
