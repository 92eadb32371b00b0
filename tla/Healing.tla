------------------------------- MODULE Healing -------------------------------
(***************************************************************************)
(* What a heal does between a failed attempt and its replacement step:     *)
(* VisualBridge.check, DOMSnapshotCascade.capture and AiHealer.heal        *)
(* (engine/healer).                                                        *)
(***************************************************************************)
EXTENDS ShadowRun

HIGH_THRESHOLD == 85
LOW_THRESHOLD == 50
TOP_N == 5
MARGIN == 25
LONE_MIN == 65

VARIABLES
  heal,     \* the heal loop's locals and the DomPayload, see IsHeal
  setup     \* [reranks, strict_order]: the cross-encoder is loaded; strict_heal_order

healVars == <<heal, setup>>

Tiers == {"embed_direct", "cheap", "big"}

\* `chosen' is the element of a direct heal, `pinned' its cfg.
NoHeal ==
  [counted |-> 0, free_used |-> FALSE, tried |-> << >>, strategy |-> "none",
   chosen |-> {}, pinned |-> << >>, moved |-> FALSE]

IsHeal(h) ==
  /\ h.counted \in Nat /\ h.free_used \in BOOLEAN /\ h.tried \in Seq(Tiers)
  /\ h.strategy \in {"none", "embed_direct", "embed_candidates", "scoped", "aria"}
  /\ DOMAIN h.pinned \subseteq Keys /\ Cardinality(h.chosen) <= 1

ActionName == IF task.action \in {"click_js", "click_force"} THEN "click" ELSE task.action

(***************************************************************************)
(* VisualBridge.                                                           *)
(***************************************************************************)

\* The query the bridge looks with, if the cfg has a key it knows.
BridgeKeys == {i \in DOMAIN Cascade : Cascade[i] \in task.keys \cap {"role", "label", "placeholder", "id", "css"}}

BridgeKey == Cascade[CHOOSE i \in BridgeKeys : \A j \in BridgeKeys : i <= j]

\* check: what is wrong with the first element of the query, "ok", or "none"
\* when there is no such element.
BridgeAnswer ==
  LET found == IF BridgeKeys = {} THEN {} ELSE Target([by |-> BridgeKey, of |-> "asked", nth |-> 1])
  IN IF found = {} THEN "none"
     ELSE LET e == CHOOSE e \in found : TRUE IN IF e.state = "ready" THEN "ok" ELSE e.state

(***************************************************************************)
(* DOMSnapshotCascade.                                                     *)
(***************************************************************************)

Scored(seq) == [i \in DOMAIN seq |-> [e |-> seq[i], score |-> seq[i].score]]

Best(seq) == SubSeq(seq, 1, IF Len(seq) < TOP_N THEN Len(seq) ELSE TOP_N)

\* rerank: the best few anew, by the cross-encoder when it is loaded.
Reranked(seq) ==
  IF setup.reranks THEN Ranked([i \in DOMAIN seq |-> [seq[i] EXCEPT !.score = seq[i].e.cross]]) ELSE seq

Suits(e) == ActionName \in e.suits

\* _clear_winner: the best candidate, if it suits the action, leads the next one
\* of any kind, and the cross-encoder puts it first too.
ClearWinner(ranked, reranked) ==
  {e \in {ranked[1].e} :
     /\ Suits(e)
     /\ IF Len(ranked) = 1 THEN ranked[1].score >= LONE_MIN
        ELSE ranked[1].score >= LOW_THRESHOLD /\ ranked[1].score >= ranked[2].score + MARGIN
     /\ reranked[1].e = e}

\* capture: the strategy, and the element a direct heal is for.
Captured(skip_direct) ==
  LET ranked == Ranked(Scored(AtPlaces(page, {i \in DOMAIN page : page[i].control})))
      reranked == Reranked(Best(ranked))
      merged == reranked \o SubSeq(ranked, Len(reranked) + 1, Len(ranked))
      high == IF merged # << >> /\ merged[1].score >= HIGH_THRESHOLD
              THEN AtLeast(merged, HIGH_THRESHOLD) ELSE << >>
      winner == IF Len(high) = 1 THEN {high[1].e}
                ELSE IF high = << >> THEN ClearWinner(ranked, reranked) ELSE {}
      Is(strategy, chosen) == [strategy |-> strategy, chosen |-> chosen]
  IN IF ranked = << >> THEN Is("aria", {})
     ELSE IF winner # {} /\ ~skip_direct THEN Is("embed_direct", winner)
     ELSE IF high # << >> \/ winner # {} THEN Is("embed_candidates", {})
     ELSE IF merged[1].score >= LOW_THRESHOLD THEN Is("scoped", {})
     ELSE Is("aria", {})

\* _element_to_cfg: the role and name made of its attributes, if they make one,
\* beside the selector that pins the element.
CfgOf(e) ==
  [k \in {"css"} \cup (IF e.raw = "" THEN {} ELSE {"role"}) |-> IF k = "css" THEN e.name ELSE e.raw]

\* The selector alone.
CssOf(e) == [k \in {"css"} |-> e.name]

\* A role and name that select one element, whichever it is.
PinnedIfUnique(e) == IF e.raw # "" /\ CountOfMatches("role", e.raw) = 1 THEN CfgOf(e) ELSE CssOf(e)

\* _pinned_cfg: the role and name are kept only if they select the element that
\* was chosen, and no other.
PinnedCfg(e) == IF e.raw # "" /\ CountOfMatches("role", e.raw) = 1 /\ Selected("role", e.raw) = {e} THEN CfgOf(e) ELSE CssOf(e)

(***************************************************************************)
(* AiHealer.                                                               *)
(***************************************************************************)

CountOf(tier, tried) == Len(SelectSeq(tried, LAMBDA t : t = tier))

\* tier_for
TierFor(direct, tried) ==
  IF direct /\ "embed_direct" \notin ToSet(tried) THEN "embed_direct"
  ELSE IF CountOf("cheap", tried) >= 2 THEN "big" ELSE "cheap"

\* The cfgs the model may answer with: one for an element of the page as it was
\* told, or one for nothing.  {} is an answer heal() refuses, or none.
AnswersOfAI == {{CssOf(e)} : e \in ToSet(page)} \cup {{[k \in {"css"} |-> "nothing"]}, {}}
=============================================================================
