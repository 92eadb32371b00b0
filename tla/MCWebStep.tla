------------------------------ MODULE MCWebStep ------------------------------
(* The pages and steps on which TLC checks WebStep. *)
EXTENDS WebStep

Nothing ==
  [name |-> "x", keys |-> {}, control |-> TRUE, is |-> "", raw |-> "", words |-> {}, text |-> "",
   score |-> 0, cross |-> 0, state |-> "ready", shape |-> {"hover"}, suits |-> {}]

Clickable == {"click", "click_js", "click_force", "hover"}

\* A heading that reads like the button below it.
Heading ==
  [Nothing EXCEPT !.name = "heading", !.keys = {"text"}, !.control = FALSE, !.words = {1},
                  !.text = "Login", !.score = 85, !.cross = 20]

\* Less like the description, and the link below it once more: two points under
\* the heading.
Subtitle == [Heading EXCEPT !.name = "subtitle", !.score = 84, !.text = "Login here"]

Button ==
  [Nothing EXCEPT !.name = "button", !.keys = {"text", "css"}, !.is = "login", !.raw = "login",
                  !.words = {1}, !.text = "Login", !.score = 85, !.cross = 90,
                  !.shape = Clickable, !.suits = {"click", "hover"}]

Link == [Button EXCEPT !.name = "link", !.keys = {"text"}, !.score = 83]

Twin == [Button EXCEPT !.name = "twin", !.is = "again", !.raw = "again"]

\* A button named by another element, whose icon's text is the name of the next.
Icon ==
  [Nothing EXCEPT !.name = "icon", !.keys = {"id"}, !.is = "send", !.raw = "save", !.words = {2},
                  !.text = "save", !.score = 75, !.cross = 86, !.shape = Clickable,
                  !.suits = {"click", "hover"}]

Save ==
  [Nothing EXCEPT !.name = "save", !.is = "save", !.raw = "save", !.text = "Save", !.score = 30,
                  !.cross = 10, !.shape = Clickable, !.suits = {"click", "hover"}]

Field ==
  [Nothing EXCEPT !.name = "field", !.keys = {"css", "role"}, !.is = "user", !.raw = "user",
                  !.score = 42, !.cross = 55, !.shape = Clickable \cup {"fill"},
                  !.suits = {"fill"}]

HiddenButton == [Button EXCEPT !.name = "menu", !.state = "hidden", !.keys = {"css"}]

Disabled == [Button EXCEPT !.name = "off", !.state = "disabled", !.is = "off", !.keys = {"css", "label"}]

MCPages ==
  { <<Heading, Button>>, <<Button, Twin>>, <<Icon, Save>>, <<Heading, Field>>, <<HiddenButton, Icon>>,
    <<Save, Disabled, Field>>, <<Heading, Subtitle, Link>> }

Step(action, keys, described, strict) ==
  [action |-> action, keys |-> keys, described |-> described, strict |-> strict, valued |-> TRUE]

MCTasks ==
  { Step("click", {"text", "css"}, TRUE, FALSE),
    Step("click", {"text"}, FALSE, FALSE),
    Step("click", {"label"}, TRUE, TRUE),
    Step("click_js", {"css"}, TRUE, FALSE),
    Step("fill", {"role", "css"}, TRUE, FALSE),
    Step("fill", {}, TRUE, FALSE),
    Step("hover", {"id", "label"}, FALSE, FALSE),
    Step("assert_text", {"text", "css"}, TRUE, FALSE),
    Step("assert_hidden", {"css"}, FALSE, FALSE),
    Step("store", {}, TRUE, FALSE),
    [Step("fill", {"css"}, TRUE, FALSE) EXCEPT !.valued = FALSE],
    Step("scroll_to", {"css"}, TRUE, TRUE),
    Step("scroll_to", {}, TRUE, FALSE),
    Step("keyboard_press", {}, TRUE, FALSE),
    [Step("keyboard_press", {}, TRUE, FALSE) EXCEPT !.valued = FALSE] }

(***************************************************************************)
(* AIProviders against what its calls are to do, over every combination of *)
(* configured and answering providers and keys.                            *)
(***************************************************************************)
Kinds == {"classify", "plan", "heal", "heal_big"}

\* chat returns what the cheapest provider says that can say anything.
ASSUME CheapestAnswers ==
  \A kind \in Kinds, configured, up \in SUBSET Providers :
    LET chain == Chain(kind)
        able  == {i \in DOMAIN chain : chain[i] \in configured \cap up}
    IN IF able = {} THEN Chat(kind, configured, up) = "none"
       ELSE \E i \in able : Chat(kind, configured, up) = chain[i] /\ \A j \in able : i <= j

\* The key the k-th of some successive calls uses.
KeysUsed(start, n, up) ==
  LET call[k \in 1..n] == GroqCall(IF k = 1 THEN start ELSE call[k - 1].next, n, up)
  IN [k \in 1..n |-> call[k].key]

\* Successive calls go through all keys that answer before any is used again.
ASSUME RotationSparesNoKey ==
  \A n \in 1..4 : \A start \in 0..(n - 1), up \in SUBSET (0..(n - 1)) :
    LET used == KeysUsed(start, n, up)
    IN IF up = {} THEN ToSet(used) = {-1}
       ELSE {used[k] : k \in 1..Cardinality(up)} = up
=============================================================================
