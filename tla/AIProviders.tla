----------------------------- MODULE AIProviders -----------------------------
(***************************************************************************)
(* The models the program asks (engine/ai and ai_pick_resolver): chains of *)
(* providers, the rotation of Groq's keys, and what the answer to a pick   *)
(* is taken for.  The calls are synchronous: nothing else of the program   *)
(* runs while one is under way.                                            *)
(***************************************************************************)
EXTENDS Naturals, Integers, Sequences, FiniteSets, SequencesExt

Providers == {"groq", "gemini", "claude", "claude_big"}

\* _TASK_CHAINS, cheapest first; an unknown task is classified.
Chain(kind) ==
  CASE kind = "plan" -> <<"claude">>
    [] kind = "heal_big" -> <<"claude_big">>
    [] OTHER -> <<"groq", "gemini", "claude">>

\* The providers of a chain that answer, in order; the first one's answer is
\* taken.  A provider without its key is skipped, one that raises is passed over.
Answering(chain, configured, up) == SelectSeq(chain, LAMBDA p : p \in configured /\ p \in up)

\* chat: the provider whose answer is returned, or "none" (RuntimeError).
Chat(kind, configured, up) ==
  LET able == Answering(Chain(kind), configured, up) IN IF able = << >> THEN "none" ELSE able[1]

\* The keys 0..(n - 1) in the order a call starting at `start' tries them.
KeyOrder(start, n) == [i \in 1..n |-> (start + i - 1) % n]

\* GroqProvider.chat and _try_groq: the first key that answers is used and the
\* next call starts behind it; the start stays when none does.
GroqCall(start, n, up) ==
  LET able == SelectSeq(KeyOrder(start, n), LAMBDA k : k \in up)
  IN IF able = << >> THEN [key |-> -1, next |-> start]
     ELSE [key |-> able[1], next |-> (able[1] + 1) % n]

MIN_CONFIDENCE == 60

MAX_CONFIDENCE == 100

Clamped(c) == IF c < MIN_CONFIDENCE THEN MIN_CONFIDENCE ELSE IF c > MAX_CONFIDENCE THEN MAX_CONFIDENCE ELSE c

\* _parse_response: a choice out of range is no answer.
ParsePick(choice, confidence, n) ==
  IF choice \in 1..n THEN {[choice |-> choice, confidence |-> Clamped(confidence)]} ELSE {}

\* What AIPickResolver.pick may return for n candidates: nothing when no backend
\* is configured, answers, or answers with a choice in range.
PickAnswers(n) ==
  {{}} \cup {ParsePick(choice, c, n) : choice \in 0..(n + 1), c \in {30, 90}}
=============================================================================
