-------------------------- MODULE ExecutionContext --------------------------
(***************************************************************************)
(* The context the steps of a run share (engine/interfaces.py) and the two *)
(* actions that fill its lists (engine/actions/data.py).  A row is the     *)
(* name of what produced it: lists differ in length and origin only.       *)
(***************************************************************************)
EXTENDS Naturals, Sequences

CONSTANTS
  Sources,        \* who extracts: the sequential step, a tab of a batch
  MaxFound        \* bound: elements a selector matches on one page

ASSUME ContextAssumption == MaxFound \in Nat /\ {"step", "tab"} \subseteq Sources

VARIABLE ctx      \* the context of the run

Keys == {"extracted_data", "collected_items"}

Context == [collected : Seq(Sources), extracted : Seq(Sources), paginated : Seq(Sources)]

EmptyContext == [collected |-> << >>, extracted |-> << >>, paginated |-> << >>]

\* What extract_data is configured with: whether a selector is given, the field
\* its rows go to, how many it takes, and whether finding none is a failure.
ExtractConfig == [selector : BOOLEAN, key : Keys, limit : Nat]

Upto(n, limit) == IF n < limit THEN n ELSE limit

Stored(c, key, rows) ==
  IF key = "collected_items" THEN [c EXCEPT !.collected = rows]
                             ELSE [c EXCEPT !.extracted = rows]

\* extract_data run by src against a page that may match anything: the status
\* and the context it can end with.  A wait that times out fails the step and
\* leaves the old rows in place, unless extra.allow_empty makes it no rows; what
\* was waited for may be gone when it is read, so there may be none anyway.
ExtractData(c, cfg, src) ==
  {[status |-> "failed", ctx |-> c]} \cup
  (IF ~cfg.selector THEN {}
   ELSE {[status |-> "passed", ctx |-> Stored(c, cfg.key, [i \in 1..Upto(n, cfg.limit) |-> src])] :
           n \in 0..MaxFound})

\* load_test_data: no path, no such file and no list fail; bad JSON raises;
\* otherwise the rows replace what was collected.
LoadTestData(c, src) ==
  {[status |-> s, ctx |-> c] : s \in {"failed", "raised"}} \cup
  {[status |-> "passed", ctx |-> [c EXCEPT !.collected = [i \in 1..n |-> src]]] : n \in 0..MaxFound}
=============================================================================
