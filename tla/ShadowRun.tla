------------------------------ MODULE ShadowRun ------------------------------
(***************************************************************************)
(* Shadow mode (resolvers/shadow_runner.py): after every find a background *)
(* task asks the other strategies of the cfg and appends what they say to  *)
(* the drift log, which main flushes once the steps are done.  The tasks   *)
(* run while the step goes on, on the page as it then is.                  *)
(***************************************************************************)
EXTENDS Resolution, FiniteSetsExt

CONSTANTS
  Shadow,       \* --shadow
  MaxRecords,   \* _MAX_RECORDS
  FlushEvery    \* _FLUSH_EVERY

ASSUME ShadowAssumption ==
  Shadow \in BOOLEAN /\ MaxRecords \in Nat \ {0} /\ FlushEvery \in Nat \ {0}

VARIABLES
  comparisons,  \* the tasks under way, see Comparison
  log           \* the drift log: [records, unflushed, disk, failed, appended]

shadowVars == <<comparisons, log>>

\* `left' are the strategies that have not answered, `agree' and `disagree' the others.
IsComparison(c) ==
  /\ DOMAIN c.cfg \subseteq Keys /\ c.left \cup c.agree \cup c.disagree \subseteq DOMAIN c.cfg
  /\ c.left \cap (c.agree \cup c.disagree) = {}

\* resolve of ShadowRunner: what a find with this locator, by this strategy or by
\* a guess, sets off.  The strategy that won is not asked again.
Compares(cfg, loc) ==
  LET winner == IF lookup.guess THEN {} ELSE {loc.by}
      others == DOMAIN cfg \ winner
  IN IF Shadow /\ cfg # << >> /\ others # {}
     THEN comparisons' = Append(comparisons,
            [cfg |-> cfg, loc |-> loc, left |-> others, agree |-> {}, disagree |-> {}])
     ELSE UNCHANGED comparisons

\* _elements_agree: the first of their attributes that both have decides.
Alike(a, b) ==
  \E e \in Target(a), f \in Target(b) :
    IF e.text # "" /\ f.text # "" THEN e.text = f.text ELSE e.is # "" /\ e.is = f.is

\* _run_shadow_strategy: no match and several matches count as disagreement.
Agrees(c, k) ==
  LET matches == Collect(k, c.cfg[k]) IN Len(matches) = 1 /\ Alike(matches[1], c.loc)

Asked(c, k) ==
  IF Agrees(c, k) THEN [c EXCEPT !.left = @ \ {k}, !.agree = @ \cup {k}]
  ELSE [c EXCEPT !.left = @ \ {k}, !.disagree = @ \cup {k}]

StrategyAnswers ==
  \E i \in DOMAIN comparisons :
    \E k \in comparisons[i].left :
      /\ comparisons' = [comparisons EXCEPT ![i] = Asked(@, k)]
      /\ UNCHANGED log

Weight(ks) == MapThenSumSet(LAMBDA k : KeyConfidence[k], ks)

\* _compute_drift, in percent.
Drift(c) == (Weight(c.disagree) * 100) \div Weight(c.agree \cup c.disagree)

LastOf(s, n) == IF Len(s) <= n THEN s ELSE SubSeq(s, Len(s) - n + 1, Len(s))

\* flush: a write that fails leaves the log unflushed.
Flushed(l) ==
  IF l.unflushed = 0 THEN {l}
  ELSE {[l EXCEPT !.disk = l.records, !.unflushed = 0], [l EXCEPT !.failed = TRUE]}

Logged(l, drift) ==
  [l EXCEPT !.records = LastOf(Append(@, drift), MaxRecords), !.unflushed = @ + 1,
            !.appended = Append(@, drift)]

ComparisonEnds ==
  \E i \in DOMAIN comparisons :
    /\ comparisons[i].left = {}
    /\ comparisons' = RemoveAt(comparisons, i)
    /\ LET l == Logged(log, Drift(comparisons[i]))
       IN log' \in (IF l.unflushed >= FlushEvery THEN Flushed(l) ELSE {l})

ShadowWorks ==
  /\ StrategyAnswers \/ ComparisonEnds
  /\ UNCHANGED <<page, moves, task, lookup>>
=============================================================================
