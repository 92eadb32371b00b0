-------------------------- MODULE StepRunnerProofs --------------------------
(***************************************************************************)
(* Proofs about StepRunner, for all workflows, all healer answers and all  *)
(* settings.  Typing and control flow are proved inductive first; every    *)
(* other invariant is then proved from them.                               *)
(***************************************************************************)
EXTENDS StepRunner, TLAPS

USE DEF Level, Status, Tier, Cause, Place

\* Where the heal loop waits for the nested runner.
Waiting == {"replay", "scroll_to", "wait", "cascade"}

\* Where _run_heal_loop is between two nested runs.
Healing == {"heal", "bridge", "capture"} \cup Waiting

\* A runner that is at a step has one; the nested runner has no heal loop; it
\* is running or has run when the heal loop waits, and is not running when
\* the heal loop does not.
Control ==
  /\ \A l \in Level : pc[l] \notin {"idle", "done"} => Len(results[l]) < Len(plan[l])
  /\ pc["outer"] # "idle"
  /\ pc["inner"] \notin Healing
  /\ pc["outer"] \in Waiting => pc["inner"] # "idle"
  /\ pc["outer"] \notin Waiting => pc["inner"] \in {"idle", "done"}
  /\ pc["inner"] # "idle" => Len(plan["inner"]) > 0

Base == TypeOK /\ Control

-----------------------------------------------------------------------------
(* Typing of the helpers *)

LEMMA OutcomeType ==
  ASSUME NEW status \in Status, NEW cause \in Cause
  PROVE  Outcome(status, cause) \in Result
BY DEF Outcome, Result

LEMMA HealStartType == HealStart \in HealState
BY DEF HealStart, HealState

\* The step a runner is at is a StepConfig.
LEMMA StepType ==
  ASSUME Base, NEW l \in Level, pc[l] \notin {"idle", "done"}
  PROVE  Step(l) \in StepConfig
BY DEF Base, TypeOK, Control, Step, Pos

LEMMA NestedStepTypes ==
  ASSUME Base, pc["outer"] \notin {"idle", "done"}
  PROVE  /\ ResolvedStep \in StepConfig
         /\ PreStep \in StepConfig
         /\ DirectStep \in StepConfig
<1>1. Step("outer") \in StepConfig
  BY StepType
<1>2. ResolvedStep \in StepConfig
  BY <1>1 DEF ResolvedStep, StepConfig
<1>3. PreStep \in StepConfig
  BY <1>1 DEF PreStep, StepConfig
<1>4. DirectStep \in StepConfig
  BY <1>2 DEF DirectStep, StepConfig
<1> QED BY <1>2, <1>3, <1>4

LEMMA TierForType ==
  ASSUME NEW direct, NEW tried PROVE TierFor(direct, tried) \in Tier
BY DEF TierFor

LEMMA TriedType ==
  ASSUME NEW h \in HealState
  PROVE  /\ TriedAfter(h) \in Seq(Tier)
         /\ [h EXCEPT !.tried = TriedAfter(h)] \in HealState
<1>1. TriedAfter(h) \in Seq(Tier)
  BY DEF TriedAfter, HealState
<1> QED BY <1>1 DEF HealState

LEMMA ChargeType ==
  ASSUME NEW h \in HealState, NEW tier \in Tier
  PROVE  Charge(h, tier) \in HealState
<1>1. h.counted - 1 \in Int
  BY DEF HealState
<1> QED BY <1>1 DEF Charge, HealState

LEMMA HealedType ==
  ASSUME Base, NEW cause \in Cause, Healed(cause)
  PROVE  /\ cur' \in [Level -> Result]
         /\ suggested' \subseteq Nat
         /\ Goto("outer", "after")
<1>1. heal.heal_attempt \in Nat /\ Pos("outer") \in Nat
  BY DEF Base, TypeOK, HealState, Pos
<1> QED
  BY <1>1 DEF Healed, Suggest, Result, Base, TypeOK

\* Settling keeps typing and control.
LEMMA SettleBase ==
  ASSUME Base, NEW l \in Level, pc[l] \notin {"idle", "done"}, Active(l),
         NEW r \in Result, Settle(l, r), UNCHANGED plan
  PROVE  /\ results' \in [Level -> Seq(Result)]
         /\ report' \subseteq Level \X Status
         /\ pc' \in [Level -> Place]
         /\ Control'
BY DEF Base, TypeOK, Control, Settle, Goto, Pos, Active, Result, Waiting, Healing

\* So does starting a nested runner.
LEMMA NestedBase ==
  ASSUME Base, Active("outer"), pc["outer"] \notin {"idle", "done"} \cup Waiting,
         NEW steps \in Seq(StepConfig), steps # <<>>, NEW place \in Waiting,
         RunNested(steps, place)
  PROVE  /\ plan' \in [Level -> Seq(StepConfig)]
         /\ results' \in [Level -> Seq(Result)]
         /\ pc' \in [Level -> Place]
         /\ Control'
<1>1. Len(steps) > 0
  OBVIOUS
<1>2. results'["inner"] = <<>> /\ plan'["inner"] = steps
  BY DEF Base, TypeOK, RunNested
<1> QED
  BY <1>1, <1>2 DEF Base, TypeOK, Control, RunNested, Waiting, Healing

-----------------------------------------------------------------------------
(* Typing and control flow are inductive *)

LEMMA InitBase == Init => Base
<1> SUFFICES ASSUME Init PROVE Base
  OBVIOUS
<1>1. Outcome("failed", "action") \in Result
  BY OutcomeType
<1>2. HealStart \in HealState
  BY HealStartType
<1>3. TypeOK
  BY <1>1, <1>2, PlansAssumption DEF Init, TypeOK
<1>4. Control
  BY <1>3, PlansAssumption DEF Init, TypeOK, Control, Waiting, Healing
<1> QED BY <1>3, <1>4 DEF Base

LEMMA BaseRunStep ==
  ASSUME Base, NEW l \in Level, RunStep(l)
  PROVE  Base'
<1>1. CASE MissingRefs(l)
  <2>1. Outcome("failed", "refs") \in Result
    BY OutcomeType
  <2> QED
    BY <1>1, <2>1, SettleBase DEF MissingRefs, At, Base, TypeOK
<1>2. CASE GuardFalse(l)
  <2>1. Outcome("skipped", "when") \in Result
    BY OutcomeType
  <2> QED
    BY <1>2, <2>1, SettleBase DEF GuardFalse, At, Base, TypeOK
<1>3. CASE GuardPassed(l)
  BY <1>3 DEF GuardPassed, At, Active, Goto, Base, TypeOK, Control, Waiting, Healing
<1>4. CASE BeforeHookAborts(l)
  <2>1. Outcome("failed", "hook") \in Result
    BY OutcomeType
  <2> QED
    BY <1>4, <2>1, SettleBase DEF BeforeHookAborts, At, Base, TypeOK
<1>5. CASE BeforeHooksPass(l)
  BY <1>5 DEF BeforeHooksPass, At, Active, Goto, Base, TypeOK, Control, Waiting, Healing
<1>6. ASSUME NEW status \in {"passed", "skipped", "failed"}, Dispatch(l, status)
      PROVE  Base'
  <2>1. Outcome(status, "action") \in Result
    BY OutcomeType
  <2>2. Step(l) \in StepConfig
    BY <1>6, StepType DEF Dispatch, At
  <2>3. acted' \subseteq Nat /\ ctx' \subseteq Names
    <3>1. Pos("outer") \in Nat
      BY DEF Pos, Base, TypeOK
    <3>2. Step(l).stores \subseteq Names
      BY <2>2 DEF StepConfig
    <3> QED BY <1>6, <3>1, <3>2 DEF Dispatch, Base, TypeOK
  <2>4. cur' \in [Level -> Result] /\ attempt' \in [Level -> Nat]
    <3>1. attempt' = [attempt EXCEPT ![l] = @ + 1] \/ UNCHANGED attempt
      BY <1>6 DEF Dispatch, NextAttempt
    <3> QED BY <1>6, <2>1, <3>1 DEF Dispatch, Base, TypeOK
  <2>5. pc' \in [Level -> Place] /\ Control'
    BY <1>6 DEF Dispatch, At, Active, MayHeal, Goto, Base, TypeOK, Control,
                Waiting, Healing
  <2>6. heal' \in HealState
    <3>1. heal' = HealStart \/ UNCHANGED heal
      BY <1>6 DEF Dispatch
    <3> QED BY <3>1, HealStartType DEF Base, TypeOK
  <2> QED
    BY <1>6, <2>3, <2>4, <2>5, <2>6 DEF Dispatch, Base, TypeOK
<1>7. CASE AfterHooksKeep(l)
  BY <1>7, SettleBase DEF AfterHooksKeep, At, Base, TypeOK
<1>8. CASE AfterHooksOverrule(l)
  <2>1. [cur[l] EXCEPT !.status = "failed", !.cause = "outcome"] \in Result
    BY DEF Base, TypeOK, Result
  <2> QED
    BY <1>8, <2>1, SettleBase DEF AfterHooksOverrule, At, Base, TypeOK
<1> QED
  BY <1>1, <1>2, <1>3, <1>4, <1>5, <1>6, <1>7, <1>8 DEF RunStep

LEMMA BaseHealStep ==
  ASSUME Base, HealStep
  PROVE  Base'
<1>1. CASE HealIteration
  <2>1. heal' \in HealState
    <3>1. heal \in HealState /\ heal.heal_attempt + 1 \in Nat /\ heal.counted + 1 \in Int
      BY DEF HealState, Base, TypeOK
    <3> QED BY <1>1, <3>1 DEF HealIteration, HealState
  <2>2. CASE RunNested(<<ResolvedStep>>, "replay")
    <3>1. <<ResolvedStep>> \in Seq(StepConfig) /\ <<ResolvedStep>> # <<>>
      BY <1>1, NestedStepTypes DEF HealIteration, At
    <3> QED
      BY <1>1, <2>1, <2>2, <3>1, NestedBase DEF HealIteration, At, Waiting, Base, TypeOK
  <2>3. CASE Goto("outer", "bridge") /\ UNCHANGED <<plan, results>>
    BY <1>1, <2>1, <2>3
    DEF HealIteration, At, Active, Goto, Base, TypeOK, Control, Waiting, Healing
  <2> QED
    BY <1>1, <2>2, <2>3 DEF HealIteration
<1>2. CASE GiveUp
  BY <1>2 DEF GiveUp, At, Active, Goto, Base, TypeOK, Control, Waiting, Healing
<1>3. ASSUME NEW held \in BOOLEAN, ReplayReturns(held)
      PROVE  Base'
  <2>1. heal' \in HealState
    BY <1>3 DEF ReplayReturns, HealState, Base, TypeOK
  <2>2. /\ cur' \in [Level -> Result]
        /\ suggested' \subseteq Nat
        /\ \/ Goto("outer", "after")
           \/ Goto("outer", "bridge")
    BY <1>3, HealedType DEF ReplayReturns, Base, TypeOK
  <2> QED
    BY <1>3, <2>1, <2>2
    DEF ReplayReturns, At, Active, Goto, Base, TypeOK, Control, Waiting, Healing
<1>4. ASSUME NEW answer \in {"none", "hidden", "disabled", "ok"}, Bridge(answer)
      PROVE  Base'
  <2>1. \/ \E place \in {"scroll_to", "wait"} : RunNested(<<PreStep, ResolvedStep>>, place)
        \/ Goto("outer", "capture") /\ UNCHANGED <<plan, results>>
    BY <1>4 DEF Bridge
  <2>2. ASSUME NEW place \in {"scroll_to", "wait"},
               RunNested(<<PreStep, ResolvedStep>>, place)
        PROVE  Base'
    <3>1. /\ <<PreStep, ResolvedStep>> \in Seq(StepConfig)
          /\ <<PreStep, ResolvedStep>> # <<>>
      BY <1>4, NestedStepTypes DEF Bridge, At
    <3> QED
      BY <1>4, <2>2, <3>1, NestedBase DEF Bridge, At, Waiting, Base, TypeOK
  <2>3. CASE Goto("outer", "capture") /\ UNCHANGED <<plan, results>>
    BY <1>4, <2>3
    DEF Bridge, At, Active, Goto, Base, TypeOK, Control, Waiting, Healing
  <2> QED
    BY <2>1, <2>2, <2>3
<1>5. ASSUME NEW place \in {"scroll_to", "wait"}, InjectionReturns(place)
      PROVE  Base'
  <2>1. \E next \in {"after", "capture"} : Goto("outer", next)
    BY <1>5 DEF InjectionReturns
  <2>2. cur' \in [Level -> Result]
    <3>1. \/ UNCHANGED cur
          \/ \E status \in {"healed", "failed"}, cause \in {"injection", "disabled"} :
               cur' = [cur EXCEPT !["outer"].status = status, !["outer"].cause = cause]
      BY <1>5 DEF InjectionReturns
    <3>2. ASSUME NEW status \in {"healed", "failed"},
                 NEW cause \in {"injection", "disabled"},
                 cur' = [cur EXCEPT !["outer"].status = status, !["outer"].cause = cause]
          PROVE  cur' \in [Level -> Result]
      <4>1. [cur["outer"] EXCEPT !.status = status, !.cause = cause] \in Result
        BY DEF Base, TypeOK, Result
      <4>2. cur' = [cur EXCEPT !["outer"] =
                      [cur["outer"] EXCEPT !.status = status, !.cause = cause]]
        BY <3>2 DEF Base, TypeOK
      <4> QED BY <4>1, <4>2 DEF Base, TypeOK
    <3> QED BY <3>1, <3>2 DEF Base, TypeOK
  <2> QED
    BY <1>5, <2>1, <2>2
    DEF InjectionReturns, At, Active, Goto, Base, TypeOK, Control, Waiting, Healing
<1>6. CASE CaptureFails
  <2>1. heal' \in HealState
    BY <1>6, TriedType DEF CaptureFails, Base, TypeOK
  <2> QED
    BY <1>6, <2>1
    DEF CaptureFails, At, Active, Goto, Base, TypeOK, Control, Waiting, Healing
<1>7. ASSUME NEW direct \in BOOLEAN, AskHealer(direct)
      PROVE  Base'
  <2> DEFINE rung == TierFor(direct, IF Strict THEN heal.tried ELSE <<>>)
             h    == IF Strict THEN Charge(heal, rung) ELSE heal
  <2>1. h \in HealState
    BY TierForType, ChargeType DEF Base, TypeOK
  <2>2. [h EXCEPT !.tried = TriedAfter(h)] \in HealState
    BY <2>1, TriedType
  <2>3. \/ /\ heal' = [h EXCEPT !.tried = TriedAfter(h)]
           /\ Goto("outer", "heal")
           /\ UNCHANGED <<plan, results>>
        \/ \E steps \in {<<DirectStep>>} \cup Replacements :
             heal' = h /\ RunNested(steps, "cascade")
    BY <1>7 DEF AskHealer
  <2>4. CASE /\ heal' = [h EXCEPT !.tried = TriedAfter(h)]
             /\ Goto("outer", "heal")
             /\ UNCHANGED <<plan, results>>
    BY <1>7, <2>2, <2>4
    DEF AskHealer, At, Active, Goto, Base, TypeOK, Control, Waiting, Healing
  <2>5. ASSUME NEW steps \in {<<DirectStep>>} \cup Replacements,
               heal' = h, RunNested(steps, "cascade")
        PROVE  Base'
    <3>1. DirectStep \in StepConfig
      BY <1>7, NestedStepTypes DEF AskHealer, At
    <3>2. steps \in Seq(StepConfig) /\ steps # <<>>
      <4>1. CASE steps = <<DirectStep>>
        BY <3>1, <4>1
      <4>2. CASE steps \in Replacements
        BY <4>2, ReplacementsAssumption
      <4> QED BY <2>5, <4>1, <4>2
    <3> HIDE DEF h
    <3> QED
      BY <1>7, <2>1, <2>5, <3>2, NestedBase DEF AskHealer, At, Waiting, Base, TypeOK
  <2> QED
    BY <2>3, <2>4, <2>5
<1>8. ASSUME NEW held \in BOOLEAN, CascadeReturns(held)
      PROVE  Base'
  <2>1. heal' \in HealState
    <3>1. heal \in HealState /\ TriedAfter(heal) \in Seq(Tier)
      BY TriedType DEF Base, TypeOK
    <3> QED BY <1>8, <3>1 DEF CascadeReturns, HealState
  <2>2. /\ cur' \in [Level -> Result]
        /\ suggested' \subseteq Nat
        /\ \/ Goto("outer", "after")
           \/ Goto("outer", "heal")
    BY <1>8, HealedType DEF CascadeReturns, Base, TypeOK
  <2>3. cache' \subseteq Keys
    <3>1. Step("outer").key \in Keys
      BY <1>8, StepType DEF CascadeReturns, At, StepConfig
    <3> QED
      BY <1>8, <3>1 DEF CascadeReturns, Learn, Base, TypeOK
  <2> QED
    BY <1>8, <2>1, <2>2, <2>3
    DEF CascadeReturns, At, Active, Goto, Base, TypeOK, Control, Waiting, Healing
<1> QED
  BY <1>1, <1>2, <1>3, <1>4, <1>5, <1>6, <1>7, <1>8 DEF HealStep

LEMMA BaseNext == Base /\ [Next]_vars => Base'
<1> SUFFICES ASSUME Base, [Next]_vars PROVE Base'
  OBVIOUS
<1>1. CASE UNCHANGED vars
  BY <1>1 DEF vars, Base, TypeOK, Control
<1> QED
  BY <1>1, BaseRunStep, BaseHealStep DEF Next, Terminated

LEMMA BaseInvariant == Spec => []Base
<1> QED BY InitBase, BaseNext, PTL DEF Spec

\* Every variable keeps its type: in particular no run of the heal loop
\* leaves `tried', `counted' or a nested result outside its range.
THEOREM TypeCorrect == Spec => []TypeOK
<1>1. Base => TypeOK
  BY DEF Base
<1> QED BY <1>1, BaseInvariant, PTL

-----------------------------------------------------------------------------
(* The heal budget *)

\* HealBudget is not inductive: that `counted -= 1' stays above zero depends
\* on the iteration having been counted before.
Budget ==
  /\ HealBudget
  /\ pc["outer"] \in Healing \ {"heal"} => heal.heal_attempt >= 1

LEMMA BudgetStep == Base /\ Budget /\ [Next]_vars => Budget'
<1> SUFFICES ASSUME Base, Budget, [Next]_vars PROVE Budget'
  OBVIOUS
<1> USE DEF Healing, Waiting
<1>0. heal \in HealState /\ heal.counted \in Int /\ heal.heal_attempt \in Nat
  BY DEF Base, TypeOK, HealState
<1>1. ASSUME NEW l \in Level, RunStep(l) PROVE Budget'
  <2>1. \/ heal' = HealStart /\ pc' = [pc EXCEPT !["outer"] = "heal"]
        \/ UNCHANGED heal /\ \E place \in Place \ Healing : pc' = [pc EXCEPT ![l] = place]
        \/ UNCHANGED <<heal, pc>>
    BY <1>1 DEF RunStep, MissingRefs, GuardFalse, GuardPassed, BeforeHookAborts,
                BeforeHooksPass, Dispatch, AfterHooksKeep, AfterHooksOverrule,
                Settle, Goto, MayHeal
  <2> QED
    BY <2>1 DEF Budget, HealBudget, HealStart, Base, TypeOK
<1>2. CASE HealIteration
  <2>1. heal.counted + 1 \in 0..3
    BY <1>0, <1>2, MaxHealAttemptsAssumption DEF HealIteration, HealCap, Budget, HealBudget
  <2> QED
    BY <1>0, <1>2, <2>1 DEF HealIteration, HealState, Budget, HealBudget
<1>3. ASSUME /\ heal'.counted = heal.counted
             /\ heal'.heal_attempt = heal.heal_attempt
             /\ heal'.free_used = heal.free_used,
             pc["outer"] \in Healing \ {"heal"} \/ UNCHANGED pc \/ pc'["outer"] = "after"
      PROVE  Budget'
  BY <1>0, <1>3 DEF Budget, HealBudget
<1>4. CASE GiveUp
  BY <1>3, <1>4 DEF GiveUp, Goto, Base, TypeOK
<1>5. ASSUME NEW held \in BOOLEAN, ReplayReturns(held) PROVE Budget'
  BY <1>0, <1>3, <1>5 DEF ReplayReturns, At, HealState
<1>6. ASSUME NEW answer \in {"none", "hidden", "disabled", "ok"}, Bridge(answer)
      PROVE  Budget'
  BY <1>3, <1>6 DEF Bridge, At
<1>7. ASSUME NEW place \in {"scroll_to", "wait"}, InjectionReturns(place) PROVE Budget'
  BY <1>3, <1>7 DEF InjectionReturns, At
<1>8. CASE CaptureFails
  BY <1>0, <1>3, <1>8 DEF CaptureFails, At, HealState
<1>9. ASSUME NEW direct \in BOOLEAN, AskHealer(direct) PROVE Budget'
  <2> DEFINE rung == TierFor(direct, IF Strict THEN heal.tried ELSE <<>>)
             h    == IF Strict THEN Charge(heal, rung) ELSE heal
  <2>1. h \in HealState
    BY <1>0, TierForType, ChargeType
  <2>2. /\ h.counted \in 0..3
        /\ h.heal_attempt = h.counted + IF h.free_used THEN 1 ELSE 0
        /\ h.heal_attempt >= 1
        /\ h.free_used => Strict
    BY <1>0, <1>9 DEF AskHealer, At, Charge, HealState, Budget, HealBudget
  <2>3. heal' = h \/ heal' = [h EXCEPT !.tried = TriedAfter(h)]
    BY <1>9 DEF AskHealer
  <2>4. /\ heal'.counted = h.counted
        /\ heal'.heal_attempt = h.heal_attempt
        /\ heal'.free_used = h.free_used
    BY <2>1, <2>3 DEF HealState
  <2> QED
    BY <2>2, <2>4 DEF Budget, HealBudget
<1>10. ASSUME NEW held \in BOOLEAN, CascadeReturns(held) PROVE Budget'
  BY <1>0, <1>3, <1>10 DEF CascadeReturns, At, HealState
<1>11. CASE UNCHANGED vars
  BY <1>3, <1>11 DEF vars
<1> QED
  BY <1>1, <1>2, <1>4, <1>5, <1>6, <1>7, <1>8, <1>9, <1>10, <1>11
  DEF Next, HealStep, Terminated

LEMMA BudgetInvariant == Spec => []Budget
<1>1. Init => Budget
  BY DEF Init, HealStart, Budget, HealBudget, Healing, Waiting, Level
<1> QED BY <1>1, BudgetStep, BaseInvariant, PTL DEF Spec

\* No step gets more than three counted heal iterations and a free one,
\* whatever max_heal_attempts says and whatever fails inside them.
THEOREM HealBudgetKept == Spec => []HealBudget
<1>1. Budget => HealBudget
  BY DEF Budget
<1> QED BY <1>1, BudgetInvariant, PTL

-----------------------------------------------------------------------------
(* The order of the rungs *)

\* RungsInOrder as a property of any sequence of lost rungs.
InOrder(tried) ==
  LET Tries(tier) == {i \in 1..Len(tried) : tried[i] = tier} IN
  /\ \A i, j \in Tries("embed_direct") : i = j
  /\ \A b \in Tries("big") :
       \E i, j \in Tries("cheap") : i < j /\ j < b
  /\ \A i, j, k \in Tries("cheap") : ~(i < j /\ j < k)

\* A rung the healer could have been on, given the ones tried before it.
MayFollow(tried, tier) == \E direct \in BOOLEAN : tier = TierFor(direct, tried)

\* tier_for keeps the order: losing the rung it names is in order again.
LEMMA NextRungInOrder ==
  ASSUME NEW tried \in Seq(Tier), NEW tier \in Tier,
         InOrder(tried), MayFollow(tried, tier)
  PROVE  InOrder(Append(tried, tier))
<1> DEFINE new == Append(tried, tier)
<1>1. /\ Len(new) = Len(tried) + 1
      /\ Len(tried) \in Nat
      /\ \A i \in 1..Len(tried) : new[i] = tried[i]
      /\ new[Len(tried) + 1] = tier
  OBVIOUS
<1> HIDE DEF new
<1>2. CASE tier = "embed_direct"
  <2>1. \A i \in 1..Len(tried) : tried[i] # "embed_direct"
    BY <1>2 DEF MayFollow, TierFor
  <2> QED BY <1>1, <1>2, <2>1 DEF InOrder
<1>3. CASE tier = "cheap"
  <2>1. \A i, j \in 1..Len(tried) : tried[i] = "cheap" /\ tried[j] = "cheap" => i = j
    BY <1>3 DEF MayFollow, TierFor
  <2> QED BY <1>1, <1>3, <2>1 DEF InOrder
<1>4. CASE tier = "big"
  <2>1. PICK i, j \in 1..Len(tried) :
          i < j /\ tried[i] = "cheap" /\ tried[j] = "cheap"
    <3>1. PICK i, j \in 1..Len(tried) :
            i # j /\ tried[i] = "cheap" /\ tried[j] = "cheap"
      BY <1>4 DEF MayFollow, TierFor
    <3> QED BY <3>1
  <2> QED BY <1>1, <1>4, <2>1 DEF InOrder
<1> QED BY <1>2, <1>3, <1>4 DEF new

\* The rungs lost so far are in order, the one in hand may follow them, and the
\* free try has been used if the sure match was tried.
Rungs ==
  /\ InOrder(heal.tried)
  /\ pc["outer"] \in {"replay", "bridge", "scroll_to", "wait", "capture"} =>
       heal.tier = "none"
  /\ pc["outer"] = "cascade" /\ heal.tier # "none" => MayFollow(heal.tried, heal.tier)
  /\ (\E i \in 1..Len(heal.tried) : heal.tried[i] = "embed_direct") => heal.free_used
  /\ pc["outer"] = "cascade" /\ heal.tier = "embed_direct" => heal.free_used

\* The iteration `h' is lost on the rung it reached.
LEMMA LostRungInOrder ==
  ASSUME NEW h \in HealState, InOrder(h.tried),
         h.tier # "none" => MayFollow(h.tried, h.tier),
         (\E i \in 1..Len(h.tried) : h.tried[i] = "embed_direct") => h.free_used,
         h.tier = "embed_direct" => h.free_used
  PROVE  /\ InOrder(TriedAfter(h))
         /\ (\E i \in 1..Len(TriedAfter(h)) : TriedAfter(h)[i] = "embed_direct")
              => h.free_used
<1>1. CASE h.tier = "none"
  BY <1>1 DEF TriedAfter
<1>2. CASE h.tier # "none"
  <2>1. h.tried \in Seq(Tier) /\ h.tier \in Tier
    BY <1>2 DEF HealState
  <2> QED BY <1>2, <2>1, NextRungInOrder DEF TriedAfter
<1> QED BY <1>1, <1>2

LEMMA RungsStep == Base /\ Rungs /\ [Next]_vars => Rungs'
<1> SUFFICES ASSUME Base, Rungs, [Next]_vars PROVE Rungs'
  OBVIOUS
<1>0. heal \in HealState
  BY DEF Base, TypeOK
<1>1. ASSUME NEW l \in Level, RunStep(l) PROVE Rungs'
  <2>1. \/ heal' = HealStart /\ pc'["outer"] = "heal"
        \/ UNCHANGED heal /\ pc'["outer"] \in Place \ Healing
        \/ UNCHANGED heal /\ pc'["outer"] = pc["outer"]
    BY <1>1 DEF RunStep, MissingRefs, GuardFalse, GuardPassed, BeforeHookAborts,
                BeforeHooksPass, Dispatch, AfterHooksKeep, AfterHooksOverrule,
                Settle, Goto, MayHeal, Base, TypeOK, Healing, Waiting
  <2> QED
    BY <2>1 DEF Rungs, HealStart, InOrder, Healing, Waiting
<1>2. CASE HealIteration
  <2>1. heal'.tried = heal.tried /\ heal'.tier = "none" /\ heal'.free_used = heal.free_used
    BY <1>0, <1>2 DEF HealIteration, HealState
  <2>2. pc'["outer"] \in {"replay", "bridge"}
    BY <1>2 DEF HealIteration, RunNested, Goto, Base, TypeOK
  <2> QED BY <2>1, <2>2 DEF Rungs
<1>3. CASE GiveUp
  BY <1>3 DEF GiveUp, Goto, Rungs, Base, TypeOK
<1>4. ASSUME NEW held \in BOOLEAN, ReplayReturns(held) PROVE Rungs'
  <2>1. heal'.tried = heal.tried /\ heal'.tier = heal.tier /\ heal'.free_used = heal.free_used
    BY <1>0, <1>4 DEF ReplayReturns, HealState
  <2>2. pc["outer"] = "replay" /\ pc'["outer"] \in {"after", "bridge"}
    BY <1>4 DEF ReplayReturns, At, Healed, Goto, Base, TypeOK
  <2> QED BY <2>1, <2>2 DEF Rungs
<1>5. ASSUME NEW answer \in {"none", "hidden", "disabled", "ok"}, Bridge(answer)
      PROVE  Rungs'
  <2>1. /\ UNCHANGED heal
        /\ pc["outer"] = "bridge"
        /\ pc'["outer"] \in {"scroll_to", "wait", "capture"}
    BY <1>5 DEF Bridge, At, RunNested, Goto, Base, TypeOK
  <2> QED BY <2>1 DEF Rungs
<1>6. ASSUME NEW place \in {"scroll_to", "wait"}, InjectionReturns(place) PROVE Rungs'
  <2>1. /\ UNCHANGED heal
        /\ pc["outer"] \in {"scroll_to", "wait"}
        /\ pc'["outer"] \in {"after", "capture"}
    BY <1>6 DEF InjectionReturns, At, Goto, Base, TypeOK
  <2> QED BY <2>1 DEF Rungs
<1>7. CASE CaptureFails
  <2>1. /\ heal'.tried = heal.tried
        /\ heal'.free_used = heal.free_used
        /\ pc'["outer"] = "heal"
    BY <1>0, <1>7 DEF CaptureFails, TriedAfter, At, Goto, HealState, Rungs, Base, TypeOK
  <2> QED BY <2>1 DEF Rungs
<1>8. ASSUME NEW direct \in BOOLEAN, AskHealer(direct) PROVE Rungs'
  <2> DEFINE rung == TierFor(direct, IF Strict THEN heal.tried ELSE <<>>)
             h    == IF Strict THEN Charge(heal, rung) ELSE heal
  <2>1. h \in HealState /\ rung \in Tier
    BY <1>0, TierForType, ChargeType
  <2>2. /\ h.tried = heal.tried
        /\ h.tier = IF Strict THEN rung ELSE "none"
        /\ heal.free_used => h.free_used
        /\ h.tier = "embed_direct" => h.free_used
    BY <1>0, <1>8 DEF Charge, AskHealer, At, HealState, Rungs
  <2>3. h.tier # "none" => MayFollow(h.tried, h.tier)
    <3>1. Strict => rung = TierFor(direct, heal.tried)
      OBVIOUS
    <3> HIDE DEF rung
    <3> QED BY <2>2, <3>1 DEF MayFollow
  <2>4. \/ /\ heal' = [h EXCEPT !.tried = TriedAfter(h)]
           /\ pc'["outer"] = "heal"
        \/ heal' = h /\ pc'["outer"] = "cascade"
    BY <1>8 DEF AskHealer, RunNested, Goto, Base, TypeOK
  <2> HIDE DEF rung, h
  <2>5. CASE heal' = [h EXCEPT !.tried = TriedAfter(h)] /\ pc'["outer"] = "heal"
    <3>1. heal'.tried = TriedAfter(h) /\ heal'.free_used = h.free_used
      BY <2>1, <2>5 DEF HealState
    <3>2. /\ InOrder(TriedAfter(h))
          /\ (\E i \in 1..Len(TriedAfter(h)) : TriedAfter(h)[i] = "embed_direct")
               => h.free_used
      BY <2>1, <2>2, <2>3, LostRungInOrder DEF Rungs
    <3> QED BY <2>5, <3>1, <3>2 DEF Rungs
  <2>6. CASE heal' = h /\ pc'["outer"] = "cascade"
    BY <2>2, <2>3, <2>6 DEF Rungs
  <2> QED BY <2>4, <2>5, <2>6
<1>9. ASSUME NEW held \in BOOLEAN, CascadeReturns(held) PROVE Rungs'
  <2>1. \/ /\ heal'.tried = heal.tried /\ heal'.free_used = heal.free_used
           /\ pc'["outer"] = "after"
        \/ /\ heal'.tried = TriedAfter(heal) /\ heal'.free_used = heal.free_used
           /\ pc'["outer"] = "heal"
    BY <1>0, <1>9 DEF CascadeReturns, Healed, Goto, HealState, Base, TypeOK
  <2>2. /\ InOrder(TriedAfter(heal))
        /\ (\E i \in 1..Len(TriedAfter(heal)) : TriedAfter(heal)[i] = "embed_direct")
             => heal.free_used
    BY <1>0, <1>9, LostRungInOrder DEF CascadeReturns, At, Rungs
  <2> QED BY <2>1, <2>2 DEF Rungs
<1>10. CASE UNCHANGED vars
  BY <1>10 DEF vars, Rungs
<1> QED
  BY <1>1, <1>2, <1>3, <1>4, <1>5, <1>6, <1>7, <1>8, <1>9, <1>10
  DEF Next, HealStep, Terminated

LEMMA RungsInvariant == Spec => []Rungs
<1>1. Init => Rungs
  BY DEF Init, HealStart, Rungs, InOrder, Level
<1> QED BY <1>1, RungsStep, BaseInvariant, PTL DEF Spec

\* Strict order climbs: one sure match, two cheap tries, then the big model.
THEOREM RungsKeptInOrder == Spec => []RungsInOrder
<1>1. Rungs => RungsInOrder
  BY DEF Rungs, InOrder, RungsInOrder
<1> QED BY <1>1, RungsInvariant, PTL

\* Three or four lost iterations, each on a rung: they are too many for one
\* sure match and two cheap tries.
LEMMA BigModelReached ==
  ASSUME Base, Budget, Rungs, heal.counted = 3, Len(heal.tried) = heal.heal_attempt
  PROVE  \E i \in 1..Len(heal.tried) : heal.tried[i] = "big"
<1> DEFINE tried == heal.tried
<1>1. tried \in Seq(Tier) /\ heal \in HealState
  BY DEF Base, TypeOK, HealState
<1>2. Len(tried) = 3 + IF heal.free_used THEN 1 ELSE 0
  BY DEF Budget, HealBudget
<1>3. /\ (\E i \in 1..Len(tried) : tried[i] = "embed_direct") => heal.free_used
      /\ InOrder(tried)
  BY DEF Rungs
<1> HIDE DEF tried
<1> SUFFICES ASSUME \A i \in 1..Len(tried) : tried[i] # "big"
             PROVE  FALSE
  BY DEF tried
<1>4. \A i \in 1..Len(tried) : tried[i] \in {"embed_direct", "cheap"}
  BY <1>1
<1>5. CASE ~heal.free_used
  <2>1. Len(tried) = 3 /\ \A i \in 1..Len(tried) : tried[i] = "cheap"
    BY <1>2, <1>3, <1>4, <1>5
  <2>2. tried[1] = "cheap" /\ tried[2] = "cheap" /\ tried[3] = "cheap"
    BY <2>1
  <2> QED BY <1>3, <2>1, <2>2 DEF InOrder
<1>6. CASE heal.free_used
  <2>1. Len(tried) = 4
    BY <1>2, <1>6
  <2>2. \A i, j \in 1..4 :
          tried[i] = "embed_direct" /\ tried[j] = "embed_direct" => i = j
    BY <1>3, <2>1 DEF InOrder
  <2>3. \A i \in 1..4 : tried[i] = "embed_direct" \/ tried[i] = "cheap"
    BY <1>4, <2>1
  <2>4. \E i, j, k \in 1..4 :
          /\ i < j /\ j < k
          /\ tried[i] = "cheap" /\ tried[j] = "cheap" /\ tried[k] = "cheap"
    <3>1. CASE tried[1] = "embed_direct"
      <4>1. tried[2] = "cheap" /\ tried[3] = "cheap" /\ tried[4] = "cheap"
        BY <2>2, <2>3, <3>1
      <4> QED BY <4>1
    <3>2. CASE tried[2] = "embed_direct"
      <4>1. tried[1] = "cheap" /\ tried[3] = "cheap" /\ tried[4] = "cheap"
        BY <2>2, <2>3, <3>2
      <4> QED BY <4>1
    <3>3. CASE tried[1] = "cheap" /\ tried[2] = "cheap"
      <4>1. tried[3] = "cheap" \/ tried[4] = "cheap"
        BY <2>2, <2>3
      <4> QED BY <3>3, <4>1
    <3> QED BY <2>3, <3>1, <3>2, <3>3
  <2> QED BY <1>3, <2>1, <2>4 DEF InOrder
<1> QED BY <1>5, <1>6

\* Strict order does not give a step up before the big model had its try,
\* unless an iteration was lost before any rung.
THEOREM BigModelIsTried == Spec => []BigModelHadItsTry
<1>1. Base /\ Budget /\ Rungs => BigModelHadItsTry
  BY BigModelReached DEF BigModelHadItsTry
<1> QED BY <1>1, BaseInvariant, BudgetInvariant, RungsInvariant, PTL

-----------------------------------------------------------------------------
(* Steps that were kept from running *)

\* Whatever has acted is the current step or one before it; the current step
\* has not acted before its first attempt, and from then on no guard, missing
\* reference or before-hook is the cause of its result.
Barred ==
  /\ BarredStepsNeverAct
  /\ acted \subseteq 1..Pos("outer")
  /\ pc["outer"] \in {"next", "before"} => Pos("outer") \notin acted
  /\ pc["outer"] \in {"after"} \cup Healing =>
       cur["outer"].cause \notin {"when", "refs", "hook"}

\* A settled result for which the step did not act, or which came of acting.
LEMMA SettleBarred ==
  ASSUME Base, Barred, NEW r \in Result, Settle("outer", r),
         UNCHANGED <<acted, cur>>,
         r.cause \in {"when", "refs", "hook"} => Pos("outer") \notin acted
  PROVE  Barred'
<1>1. /\ Len(results'["outer"]) = Len(results["outer"]) + 1
      /\ Len(results["outer"]) \in Nat
      /\ results'["outer"][Pos("outer")] = r
      /\ \A i \in 1..Len(results["outer"]) :
           results'["outer"][i] = results["outer"][i]
  BY DEF Settle, Pos, Base, TypeOK
<1>2. pc'["outer"] \in {"next", "done"}
  BY DEF Settle, Goto, Base, TypeOK
<1>3. Pos("outer")' = Pos("outer") + 1 /\ Pos("outer") = Len(results["outer"]) + 1
  BY <1>1 DEF Pos
<1>4. BarredStepsNeverAct'
  BY <1>1, <1>3 DEF Barred, BarredStepsNeverAct
<1>5. acted' \subseteq 1..Pos("outer")' /\ Pos("outer")' \notin acted'
  BY <1>1, <1>3 DEF Barred
<1> QED BY <1>2, <1>4, <1>5 DEF Barred, Healing, Waiting

\* While a nested runner runs, the outer one waits in the heal loop.
LEMMA InnerRuns ==
  ASSUME Base, Active("inner")
  PROVE  pc["outer"] \in Waiting
BY DEF Base, Control, Active

\* What the steps of the heal loop have in common.
LEMMA HealStepFrame ==
  ASSUME Base, HealStep
  PROVE  /\ UNCHANGED <<acted, ctx, report>>
         /\ results'["outer"] = results["outer"]
         /\ plan'["outer"] = plan["outer"]
         /\ pc["outer"] \in Healing
         /\ pc["inner"] \in {"idle", "done"}
         /\ pc'["outer"] \in {"after"} \cup Healing
         /\ \/ UNCHANGED cur
            \/ cur'["outer"].cause \in {"cache", "cascade", "injection", "disabled"}
<1> USE DEF Healing, Waiting, Active, At, Goto
<1>1. CASE HealIteration
  BY <1>1 DEF HealIteration, RunNested, Base, TypeOK
<1>2. CASE GiveUp
  BY <1>2 DEF GiveUp, Base, TypeOK
<1>3. ASSUME NEW held \in BOOLEAN, ReplayReturns(held)
      PROVE  /\ pc'["outer"] \in {"after", "bridge"}
             /\ UNCHANGED cur \/ cur'["outer"].cause = "cache"
  BY <1>3 DEF ReplayReturns, Healed, Base, TypeOK
<1>4. ASSUME NEW answer \in {"none", "hidden", "disabled", "ok"}, Bridge(answer)
      PROVE  /\ pc'["outer"] \in Healing
             /\ results'["outer"] = results["outer"]
             /\ plan'["outer"] = plan["outer"]
  BY <1>4 DEF Bridge, RunNested, Base, TypeOK
<1>5. ASSUME NEW place \in {"scroll_to", "wait"}, InjectionReturns(place)
      PROVE  /\ pc'["outer"] \in {"after", "capture"}
             /\ UNCHANGED cur \/ cur'["outer"].cause \in {"injection", "disabled"}
  BY <1>5 DEF InjectionReturns, Base, TypeOK, Result
<1>6. CASE CaptureFails
  BY <1>6 DEF CaptureFails, Base, TypeOK
<1>7. ASSUME NEW direct \in BOOLEAN, AskHealer(direct)
      PROVE  /\ pc'["outer"] \in Healing
             /\ results'["outer"] = results["outer"]
             /\ plan'["outer"] = plan["outer"]
  BY <1>7 DEF AskHealer, RunNested, Base, TypeOK
<1>8. ASSUME NEW held \in BOOLEAN, CascadeReturns(held)
      PROVE  /\ pc'["outer"] \in {"after", "heal"}
             /\ UNCHANGED cur \/ cur'["outer"].cause = "cascade"
  BY <1>8 DEF CascadeReturns, Healed, Base, TypeOK
<1> QED
  BY <1>1, <1>2, <1>3, <1>4, <1>5, <1>6, <1>7, <1>8
  DEF HealStep, ReplayReturns, Bridge, InjectionReturns, AskHealer, CascadeReturns

LEMMA BarredStep == Base /\ Barred /\ [Next]_vars => Barred'
<1> SUFFICES ASSUME Base, Barred, [Next]_vars PROVE Barred'
  OBVIOUS
<1>0. Len(results["outer"]) \in Nat /\ Pos("outer") = Len(results["outer"]) + 1
  BY DEF Base, TypeOK, Pos
<1>1. ASSUME /\ UNCHANGED acted
             /\ results'["outer"] = results["outer"]
             /\ pc'["outer"] \in {"next", "before"} => pc["outer"] \in {"next", "before"}
             /\ pc'["outer"] \in {"after"} \cup Healing =>
                  cur'["outer"].cause \notin {"when", "refs", "hook"}
      PROVE  Barred'
  BY <1>1 DEF Barred, BarredStepsNeverAct, Pos
<1>6. acted \cup {Pos("outer")} \subseteq 1..Pos("outer")
  <2>1. Pos("outer") \in 1..Pos("outer")
    BY <1>0
  <2> QED BY <2>1 DEF Barred
<1>2. CASE RunStep("outer")
  <2>1. CASE MissingRefs("outer")
    <3>1. Outcome("failed", "refs") \in Result
      BY OutcomeType
    <3> QED BY <2>1, <3>1, SettleBarred DEF MissingRefs, At, Barred
  <2>2. CASE GuardFalse("outer")
    <3>1. Outcome("skipped", "when") \in Result
      BY OutcomeType
    <3> QED BY <2>2, <3>1, SettleBarred DEF GuardFalse, At, Barred
  <2>3. CASE GuardPassed("outer")
    BY <2>3, <1>1 DEF GuardPassed, At, Goto, Healing, Waiting, Base, TypeOK
  <2>4. CASE BeforeHookAborts("outer")
    <3>1. Outcome("failed", "hook") \in Result
      BY OutcomeType
    <3> QED BY <2>4, <3>1, SettleBarred DEF BeforeHookAborts, At, Barred
  <2>5. CASE BeforeHooksPass("outer")
    <3>1. pc'["outer"] = "attempt"
      BY <2>5 DEF BeforeHooksPass, Goto, Base, TypeOK
    <3> QED BY <2>5, <3>1, <1>1 DEF BeforeHooksPass, Healing, Waiting
  <2>6. ASSUME NEW status \in {"passed", "skipped", "failed"}, Dispatch("outer", status)
        PROVE  Barred'
    <3>1. /\ acted' = acted \cup {Pos("outer")}
          /\ UNCHANGED results
          /\ cur'["outer"].cause = "action"
          /\ pc'["outer"] \in {"attempt", "heal", "after"}
      BY <2>6 DEF Dispatch, At, Goto, Outcome, Base, TypeOK
    <3>2. BarredStepsNeverAct'
      BY <3>1, <1>0 DEF Barred, BarredStepsNeverAct
    <3>3. Pos("outer")' = Pos("outer")
      BY <3>1 DEF Pos
    <3>4. acted' \subseteq 1..Pos("outer")'
      BY <3>1, <3>3, <1>6
    <3> QED BY <3>1, <3>2, <3>4 DEF Barred
  <2>7. CASE AfterHooksKeep("outer")
    <3>1. cur["outer"] \in Result /\ cur["outer"].cause \notin {"when", "refs", "hook"}
      BY <2>7 DEF AfterHooksKeep, At, Barred, Base, TypeOK
    <3> QED BY <2>7, <3>1, SettleBarred DEF AfterHooksKeep
  <2>8. CASE AfterHooksOverrule("outer")
    <3> DEFINE r == [cur["outer"] EXCEPT !.status = "failed", !.cause = "outcome"]
    <3>1. r \in Result /\ r.cause = "outcome"
      BY DEF Base, TypeOK, Result
    <3>2. Settle("outer", r) /\ UNCHANGED <<acted, cur>>
      BY <2>8 DEF AfterHooksOverrule
    <3> HIDE DEF r
    <3> QED BY <3>1, <3>2, SettleBarred
  <2> QED
    BY <1>2, <2>1, <2>2, <2>3, <2>4, <2>5, <2>6, <2>7, <2>8 DEF RunStep
<1>3. CASE RunStep("inner")
  <2>1. pc["outer"] \in Waiting
    BY <1>3, InnerRuns
    DEF RunStep, MissingRefs, GuardFalse, GuardPassed, BeforeHookAborts,
        BeforeHooksPass, Dispatch, AfterHooksKeep, AfterHooksOverrule, At
  <2>2. /\ acted' = acted \/ acted' = acted \cup {Pos("outer")}
        /\ results'["outer"] = results["outer"]
        /\ pc'["outer"] = pc["outer"]
        /\ cur'["outer"] = cur["outer"]
    BY <1>3
    DEF RunStep, MissingRefs, GuardFalse, GuardPassed, BeforeHookAborts,
        BeforeHooksPass, Dispatch, AfterHooksKeep, AfterHooksOverrule, At,
        MayHeal, Settle, Goto, Base, TypeOK
  <2>3. BarredStepsNeverAct'
    BY <1>0, <2>2 DEF Barred, BarredStepsNeverAct
  <2>4. Pos("outer")' = Pos("outer")
    BY <2>2 DEF Pos
  <2>5. acted' \subseteq 1..Pos("outer")'
    BY <2>2, <2>4, <1>6
  <2>6. /\ pc'["outer"] \in Waiting
        /\ cur'["outer"].cause \notin {"when", "refs", "hook"}
    BY <2>1, <2>2 DEF Barred, Healing
  <2> QED BY <2>3, <2>5, <2>6 DEF Barred, Waiting
<1>4. CASE HealStep
  <2>1. /\ UNCHANGED acted
        /\ results'["outer"] = results["outer"]
        /\ pc["outer"] \in Healing
        /\ pc'["outer"] \in {"after"} \cup Healing
    BY <1>4, HealStepFrame
  <2>2. UNCHANGED cur \/ cur'["outer"].cause \in {"cache", "cascade", "injection", "disabled"}
    BY <1>4, HealStepFrame
  <2> QED BY <2>1, <2>2, <1>1 DEF Barred, Healing, Waiting
<1>5. CASE UNCHANGED vars
  BY <1>1, <1>5 DEF vars, Barred
<1> QED
  BY <1>2, <1>3, <1>4, <1>5 DEF Next, Terminated

LEMMA BarredInvariant == Spec => []Barred
<1>1. Init => Barred
  BY DEF Init, Barred, BarredStepsNeverAct, Pos, Healing, Waiting
<1> QED BY <1>1, BarredStep, BaseInvariant, PTL DEF Spec

\* A step that its guard, a missing reference or a before-hook stopped was
\* dispatched by nobody: not by a retry, a cached cfg, an injection or a heal.
THEOREM BarredStepsStayBarred == Spec => []BarredStepsNeverAct
<1>1. Barred => BarredStepsNeverAct
  BY DEF Barred
<1> QED BY <1>1, BarredInvariant, PTL

-----------------------------------------------------------------------------
(* What a heal is healed on *)

\* A nested run heals nothing itself and stops early only on a failure, so
\* one in which every result passed has reached all of its steps.
NestedRun ==
  /\ cur["inner"].status # "healed"
  /\ \A i \in 1..Len(results["inner"]) : results["inner"][i].status # "healed"
  /\ pc["inner"] = "done" =>
       \/ Len(results["inner"]) = Len(plan["inner"])
       \/ \E i \in 1..Len(results["inner"]) : results["inner"][i].status = "failed"

Evidence ==
  /\ NestedRun
  /\ HealedOnEvidence
  /\ pc["outer"] \in Healing => cur["outer"].status # "healed"

LEMMA SettleNested ==
  ASSUME Base, NestedRun, pc["inner"] \notin {"idle", "done"}, NEW r \in Result,
         r.status # "healed", Settle("inner", r), UNCHANGED <<plan, cur>>
  PROVE  NestedRun'
<1>1. /\ Len(results'["inner"]) = Len(results["inner"]) + 1
      /\ Len(results["inner"]) \in Nat
      /\ results'["inner"][Len(results["inner"]) + 1] = r
      /\ \A i \in 1..Len(results["inner"]) :
           results'["inner"][i] = results["inner"][i]
  BY DEF Settle, Base, TypeOK
<1>2. pc'["inner"] = "done" =>
        r.status = "failed" \/ Len(results["inner"]) + 1 = Len(plan["inner"])
  BY DEF Settle, Goto, HardStop, Pos, Base, TypeOK
<1> QED BY <1>1, <1>2 DEF NestedRun

\* A step of the nested runner.
LEMMA NestedRunStep ==
  ASSUME Base, NestedRun, RunStep("inner")
  PROVE  NestedRun'
<1>1. CASE MissingRefs("inner")
  <2>1. Outcome("failed", "refs") \in Result /\ Outcome("failed", "refs").status # "healed"
    BY OutcomeType DEF Outcome
  <2> QED BY <1>1, <2>1, SettleNested DEF MissingRefs, At
<1>2. CASE GuardFalse("inner")
  <2>1. Outcome("skipped", "when") \in Result /\ Outcome("skipped", "when").status # "healed"
    BY OutcomeType DEF Outcome
  <2> QED BY <1>2, <2>1, SettleNested DEF GuardFalse, At
<1>3. CASE GuardPassed("inner")
  BY <1>3 DEF GuardPassed, Goto, NestedRun, Base, TypeOK
<1>4. CASE BeforeHookAborts("inner")
  <2>1. Outcome("failed", "hook") \in Result /\ Outcome("failed", "hook").status # "healed"
    BY OutcomeType DEF Outcome
  <2> QED BY <1>4, <2>1, SettleNested DEF BeforeHookAborts, At
<1>5. CASE BeforeHooksPass("inner")
  BY <1>5 DEF BeforeHooksPass, Goto, NestedRun, Base, TypeOK
<1>6. ASSUME NEW status \in {"passed", "skipped", "failed"}, Dispatch("inner", status)
      PROVE  NestedRun'
  <2>1. /\ cur'["inner"].status = status
        /\ pc'["inner"] \in {"attempt", "after"}
        /\ UNCHANGED <<plan, results>>
    BY <1>6 DEF Dispatch, At, MayHeal, Goto, Outcome, Base, TypeOK
  <2> QED BY <2>1 DEF NestedRun
<1>7. CASE AfterHooksKeep("inner")
  <2>1. cur["inner"] \in Result
    BY DEF Base, TypeOK
  <2> QED BY <1>7, <2>1, SettleNested DEF AfterHooksKeep, At, NestedRun
<1>8. CASE AfterHooksOverrule("inner")
  <2> DEFINE r == [cur["inner"] EXCEPT !.status = "failed", !.cause = "outcome"]
  <2>1. r \in Result /\ r.status = "failed"
    BY DEF Base, TypeOK, Result
  <2>2. Settle("inner", r) /\ UNCHANGED <<plan, cur>> /\ pc["inner"] = "after"
    BY <1>8 DEF AfterHooksOverrule, At
  <2> HIDE DEF r
  <2> QED BY <2>1, <2>2, SettleNested
<1> QED
  BY <1>1, <1>2, <1>3, <1>4, <1>5, <1>6, <1>7, <1>8 DEF RunStep

\* Starting a nested run forgets the one before it.
LEMMA NestedRunStarts ==
  ASSUME Base, NestedRun, NEW steps, NEW place \in Waiting,
         RunNested(steps, place), UNCHANGED cur
  PROVE  NestedRun'
<1>1. results'["inner"] = <<>> /\ pc'["inner"] = "next"
  BY DEF RunNested, Waiting, Base, TypeOK
<1> QED BY <1>1 DEF NestedRun

\* The heal loop's test of a nested run is the evidence HealedOnEvidence asks.
LEMMA EvidenceFound ==
  ASSUME Base, NestedRun, pc["outer"] \in Waiting, pc["inner"] \in {"idle", "done"},
         HealSucceeded(results["inner"])
  PROVE  /\ Len(results["inner"]) = Len(plan["inner"])
         /\ \A i \in 1..Len(plan["inner"]) : results["inner"][i].status = "passed"
         /\ plan["inner"] # <<>>
<1>1. pc["inner"] = "done" /\ Len(plan["inner"]) > 0
  BY DEF Base, Control
<1>2. Len(results["inner"]) = Len(plan["inner"])
  BY <1>1 DEF NestedRun, HealSucceeded
<1>3. \A i \in 1..Len(plan["inner"]) : results["inner"][i].status = "passed"
  BY <1>2 DEF NestedRun, HealSucceeded
<1> QED BY <1>1, <1>2, <1>3 DEF Base, TypeOK

LEMMA EvidenceStep == Base /\ Evidence /\ [Next]_vars => Evidence'
<1> SUFFICES ASSUME Base, Evidence, [Next]_vars PROVE Evidence'
  OBVIOUS
<1>a. NestedRun
  BY DEF Evidence
<1>1. ASSUME NestedRun',
             pc'["outer"] = "after" => cur'["outer"].cause \notin {"cache", "cascade"}
                                         \/ cur'["outer"].status # "healed",
             pc'["outer"] \in Healing => cur'["outer"].status # "healed"
      PROVE  Evidence'
  BY <1>1 DEF Evidence, HealedOnEvidence
<1>2. CASE RunStep("outer")
  <2>1. NestedRun'
    <3>1. /\ results'["inner"] = results["inner"]
          /\ cur'["inner"] = cur["inner"]
          /\ pc'["inner"] = pc["inner"]
          /\ plan'["inner"] = plan["inner"]
      BY <1>2
      DEF RunStep, MissingRefs, GuardFalse, GuardPassed, BeforeHookAborts,
          BeforeHooksPass, Dispatch, AfterHooksKeep, AfterHooksOverrule,
          Settle, Goto, Base, TypeOK
    <3> QED BY <3>1, <1>a DEF NestedRun
  <2>2. \/ pc'["outer"] \in {"next", "before", "attempt", "done"}
        \/ cur'["outer"].cause = "action" /\ cur'["outer"].status # "healed"
    BY <1>2
    DEF RunStep, MissingRefs, GuardFalse, GuardPassed, BeforeHookAborts,
        BeforeHooksPass, Dispatch, AfterHooksKeep, AfterHooksOverrule,
        Settle, Goto, Outcome, Base, TypeOK
  <2> QED BY <2>1, <2>2, <1>1 DEF Healing, Waiting
<1>3. CASE RunStep("inner")
  <2>1. NestedRun'
    BY <1>a, <1>3, NestedRunStep
  <2>2. pc["outer"] \in Waiting
    BY <1>3, InnerRuns
    DEF RunStep, MissingRefs, GuardFalse, GuardPassed, BeforeHookAborts,
        BeforeHooksPass, Dispatch, AfterHooksKeep, AfterHooksOverrule, At
  <2>3. pc'["outer"] = pc["outer"] /\ cur'["outer"] = cur["outer"]
    BY <1>3
    DEF RunStep, MissingRefs, GuardFalse, GuardPassed, BeforeHookAborts,
        BeforeHooksPass, Dispatch, AfterHooksKeep, AfterHooksOverrule, At,
        MayHeal, Settle, Goto, Base, TypeOK
  <2> QED BY <2>1, <2>2, <2>3, <1>1 DEF Evidence, Healing, Waiting
<1>4. ASSUME pc["outer"] \in Healing, UNCHANGED <<plan, results>>,
             UNCHANGED cur \/ cur'["inner"] = cur["inner"],
             pc'["inner"] = pc["inner"]
      PROVE  NestedRun'
  BY <1>4, <1>a DEF NestedRun
<1>5. ASSUME pc["outer"] \in Healing, UNCHANGED cur, NestedRun' PROVE Evidence'
  BY <1>1, <1>5 DEF Evidence
<1>6. ASSUME NEW steps, NEW place \in Waiting, RunNested(steps, place),
             UNCHANGED cur, pc["outer"] \in Healing
      PROVE  Evidence'
  BY <1>a, <1>5, <1>6, NestedRunStarts
<1>7. CASE HealIteration
  <2>1. CASE RunNested(<<ResolvedStep>>, "replay")
    BY <1>6, <1>7, <2>1 DEF HealIteration, At, Healing, Waiting
  <2>2. CASE Goto("outer", "bridge") /\ UNCHANGED <<plan, results>>
    BY <1>4, <1>5, <1>7, <2>2 DEF HealIteration, At, Goto, Healing, Base, TypeOK
  <2> QED BY <1>7, <2>1, <2>2 DEF HealIteration
<1>8. CASE GiveUp
  BY <1>4, <1>5, <1>8 DEF GiveUp, At, Goto, Healing, Base, TypeOK
<1>9. ASSUME NEW held \in BOOLEAN, ReplayReturns(held) PROVE Evidence'
  <2>1. /\ pc["outer"] = "replay"
        /\ pc["inner"] \in {"idle", "done"}
        /\ pc'["inner"] = pc["inner"]
        /\ UNCHANGED <<plan, results>>
        /\ heal'.held = held
    BY <1>9 DEF ReplayReturns, At, Active, Healed, Goto, HealState, Base, TypeOK
  <2>2. CASE HealSucceeded(results["inner"]) /\ HealAssertPassed(held)
    <3>1. cur'["inner"] = cur["inner"] /\ pc'["outer"] = "after"
      BY <1>9, <2>2 DEF ReplayReturns, Healed, Goto, Base, TypeOK
    <3>2. NestedRun'
      BY <2>1, <3>1, <1>4 DEF Healing, Waiting
    <3>3. HealedOnEvidence'
      BY <2>1, <2>2, <1>a, EvidenceFound
      DEF HealedOnEvidence, HealAssertPassed, Step, Pos, Waiting
    <3> QED BY <3>1, <3>2, <3>3 DEF Evidence, Healing, Waiting
  <2>3. CASE UNCHANGED cur
    BY <2>1, <2>3, <1>4, <1>5 DEF Healing, Waiting
  <2> QED BY <1>9, <2>2, <2>3 DEF ReplayReturns
<1>10. ASSUME NEW answer \in {"none", "hidden", "disabled", "ok"}, Bridge(answer)
       PROVE  Evidence'
  <2>1. \/ \E place \in {"scroll_to", "wait"} : RunNested(<<PreStep, ResolvedStep>>, place)
        \/ Goto("outer", "capture") /\ UNCHANGED <<plan, results>>
    BY <1>10 DEF Bridge
  <2>2. UNCHANGED cur /\ pc["outer"] \in Healing
    BY <1>10 DEF Bridge, At, Healing
  <2>3. CASE Goto("outer", "capture") /\ UNCHANGED <<plan, results>>
    BY <1>4, <1>5, <2>2, <2>3 DEF Goto, Base, TypeOK
  <2> QED BY <1>6, <2>1, <2>2, <2>3 DEF Waiting
<1>11. ASSUME NEW place \in {"scroll_to", "wait"}, InjectionReturns(place)
       PROVE  Evidence'
  <2>1. /\ pc["outer"] = place
        /\ pc'["inner"] = pc["inner"]
        /\ UNCHANGED <<plan, results>>
        /\ cur'["inner"] = cur["inner"]
        /\ pc'["outer"] \in {"after", "capture"}
        /\ \/ UNCHANGED cur
           \/ pc'["outer"] = "after" /\ cur'["outer"].cause \in {"injection", "disabled"}
    BY <1>11 DEF InjectionReturns, At, Goto, Base, TypeOK, Result
  <2>2. NestedRun'
    BY <2>1, <1>4 DEF Healing, Waiting
  <2> QED BY <2>1, <2>2, <1>1 DEF Evidence, Healing, Waiting
<1>12. CASE CaptureFails
  BY <1>4, <1>5, <1>12 DEF CaptureFails, At, Goto, Healing, Base, TypeOK
<1>13. ASSUME NEW direct \in BOOLEAN, AskHealer(direct) PROVE Evidence'
  <2>1. /\ UNCHANGED cur
        /\ pc["outer"] \in Healing
        /\ \/ Goto("outer", "heal") /\ UNCHANGED <<plan, results>>
           \/ \E steps \in {<<DirectStep>>} \cup Replacements : RunNested(steps, "cascade")
    BY <1>13 DEF AskHealer, At, Healing
  <2>2. CASE Goto("outer", "heal") /\ UNCHANGED <<plan, results>>
    BY <1>4, <1>5, <2>1, <2>2 DEF Goto, Base, TypeOK
  <2> QED BY <1>6, <2>1, <2>2 DEF Waiting
<1>14. ASSUME NEW held \in BOOLEAN, CascadeReturns(held) PROVE Evidence'
  <2>1. /\ pc["outer"] = "cascade"
        /\ pc["inner"] \in {"idle", "done"}
        /\ pc'["inner"] = pc["inner"]
        /\ UNCHANGED <<plan, results>>
        /\ heal'.held = held
    BY <1>14 DEF CascadeReturns, At, Active, Healed, Goto, HealState, Base, TypeOK
  <2>2. CASE HealSucceeded(results["inner"]) /\ HealAssertPassed(held)
    <3>1. cur'["inner"] = cur["inner"] /\ pc'["outer"] = "after"
      BY <1>14, <2>2 DEF CascadeReturns, Healed, Goto, Base, TypeOK
    <3>2. NestedRun'
      BY <2>1, <3>1, <1>4 DEF Healing, Waiting
    <3>3. HealedOnEvidence'
      BY <2>1, <2>2, <1>a, EvidenceFound
      DEF HealedOnEvidence, HealAssertPassed, Step, Pos, Waiting
    <3> QED BY <3>1, <3>2, <3>3 DEF Evidence, Healing, Waiting
  <2>3. CASE UNCHANGED cur
    BY <2>1, <2>3, <1>4, <1>5 DEF Healing, Waiting
  <2> QED BY <1>14, <2>2, <2>3 DEF CascadeReturns
<1>15. CASE UNCHANGED vars
  BY <1>15 DEF vars, Evidence, NestedRun, HealedOnEvidence, Step, Pos
<1> QED
  BY <1>2, <1>3, <1>7, <1>8, <1>9, <1>10, <1>11, <1>12, <1>13, <1>14, <1>15
  DEF Next, HealStep, Terminated

LEMMA EvidenceInvariant == Spec => []Evidence
<1>1. Init => Evidence
  BY DEF Init, Outcome, Evidence, NestedRun, HealedOnEvidence, Healing, Waiting
<1> QED BY <1>1, EvidenceStep, BaseInvariant, PTL DEF Spec

\* A step is reported as healed with new selectors only after a nested run
\* that reached and passed every replacement, with its heal_assert holding.
THEOREM HealsHaveEvidence == Spec => []HealedOnEvidence
<1>1. Evidence => HealedOnEvidence
  BY DEF Evidence
<1> QED BY <1>1, EvidenceInvariant, PTL

-----------------------------------------------------------------------------
(* What the cache learns *)

\* A cfg is cached only by the step that heals its outer step, and only when
\* heal_assert, where there is one, held.
THEOREM CacheLearns == Spec => CacheLearnsFromHealsOnly
<1>1. ASSUME Base, [Next]_vars, cache' # cache
      PROVE  /\ cur'["outer"].status = "healed"
             /\ cur'["outer"].cause = "cascade"
             /\ Step("outer").heal_assert => heal'.held
  <2>1. PICK held \in BOOLEAN : CascadeReturns(held)
    BY <1>1
    DEF Next, RunStep, HealStep, Terminated, vars, MissingRefs, GuardFalse,
        GuardPassed, BeforeHookAborts, BeforeHooksPass, Dispatch, AfterHooksKeep,
        AfterHooksOverrule, HealIteration, GiveUp, ReplayReturns, Bridge,
        InjectionReturns, CaptureFails, AskHealer
  <2>2. HealSucceeded(results["inner"]) /\ HealAssertPassed(held)
    BY <1>1, <2>1 DEF CascadeReturns, Learn
  <2>3. Healed("cascade") /\ heal'.held = held
    BY <1>1, <2>1, <2>2 DEF CascadeReturns, HealState, Base, TypeOK
  <2> QED
    BY <1>1, <2>2, <2>3 DEF Healed, HealAssertPassed, Base, TypeOK
<1> QED BY <1>1, BaseInvariant, PTL DEF Spec, CacheLearnsFromHealsOnly

-----------------------------------------------------------------------------
(* The suggestions written to heal_suggestions.json *)

\* The entry of the current step is made in the step that heals it.
Suggesting ==
  /\ \A i \in 1..Len(results["outer"]) :
       results["outer"][i].cause \in {"cache", "cascade"} => i \in suggested
  /\ \A i \in suggested :
       \/ /\ i \in 1..Len(results["outer"])
          /\ results["outer"][i].cause \in {"cache", "cascade", "outcome"}
       \/ /\ i = Pos("outer")
          /\ pc["outer"] = "after"
          /\ cur["outer"].cause \in {"cache", "cascade"}
  /\ pc["outer"] = "after" /\ cur["outer"].cause \in {"cache", "cascade"} =>
       Pos("outer") \in suggested
  /\ suggested \subseteq acted
  /\ pc["outer"] \in Healing =>
       cur["outer"].cause \notin {"cache", "cascade"} /\ Pos("outer") \in acted

LEMMA SettleSuggesting ==
  ASSUME Base, Suggesting, NEW r \in Result, Settle("outer", r),
         UNCHANGED <<acted, cur, suggested>>,
         r.cause \in {"cache", "cascade"} => Pos("outer") \in suggested,
         Pos("outer") \in suggested => r.cause \in {"cache", "cascade", "outcome"}
  PROVE  Suggesting'
<1>1. /\ Len(results'["outer"]) = Len(results["outer"]) + 1
      /\ Len(results["outer"]) \in Nat
      /\ results'["outer"][Pos("outer")] = r
      /\ \A i \in 1..Len(results["outer"]) :
           results'["outer"][i] = results["outer"][i]
  BY DEF Settle, Pos, Base, TypeOK
<1>2. pc'["outer"] \in {"next", "done"}
  BY DEF Settle, Goto, Base, TypeOK
<1>3. Pos("outer") = Len(results["outer"]) + 1
  BY DEF Pos
<1>4. \A i \in 1..Len(results'["outer"]) :
        results'["outer"][i].cause \in {"cache", "cascade"} => i \in suggested
  BY <1>1, <1>3 DEF Suggesting
<1>5. \A i \in suggested :
        /\ i \in 1..Len(results'["outer"])
        /\ results'["outer"][i].cause \in {"cache", "cascade", "outcome"}
  BY <1>1, <1>3 DEF Suggesting
<1> QED BY <1>2, <1>4, <1>5 DEF Suggesting, Healing, Waiting

LEMMA HealedSuggesting ==
  ASSUME Base, Suggesting, pc["outer"] \in Healing, NEW cause \in {"cache", "cascade"},
         Healed(cause), UNCHANGED <<acted, results>>
  PROVE  Suggesting'
<1>1. /\ suggested' = suggested \cup {Pos("outer")}
      /\ cur'["outer"].cause = cause
      /\ pc'["outer"] = "after"
      /\ Pos("outer")' = Pos("outer")
  BY DEF Healed, Suggest, Goto, Pos, Base, TypeOK
<1>2. pc["outer"] # "after"
  BY DEF Healing, Waiting
<1> QED BY <1>1, <1>2 DEF Suggesting, Healing, Waiting

LEMMA SuggestingStep == Base /\ Suggesting /\ [Next]_vars => Suggesting'
<1> SUFFICES ASSUME Base, Suggesting, [Next]_vars PROVE Suggesting'
  OBVIOUS
<1>0. Pos("outer") = Len(results["outer"]) + 1 /\ Len(results["outer"]) \in Nat
  BY DEF Base, TypeOK, Pos
<1>1. ASSUME acted \subseteq acted', UNCHANGED suggested,
             results'["outer"] = results["outer"],
             pc["outer"] = "after" => pc'["outer"] = "after" /\ cur'["outer"] = cur["outer"],
             pc'["outer"] = "after" => pc["outer"] = "after"
                                         \/ cur'["outer"].cause \notin {"cache", "cascade"},
             pc'["outer"] \in Healing =>
               cur'["outer"].cause \notin {"cache", "cascade"} /\ Pos("outer") \in acted'
      PROVE  Suggesting'
  <2>1. Pos("outer")' = Pos("outer")
    BY <1>1 DEF Pos
  <2> QED BY <1>1, <2>1 DEF Suggesting
<1>2. pc["outer"] # "after" => Pos("outer") \notin suggested
  BY <1>0 DEF Suggesting
<1>3. CASE RunStep("outer")
  <2>1. CASE MissingRefs("outer")
    <3>1. Outcome("failed", "refs") \in Result /\ Outcome("failed", "refs").cause = "refs"
      BY OutcomeType DEF Outcome
    <3> QED BY <2>1, <3>1, <1>2, SettleSuggesting DEF MissingRefs, At
  <2>2. CASE GuardFalse("outer")
    <3>1. Outcome("skipped", "when") \in Result /\ Outcome("skipped", "when").cause = "when"
      BY OutcomeType DEF Outcome
    <3> QED BY <2>2, <3>1, <1>2, SettleSuggesting DEF GuardFalse, At
  <2>3. CASE GuardPassed("outer")
    <3>1. pc'["outer"] = "before" /\ pc["outer"] = "next"
      BY <2>3 DEF GuardPassed, At, Goto, Base, TypeOK
    <3> QED BY <2>3, <3>1, <1>1 DEF GuardPassed, Healing, Waiting
  <2>4. CASE BeforeHookAborts("outer")
    <3>1. Outcome("failed", "hook") \in Result /\ Outcome("failed", "hook").cause = "hook"
      BY OutcomeType DEF Outcome
    <3> QED BY <2>4, <3>1, <1>2, SettleSuggesting DEF BeforeHookAborts, At
  <2>5. CASE BeforeHooksPass("outer")
    <3>1. pc'["outer"] = "attempt" /\ pc["outer"] = "before"
      BY <2>5 DEF BeforeHooksPass, At, Goto, Base, TypeOK
    <3> QED BY <2>5, <3>1, <1>1 DEF BeforeHooksPass, Healing, Waiting
  <2>6. ASSUME NEW status \in {"passed", "skipped", "failed"}, Dispatch("outer", status)
        PROVE  Suggesting'
    <3>1. /\ acted' = acted \cup {Pos("outer")}
          /\ UNCHANGED <<results, suggested>>
          /\ cur'["outer"].cause = "action"
          /\ pc["outer"] = "attempt"
      BY <2>6 DEF Dispatch, At, Outcome, Base, TypeOK
    <3> QED BY <3>1, <1>1
  <2>7. CASE AfterHooksKeep("outer")
    <3>1. cur["outer"] \in Result
      BY DEF Base, TypeOK
    <3>2. /\ cur["outer"].cause \in {"cache", "cascade"} => Pos("outer") \in suggested
          /\ Pos("outer") \in suggested => cur["outer"].cause \in {"cache", "cascade"}
      BY <2>7, <1>0 DEF AfterHooksKeep, At, Suggesting
    <3> QED BY <2>7, <3>1, <3>2, SettleSuggesting DEF AfterHooksKeep
  <2>8. CASE AfterHooksOverrule("outer")
    <3> DEFINE r == [cur["outer"] EXCEPT !.status = "failed", !.cause = "outcome"]
    <3>1. r \in Result /\ r.cause = "outcome"
      BY DEF Base, TypeOK, Result
    <3>2. Settle("outer", r) /\ UNCHANGED <<acted, cur, suggested>>
      BY <2>8 DEF AfterHooksOverrule
    <3> HIDE DEF r
    <3> QED BY <3>1, <3>2, SettleSuggesting
  <2> QED
    BY <1>3, <2>1, <2>2, <2>3, <2>4, <2>5, <2>6, <2>7, <2>8 DEF RunStep
<1>4. CASE RunStep("inner")
  <2>1. pc["outer"] \in Waiting
    BY <1>4, InnerRuns
    DEF RunStep, MissingRefs, GuardFalse, GuardPassed, BeforeHookAborts,
        BeforeHooksPass, Dispatch, AfterHooksKeep, AfterHooksOverrule, At
  <2>2. /\ acted \subseteq acted'
        /\ UNCHANGED suggested
        /\ results'["outer"] = results["outer"]
        /\ pc'["outer"] = pc["outer"]
        /\ cur'["outer"] = cur["outer"]
    BY <1>4
    DEF RunStep, MissingRefs, GuardFalse, GuardPassed, BeforeHookAborts,
        BeforeHooksPass, Dispatch, AfterHooksKeep, AfterHooksOverrule, At,
        MayHeal, Settle, Goto, Base, TypeOK
  <2>3. /\ cur'["outer"].cause \notin {"cache", "cascade"}
        /\ Pos("outer") \in acted'
        /\ pc["outer"] # "after"
    BY <2>1, <2>2 DEF Suggesting, Waiting, Healing
  <2> QED BY <2>2, <2>3, <1>1
<1>5. CASE HealStep
  <2>1. /\ UNCHANGED acted
        /\ results'["outer"] = results["outer"]
        /\ pc["outer"] \in Healing
        /\ pc["outer"] # "after"
    BY <1>5, HealStepFrame DEF Healing, Waiting
  <2>2. \/ \E cause \in {"cache", "cascade"} : Healed(cause) /\ UNCHANGED results
        \/ /\ UNCHANGED suggested
           /\ UNCHANGED cur \/ cur'["outer"].cause \in {"injection", "disabled"}
    <3>1. ASSUME NEW place \in {"scroll_to", "wait"}, InjectionReturns(place)
          PROVE  /\ UNCHANGED suggested
                 /\ UNCHANGED cur \/ cur'["outer"].cause \in {"injection", "disabled"}
      BY <3>1 DEF InjectionReturns, Base, TypeOK, Result
    <3>2. ASSUME NEW held \in BOOLEAN, ReplayReturns(held) \/ CascadeReturns(held)
          PROVE  \/ \E cause \in {"cache", "cascade"} : Healed(cause) /\ UNCHANGED results
                 \/ UNCHANGED <<suggested, cur>>
      BY <3>2 DEF ReplayReturns, CascadeReturns
    <3>3. CASE \/ HealIteration \/ GiveUp \/ CaptureFails
               \/ \E answer \in {"none", "hidden", "disabled", "ok"} : Bridge(answer)
               \/ \E direct \in BOOLEAN : AskHealer(direct)
      BY <3>3 DEF HealIteration, GiveUp, CaptureFails, Bridge, AskHealer
    <3> QED BY <1>5, <3>1, <3>2, <3>3 DEF HealStep
  <2> QED BY <2>1, <2>2, <1>1, HealedSuggesting DEF Suggesting
<1>6. CASE UNCHANGED vars
  BY <1>6 DEF vars, Suggesting, Pos
<1> QED
  BY <1>3, <1>4, <1>5, <1>6 DEF Next, Terminated

LEMMA SuggestingInvariant == Spec => []Suggesting
<1>1. Init => Suggesting
  BY DEF Init, Suggesting, Healing, Waiting
<1> QED BY <1>1, SuggestingStep, BaseInvariant, PTL DEF Spec

\* heal_suggestions lists the steps that were healed with new selectors, all
\* of them and no others.
THEOREM SuggestionsAreComplete == Spec => []SuggestionsAreTheHeals
<1>1. Suggesting => SuggestionsAreTheHeals
  BY DEF Suggesting, SuggestionsAreTheHeals
<1> QED BY <1>1, SuggestingInvariant, PTL

-----------------------------------------------------------------------------
(* StepRunner implements WorkflowRun *)

\* The statuses a caller sees.
Seen == [i \in 1..Len(results["outer"]) |-> results["outer"][i].status]

LEMMA InitRefines == Init => Run!Init
<1> SUFFICES ASSUME Init PROVE Run!Init
  OBVIOUS
<1>1. PICK p \in Plans :
        /\ plan["outer"] = p
        /\ pc["outer"] = IF p = <<>> THEN "done" ELSE "next"
  BY DEF Init
<1>2. Seen = <<>>
  BY DEF Init, Seen
<1> QED BY <1>1, <1>2 DEF Run!Init, Seen

\* Settling a step of the outer runner is settling it in the abstract run.
LEMMA SettleRefines ==
  ASSUME Base, NEW r \in Result, pc["outer"] \notin {"idle", "done"},
         Settle("outer", r), UNCHANGED plan
  PROVE  Run!Next
<1> DEFINE n == Len(results["outer"])
<1>1. /\ n \in Nat
      /\ Len(results'["outer"]) = n + 1
      /\ results'["outer"][n + 1] = r
      /\ \A i \in 1..n : results'["outer"][i] = results["outer"][i]
  BY DEF Settle, Base, TypeOK
<1>2. Seen \in Seq(Status) /\ Len(Seen) = n
  <2>1. \A i \in 1..n : results["outer"][i].status \in Status
    <3>1. results["outer"] \in Seq(Result)
      BY DEF Base, TypeOK
    <3>2. \A i \in 1..n : results["outer"][i] \in Result
      BY <3>1
    <3> QED BY <3>2 DEF Result
  <2>2. Seen \in [1..n -> Status]
    BY <2>1 DEF Seen
  <2> HIDE DEF n
  <2> QED BY <1>1, <2>2
<1>3. r.status \in Status
  BY DEF Result
<1>4. Seen' = Append(Seen, r.status)
  <2>1. Append(Seen, r.status) = [i \in 1..(n + 1) |-> IF i = n + 1 THEN r.status ELSE Seen[i]]
    BY <1>1, <1>2, <1>3
  <2>2. Seen' = [i \in 1..(n + 1) |-> results'["outer"][i].status]
    BY <1>1 DEF Seen
  <2>3. \A i \in 1..(n + 1) :
          results'["outer"][i].status = IF i = n + 1 THEN r.status ELSE Seen[i]
    BY <1>1 DEF Seen
  <2> QED BY <2>1, <2>2, <2>3
<1>5. (pc'["outer"] = "done") <=> (Run!Stops(r.status) \/ n + 1 = Len(plan["outer"]))
  <2>1. Len(Seen) + 1 = Pos("outer") /\ Pos("outer") = n + 1
    BY <1>2 DEF Pos
  <2>2. Run!Stops(r.status) <=> HardStop("outer", r.status)
    BY <2>1 DEF Run!Stops, HardStop, Step, Seen
  <2> QED BY <2>1, <2>2 DEF Settle, Goto, Base, TypeOK
<1>6. Run!Settle(r.status)
  BY <1>2, <1>4, <1>5 DEF Run!Settle, Seen
<1> QED BY <1>3, <1>6 DEF Run!Next, Run!Statuses

LEMMA NextRefines == Base /\ [Next]_vars => [Run!Next]_(Run!vars)
<1> SUFFICES ASSUME Base, [Next]_vars PROVE [Run!Next]_(Run!vars)
  OBVIOUS
<1>1. ASSUME plan'["outer"] = plan["outer"],
             results'["outer"] = results["outer"],
             (pc["outer"] # "done" /\ pc'["outer"] # "done") \/ UNCHANGED pc
      PROVE  UNCHANGED Run!vars
  BY <1>1 DEF Run!vars
<1>2. ASSUME NEW l \in Level, NEW r \in Result, Settle(l, r), At(l, pc[l]),
             pc[l] \notin {"idle", "done"}, UNCHANGED plan
      PROVE  [Run!Next]_(Run!vars)
  <2>1. CASE l = "outer"
    BY <1>2, <2>1, SettleRefines
  <2>2. CASE l = "inner"
    <3>1. pc["outer"] \in Waiting
      BY <1>2, <2>2, InnerRuns DEF At
    <3>2. results'["outer"] = results["outer"] /\ pc'["outer"] = pc["outer"]
      BY <1>2, <2>2 DEF Settle, Goto, Base, TypeOK
    <3> QED BY <1>1, <1>2, <3>1, <3>2 DEF Waiting
  <2> QED BY <2>1, <2>2
<1>3. ASSUME NEW l \in Level, RunStep(l) PROVE [Run!Next]_(Run!vars)
  <2>1. CASE MissingRefs(l)
    BY <2>1, <1>2, OutcomeType DEF MissingRefs, At
  <2>2. CASE GuardFalse(l)
    BY <2>2, <1>2, OutcomeType DEF GuardFalse, At
  <2>3. CASE BeforeHookAborts(l)
    BY <2>3, <1>2, OutcomeType DEF BeforeHookAborts, At
  <2>4. CASE AfterHooksKeep(l)
    BY <2>4, <1>2 DEF AfterHooksKeep, At, Base, TypeOK
  <2>5. CASE AfterHooksOverrule(l)
    <3> DEFINE r == [cur[l] EXCEPT !.status = "failed", !.cause = "outcome"]
    <3>1. r \in Result
      BY DEF Base, TypeOK, Result
    <3>2. Settle(l, r) /\ UNCHANGED plan /\ At(l, pc[l]) /\ pc[l] = "after"
      BY <2>5 DEF AfterHooksOverrule, At
    <3> HIDE DEF r
    <3> QED BY <3>1, <3>2, <1>2
  <2>6. CASE GuardPassed(l) \/ BeforeHooksPass(l)
             \/ \E status \in {"passed", "skipped", "failed"} : Dispatch(l, status)
    <3>1. /\ UNCHANGED <<plan, results>>
          /\ \/ UNCHANGED pc
             \/ pc[l] # "done" /\ \E place \in Place \ {"done"} :
                                    pc' = [pc EXCEPT ![l] = place]
      BY <2>6 DEF GuardPassed, BeforeHooksPass, Dispatch, At, Goto
    <3>2. l = "inner" => pc["outer"] # "done"
      BY <2>6, InnerRuns DEF GuardPassed, BeforeHooksPass, Dispatch, At, Waiting
    <3> QED BY <3>1, <3>2, <1>1 DEF Base, TypeOK
  <2> QED BY <1>3, <2>1, <2>2, <2>3, <2>4, <2>5, <2>6 DEF RunStep
<1>4. CASE HealStep
  <2>1. /\ plan'["outer"] = plan["outer"]
        /\ results'["outer"] = results["outer"]
        /\ pc["outer"] \in Healing /\ pc'["outer"] \in {"after"} \cup Healing
    BY <1>4, HealStepFrame
  <2> QED BY <2>1, <1>1 DEF Healing, Waiting
<1>5. CASE UNCHANGED vars
  BY <1>1, <1>5 DEF vars
<1> QED BY <1>3, <1>4, <1>5 DEF Next, Terminated

\* Whatever hooks, retries and heals do in between, run() settles its steps
\* one by one, in order, for good, and stops at the first hard failure.
THEOREM RefinesWorkflowRun == Spec => ImplementsWorkflowRun
<1> QED
  BY InitRefines, NextRefines, BaseInvariant, PTL
  DEF Spec, ImplementsWorkflowRun, Run!Spec

=============================================================================
