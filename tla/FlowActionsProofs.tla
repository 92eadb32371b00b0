------------------------- MODULE FlowActionsProofs -------------------------
(***************************************************************************)
(* Proofs about FlowActions, for all batches, flow steps, attempts and     *)
(* page sizes.  The invariants of the parallel step and of the flow step   *)
(* are inductive apart: the two share nothing but the context, of which    *)
(* both only need the type.                                                *)
(***************************************************************************)
EXTENDS FlowActions, FiniteSetTheorems, SequenceTheorems, TLAPS

USE DEF Statuses, FlowKinds, Places, How, Modes, Stages, TaskResults, Turns, Keys

-----------------------------------------------------------------------------
(* The context *)

LEMMA EmptyContextType == EmptyContext \in Context
BY EmptySeq DEF EmptyContext, Context

LEMMA RowsType ==
  ASSUME NEW n \in Nat, NEW src \in Sources
  PROVE  /\ [i \in 1..n |-> src] \in Seq(Sources)
         /\ Len([i \in 1..n |-> src]) = n
<1>1. [i \in 1..n |-> src] \in [1..n -> Sources]
  OBVIOUS
<1>2. [i \in 1..n |-> src] \in Seq(Sources)
  BY <1>1, IsASeq
<1> QED BY <1>2, LenProperties

LEMMA UptoBounds ==
  ASSUME NEW n \in Nat, NEW limit \in Nat
  PROVE  Upto(n, limit) \in Nat /\ Upto(n, limit) <= limit /\ Upto(n, limit) <= n
BY DEF Upto

\* What extract_data answers, whatever its configuration: a context, and under
\* extracted_data no more rows than it was to take.
LEMMA ExtractDataAnswers ==
  ASSUME NEW c \in Context, NEW cfg \in ExtractConfig, NEW src \in Sources,
         NEW a \in ExtractData(c, cfg, src)
  PROVE  /\ a.status \in {"passed", "failed"}
         /\ a.ctx \in Context
         /\ (a.status = "passed" /\ cfg.key = "extracted_data")
              => Len(a.ctx.extracted) <= cfg.limit
<1>1. CASE a = [status |-> "failed", ctx |-> c]
  BY <1>1
<1>2. CASE \E n \in Nat : a = [status |-> "passed",
                               ctx |-> Stored(c, cfg.key, [i \in 1..Upto(n, cfg.limit) |-> src])]
  <2>1. PICK n \in Nat : a = [status |-> "passed",
                              ctx |-> Stored(c, cfg.key, [i \in 1..Upto(n, cfg.limit) |-> src])]
    BY <1>2
  <2> DEFINE rows == [i \in 1..Upto(n, cfg.limit) |-> src]
  <2>2. cfg.limit \in Nat /\ cfg.key \in Keys
    BY DEF ExtractConfig
  <2>3. Upto(n, cfg.limit) \in Nat /\ Upto(n, cfg.limit) <= cfg.limit
    BY <2>2, UptoBounds
  <2>4. rows \in Seq(Sources) /\ Len(rows) <= cfg.limit
    BY <2>3, RowsType
  <2> HIDE DEF rows
  <2>5. Stored(c, cfg.key, rows) \in Context
    BY <2>4 DEF Stored, Context
  <2>6. cfg.key = "extracted_data" => Stored(c, cfg.key, rows).extracted = rows
    BY DEF Stored, Context
  <2> QED BY <2>1, <2>4, <2>5, <2>6 DEF rows
<1>3. a = [status |-> "failed", ctx |-> c]
      \/ \E n \in Nat : a = [status |-> "passed",
                             ctx |-> Stored(c, cfg.key, [i \in 1..Upto(n, cfg.limit) |-> src])]
  BY ContextAssumption DEF ExtractData
<1> QED BY <1>1, <1>2, <1>3

LEMMA LoadTestDataAnswers ==
  ASSUME NEW c \in Context, NEW src \in Sources, NEW a \in LoadTestData(c, src)
  PROVE  a.status \in {"passed", "failed", "raised"} /\ a.ctx \in Context
<1>1. CASE \E s \in {"failed", "raised"} : a = [status |-> s, ctx |-> c]
  BY <1>1
<1>2. CASE \E n \in 0..MaxFound : a = [status |-> "passed",
                                       ctx |-> [c EXCEPT !.collected = [i \in 1..n |-> src]]]
  <2>1. PICK n \in 0..MaxFound : a = [status |-> "passed",
                                      ctx |-> [c EXCEPT !.collected = [i \in 1..n |-> src]]]
    BY <1>2
  <2>2. [i \in 1..n |-> src] \in Seq(Sources)
    BY RowsType, ContextAssumption
  <2> QED BY <2>1, <2>2 DEF Context
<1> QED BY <1>1, <1>2 DEF LoadTestData

-----------------------------------------------------------------------------
(* The parallel step *)

LEMMA ParallelInitType ==
  ASSUME ParallelInit
  PROVE  BatchTypeOK
BY BatchAssumption DEF ParallelInit, BatchTypeOK, Idle

LEMMA ConcludeType ==
  ASSUME BatchTypeOK, NEW result \in {"passed", "failed"}, Conclude(result)
  PROVE  /\ attempt' \in 1..MaxAttempts
         /\ gather' \in {"gate", "settled"}
         /\ answer' = result
         /\ \/ gather' = "settled" /\ attempt' = attempt
            \/ gather' = "gate" /\ attempt' = attempt + 1 /\ result = "failed"
BY BatchAssumption DEF BatchTypeOK, Conclude

LEMMA VerdictType ==
  ASSUME NEW results
  PROVE  Verdict(results) \in {"passed", "failed"}
BY DEF Verdict

LEMMA RunnerType ==
  ASSUME BatchTypeOK, Runner
  PROVE  BatchTypeOK' /\ UNCHANGED ctx
<1>1. CASE GateRefuses
  BY <1>1, ConcludeType DEF GateRefuses, BatchTypeOK
<1>2. CASE StartAll
  BY <1>2 DEF StartAll, BatchTypeOK, Idle
<1>3. CASE GatherRaises
  BY <1>3, ConcludeType DEF GatherRaises, BatchTypeOK
<1>4. CASE GatherReturns
  <2>1. Verdict({tasks[id].result : id \in Current}) \in {"passed", "failed"}
    BY VerdictType
  <2> QED BY <1>4, <2>1, ConcludeType DEF GatherReturns, BatchTypeOK
<1> QED BY <1>1, <1>2, <1>3, <1>4 DEF Runner

\* What a task does: nothing to the step and to the other tasks; it ends only
\* after it had a tab, and releases it only with a result.
TaskEffect(id) ==
  /\ UNCHANGED <<batch, attempt, gather, answer>>
  /\ \A other \in Ids : other # id => tasks'[other] = tasks[other]
  /\ tasks[id].stage \in {"opening", "acting", "releasing"}
  /\ tasks'[id].stage \in {"acting", "raised", "releasing", "closed", "leaked"}
  /\ tasks'[id].stage \in {"releasing", "closed"} =>
       \/ tasks[id].stage = "acting" /\ tasks'[id].result # "none"
       \/ tasks[id].stage = "releasing" /\ tasks'[id].result = tasks[id].result

LEMMA TaskStep ==
  ASSUME BatchTypeOK, ctx \in Context, NEW id \in Ids, Task(id)
  PROVE  BatchTypeOK' /\ ctx' \in Context /\ TaskEffect(id)
<1>1. CASE TabOpens(id)
  BY <1>1 DEF TabOpens, BatchTypeOK, TaskEffect
<1>2. CASE TabFailsToOpen(id)
  BY <1>2 DEF TabFailsToOpen, BatchTypeOK, TaskEffect
<1>3. CASE \E status \in TaskResults \ {"none"} : Acts(id, status)
  <2>1. PICK status \in TaskResults \ {"none"} : Acts(id, status)
    BY <1>3
  <2>2. ctx' \in Context
    <3>1. CASE batch.subs[id[2]] = "extracts"
      <4> DEFINE cfg == [selector |-> TRUE, key |-> "extracted_data", limit |-> MaxFound]
      <4>1. cfg \in ExtractConfig /\ "tab" \in Sources
        BY ContextAssumption DEF ExtractConfig
      <4>2. PICK out \in ExtractData(ctx, cfg, "tab") : ctx' = out.ctx
        BY <2>1, <3>1 DEF Acts
      <4> HIDE DEF cfg
      <4> QED BY <4>1, <4>2, ExtractDataAnswers
    <3>2. CASE batch.subs[id[2]] # "extracts"
      BY <2>1, <3>2 DEF Acts
    <3> QED BY <3>1, <3>2
  <2> QED BY <2>1, <2>2 DEF Acts, BatchTypeOK, TaskEffect
<1>4. CASE \E end \in {"closed", "leaked"} : Releases(id, end)
  <2>1. PICK end \in {"closed", "leaked"} : Releases(id, end)
    BY <1>4
  <2> QED BY <2>1 DEF Releases, BatchTypeOK, TaskEffect
<1> QED BY <1>1, <1>2, <1>3, <1>4 DEF Task

\* Only tasks of the batch are ever started, in this attempt or an earlier one;
\* a task that releases or has released its tab has a result; and an attempt
\* is answered when its tasks have ended, or one of them has raised.
TasksInOrder ==
  /\ \A id \in Ids : tasks[id].stage # "none" =>
       /\ id[2] <= Len(batch.subs)
       /\ id[1] <= attempt
       /\ gather = "gate" => id[1] < attempt
  /\ \A id \in Ids : tasks[id].stage \in {"releasing", "closed"} => tasks[id].result # "none"
  /\ answer = "passed" => gather = "settled"

LEMMA CurrentIds ==
  ASSUME BatchTypeOK
  PROVE  /\ Len(batch.subs) \in Nat
         /\ Current \subseteq Ids
         /\ \A id \in Ids : id \in Current <=> (id[1] = attempt /\ id[2] <= Len(batch.subs))
<1>1. batch.subs \in Batches /\ batch.subs \in Seq(BatchKinds)
  BY BatchAssumption DEF BatchTypeOK
<1>2. Len(batch.subs) \in Nat /\ Len(batch.subs) <= Width /\ Width \in Nat
  BY <1>1, WidthAssumption
<1>3. attempt \in 1..MaxAttempts /\ MaxAttempts \in Nat
  BY BatchAssumption DEF BatchTypeOK
<1> QED BY <1>2, <1>3 DEF Current, Ids

ParallelInv == TasksInOrder /\ PassedMeansAllPassed /\ StragglersHaveACause

LEMMA ParallelInitInv ==
  ASSUME ParallelInit
  PROVE  ParallelInv
BY DEF ParallelInit, ParallelInv, TasksInOrder, PassedMeansAllPassed, StragglersHaveACause, Idle

LEMMA RunnerKeepsInv ==
  ASSUME BatchTypeOK, ParallelInv, Runner
  PROVE  ParallelInv'
<1> USE DEF ParallelInv
<1>0. /\ attempt \in 1..MaxAttempts /\ MaxAttempts \in Nat
      /\ \A id \in Ids : id[1] \in Nat /\ id[2] \in Nat
  BY BatchAssumption DEF BatchTypeOK, Ids
<1>1. CASE GateRefuses
  <2>1. Conclude("failed") /\ UNCHANGED <<batch, tasks>> /\ gather = "gate"
    BY <1>1 DEF GateRefuses
  <2>2. TasksInOrder'
    BY <1>0, <2>1, ConcludeType DEF TasksInOrder
  <2>3. PassedMeansAllPassed'
    BY <2>1, ConcludeType DEF PassedMeansAllPassed
  <2>4. StragglersHaveACause'
    BY <1>0, <2>1, ConcludeType DEF StragglersHaveACause, TasksInOrder, Raised, Ended
  <2> QED BY <2>2, <2>3, <2>4
<1>2. CASE StartAll
  <2>1. UNCHANGED <<batch, attempt, answer>> /\ gather = "gate" /\ gather' = "running"
    BY <1>2 DEF StartAll
  <2>2. \A id \in Ids :
          tasks'[id] = IF id \in Current THEN [stage |-> "opening", result |-> "none"] ELSE tasks[id]
    BY <1>2 DEF StartAll, Idle
  <2>3. TasksInOrder'
    BY <1>0, <2>1, <2>2, CurrentIds DEF TasksInOrder
  <2>4. PassedMeansAllPassed'
    BY <2>1 DEF PassedMeansAllPassed, TasksInOrder
  <2>5. StragglersHaveACause'
    BY <1>0, <2>1, <2>2, CurrentIds DEF StragglersHaveACause, TasksInOrder, Raised, Ended
  <2> QED BY <2>3, <2>4, <2>5
<1>3. CASE GatherRaises
  <2>1. Conclude("failed") /\ UNCHANGED <<batch, tasks>> /\ gather = "running"
    BY <1>3 DEF GatherRaises
  <2>2. PICK raised \in Current : Raised(raised)
    BY <1>3 DEF GatherRaises
  <2>3. TasksInOrder'
    BY <1>0, <2>1, ConcludeType DEF TasksInOrder
  <2>4. PassedMeansAllPassed'
    BY <2>1, ConcludeType DEF PassedMeansAllPassed
  <2>5. raised \in Ids /\ raised[1] = attempt
    BY CurrentIds
  <2>6. StragglersHaveACause'
    BY <1>0, <2>1, <2>2, <2>5, ConcludeType DEF StragglersHaveACause, TasksInOrder, Raised, Ended
  <2> QED BY <2>3, <2>4, <2>6
<1>4. CASE GatherReturns
  <2> DEFINE result == Verdict({tasks[id].result : id \in Current})
  <2>1. Conclude(result) /\ UNCHANGED <<batch, tasks>> /\ gather = "running"
    BY <1>4 DEF GatherReturns
  <2>2. result \in {"passed", "failed"}
    BY VerdictType
  <2>3. result = "passed" => \A id \in Current : tasks[id].result # "failed"
    BY DEF Verdict
  <2>4. \A id \in Current : Ended(id) /\ ~Raised(id)
    BY <1>4 DEF GatherReturns
  <2> HIDE DEF result
  <2>5. TasksInOrder'
    BY <1>0, <2>1, <2>2, ConcludeType DEF TasksInOrder
  <2>6. PassedMeansAllPassed'
    <3>1. SUFFICES ASSUME answer' = "passed", NEW id \in Current'
                   PROVE  tasks'[id].stage = "closed" /\ tasks'[id].result \in {"passed", "skipped"}
      BY DEF PassedMeansAllPassed
    <3>2. result = "passed" /\ attempt' = attempt
      BY <2>1, <2>2, <3>1, ConcludeType
    <3>3. id \in Current /\ id \in Ids
      BY <2>1, <3>1, <3>2, CurrentIds DEF Current
    <3>4. tasks[id].stage = "closed" /\ tasks[id].result \in TaskResults
      BY <2>4, <3>3 DEF Ended, Raised, BatchTypeOK
    <3> QED BY <2>1, <2>3, <3>2, <3>3, <3>4 DEF TasksInOrder
  <2>7. StragglersHaveACause'
    <3>1. \A id \in Ids : (~Ended(id) /\ tasks[id].stage # "none") => id[1] < attempt
      BY <1>0, <2>4, CurrentIds DEF TasksInOrder
    <3> QED BY <1>0, <2>1, <2>2, <3>1, ConcludeType DEF StragglersHaveACause, Raised, Ended
  <2> QED BY <2>5, <2>6, <2>7
<1> QED BY <1>1, <1>2, <1>3, <1>4 DEF Runner

LEMMA TaskKeepsInv ==
  ASSUME BatchTypeOK, ParallelInv, NEW id \in Ids, TaskEffect(id)
  PROVE  ParallelInv'
<1> USE DEF ParallelInv
<1>1. /\ UNCHANGED <<batch, attempt, gather, answer>>
      /\ \A other \in Ids : other # id => tasks'[other] = tasks[other]
      /\ tasks[id].stage \in {"opening", "acting", "releasing"}
  BY DEF TaskEffect
<1>2. TasksInOrder'
  BY <1>1 DEF TaskEffect, TasksInOrder
<1>3. PassedMeansAllPassed'
  <2>1. SUFFICES ASSUME answer = "passed", NEW other \in Current
                 PROVE  /\ tasks'[other].stage = "closed"
                        /\ tasks'[other].result \in {"passed", "skipped"}
    BY <1>1 DEF PassedMeansAllPassed, Current
  <2>2. /\ tasks[other].stage = "closed"
        /\ tasks[other].result \in {"passed", "skipped"}
    BY <2>1 DEF PassedMeansAllPassed
  <2>3. other \in Ids /\ other # id
    BY <1>1, <2>2, CurrentIds
  <2> QED BY <1>1, <2>2, <2>3
<1>4. StragglersHaveACause'
  <2>1. \A other \in Ids : Raised(other) => Raised(other)'
    BY <1>1 DEF Raised
  <2> QED BY <1>1, <2>1 DEF StragglersHaveACause, TaskEffect, Ended
<1> QED BY <1>2, <1>3, <1>4

-----------------------------------------------------------------------------
(* The flow step: types and places *)

\* A loop is only where its kind may be; the log is empty before the first
\* sub-step is dispatched; the step has its result when it is done.
FlowControl ==
  /\ settled # "none" => place = "done"
  /\ place = "check" => step.kind = "ensure_login"
  /\ place \in {"page", "turn"} => step.kind = "paginate"
  /\ place = "return" => step.kind = "for_each_item"
  /\ place \in {"dispatch", "results"} => step.kind # "paginate"
  /\ place \in {"start", "check", "page", "turn"} => log = << >>
  /\ frame.next >= 1 /\ frame.round >= 1
  /\ place = "start" => frame = NewFrame
  /\ place = "return" => frame.next = 1 /\ frame.got = << >>

FlowBase == FlowTypeOK /\ FlowControl

LEMMA NewFrameType == NewFrame \in Frame
BY EmptySeq DEF NewFrame, Frame

LEMMA SubInitType ==
  ASSUME SubInit
  PROVE  FlowBase
<1>1. FlowTypeOK
  BY NewFrameType, EmptySeq DEF SubInit, FlowTypeOK
<1>2. FlowControl
  BY DEF SubInit, FlowControl, NewFrame
<1> QED BY <1>1, <1>2 DEF FlowBase

LEMMA StepType ==
  ASSUME FlowTypeOK
  PROVE  /\ step \in FlowStep
         /\ step.kind \in FlowKinds /\ step.subs \in Seq(SubStep) /\ step.extract \in ExtractConfig
         /\ step.max_items \in Nat /\ step.max_pages \in Nat
BY FlowAssumption DEF FlowTypeOK, FlowStep

LEMMA AnswersType ==
  ASSUME FlowBase, ctx \in Context, AtSub, NEW a \in AnswersOf(Sub)
  PROVE  a.status \in Statuses /\ a.ctx \in Context
<1>1. Sub \in SubStep
  <2>1. frame.next \in 1..Len(step.subs)
    BY DEF FlowBase, FlowTypeOK, FlowControl, Frame, AtSub
  <2> QED BY <2>1, StepType DEF Sub, FlowBase
<1>2. step.extract \in ExtractConfig /\ "step" \in Sources
  BY StepType, ContextAssumption DEF FlowBase
<1>3. CASE Sub.does = "page"
  BY <1>3 DEF AnswersOf
<1>4. CASE Sub.does = "extract_data"
  BY <1>2, <1>4, ExtractDataAnswers DEF AnswersOf
<1>5. CASE Sub.does = "load_test_data"
  BY <1>2, <1>5, LoadTestDataAnswers DEF AnswersOf
<1> QED BY <1>1, <1>3, <1>4, <1>5 DEF SubStep

LEMMA NotedType ==
  ASSUME FlowTypeOK, NEW how \in How, Noted(how)
  PROVE  /\ log' \in Seq(Nat \X Nat \X How)
         /\ Len(log') = Len(log) + 1
         /\ \A i \in DOMAIN log : i \in DOMAIN log' /\ log'[i] = log[i]
         /\ \A i \in DOMAIN log' : i \in DOMAIN log \/ i = Len(log) + 1
         /\ Len(log) + 1 \in DOMAIN log'
         /\ log'[Len(log) + 1] = <<frame.round, frame.next, how>>
<1>1. <<frame.round, frame.next, how>> \in Nat \X Nat \X How
  BY DEF FlowTypeOK, Frame
<1>2. log \in Seq(Nat \X Nat \X How)
  BY DEF FlowTypeOK
<1> QED BY <1>1, <1>2, AppendProperties DEF Noted

LEMMA WantedType ==
  ASSUME FlowTypeOK, HasRoom
  PROVE  /\ Wanted \in ExtractConfig
         /\ Wanted.limit <= step.max_items - Len(frame.rows)
         /\ Wanted.key = step.extract.key
<1>1. frame.rows \in Seq(Sources) /\ Len(frame.rows) \in Nat
  BY DEF FlowTypeOK, Frame
<1>2. step.max_items - Len(frame.rows) \in Nat
  BY <1>1, StepType DEF HasRoom
<1>3. step.extract.limit \in Nat
  BY StepType DEF ExtractConfig
<1>4. /\ Upto(step.extract.limit, step.max_items - Len(frame.rows)) \in Nat
      /\ Upto(step.extract.limit, step.max_items - Len(frame.rows)) <= step.max_items - Len(frame.rows)
  BY <1>2, <1>3, UptoBounds
<1> QED BY <1>4, StepType DEF Wanted, ExtractConfig

LEMMA FailedCount ==
  ASSUME NEW got \in Seq(Statuses)
  PROVE  /\ Cardinality(FailedOf(got)) \in Nat
         /\ (Cardinality(FailedOf(got)) = 0) <=> (FailedOf(got) = {})
<1>1. IsFiniteSet(1..Len(got)) /\ FailedOf(got) \subseteq 1..Len(got)
  BY FS_Interval DEF FailedOf
<1>2. IsFiniteSet(FailedOf(got))
  BY <1>1, FS_Subset
<1> QED BY <1>2, FS_CardinalityType, FS_EmptySet

\* The frame after one of its sub-steps.
LEMMA FrameType ==
  ASSUME FlowBase
  PROVE  /\ frame.items \in Nat /\ frame.round \in Nat /\ frame.next \in Nat /\ frame.page \in Nat
         /\ frame.got \in Seq(Statuses) /\ frame.failures \in Seq(Nat) /\ frame.rows \in Seq(Sources)
         /\ DOMAIN frame = {"items", "round", "next", "got", "failures", "page", "rows"}
BY DEF FlowBase, FlowTypeOK, Frame

LEMMA SubSkippedType ==
  ASSUME FlowBase, step.kind # "paginate", SubSkipped
  PROVE  FlowBase'
<1>1. log' \in Seq(Nat \X Nat \X How)
  BY NotedType DEF SubSkipped, FlowBase
<1>2. frame' = [items |-> frame.items, round |-> frame.round, next |-> frame.next + 1,
                got |-> frame.got, failures |-> frame.failures,
                page |-> frame.page, rows |-> frame.rows]
  BY DEF SubSkipped, FlowBase, FlowTypeOK, Frame
<1>3. frame' \in Frame
  BY <1>2, FrameType DEF Frame
<1>4. FlowTypeOK'
  BY <1>1, <1>3 DEF SubSkipped, GoTo, FlowBase, FlowTypeOK
<1>5. FlowControl'
  BY <1>2, FrameType DEF SubSkipped, AtSub, GoTo, FlowBase, FlowControl
<1> QED BY <1>4, <1>5 DEF FlowBase

\* The frame when the loop goes on to the next item.
LEMMA NextRoundType ==
  ASSUME FlowBase, NEW failures \in Seq(Nat),
         frame' = [frame EXCEPT !.failures = failures, !.round = @ + 1, !.next = 1, !.got = << >>]
  PROVE  /\ frame' \in Frame
         /\ frame'.next = 1 /\ frame'.got = << >>
         /\ frame'.round = frame.round + 1 /\ frame'.round >= 1
         /\ frame'.failures = failures
         /\ frame'.items = frame.items /\ frame'.page = frame.page /\ frame'.rows = frame.rows
<1>1. frame \in Frame /\ frame.round \in Nat /\ << >> \in Seq(Statuses)
  BY FrameType, EmptySeq DEF FlowBase, FlowTypeOK
<1>2. frame' = [items |-> frame.items, round |-> frame.round + 1, next |-> 1, got |-> << >>,
                failures |-> failures, page |-> frame.page, rows |-> frame.rows]
  BY <1>1 DEF Frame
<1>3. frame.round + 1 \in Nat /\ 1 \in Nat /\ frame.round + 1 >= 1
  BY <1>1
<1>4. [items |-> frame.items, round |-> frame.round + 1, next |-> 1, got |-> << >>,
       failures |-> failures, page |-> frame.page, rows |-> frame.rows] \in Frame
  BY <1>1, <1>3, FrameType DEF Frame
<1> QED BY <1>2, <1>3, <1>4

\* An item's failures are added to those to be reported.
LEMMA ItemDoneFrame ==
  ASSUME FlowBase, ItemDone
  PROVE  /\ frame' \in Frame
         /\ frame'.next = 1 /\ frame'.got = << >>
         /\ frame'.round = frame.round + 1 /\ frame'.round >= 1
         /\ frame'.items = frame.items /\ frame'.page = frame.page /\ frame'.rows = frame.rows
         /\ (frame'.failures = << >>) => (frame.failures = << >> /\ FailedOf(frame.got) = {})
<1>1. frame.got \in Seq(Statuses) /\ frame.failures \in Seq(Nat) /\ frame.round \in Nat
  BY FrameType
<1> DEFINE n == Cardinality(FailedOf(frame.got))
           more == [i \in 1..n |-> frame.round]
           failures == frame.failures \o more
<1>2. n \in Nat /\ (n = 0 <=> FailedOf(frame.got) = {})
  BY <1>1, FailedCount
<1>3. frame' = [frame EXCEPT !.failures = failures, !.round = @ + 1, !.next = 1, !.got = << >>]
  BY DEF ItemDone
<1> HIDE DEF n
<1>4. more \in Seq(Nat) /\ Len(more) = n
  <2>1. more \in [1..n -> Nat]
    BY <1>1
  <2> QED BY <1>2, <2>1, IsASeq, LenProperties
<1> HIDE DEF more
<1>5. failures \in Seq(Nat) /\ Len(failures) = Len(frame.failures) + n
  BY <1>1, <1>4, ConcatProperties
<1>6. (failures = << >>) => (frame.failures = << >> /\ n = 0)
  BY <1>1, <1>2, <1>5, EmptySeq
<1> HIDE DEF failures
<1> QED BY <1>2, <1>3, <1>5, <1>6, NextRoundType

LEMMA SubRaisesType ==
  ASSUME FlowBase, step.kind \in {"for_each_item", "ensure_login"}, SubRaises
  PROVE  FlowBase'
<1>1. log' \in Seq(Nat \X Nat \X How)
  BY NotedType DEF SubRaises, FlowBase
<1>2. Append(frame.failures, frame.round) \in Seq(Nat)
  BY FrameType, AppendProperties
<1>3. CASE step.kind = "for_each_item"
  <2>1. frame' = [frame EXCEPT !.failures = Append(@, frame.round), !.round = @ + 1,
                               !.next = 1, !.got = << >>]
    BY <1>3 DEF SubRaises
  <2>2. frame' \in Frame /\ frame'.next = 1 /\ frame'.got = << >> /\ frame'.round >= 1
    BY <1>2, <2>1, NextRoundType
  <2>3. place' = "return" /\ UNCHANGED <<step, settled>>
    BY <1>3 DEF SubRaises, GoTo
  <2> QED BY <1>1, <1>3, <2>2, <2>3 DEF SubRaises, AtSub, FlowBase, FlowTypeOK, FlowControl
<1>4. CASE step.kind = "ensure_login"
  BY <1>1, <1>4 DEF SubRaises, AtSub, FlowBase, FlowTypeOK, FlowControl
<1> QED BY <1>3, <1>4

\* What a sub-step that returns a status does to the frame.
LEMMA GotType ==
  ASSUME FlowBase, NEW status \in Statuses,
         frame' = [frame EXCEPT !.got = Append(@, status), !.next = @ + 1]
  PROVE  /\ frame' \in Frame
         /\ frame'.next = frame.next + 1 /\ frame'.round = frame.round
         /\ frame'.got = Append(frame.got, status)
         /\ frame'.items = frame.items /\ frame'.failures = frame.failures
         /\ frame'.page = frame.page /\ frame'.rows = frame.rows
<1>1. Append(frame.got, status) \in Seq(Statuses)
  BY FrameType, AppendProperties
<1>2. frame' = [items |-> frame.items, round |-> frame.round, next |-> frame.next + 1,
                got |-> Append(frame.got, status), failures |-> frame.failures,
                page |-> frame.page, rows |-> frame.rows]
  BY DEF FlowBase, FlowTypeOK, Frame
<1>3. [items |-> frame.items, round |-> frame.round, next |-> frame.next + 1,
       got |-> Append(frame.got, status), failures |-> frame.failures,
       page |-> frame.page, rows |-> frame.rows] \in Frame
  BY <1>1, FrameType DEF Frame
<1> QED BY <1>2, <1>3

LEMMA SubReturnsType ==
  ASSUME FlowBase, ctx \in Context, step.kind # "paginate", SubReturns
  PROVE  FlowBase' /\ ctx' \in Context
<1>1. PICK a \in AnswersOf(Sub) :
        /\ Noted(a.status)
        /\ ctx' = a.ctx
        /\ frame' = [frame EXCEPT !.got = Append(@, a.status), !.next = @ + 1]
        /\ GoTo(IF Stops /\ a.status # "passed" THEN "results" ELSE "dispatch")
  BY DEF SubReturns
<1>2. AtSub
  BY DEF SubReturns
<1>3. a.status \in Statuses /\ a.ctx \in Context
  BY <1>2, AnswersType
<1>4. log' \in Seq(Nat \X Nat \X How)
  BY <1>1, <1>3, NotedType DEF FlowBase
<1>5. frame' \in Frame /\ frame'.next = frame.next + 1 /\ frame'.round = frame.round
  BY <1>1, <1>3, GotType
<1>6. place' \in {"dispatch", "results"} /\ UNCHANGED <<step, settled>>
  BY <1>1 DEF GoTo
<1>7. FlowTypeOK'
  BY <1>4, <1>5, <1>6 DEF FlowBase, FlowTypeOK
<1>8. FlowControl'
  BY <1>2, <1>5, <1>6, FrameType DEF AtSub, FlowBase, FlowControl
<1> QED BY <1>1, <1>3, <1>7, <1>8 DEF FlowBase

LEMMA SubflowStepType ==
  ASSUME FlowBase, step.kind = "run_workflow", NEW status \in Statuses, SubflowStep(status)
  PROVE  FlowBase'
<1>1. log' \in Seq(Nat \X Nat \X How)
  BY NotedType DEF SubflowStep, FlowBase
<1>2. frame' \in Frame /\ frame'.next = frame.next + 1 /\ frame'.round = frame.round
  BY GotType DEF SubflowStep
<1>3. place' \in {"dispatch", "results"} /\ UNCHANGED <<step, settled>>
  BY DEF SubflowStep, GoTo
<1>4. FlowTypeOK'
  BY <1>1, <1>2, <1>3 DEF FlowBase, FlowTypeOK
<1>5. FlowControl'
  BY <1>2, <1>3, FrameType DEF SubflowStep, AtSub, FlowBase, FlowControl
<1> QED BY <1>4, <1>5 DEF FlowBase

LEMMA DispatchType ==
  ASSUME FlowBase, ctx \in Context, Dispatch
  PROVE  FlowBase' /\ ctx' \in Context
<1>1. CASE step.kind \in {"for_each_item", "ensure_login"} /\ SubSkipped
  BY <1>1, SubSkippedType DEF SubSkipped
<1>2. CASE step.kind \in {"for_each_item", "ensure_login"} /\ SubRaises
  BY <1>2, SubRaisesType DEF SubRaises
<1>3. CASE step.kind \in {"for_each_item", "ensure_login"} /\ SubReturns
  BY <1>3, SubReturnsType
<1>4. CASE step.kind = "run_workflow" /\ \E status \in Statuses : SubflowStep(status)
  BY <1>4, SubflowStepType DEF SubflowStep
<1>5. CASE SubsDone
  BY <1>5 DEF SubsDone, GoTo, FlowBase, FlowTypeOK, FlowControl
<1> QED BY <1>1, <1>2, <1>3, <1>4, <1>5 DEF Dispatch

LEMMA ForEachType ==
  ASSUME FlowBase, ctx \in Context, ForEachStarts \/ NextItem \/ ItemDone
  PROVE  FlowBase' /\ UNCHANGED ctx
<1>1. CASE ForEachStarts
  <2>1. PICK n \in (IF ctx.collected = << >> THEN 0..MaxFound ELSE {Len(ctx.collected)}) :
          frame' = [frame EXCEPT !.items = n]
    BY <1>1 DEF ForEachStarts
  <2>2. n \in Nat
    BY ContextAssumption DEF Context
  <2>3. frame' \in Frame /\ frame'.next = 1 /\ frame'.got = << >> /\ frame'.round >= 1
    BY <1>1, <2>1, <2>2 DEF ForEachStarts, NewFrame, FlowBase, FlowTypeOK, FlowControl, Frame
  <2> QED BY <1>1, <2>3 DEF ForEachStarts, GoTo, FlowBase, FlowTypeOK, FlowControl
<1>2. CASE NextItem
  BY <1>2 DEF NextItem, Settle, GoTo, FlowBase, FlowTypeOK, FlowControl
<1>3. CASE ItemDone
  <2> QED BY <1>3, ItemDoneFrame DEF ItemDone, GoTo, FlowBase, FlowTypeOK, FlowControl
<1> QED BY <1>1, <1>2, <1>3 DEF ForEachStarts, NextItem, ItemDone

LEMMA LoginType ==
  ASSUME FlowBase,
         LoginCheckLoads \/ LoginCheckRaises \/ AlreadyLoggedIn \/ MustLogIn \/ LoginDone
  PROVE  FlowBase' /\ UNCHANGED ctx
<1>1. /\ UNCHANGED <<step, frame, log, ctx>>
      /\ place' \in {"check", "dispatch", "done"}
      /\ place' = "done" <=> settled' # settled
      /\ place' # "done" => settled' = settled
      /\ settled' \in Statuses \cup {"none", "raised"}
      /\ place \in {"start", "check", "results"} /\ step.kind = "ensure_login"
      /\ place' = "check" => place = "start"
  BY DEF LoginCheckLoads, LoginCheckRaises, AlreadyLoggedIn, MustLogIn, LoginDone,
         Settle, GoTo, FlowBase, FlowTypeOK, FlowControl
<1> QED BY <1>1 DEF FlowBase, FlowTypeOK, FlowControl

LEMMA SubflowType ==
  ASSUME FlowBase, SubflowRefused \/ SubflowRaises \/ SubflowStarts \/ SubflowDone
  PROVE  FlowBase' /\ UNCHANGED ctx
BY DEF SubflowRefused, SubflowRaises, SubflowStarts, SubflowDone, Settle, GoTo,
       FlowBase, FlowTypeOK, FlowControl

LEMMA SumBound ==
  ASSUME NEW m \in Nat, NEW limit \in Nat, NEW old \in Nat, NEW more \in Nat,
         more <= limit, limit <= m - old
  PROVE  old + more <= m
OBVIOUS

\* The frame after a page was read: the rows the context holds are added.
LEMMA ReadPageFrame ==
  ASSUME FlowBase, ctx \in Context, ReadPage
  PROVE  /\ frame' \in Frame /\ ctx' \in Context
         /\ frame'.next = frame.next /\ frame'.round = frame.round /\ frame'.got = frame.got
         /\ frame'.items = frame.items /\ frame'.page = frame.page
         /\ step.extract.key = "extracted_data" /\ Len(frame.rows) <= step.max_items
              => Len(frame'.rows) <= step.max_items
<1>1. PICK a \in ExtractData(ctx, Wanted, "step") :
        /\ ctx' = a.ctx
        /\ frame' = [frame EXCEPT !.rows = IF a.status = "passed" THEN @ \o a.ctx.extracted ELSE @]
  BY DEF ReadPage
<1>2. /\ Wanted \in ExtractConfig /\ Wanted.key = step.extract.key
      /\ Wanted.limit <= step.max_items - Len(frame.rows)
  BY WantedType DEF ReadPage, FlowBase
<1>3. /\ a.ctx \in Context
      /\ (a.status = "passed" /\ Wanted.key = "extracted_data") => Len(a.ctx.extracted) <= Wanted.limit
  BY <1>1, <1>2, ExtractDataAnswers, ContextAssumption
<1> DEFINE rows == IF a.status = "passed" THEN frame.rows \o a.ctx.extracted ELSE frame.rows
<1>4. frame.rows \in Seq(Sources) /\ a.ctx.extracted \in Seq(Sources)
  BY <1>3, FrameType DEF Context
<1>5. /\ rows \in Seq(Sources)
      /\ a.status = "passed" => Len(rows) = Len(frame.rows) + Len(a.ctx.extracted)
      /\ a.status # "passed" => rows = frame.rows
  BY <1>4, ConcatProperties
<1>6. frame' = [frame EXCEPT !.rows = rows]
  BY <1>1
<1> HIDE DEF rows
<1>7. ASSUME step.extract.key = "extracted_data", Len(frame.rows) <= step.max_items
      PROVE  Len(rows) <= step.max_items
  <2>1. /\ Len(frame.rows) \in Nat /\ Len(a.ctx.extracted) \in Nat
        /\ Wanted.limit \in Nat /\ step.max_items \in Nat
    BY <1>2, <1>4, LenProperties, StepType DEF ExtractConfig, FlowBase
  <2>2. CASE a.status = "passed"
    <3>1. Len(a.ctx.extracted) <= Wanted.limit
      BY <1>2, <1>3, <1>7, <2>2
    <3>2. Len(rows) = Len(frame.rows) + Len(a.ctx.extracted)
      BY <1>5, <2>2
    <3>3. Wanted.limit <= step.max_items - Len(frame.rows)
      BY <1>2
    <3> QED BY <2>1, <3>1, <3>2, <3>3, SumBound
  <2>3. CASE a.status # "passed"
    BY <1>5, <1>7, <2>3
  <2> QED BY <2>2, <2>3
<1>8. frame \in Frame
  BY DEF FlowBase, FlowTypeOK
<1>9. frame' = [items |-> frame.items, round |-> frame.round, next |-> frame.next, got |-> frame.got,
                failures |-> frame.failures, page |-> frame.page, rows |-> rows]
  BY <1>6, <1>8 DEF Frame
<1>10. [items |-> frame.items, round |-> frame.round, next |-> frame.next, got |-> frame.got,
        failures |-> frame.failures, page |-> frame.page, rows |-> rows] \in Frame
  BY <1>5, FrameType DEF Frame
<1>11. /\ frame'.next = frame.next /\ frame'.round = frame.round /\ frame'.got = frame.got
       /\ frame'.items = frame.items /\ frame'.page = frame.page /\ frame'.rows = rows
  BY <1>9
<1>12. frame' \in Frame /\ ctx' \in Context
  BY <1>1, <1>3, <1>9, <1>10
<1> QED BY <1>7, <1>11, <1>12

\* The frame after a page was turned, or could not be.
LEMMA TurnFrame ==
  ASSUME FlowBase, PageTurned \/ LastPage
  PROVE  /\ frame' \in Frame
         /\ frame'.next = frame.next /\ frame'.round = frame.round /\ frame'.rows = frame.rows
         /\ frame'.page \in {frame.page, frame.page + 1}
<1>1. frame \in Frame
  BY DEF FlowBase, FlowTypeOK
<1>2. PICK page \in {frame.page, frame.page + 1} : frame' = [frame EXCEPT !.page = page]
  BY DEF PageTurned, LastPage
<1>3. frame' = [items |-> frame.items, round |-> frame.round, next |-> frame.next, got |-> frame.got,
                failures |-> frame.failures, page |-> page, rows |-> frame.rows]
  BY <1>1, <1>2 DEF Frame
<1>4. page \in Nat
  BY <1>2, FrameType
<1>5. [items |-> frame.items, round |-> frame.round, next |-> frame.next, got |-> frame.got,
       failures |-> frame.failures, page |-> page, rows |-> frame.rows] \in Frame
  BY <1>4, FrameType DEF Frame
<1> QED BY <1>2, <1>3, <1>5

LEMMA PaginatedType ==
  ASSUME FlowBase, ctx \in Context, Paginated
  PROVE  ctx' \in Context /\ place' = "done" /\ settled' = "passed" /\ UNCHANGED <<step, log>>
<1>1. frame.rows \in Seq(Sources)
  BY FrameType
<1> QED BY <1>1 DEF Paginated, Settle, Context

LEMMA PaginateType ==
  ASSUME FlowBase, ctx \in Context,
         PaginateStarts \/ ReadPage \/ PagesRead \/ PageTurned \/ LastPage
  PROVE  FlowBase' /\ ctx' \in Context
<1>1. CASE PaginateStarts
  BY <1>1 DEF PaginateStarts, Settle, GoTo, FlowBase, FlowTypeOK, FlowControl
<1>2. CASE ReadPage
  <2>1. place = "page" /\ place' = "turn" /\ UNCHANGED <<step, settled, log>>
    BY <1>2 DEF ReadPage, GoTo
  <2> QED BY <1>2, <2>1, ReadPageFrame DEF FlowBase, FlowTypeOK, FlowControl
<1>3. CASE PagesRead
  <2>1. Paginated /\ UNCHANGED frame
    BY <1>3 DEF PagesRead
  <2> QED BY <2>1, PaginatedType DEF FlowBase, FlowTypeOK, FlowControl
<1>4. CASE PageTurned
  <2>1. place = "turn" /\ place' = "page" /\ UNCHANGED <<step, settled, log, ctx>>
    BY <1>4 DEF PageTurned, GoTo
  <2> QED BY <1>4, <2>1, TurnFrame DEF FlowBase, FlowTypeOK, FlowControl
<1>5. CASE LastPage
  <2>1. Paginated
    BY <1>5 DEF LastPage
  <2> QED BY <1>5, <2>1, TurnFrame, PaginatedType DEF FlowBase, FlowTypeOK, FlowControl
<1> QED BY <1>1, <1>2, <1>3, <1>4, <1>5

LEMMA SubNextType ==
  ASSUME FlowBase, ctx \in Context, SubNext
  PROVE  FlowBase' /\ ctx' \in Context
<1>1. CASE Dispatch
  BY <1>1, DispatchType
<1>2. CASE ForEachStarts \/ NextItem \/ ItemDone
  BY <1>2, ForEachType
<1>3. CASE LoginCheckLoads \/ LoginCheckRaises \/ AlreadyLoggedIn \/ MustLogIn \/ LoginDone
  BY <1>3, LoginType
<1>4. CASE PaginateStarts \/ ReadPage \/ PagesRead \/ PageTurned \/ LastPage
  BY <1>4, PaginateType
<1>5. CASE SubflowRefused \/ SubflowRaises \/ SubflowStarts \/ SubflowDone
  BY <1>5, SubflowType
<1> QED BY <1>1, <1>2, <1>3, <1>4, <1>5 DEF SubNext

-----------------------------------------------------------------------------
(* A flow step that passed hides no failure *)

Failed(i) == log[i][3] \in {"failed", "raised"}

\* While a step is not done, what went wrong is in what it will report: in the
\* failures of the items before, or in the results of the sub-steps at hand.
FailuresAreHeld ==
  /\ step.kind = "for_each_item" =>
       \A i \in DOMAIN log : Failed(i) => frame.failures # << >> \/ FailedOf(frame.got) # {}
  /\ (step.kind = "ensure_login" /\ place # "done") =>
       \A i \in DOMAIN log : log[i][3] \in {"passed", "unguarded"} \/ ~LoginVerdict(frame.got)
  /\ (step.kind = "run_workflow" /\ place # "done") =>
       \A i \in DOMAIN log : Failed(i) => FailedOf(frame.got) # {}

FailuresInv == FailuresAreHeld /\ FailuresSurface

LEMMA SubInitFailures ==
  ASSUME SubInit
  PROVE  FailuresInv
BY DEF SubInit, FailuresInv, FailuresAreHeld, FailuresSurface

\* What a further result does to those at hand.
LEMMA GotMore ==
  ASSUME FlowBase, NEW status \in Statuses, frame'.got = Append(frame.got, status)
  PROVE  /\ FailedOf(frame.got) # {} => FailedOf(frame'.got) # {}
         /\ status = "failed" => FailedOf(frame'.got) # {}
         /\ ~LoginVerdict(frame.got) => ~LoginVerdict(frame'.got)
         /\ status # "passed" => ~LoginVerdict(frame'.got)
<1>1. frame.got \in Seq(Statuses)
  BY FrameType
<1>2. /\ Len(frame.got) + 1 \in DOMAIN frame'.got
      /\ frame'.got[Len(frame.got) + 1] = status
      /\ \A i \in DOMAIN frame.got : i \in DOMAIN frame'.got /\ frame'.got[i] = frame.got[i]
  BY <1>1, AppendProperties
<1> QED BY <1>2 DEF FailedOf, LoginVerdict

LEMMA SubSkippedFailures ==
  ASSUME FlowBase, FailuresInv, SubSkipped
  PROVE  FailuresInv'
<1>1. /\ \A i \in DOMAIN log' : i \in DOMAIN log \/ log'[i][3] = "unguarded"
      /\ \A i \in DOMAIN log : log'[i] = log[i]
  BY NotedType DEF SubSkipped, FlowBase
<1>2. frame'.got = frame.got /\ frame'.failures = frame.failures
  BY DEF SubSkipped, FlowBase, FlowTypeOK, Frame
<1>3. UNCHANGED <<step, settled>> /\ place = "dispatch" /\ place' = "dispatch"
  BY DEF SubSkipped, AtSub, GoTo
<1> QED BY <1>1, <1>2, <1>3
        DEF FailuresInv, FailuresAreHeld, FailuresSurface, Failed, FlowBase, FlowControl

LEMMA SubRaisesFailures ==
  ASSUME FlowBase, FailuresInv, step.kind \in {"for_each_item", "ensure_login"}, SubRaises
  PROVE  FailuresInv'
<1>1. CASE step.kind = "for_each_item"
  <2>1. frame' = [frame EXCEPT !.failures = Append(@, frame.round), !.round = @ + 1,
                               !.next = 1, !.got = << >>]
    BY <1>1 DEF SubRaises
  <2>2. frame.failures \in Seq(Nat) /\ frame.round \in Nat
    BY FrameType
  <2>3. Append(frame.failures, frame.round) # << >>
    BY <2>2, AppendProperties, EmptySeq
  <2>4. frame'.failures # << >>
    BY <2>1, <2>3 DEF FlowBase, FlowTypeOK, Frame
  <2>5. UNCHANGED <<step, settled>> /\ settled = "none"
    BY <1>1 DEF SubRaises, GoTo, AtSub, FlowBase, FlowControl
  <2> QED BY <1>1, <2>4, <2>5 DEF FailuresInv, FailuresAreHeld, FailuresSurface
<1>2. CASE step.kind = "ensure_login"
  BY <1>2 DEF SubRaises, FailuresInv, FailuresAreHeld, FailuresSurface
<1> QED BY <1>1, <1>2

LEMMA SubReturnsFailures ==
  ASSUME FlowBase, FailuresInv, NEW status \in Statuses, Noted(status), AtSub,
         frame' = [frame EXCEPT !.got = Append(@, status), !.next = @ + 1],
         UNCHANGED <<step, settled>>, place' # "done"
  PROVE  FailuresInv'
<1>1. /\ \A i \in DOMAIN log' : i \in DOMAIN log \/ log'[i][3] = status
      /\ \A i \in DOMAIN log : log'[i] = log[i]
  BY NotedType DEF FlowBase
<1>2. frame'.got = Append(frame.got, status) /\ frame'.failures = frame.failures
  BY GotType
<1>3. /\ FailedOf(frame.got) # {} => FailedOf(frame'.got) # {}
      /\ status = "failed" => FailedOf(frame'.got) # {}
      /\ ~LoginVerdict(frame.got) => ~LoginVerdict(frame'.got)
      /\ status # "passed" => ~LoginVerdict(frame'.got)
  BY <1>2, GotMore
<1>4. place = "dispatch" /\ settled = "none"
  BY DEF AtSub, FlowBase, FlowControl
<1> QED BY <1>1, <1>2, <1>3, <1>4 DEF FailuresInv, FailuresAreHeld, FailuresSurface, Failed

LEMMA DispatchFailures ==
  ASSUME FlowBase, FailuresInv, ctx \in Context, Dispatch
  PROVE  FailuresInv'
<1>1. CASE step.kind \in {"for_each_item", "ensure_login"} /\ SubSkipped
  BY <1>1, SubSkippedFailures
<1>2. CASE step.kind \in {"for_each_item", "ensure_login"} /\ SubRaises
  BY <1>2, SubRaisesFailures
<1>3. CASE SubReturns
  <2>1. PICK a \in AnswersOf(Sub) :
          /\ Noted(a.status)
          /\ frame' = [frame EXCEPT !.got = Append(@, a.status), !.next = @ + 1]
          /\ GoTo(IF Stops /\ a.status # "passed" THEN "results" ELSE "dispatch")
    BY <1>3 DEF SubReturns
  <2>2. AtSub
    BY <1>3 DEF SubReturns
  <2>3. a.status \in Statuses
    BY <2>2, AnswersType
  <2>4. UNCHANGED <<step, settled>> /\ place' # "done"
    BY <2>1 DEF GoTo
  <2> QED BY <2>1, <2>2, <2>3, <2>4, SubReturnsFailures
<1>4. CASE \E status \in Statuses : SubflowStep(status)
  <2>1. PICK status \in Statuses : SubflowStep(status)
    BY <1>4
  <2>2. UNCHANGED <<step, settled>> /\ place' # "done"
    BY <2>1 DEF SubflowStep, GoTo
  <2> QED BY <2>1, <2>2, SubReturnsFailures DEF SubflowStep
<1>5. CASE SubsDone
  BY <1>5 DEF SubsDone, GoTo, FailuresInv, FailuresAreHeld, FailuresSurface, FlowBase, FlowControl,
              Failed
<1> QED BY <1>1, <1>2, <1>3, <1>4, <1>5 DEF Dispatch

\* Before any sub-step was dispatched there is no failure to hold.
LEMMA NothingFailed ==
  ASSUME FlowBase, FailuresInv, log = << >>, UNCHANGED <<step, log>>
  PROVE  FailuresInv'
BY DEF FailuresInv, FailuresAreHeld, FailuresSurface

LEMMA ForEachFailures ==
  ASSUME FlowBase, FailuresInv, ForEachStarts \/ NextItem \/ ItemDone
  PROVE  FailuresInv'
<1>1. CASE ForEachStarts
  BY <1>1, NothingFailed DEF ForEachStarts, GoTo, FlowBase, FlowControl
<1>2. CASE NextItem
  <2>1. /\ UNCHANGED <<step, frame, log>> /\ step.kind = "for_each_item"
        /\ settled' = "passed" => frame.failures = << >> \/ settled = "passed"
    BY <1>2 DEF NextItem, Settle, GoTo
  <2>2. frame.got = << >> /\ settled = "none"
    BY <1>2 DEF NextItem, FlowBase, FlowControl
  <2>3. FailedOf(frame.got) = {}
    BY <2>2 DEF FailedOf
  <2> QED BY <2>1, <2>2, <2>3 DEF FailuresInv, FailuresAreHeld, FailuresSurface, Failed
<1>3. CASE ItemDone
  <2>1. /\ UNCHANGED <<step, log, settled>> /\ step.kind = "for_each_item"
        /\ settled = "none"
    BY <1>3 DEF ItemDone, GoTo, FlowBase, FlowControl
  <2>2. (frame'.failures = << >>) => (frame.failures = << >> /\ FailedOf(frame.got) = {})
    BY <1>3, ItemDoneFrame
  <2> QED BY <2>1, <2>2 DEF FailuresInv, FailuresAreHeld, FailuresSurface, Failed
<1> QED BY <1>1, <1>2, <1>3

LEMMA LoginFailures ==
  ASSUME FlowBase, FailuresInv,
         LoginCheckLoads \/ LoginCheckRaises \/ AlreadyLoggedIn \/ MustLogIn \/ LoginDone
  PROVE  FailuresInv'
<1>1. CASE LoginCheckLoads \/ LoginCheckRaises \/ AlreadyLoggedIn \/ MustLogIn
  <2>1. log = << >> /\ UNCHANGED <<step, log>>
    BY <1>1 DEF LoginCheckLoads, LoginCheckRaises, AlreadyLoggedIn, MustLogIn,
                Settle, GoTo, FlowBase, FlowControl
  <2> QED BY <2>1, NothingFailed
<1>2. CASE LoginDone
  BY <1>2 DEF LoginDone, Settle, FailuresInv, FailuresAreHeld, FailuresSurface, Failed
<1> QED BY <1>1, <1>2

LEMMA PaginateFailures ==
  ASSUME FlowBase, FailuresInv,
         PaginateStarts \/ ReadPage \/ PagesRead \/ PageTurned \/ LastPage
  PROVE  FailuresInv'
<1>1. log = << >> /\ UNCHANGED <<step, log>>
  BY DEF PaginateStarts, ReadPage, PagesRead, PageTurned, LastPage, Paginated,
         Settle, GoTo, FlowBase, FlowControl
<1> QED BY <1>1, NothingFailed

LEMMA SubflowFailures ==
  ASSUME FlowBase, FailuresInv, SubflowRefused \/ SubflowRaises \/ SubflowStarts \/ SubflowDone
  PROVE  FailuresInv'
<1>1. CASE SubflowRefused \/ SubflowRaises \/ SubflowStarts
  BY <1>1 DEF SubflowRefused, SubflowRaises, SubflowStarts, Settle, GoTo,
              FlowBase, FlowControl, FailuresInv, FailuresAreHeld, FailuresSurface, Failed
<1>2. CASE SubflowDone
  BY <1>2 DEF SubflowDone, Settle, FlowBase, FlowControl,
              FailuresInv, FailuresAreHeld, FailuresSurface, Failed
<1> QED BY <1>1, <1>2

LEMMA SubNextFailures ==
  ASSUME FlowBase, FailuresInv, ctx \in Context, SubNext
  PROVE  FailuresInv'
<1>1. CASE Dispatch
  BY <1>1, DispatchFailures
<1>2. CASE ForEachStarts \/ NextItem \/ ItemDone
  BY <1>2, ForEachFailures
<1>3. CASE LoginCheckLoads \/ LoginCheckRaises \/ AlreadyLoggedIn \/ MustLogIn \/ LoginDone
  BY <1>3, LoginFailures
<1>4. CASE PaginateStarts \/ ReadPage \/ PagesRead \/ PageTurned \/ LastPage
  BY <1>4, PaginateFailures
<1>5. CASE SubflowRefused \/ SubflowRaises \/ SubflowStarts \/ SubflowDone
  BY <1>5, SubflowFailures
<1> QED BY <1>1, <1>2, <1>3, <1>4, <1>5 DEF SubNext

-----------------------------------------------------------------------------
(* Loops keep their bounds *)

\* Sub-step k of an item was dispatched, or an earlier one of it raised.
Tried(l, item, k) ==
  \E i \in DOMAIN l :
    \/ l[i][1] = item /\ l[i][2] = k
    \/ l[i][1] = item /\ l[i][2] < k /\ l[i][3] = "raised"

\* A loop has tried all of the items before, and of the item at hand all it went past.
ItemsInOrder ==
  step.kind = "for_each_item" =>
    /\ \A item \in 1..(frame.round - 1), k \in 1..Len(step.subs) : Tried(log, item, k)
    /\ place = "dispatch" => \A k \in 1..(frame.next - 1) : Tried(log, frame.round, k)
    /\ place = "results" => \A k \in 1..Len(step.subs) : Tried(log, frame.round, k)
    /\ place = "done" => frame.items < frame.round

\* Before a page is turned its number is one that may be read.
PagesInOrder ==
  (step.kind = "paginate" /\ step.extract.key = "extracted_data") =>
    /\ Len(frame.rows) <= step.max_items
    /\ frame.page <= step.max_pages + 1
    /\ place = "turn" => frame.page <= step.max_pages

BoundsInv == ItemsInOrder /\ PagesInOrder

LEMMA BoundsHold ==
  ASSUME FlowBase, BoundsInv
  PROVE  LoopsKeepTheirBounds
<1>1. EveryItemIsTried
  <2>1. SUFFICES ASSUME step.kind = "for_each_item", place = "done",
                        NEW item \in 1..frame.items, NEW k \in 1..Len(step.subs)
                 PROVE  Tried(log, item, k)
    BY DEF EveryItemIsTried, Tried
  <2>2. item \in 1..(frame.round - 1)
    BY <2>1, FrameType DEF BoundsInv, ItemsInOrder
  <2> QED BY <2>1, <2>2 DEF BoundsInv, ItemsInOrder
<1>2. PaginatedWithinBounds
  BY DEF BoundsInv, PagesInOrder, PaginatedWithinBounds
<1> QED BY <1>1, <1>2 DEF LoopsKeepTheirBounds

LEMMA SubInitBounds ==
  ASSUME SubInit
  PROVE  BoundsInv
<1>1. frame = NewFrame /\ place = "start" /\ FlowTypeOK
  BY SubInitType DEF SubInit, FlowBase
<1>2. step.max_items \in Nat /\ step.max_pages \in Nat
  BY <1>1, StepType
<1> QED BY <1>1, <1>2 DEF BoundsInv, ItemsInOrder, PagesInOrder, NewFrame

\* What was tried stays tried.
LEMMA NotedTries ==
  ASSUME FlowBase, NEW how \in How, Noted(how)
  PROVE  /\ \A item, k : Tried(log, item, k) => Tried(log', item, k)
         /\ Tried(log', frame.round, frame.next)
         /\ how = "raised" => \A k \in Nat : k > frame.next => Tried(log', frame.round, k)
<1>1. /\ \A i \in DOMAIN log : i \in DOMAIN log' /\ log'[i] = log[i]
      /\ Len(log) + 1 \in DOMAIN log'
      /\ log'[Len(log) + 1] = <<frame.round, frame.next, how>>
  BY NotedType DEF FlowBase
<1> DEFINE new == <<frame.round, frame.next, how>>
<1>2. new[1] = frame.round /\ new[2] = frame.next /\ new[3] = how
  OBVIOUS
<1> HIDE DEF new
<1>3. \A item, k : Tried(log, item, k) => Tried(log', item, k)
  BY <1>1 DEF Tried
<1>4. log'[Len(log) + 1][1] = frame.round /\ log'[Len(log) + 1][2] = frame.next
      /\ log'[Len(log) + 1][3] = how
  BY <1>1, <1>2 DEF new
<1>5. Tried(log', frame.round, frame.next)
  BY <1>1, <1>4 DEF Tried
<1>6. ASSUME how = "raised", NEW k \in Nat, k > frame.next
      PROVE  Tried(log', frame.round, k)
  <2>1. frame.next < k
    BY <1>6, FrameType
  <2> QED BY <1>1, <1>4, <1>6, <2>1 DEF Tried
<1> QED BY <1>3, <1>5, <1>6

\* A sub-step is over and the loop goes to the next, or to what it makes of the results.
LEMMA SubOverBounds ==
  ASSUME FlowBase, BoundsInv, NEW how \in How, Noted(how), AtSub, step' = step,
         frame'.next = frame.next + 1, frame'.round = frame.round, frame'.items = frame.items,
         step.kind = "for_each_item" => place' = "dispatch",
         step.kind # "paginate"
  PROVE  BoundsInv'
<1>1. /\ \A item, k : Tried(log, item, k) => Tried(log', item, k)
      /\ Tried(log', frame.round, frame.next)
  BY NotedTries
<1>2. frame.next \in Nat /\ frame.round \in Nat /\ place = "dispatch"
  BY FrameType DEF AtSub
<1>3. ItemsInOrder'
  BY <1>1, <1>2 DEF BoundsInv, ItemsInOrder
<1> QED BY <1>3 DEF BoundsInv, PagesInOrder

LEMMA DispatchBounds ==
  ASSUME FlowBase, BoundsInv, ctx \in Context, Dispatch
  PROVE  BoundsInv'
<1>1. CASE step.kind \in {"for_each_item", "ensure_login"} /\ SubSkipped
  <2>1. /\ frame'.next = frame.next + 1 /\ frame'.round = frame.round /\ frame'.items = frame.items
    BY <1>1 DEF SubSkipped, FlowBase, FlowTypeOK, Frame
  <2> QED BY <1>1, <2>1, SubOverBounds DEF SubSkipped, GoTo
<1>2. CASE step.kind \in {"for_each_item", "ensure_login"} /\ SubRaises
  <2>1. CASE step.kind = "for_each_item"
    <3>1. frame' = [frame EXCEPT !.failures = Append(@, frame.round), !.round = @ + 1,
                                 !.next = 1, !.got = << >>]
      BY <1>2, <2>1 DEF SubRaises
    <3>2. frame'.round = frame.round + 1 /\ frame'.items = frame.items
      BY <3>1 DEF FlowBase, FlowTypeOK, Frame
    <3>3. place = "dispatch" /\ place' = "return" /\ step' = step
      BY <1>2, <2>1 DEF SubRaises, AtSub, GoTo
    <3>4. /\ \A item, k : Tried(log, item, k) => Tried(log', item, k)
          /\ Tried(log', frame.round, frame.next)
          /\ \A k \in Nat : k > frame.next => Tried(log', frame.round, k)
      BY <1>2, NotedTries DEF SubRaises
    <3>5. \A k \in 1..Len(step.subs) : Tried(log', frame.round, k)
      <4>1. ASSUME NEW k \in 1..Len(step.subs) PROVE Tried(log', frame.round, k)
        <5>1. k \in Nat /\ frame.next \in Nat
          BY FrameType
        <5>2. CASE k < frame.next
          <6>1. Tried(log, frame.round, k)
            BY <2>1, <3>3, <5>1, <5>2 DEF BoundsInv, ItemsInOrder
          <6> QED BY <3>4, <6>1
        <5>3. CASE k = frame.next
          BY <3>4, <5>3
        <5>4. CASE k > frame.next
          BY <3>4, <5>1, <5>4
        <5> QED BY <5>1, <5>2, <5>3, <5>4
      <4> QED BY <4>1
    <3>6. \A item \in 1..(frame'.round - 1), k \in 1..Len(step.subs) : Tried(log', item, k)
      <4>1. frame.round \in Nat
        BY FrameType
      <4> QED BY <2>1, <3>2, <3>4, <3>5, <4>1 DEF BoundsInv, ItemsInOrder
    <3> QED BY <2>1, <3>3, <3>6 DEF BoundsInv, ItemsInOrder, PagesInOrder
  <2>2. CASE step.kind = "ensure_login"
    BY <1>2, <2>2 DEF SubRaises, BoundsInv, ItemsInOrder, PagesInOrder
  <2> QED BY <1>2, <2>1, <2>2
<1>3. CASE step.kind \in {"for_each_item", "ensure_login"} /\ SubReturns
  <2>1. PICK a \in AnswersOf(Sub) :
          /\ Noted(a.status)
          /\ frame' = [frame EXCEPT !.got = Append(@, a.status), !.next = @ + 1]
          /\ GoTo(IF Stops /\ a.status # "passed" THEN "results" ELSE "dispatch")
    BY <1>3 DEF SubReturns
  <2>2. AtSub
    BY <1>3 DEF SubReturns
  <2>3. a.status \in Statuses
    BY <2>2, AnswersType
  <2>4. /\ frame'.next = frame.next + 1 /\ frame'.round = frame.round /\ frame'.items = frame.items
    BY <2>1, <2>3, GotType
  <2>5. step' = step /\ (step.kind = "for_each_item" => place' = "dispatch")
    BY <2>1 DEF GoTo, Stops
  <2> QED BY <1>3, <2>1, <2>2, <2>3, <2>4, <2>5, SubOverBounds
<1>4. CASE step.kind = "run_workflow" /\ \E status \in Statuses : SubflowStep(status)
  BY <1>4 DEF SubflowStep, GoTo, BoundsInv, ItemsInOrder, PagesInOrder
<1>5. CASE SubsDone
  <2>1. /\ UNCHANGED <<step, frame, log>> /\ place = "dispatch" /\ place' = "results"
        /\ frame.next > Len(step.subs)
    BY <1>5 DEF SubsDone, GoTo
  <2>2. \A item, k : Tried(log', item, k) <=> Tried(log, item, k)
    BY <2>1 DEF Tried
  <2>3. step.kind # "paginate"
    BY <2>1 DEF FlowBase, FlowControl
  <2>4. Len(step.subs) \in Nat /\ frame.next \in Nat
    BY FrameType, StepType DEF FlowBase
  <2>5. ItemsInOrder'
    BY <2>1, <2>2, <2>4 DEF BoundsInv, ItemsInOrder
  <2> QED BY <2>1, <2>3, <2>5 DEF BoundsInv, PagesInOrder
<1> QED BY <1>1, <1>2, <1>3, <1>4, <1>5 DEF Dispatch

LEMMA ForEachBounds ==
  ASSUME FlowBase, BoundsInv, ForEachStarts \/ NextItem \/ ItemDone
  PROVE  BoundsInv'
<1>1. /\ UNCHANGED <<step, log>> /\ step.kind = "for_each_item"
      /\ \A item, k : Tried(log', item, k) <=> Tried(log, item, k)
  BY DEF ForEachStarts, NextItem, ItemDone, GoTo, Settle, Tried
<1>2. frame.round \in Nat /\ frame.items \in Nat /\ Len(step.subs) \in Nat
  BY FrameType, StepType DEF FlowBase
<1>3. CASE ForEachStarts
  <2>1. frame'.round = frame.round /\ place' = "return"
    BY <1>3 DEF ForEachStarts, GoTo, FlowBase, FlowTypeOK, Frame
  <2> QED BY <1>1, <2>1 DEF BoundsInv, ItemsInOrder, PagesInOrder
<1>4. CASE NextItem
  <2>1. /\ UNCHANGED frame /\ frame.next = 1
        /\ place' \in {"dispatch", "done"}
        /\ place' = "done" => frame.items < frame.round
    BY <1>2, <1>4 DEF NextItem, GoTo, Settle, FlowBase, FlowControl
  <2> QED BY <1>1, <2>1 DEF BoundsInv, ItemsInOrder, PagesInOrder
<1>5. CASE ItemDone
  <2>1. frame'.round = frame.round + 1 /\ place = "results" /\ place' = "return"
    BY <1>5, ItemDoneFrame DEF ItemDone, GoTo
  <2>2. \A item \in 1..(frame'.round - 1), k \in 1..Len(step.subs) : Tried(log, item, k)
    BY <1>1, <1>2, <2>1 DEF BoundsInv, ItemsInOrder
  <2> QED BY <1>1, <2>1, <2>2 DEF BoundsInv, ItemsInOrder, PagesInOrder
<1> QED BY <1>3, <1>4, <1>5

LEMMA PaginateBounds ==
  ASSUME FlowBase, BoundsInv, ctx \in Context,
         PaginateStarts \/ ReadPage \/ PagesRead \/ PageTurned \/ LastPage
  PROVE  BoundsInv'
<1>1. step' = step /\ step.kind = "paginate"
  BY DEF PaginateStarts, ReadPage, PagesRead, PageTurned, LastPage, Paginated, Settle, GoTo,
         FlowBase, FlowControl
<1>2. ItemsInOrder'
  BY <1>1 DEF ItemsInOrder
<1>3. frame.page \in Nat /\ step.max_pages \in Nat
  BY FrameType, StepType DEF FlowBase
<1>4. CASE PaginateStarts
  BY <1>1, <1>2, <1>4 DEF PaginateStarts, GoTo, Settle, BoundsInv, PagesInOrder
<1>5. CASE ReadPage
  <2>1. /\ frame'.page = frame.page
        /\ step.extract.key = "extracted_data" /\ Len(frame.rows) <= step.max_items
             => Len(frame'.rows) <= step.max_items
    BY <1>5, ReadPageFrame
  <2>2. frame.page <= step.max_pages
    BY <1>5 DEF ReadPage, HasRoom
  <2> QED BY <1>1, <1>2, <2>1, <2>2 DEF BoundsInv, PagesInOrder
<1>6. CASE PagesRead
  BY <1>1, <1>2, <1>6 DEF PagesRead, Paginated, Settle, BoundsInv, PagesInOrder
<1>7. CASE PageTurned \/ LastPage
  <2>1. /\ frame'.rows = frame.rows /\ frame'.page \in {frame.page, frame.page + 1}
        /\ place = "turn" /\ place' # "turn"
    BY <1>7, TurnFrame DEF PageTurned, LastPage, GoTo, Paginated, Settle
  <2> QED BY <1>1, <1>2, <1>3, <2>1 DEF BoundsInv, PagesInOrder
<1> QED BY <1>4, <1>5, <1>6, <1>7

LEMMA SubNextBounds ==
  ASSUME FlowBase, BoundsInv, ctx \in Context, SubNext
  PROVE  BoundsInv'
<1>1. CASE Dispatch
  BY <1>1, DispatchBounds
<1>2. CASE ForEachStarts \/ NextItem \/ ItemDone
  BY <1>2, ForEachBounds
<1>3. CASE LoginCheckLoads \/ LoginCheckRaises \/ AlreadyLoggedIn \/ MustLogIn \/ LoginDone
  BY <1>3 DEF LoginCheckLoads, LoginCheckRaises, AlreadyLoggedIn, MustLogIn, LoginDone, Settle, GoTo,
              FlowBase, FlowControl, BoundsInv, ItemsInOrder, PagesInOrder
<1>4. CASE PaginateStarts \/ ReadPage \/ PagesRead \/ PageTurned \/ LastPage
  BY <1>4, PaginateBounds
<1>5. CASE SubflowRefused \/ SubflowRaises \/ SubflowStarts \/ SubflowDone
  BY <1>5 DEF SubflowRefused, SubflowRaises, SubflowStarts, SubflowDone, Settle, GoTo,
              BoundsInv, ItemsInOrder, PagesInOrder
<1> QED BY <1>1, <1>2, <1>3, <1>4, <1>5 DEF SubNext

-----------------------------------------------------------------------------
(* Both steps in one context *)

IInv == TypeOK /\ FlowControl /\ ParallelInv /\ FailuresInv /\ BoundsInv

LEMMA InitInv ==
  ASSUME Init
  PROVE  IInv
<1>1. ParallelInit /\ SubInit /\ ctx \in Context
  BY EmptyContextType DEF Init
<1>2. BatchTypeOK /\ ParallelInv
  BY <1>1, ParallelInitType, ParallelInitInv
<1>3. FlowBase /\ FailuresInv /\ BoundsInv
  BY <1>1, SubInitType, SubInitFailures, SubInitBounds
<1> QED BY <1>1, <1>2, <1>3 DEF IInv, TypeOK, FlowBase

\* A step of the other kind changes nothing of a flow step's.
LEMMA FlowStutters ==
  ASSUME UNCHANGED subVars, FlowBase, FailuresInv, BoundsInv
  PROVE  FlowBase' /\ FailuresInv' /\ BoundsInv'
<1>1. step' = step /\ place' = place /\ frame' = frame /\ log' = log /\ settled' = settled
  BY DEF subVars
<1>2. FlowBase'
  BY <1>1 DEF FlowBase, FlowTypeOK, FlowControl
<1>3. FailuresInv'
  BY <1>1 DEF FailuresInv, FailuresAreHeld, FailuresSurface, Failed
<1>4. BoundsInv'
  BY <1>1 DEF BoundsInv, ItemsInOrder, PagesInOrder
<1> QED BY <1>2, <1>3, <1>4

LEMMA ParallelStutters ==
  ASSUME UNCHANGED parallelVars, BatchTypeOK, ParallelInv
  PROVE  BatchTypeOK' /\ ParallelInv'
<1>1. /\ batch' = batch /\ attempt' = attempt /\ gather' = gather
      /\ tasks' = tasks /\ answer' = answer
  BY DEF parallelVars
<1> QED BY <1>1 DEF BatchTypeOK, ParallelInv, TasksInOrder, PassedMeansAllPassed, Current,
                    StragglersHaveACause, Ended, Raised

LEMMA NextInv ==
  ASSUME IInv, [Next]_vars
  PROVE  IInv'
<1>1. BatchTypeOK /\ ctx \in Context /\ FlowBase /\ ParallelInv /\ FailuresInv /\ BoundsInv
  BY DEF IInv, TypeOK, FlowBase
<1>2. CASE ParallelStepRuns
  <2>1. UNCHANGED subVars /\ ParallelNext
    BY <1>2 DEF ParallelStepRuns
  <2>2. FlowBase' /\ FailuresInv' /\ BoundsInv'
    BY <1>1, <2>1, FlowStutters
  <2>3. CASE Runner
    BY <1>1, <2>2, <2>3, RunnerType, RunnerKeepsInv DEF IInv, TypeOK, FlowBase
  <2>4. CASE \E id \in Ids : Task(id)
    <3>1. PICK id \in Ids : Task(id)
      BY <2>4
    <3>2. BatchTypeOK' /\ ctx' \in Context /\ TaskEffect(id)
      BY <1>1, <3>1, TaskStep
    <3>3. ParallelInv'
      BY <1>1, <3>2, TaskKeepsInv
    <3> QED BY <2>2, <3>2, <3>3 DEF IInv, TypeOK, FlowBase
  <2> QED BY <2>1, <2>3, <2>4 DEF ParallelNext
<1>3. CASE FlowStepRuns
  <2>1. SubNext /\ UNCHANGED parallelVars
    BY <1>3 DEF FlowStepRuns
  <2>2. BatchTypeOK' /\ ParallelInv'
    BY <1>1, <2>1, ParallelStutters
  <2>3. FlowBase' /\ ctx' \in Context
    BY <1>1, <2>1, SubNextType
  <2>4. FailuresInv' /\ BoundsInv'
    BY <1>1, <2>1, SubNextFailures, SubNextBounds
  <2> QED BY <2>2, <2>3, <2>4 DEF IInv, TypeOK, FlowBase
<1>4. CASE Over \/ UNCHANGED vars
  <2>1. UNCHANGED subVars /\ UNCHANGED parallelVars /\ ctx' = ctx
    BY <1>4 DEF Over, vars, subVars, parallelVars
  <2> QED BY <1>1, <2>1, FlowStutters, ParallelStutters DEF IInv, TypeOK, FlowBase
<1> QED BY <1>2, <1>3, <1>4 DEF Next

LEMMA Invariance == Spec => []IInv
<1>1. Init => IInv
  BY InitInv
<1>2. IInv /\ [Next]_vars => IInv'
  BY NextInv
<1> QED BY <1>1, <1>2, PTL DEF Spec

\* The tasks, the loop's locals, its log and the shared context keep their types,
\* whatever the pages, the tabs and the nested actions answer.
THEOREM FlowTypeCorrect == Spec => []TypeOK
<1>1. IInv => TypeOK
  BY DEF IInv
<1> QED BY <1>1, Invariance, PTL

\* Neither a parallel step nor a flow step passes over a failure, for every
\* batch, loop, login and subflow, and with tabs of earlier attempts still at work.
THEOREM FailuresAreNotHidden == Spec => []PassedHidesNoFailure
<1>1. IInv => PassedHidesNoFailure
  BY DEF IInv, ParallelInv, FailuresInv, PassedHidesNoFailure
<1> QED BY <1>1, Invariance, PTL

\* Only a task that raised makes gather() let go of its siblings, however many
\* tabs there are and however often the step is tried again.
THEOREM StragglersAlwaysHaveACause == Spec => []StragglersHaveACause
<1>1. IInv => StragglersHaveACause
  BY DEF IInv, ParallelInv
<1> QED BY <1>1, Invariance, PTL

\* A loop that is over has tried every item, and paginate never takes more rows
\* or pages than it may, for every length of the list and of the pages.
THEOREM LoopsAreBounded == Spec => []LoopsKeepTheirBounds
<1>1. IInv => LoopsKeepTheirBounds
  BY BoundsHold DEF IInv, TypeOK, FlowBase
<1> QED BY <1>1, Invariance, PTL
=============================================================================
