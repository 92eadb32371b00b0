--------------------------- MODULE BrightSkyVerify ---------------------------
(***************************************************************************)
(* `stepper brightsky verify': the client of the workflow store            *)
(* (brightsky/client.py), the verification of one workflow and the walk of *)
(* the verification queue (brightsky/verify.py), and what a run's results  *)
(* come to (brightsky/executor.py).                                        *)
(*                                                                         *)
(* The store and the network are outside the repository.  They are         *)
(* modelled as the client uses them: a POST may be stored or not whatever  *)
(* the client hears of it, a report is filed once per idempotency key, and *)
(* a POST the client gave up on may still be stored later.  The store      *)
(* refuses a revoked token on every route except the fetch of a workflow.  *)
(*                                                                         *)
(* An entry is one workflow, and stands for the idempotency key its        *)
(* verification draws, which its report and its proposal's note carry.     *)
(***************************************************************************)
EXTENDS Integers, Sequences

CONSTANTS
  Entries,   \* the workflows asked for: see Entry
  Walks,     \* {TRUE}: --all-unverified, {FALSE}: one slug; or both
  NumSteps   \* bound: the steps of a version

\* stale: the version asked for is not the current one; mappable: map_version
\* accepts the current one.
Entry == [stale : BOOLEAN, mappable : BOOLEAN]

ASSUME EntriesAssumption == Entries \in Seq(Entry) /\ Entries # <<>>
ASSUME WalksAssumption == Walks \subseteq BOOLEAN
ASSUME NumStepsAssumption == NumSteps \in Nat \ {0}

Ids == 1..Len(Entries)

VARIABLES
  walk,      \* verify_all_unverified rather than verify_slug
  pc,        \* the request or the run that is next
  entry,     \* the entry being verified, 0 before the queue is read
  attempt,   \* _request's attempt at the request
  again,     \* _request's attempt at the re-read before a retry
  ran,   \* [Ids -> Seq(result)]: what StepRunner returned
  outcomes,  \* the VerifyOutcomes
  exit,      \* how the command ended, or "running"
  revoked,   \* the store refuses the token
  runs,      \* store: the report filed for each entry
  versions,  \* store: how many versions carry each entry's note
  late,      \* entries with a proposal the client gave up on still on its way
  overtaken, \* history: entries for which such a proposal was stored
  told       \* history: the client was answered 401 or 403

store == <<runs, versions, late, overtaken>>
verifyVars == <<walk, pc, entry, attempt, again, ran, outcomes, exit, revoked,
          told, store>>

Place == {"queue", "fetch", "execute", "report", "reread", "propose", "ended"}

\* A step's result as the report tells it: healed with another element, or by
\* a scroll or a wait.
StepStatus == {"passed", "failed", "healed", "injected"}

\* StepRunner over the navigate and NumSteps steps: a failed one is the last.
\* The navigate has no element for the visual bridge to scroll to.
RunResults ==
  {r \in UNION {[1..n -> StepStatus] : n \in 1..NumSteps + 1} :
     /\ r[1] # "injected"
     /\ \A i \in 1..Len(r) - 1 : r[i] # "failed"
     /\ Len(r) < NumSteps + 1 => r[Len(r)] = "failed"}

-----------------------------------------------------------------------------
(* executed_steps, and what verify_slug makes of it *)

\* Mutant: a step's first result counts, so that of the navigate is step 1's.
FirstResult(r, number) ==
  IF number = 1 THEN r[1]
  ELSE IF number + 1 \in 1..Len(r) THEN r[number + 1] ELSE "unchecked"

\* The last result of a step number; the navigate and the first acting step
\* are both step 1.
ResultOf(r, number) ==
  IF number + 1 \in 1..Len(r) THEN r[number + 1]
  ELSE IF number = 1 THEN r[1] ELSE "unchecked"

Executed(r) == [number \in 1..NumSteps |-> ResultOf(r, number)]

HealedStatus == {"healed", "injected"}

AllPassed(r) == \A n \in 1..NumSteps : Executed(r)[n] = "passed"

\* A heal to report, and no failing step that makes it moot.
OnlyHeals(r) ==
  /\ \E n \in 1..NumSteps : Executed(r)[n] \in HealedStatus
  /\ \A n \in 1..NumSteps : Executed(r)[n] \in {"passed"} \cup HealedStatus

\* _proposal(): every heal changed its element.
ElementsChanged(r) == \A n \in 1..NumSteps : Executed(r)[n] # "injected"

ReportOf(e) == IF Entries[e].mappable /\ AllPassed(ran[e]) THEN "passed"
                                                              ELSE "failed"

-----------------------------------------------------------------------------
(* One attempt of _request *)

\* What the client hears: a 2xx, a 2xx it cannot read, a 4xx, a refused token,
\* a 5xx, or nothing (OSError).
Answers == {"ok", "garbled", "refused", "rejected", "error", "lost"}
Unsure  == {"error", "lost"}

\* The store checks the token of every request but the fetch.
Heard(answer, guarded) ==
  IF guarded /\ revoked THEN answer \in {"rejected"} \cup Unsure
                        ELSE answer # "rejected"

\* An answer settles the request, or it is the second that does not.
Settles(answer, n) == answer \notin Unsure \/ n = 2

IsSuccess(answer) == answer \in {"ok", "garbled"}

Finish(how) == pc' = "ended" /\ exit' = how /\ UNCHANGED <<entry, outcomes>>

\* The outcome of this entry; verify_slug ends, the walk goes on.
Outcome(status, proposed) ==
  /\ outcomes' = Append(outcomes, [status |-> status, proposed |-> proposed])
  /\ IF walk /\ entry < Len(Entries)
       THEN pc' = "fetch" /\ entry' = entry + 1 /\ UNCHANGED exit
       ELSE pc' = "ended" /\ exit' = "done" /\ UNCHANGED entry

\* An error that verify_slug lets through: the walk turns it into an outcome.
Raised == IF walk THEN Outcome("failed", FALSE) ELSE Finish("error")

Rejected == told' = TRUE /\ Finish("rejected")

\* One more try of the request at hand.
Retry == attempt' = attempt + 1 /\ UNCHANGED <<pc, entry, outcomes, exit, told>>

\* The token check of verify_slug, the queue read of the walk.
ReadQueue(answer) ==
  /\ pc = "queue"
  /\ Heard(answer, TRUE)
  /\ IF Settles(answer, attempt)
     THEN /\ attempt' = 1
          /\ CASE answer = "ok" -> /\ pc' = "fetch" /\ entry' = 1
                                   /\ UNCHANGED <<outcomes, exit, told>>
               [] answer = "rejected" -> Rejected
               [] OTHER -> Finish("error") /\ UNCHANGED told
     ELSE Retry
  /\ UNCHANGED <<walk, again, ran, revoked, store>>

\* get_workflow, then map_version.
Fetch(answer) ==
  /\ pc = "fetch"
  /\ Heard(answer, FALSE)
  /\ IF Settles(answer, attempt)
     THEN /\ attempt' = 1
          /\ CASE answer # "ok" -> Raised
               [] answer = "ok" /\ Entries[entry].stale -> Outcome("skipped", FALSE)
               [] OTHER -> /\ pc' = IF Entries[entry].mappable THEN "execute" ELSE "report"
                           /\ UNCHANGED <<entry, outcomes, exit>>
          /\ UNCHANGED told
     ELSE Retry
  /\ UNCHANGED <<walk, again, ran, revoked, store>>

\* The executor returns, or raises (no browser here): nobody catches that.
Execute ==
  /\ pc = "execute"
  /\ \/ \E r \in RunResults : ran' = [ran EXCEPT ![entry] = r]
        /\ pc' = "report" /\ UNCHANGED exit
     \/ pc' = "ended" /\ exit' = "crashed" /\ UNCHANGED ran
  /\ UNCHANGED <<walk, entry, attempt, again, outcomes, revoked, told, store>>

\* The store files one report per idempotency key.
FileRun ==
  runs' = [runs EXCEPT ![entry] = IF @ = "none" THEN ReportOf(entry) ELSE @]

\* What may become of a report the client hears `answer' of.
RunStored(answer) ==
  CASE IsSuccess(answer)           -> FileRun
    [] answer \in Unsure /\ ~revoked -> FileRun \/ UNCHANGED runs
    [] OTHER                         -> UNCHANGED runs

\* After the report has been heard of.  A run of heals is proposed if the store
\* can describe the new elements (target_from_element).
Reported ==
  CASE ~Entries[entry].mappable -> Outcome("failed", FALSE)
    [] Entries[entry].mappable /\ AllPassed(ran[entry]) -> Outcome("passed", FALSE)
    [] Entries[entry].mappable /\ OnlyHeals(ran[entry]) ->
         \/ /\ ElementsChanged(ran[entry])
            /\ pc' = "propose"
            /\ UNCHANGED <<entry, outcomes, exit>>
         \/ Outcome("healed", FALSE)
    [] OTHER -> Outcome("failed", FALSE)

\* Mutant: a report that failed is logged and otherwise ignored.
ReportIgnored(answer) ==
  /\ pc = "report"
  /\ Heard(answer, TRUE)
  /\ RunStored(answer)
  /\ IF Settles(answer, attempt)
     THEN /\ attempt' = 1
          /\ IF answer = "rejected" THEN Rejected ELSE Reported /\ UNCHANGED told
     ELSE Retry
  /\ UNCHANGED <<walk, again, ran, revoked, versions, late, overtaken>>

\* report_run; its answer's body is not read.
Report(answer) ==
  /\ pc = "report"
  /\ Heard(answer, TRUE)
  /\ RunStored(answer)
  /\ IF Settles(answer, attempt)
     THEN /\ attempt' = 1
          /\ CASE answer = "rejected" -> Rejected
               [] IsSuccess(answer) -> Reported /\ UNCHANGED told
               [] OTHER -> Outcome("failed", FALSE) /\ UNCHANGED told
     ELSE Retry
  /\ UNCHANGED <<walk, again, ran, revoked, versions, late, overtaken>>

AddVersion(e) == versions' = [versions EXCEPT ![e] = @ + 1]

\* What may become of a proposal the client hears `answer' of.
VersionStored(answer) ==
  CASE IsSuccess(answer) -> AddVersion(entry) /\ UNCHANGED late
    [] answer \in Unsure /\ ~revoked ->
         \/ AddVersion(entry) /\ UNCHANGED late
         \/ answer = "lost" /\ late' = late \cup {entry} /\ UNCHANGED versions
         \/ UNCHANGED <<versions, late>>
    [] OTHER -> UNCHANGED <<versions, late>>

\* Mutant: an unsure proposal is sent again without asking the store.
ResendAt == "propose"

\* before_retry: the workflow is read back first.
RetryAt == "reread"

\* Mutant: a refused token is a failed proposal like any other.
ProposalFails(answer) ==
  Outcome("healed", FALSE) /\ told' = (told \/ answer = "rejected")

\* _reraise_if_token_rejected, or "proposal failed".
ProposalFailed(answer) ==
  IF answer = "rejected" THEN Rejected ELSE Outcome("healed", FALSE) /\ UNCHANGED told

\* propose_version, up to the answer that settles it.
Propose(answer) ==
  /\ pc = "propose"
  /\ Heard(answer, TRUE)
  /\ VersionStored(answer)
  /\ IF Settles(answer, attempt)
     THEN /\ attempt' = 1
          /\ CASE answer = "ok" -> Outcome("healed", TRUE) /\ UNCHANGED told
               [] answer = "garbled" -> Raised /\ UNCHANGED told
               [] OTHER -> ProposalFailed(answer)
     ELSE /\ attempt' = attempt + 1 /\ pc' = RetryAt
          /\ UNCHANGED <<entry, outcomes, exit, told>>
  /\ again' = 1
  /\ UNCHANGED <<walk, ran, revoked, runs, overtaken>>

\* Mutant: the re-read starts the count of attempts again.
SendAfresh == pc' = "propose" /\ attempt' = 1

\* The POST is sent for the second and last time.
SendAgain == pc' = "propose" /\ UNCHANGED attempt

\* already_stored(): the version is there, or the POST is sent again; a re-read
\* that fails leaves the first answer standing.
Reread(answer) ==
  /\ pc = "reread"
  /\ Heard(answer, FALSE)
  /\ IF Settles(answer, again)
     THEN /\ CASE answer = "ok" /\ versions[entry] > 0 ->
                    Outcome("healed", TRUE) /\ attempt' = 1
               [] answer = "ok" /\ versions[entry] = 0 ->
                    SendAgain /\ UNCHANGED <<entry, outcomes, exit>>
               [] OTHER -> Outcome("healed", FALSE) /\ attempt' = 1
          /\ again' = 1
     ELSE again' = again + 1 /\ UNCHANGED <<pc, entry, outcomes, exit, attempt>>
  /\ UNCHANGED <<walk, ran, revoked, told, store>>

-----------------------------------------------------------------------------
(* The store, and the whole *)

\* A proposal the client gave up on is stored after all.
StoredLate(e) ==
  /\ e \in late
  /\ late' = late \ {e}
  /\ AddVersion(e)
  /\ overtaken' = overtaken \cup {e}
  /\ UNCHANGED <<walk, pc, entry, attempt, again, ran, outcomes, exit,
                 revoked, told, runs>>

\* The token is revoked mid-run.
Revoke ==
  /\ ~revoked
  /\ revoked' = TRUE
  /\ UNCHANGED <<walk, pc, entry, attempt, again, ran, outcomes, exit, told, store>>

VerifyInit ==
  /\ walk \in Walks
  /\ pc = "queue" /\ entry = 0 /\ attempt = 1 /\ again = 1
  /\ ran = [e \in Ids |-> <<>>]
  /\ outcomes = <<>> /\ exit = "running"
  /\ revoked \in BOOLEAN /\ told = FALSE
  /\ runs = [e \in Ids |-> "none"]
  /\ versions = [e \in Ids |-> 0]
  /\ late = {} /\ overtaken = {}

Client ==
  \/ Execute
  \/ \E answer \in Answers :
       ReadQueue(answer) \/ Fetch(answer) \/ Report(answer)
         \/ Propose(answer) \/ Reread(answer)

VerifyNext == Client \/ Revoke \/ \E e \in Ids : StoredLate(e)

VerifySpec == VerifyInit /\ [][VerifyNext]_verifyVars

\* The client's requests time out (TIMEOUT), and its runs end.
FairSpec == VerifySpec /\ WF_verifyVars(Client)

-----------------------------------------------------------------------------
(* Properties *)

\* Every variable has its type; in particular no request is sent three times.
OutcomeStatus == {"passed", "failed", "healed", "skipped"}
VerifyTypeOK ==
  /\ walk \in BOOLEAN /\ pc \in Place
  /\ entry \in 0..Len(Entries) /\ attempt \in 1..2 /\ again \in 1..2
  /\ ran \in [Ids -> RunResults \cup {<<>>}]
  /\ outcomes \in Seq([status : OutcomeStatus, proposed : BOOLEAN])
  /\ exit \in {"running", "done", "error", "rejected", "crashed"}
  /\ revoked \in BOOLEAN /\ told \in BOOLEAN
  /\ runs \in [Ids -> {"none", "passed", "failed"}]
  /\ versions \in [Ids -> Nat]
  /\ late \subseteq Ids /\ overtaken \subseteq Ids

\* A run's heals are proposed once, whatever answers are lost: two versions
\* with one note exist only if the store took up a proposal after the client
\* had timed out on it (propose_version and its already_stored).
OneVersionPerRun == \A e \in Ids : versions[e] > 1 => e \in overtaken

\* The store never holds a proposal whose run it was not told had failed
\* (verify_slug reports before it proposes, and stops if the report failed).
ProposalsFollowTheirReport == \A e \in Ids : versions[e] > 0 => runs[e] = "failed"

\* What the command says of an entry is what the store holds: a passed one has
\* its passed report, a proposed version exists, and for an entry that was
\* skipped nothing was sent (VerifyOutcome).
OutcomesAgreeWithTheStore ==
  \A e \in 1..Len(outcomes) :
    /\ outcomes[e].status = "passed" => runs[e] = "passed"
    /\ outcomes[e].proposed => versions[e] > 0 /\ outcomes[e].status = "healed"
    /\ outcomes[e].status = "skipped" => runs[e] = "none" /\ versions[e] = 0

\* The store and the command tell the same story: nothing is proposed on a report
\* that was not taken, and nothing is claimed that the store does not hold.
StoreAndOutcomesAgree == ProposalsFollowTheirReport /\ OutcomesAgreeWithTheStore

\* A refused token ends the command: "never an outcome", and no later entry is
\* run (verify.py and its _reraise_if_token_rejected).
RejectedTokenEndsTheWalk == told <=> exit = "rejected"

\* Once the queue has been read, no request that failed ends the walk: every
\* entry has its outcome (verify_all_unverified).
EveryEntryHasItsOutcome ==
  walk /\ entry > 0 /\ exit \in {"done", "error"} => Len(outcomes) = Len(Entries)

\* A walk that has its queue stops for a refused token and for nothing else.
WalkStopsForTheTokenOnly == RejectedTokenEndsTheWalk /\ EveryEntryHasItsOutcome

\* A passed report, which promotes the version, is of a run in which nothing
\* failed and every acting step passed unhealed (executed_steps, verify_slug).
PassedMeansStepsPassed ==
  \A e \in Ids : runs[e] = "passed" =>
    /\ Len(ran[e]) = NumSteps + 1
    /\ \A i \in 2..NumSteps + 1 : ran[e][i] = "passed"

\* The command ends, whatever is lost.
VerifyEnds == <>(pc = "ended")

-----------------------------------------------------------------------------
(* What the documentation says and the code does not do *)

\* verify.py: "a run is reported `passed' only when every step passed as
\* stored; a healed step is `failed' in the report".  The result of a healed
\* navigate is replaced by that of the first acting step.
PassedMeansAsStored ==
  \A e \in Ids : runs[e] = "passed" =>
    \A i \in 1..Len(ran[e]) : ran[e][i] = "passed"

=============================================================================
