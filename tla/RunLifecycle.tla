---------------------------- MODULE RunLifecycle ----------------------------
(***************************************************************************)
(* What one invocation opens and closes: main.run() and                    *)
(* main.run_data_rows(), the SessionSet they hand to build_pipeline        *)
(* (engine/session.py), and the session adapters it opens on first use     *)
(* (bootstrap/session.py, sites/db/session.py).                            *)
(*                                                                         *)
(* run() is one row with nothing shared.  run_data_rows() runs a row per   *)
(* record inside domain.shared(), which for the web domain is one browser. *)
(* Every row builds fresh adapters.  An adapter acquires its layers one    *)
(* await at a time (Playwright, browser, context; a connection), and any   *)
(* of the awaits may raise.                                                *)
(*                                                                         *)
(* StepRunner is seen here through what it asks of the SessionSet: the     *)
(* session of a step's domain, per attempt.  What it does with a failed    *)
(* attempt is the business of the module StepRunner.                       *)
(***************************************************************************)
EXTENDS Integers, Sequences, SequencesExt

CONSTANTS
  Domains,       \* the registered domains
  Layers,        \* [Domains -> Seq(resource)]: what open() acquires, in order
  SharedLayers,  \* the same for an adapter that was handed domain.shared()
  Tidy,          \* the domains whose open() cannot fail holding something
  Configs,       \* the invocations: a set of Config
  MaxTries       \* bound: the attempts StepRunner makes of one step

Resources == UNION {Range(Layers[d]) : d \in Domains}

\* What a step asks for: the domain its action declares ("none": it is
\* session-agnostic), and whether it is one of _LOGIN_ACTIONS.
Request == [domain : Domains \cup {"none", "unknown"}, login : BOOLEAN]

\* data: run_data_rows rather than run; rows: how many; primary: the domain of
\* the RunConfig; persists: the settings have a storage_state_path; plan: what
\* the steps ask for.
Config == [data : BOOLEAN, rows : Nat, primary : Domains, persists : BOOLEAN,
           plan : Seq(Request)]

ASSUME DomainsAssumption == {"none", "unknown"} \cap Domains = {}
ASSUME LayersAssumption ==
  \A d \in Domains : /\ Layers[d] \in Seq(Resources) /\ SharedLayers[d] \in Seq(Resources)
                     /\ IsInjective(Layers[d]) /\ IsInjective(SharedLayers[d])
ASSUME ConfigsAssumption ==
  Configs \subseteq Config /\ \A c \in Configs : ~c.data => c.rows = 1
ASSUME MaxTriesAssumption == MaxTries \in Nat \ {0}

VARIABLES
  cfg,       \* the invocation
  pc,        \* where it is: a Place
  row,       \* the row it is at
  step,      \* the step of the plan StepRunner is at
  tries,     \* the attempts of that step that have failed
  wants,     \* the domain get() is opening
  got,       \* the layers that open() holds, or the head of the close chain
  opened,    \* SessionSet._opened, in its insertion order
  pending,   \* the domains _close_chain has still to close
  owed,      \* [Domains -> [Resources -> Nat]]: acquired, release not yet tried
  shared,    \* the shared browser: "none", "open" or "closed"
  tee,       \* the row whose run.log handler is attached, or 0
  exc,       \* the exception in flight, <<>> for none
  loggedIn,  \* a login action is among this row's results
  saved,     \* this row wrote its storage state
  collected, \* the rows whose execute_pipeline() returned
  left,      \* history: as owed, what open() calls that raised left behind
  first      \* history: the first failure of this close_all()

vars == <<cfg, pc, row, step, tries, wants, got, opened, pending, owed, shared,
          tee, exc, loggedIn, saved, collected, left, first>>

Place == {"share", "prepare", "tee", "open", "bind", "steps", "get", "report",
          "save", "close", "unshare", "ended"}

\* The variables of the row's SessionSet, of its StepRunner and of its files.
setVars  == <<wants, got, opened, pending, owed, left>>
stepVars == <<step, tries, loggedIn, saved>>

NoExc == <<>>
Ran   == exc = NoExc

-----------------------------------------------------------------------------
(* Sessions *)

\* The layers the adapter of `d' owns; `shared' is for the primary only.
LayersOf(d) == IF cfg.data /\ d = cfg.primary THEN SharedLayers[d]
                                                  ELSE Layers[d]

\* What its close() goes through, last acquired first.
HandlesOf(d) == LayersOf(d)

\* Mutant: _order is not reversed.
OldestFirst(ds) == ds

\* pending = list(reversed(self._order)).
TearDown(ds) == Reverse(ds)

\* How many handles the head of the close chain has to release.
HeadHandles(ds) == IF ds = <<>> THEN 0 ELSE Len(HandlesOf(Head(ds)))

\* Mutant: the log handler is removed on the happy path only.
HandlerAfterSuccess(e) == IF ~cfg.data /\ e = NoExc THEN 0 ELSE tee

\* run() leaves _tee_logs_to_run_file before its finally; a data row after.
HandlerAfter(e) == IF cfg.data THEN tee ELSE 0

\* The try block is left, with or without an exception: close_all() begins.
Leave(e) ==
  /\ pc' = "close"
  /\ exc' = e
  /\ first' = NoExc
  /\ pending' = TearDown(opened)
  /\ got' = HeadHandles(pending')
  /\ tee' = HandlerAfter(e)

\* Mutant: get() does not look in _opened before it opens.
Anew(d) == d \in Domains

\* get(): what is in _opened is handed out, a registered domain is opened.
MustOpen(d) == d \in Domains \ Range(opened)

StartOpen(d, place) ==
  /\ pc' = place
  /\ wants' = d
  /\ got' = 0
  /\ UNCHANGED <<opened, pending, owed, left>>

\* One more await of open() has returned.
OpenLayer ==
  /\ pc \in {"open", "get"}
  /\ got < Len(LayersOf(wants))
  /\ LET x == LayersOf(wants)[got + 1] IN owed' = [owed EXCEPT ![wants][x] = @ + 1]
  /\ got' = got + 1
  /\ UNCHANGED <<cfg, pc, row, stepVars, wants, opened, pending, shared, tee, exc,
                 collected, left, first>>

\* open() has returned: only now is the session recorded.
OpenReturns ==
  /\ pc \in {"open", "get"}
  /\ got = Len(LayersOf(wants))
  /\ opened' = Append(opened, wants)
  /\ pc' = IF pc = "open" THEN "bind" ELSE "steps"
  /\ UNCHANGED <<cfg, row, stepVars, wants, got, pending, owed, shared, tee, exc,
                 collected, left, first>>

\* open() raised with `got' layers in hand, which nobody recorded.
Forsake ==
  /\ wants \in Tidy => got = 0
  /\ left' = [left EXCEPT ![wants] =
                [x \in Resources |->
                   @[x] + (IF x \in Range(SubSeq(LayersOf(wants), 1, got))
                             THEN 1 ELSE 0)]]

-----------------------------------------------------------------------------
(* One row: prepare_run, build_pipeline, execute_pipeline *)

\* domain.shared(): web_shared_browser tidies up after a failed launch.
Share ==
  /\ pc = "share"
  /\ \/ shared' = "open" /\ exc' = exc
        /\ pc' = IF cfg.rows = 0 THEN "unshare" ELSE "prepare"
     \/ shared' = "none" /\ pc' = "ended" /\ exc' = <<"share">>
  /\ UNCHANGED <<cfg, row, setVars, stepVars, tee, collected, first>>

\* Where an exception outside the row's try block goes.
Outside == IF cfg.data THEN "unshare" ELSE "ended"

\* prepare_run() plans and validates; it raises before any session exists.
Prepare ==
  /\ pc = "prepare"
  /\ \/ pc' = "tee" /\ exc' = exc
     \/ pc' = Outside /\ exc' = <<"prepare">>
  /\ UNCHANGED <<cfg, row, setVars, stepVars, shared, tee, collected, first>>

\* build_pipeline() opens the primary session at once.
Tee ==
  /\ pc = "tee"
  /\ tee' = row
  /\ StartOpen(cfg.primary, "open")
  /\ UNCHANGED <<cfg, row, stepVars, shared, exc, collected, first>>

\* The run.log cannot be opened: inside run()'s try, outside a data row's.
TeeFails ==
  /\ pc = "tee"
  /\ \/ ~cfg.data /\ Leave(<<"tee">>)
     \/ cfg.data /\ pc' = "unshare" /\ exc' = <<"tee">>
                 /\ UNCHANGED <<first, pending, got, tee>>
  /\ UNCHANGED <<cfg, row, stepVars, wants, opened, owed, left, shared, collected>>

PrimaryFails ==
  /\ pc = "open"
  /\ Forsake
  /\ Leave(<<"open">>)
  /\ UNCHANGED <<cfg, row, stepVars, wants, opened, owed, shared, collected>>

\* The rest of build_pipeline (the heal cache, the healer) and start_suite.
Bind ==
  /\ pc = "bind"
  /\ pc' = "steps"
  /\ step' = 1 /\ tries' = 0 /\ loggedIn' = FALSE /\ saved' = FALSE
  /\ UNCHANGED <<cfg, row, setVars, shared, tee, exc, collected, first>>

AtStep == pc = "steps" /\ step <= Len(cfg.plan)

\* StepRunner asks for a session not opened yet.
Demand ==
  /\ AtStep
  /\ MustOpen(cfg.plan[step].domain)
  /\ StartOpen(cfg.plan[step].domain, "get")
  /\ UNCHANGED <<cfg, row, stepVars, shared, tee, exc, collected, first>>

\* The step has its result; a failed one may stop the run.
Settle ==
  /\ step' \in {step + 1, Len(cfg.plan) + 1}
  /\ tries' = 0
  /\ loggedIn' = (loggedIn \/ cfg.plan[step].login)
  /\ UNCHANGED saved

TryAgain ==
  /\ tries + 1 < MaxTries
  /\ tries' = tries + 1
  /\ UNCHANGED <<step, loggedIn, saved>>

\* An attempt with the session it asked for, with none ("none"), or one that
\* get() refused with UnknownDomainError.
Attempt ==
  /\ AtStep
  /\ ~ MustOpen(cfg.plan[step].domain)
  /\ TryAgain \/ Settle
  /\ UNCHANGED <<cfg, pc, row, setVars, shared, tee, exc, collected, first>>

\* open() raised: for StepRunner the attempt failed.
DemandFails ==
  /\ pc = "get"
  /\ Forsake
  /\ pc' = "steps"
  /\ TryAgain \/ Settle
  /\ UNCHANGED <<cfg, row, wants, got, opened, pending, owed, shared, tee, exc,
                 collected, first>>

\* runner.run() was cancelled, inside an open() or outside one.
Cancelled ==
  /\ (pc = "get" /\ Forsake) \/ (AtStep /\ UNCHANGED left)
  /\ Leave(<<"runner">>)
  /\ UNCHANGED <<cfg, row, stepVars, wants, opened, owed, shared, collected>>

StepsDone ==
  /\ pc = "steps" /\ step > Len(cfg.plan)
  /\ pc' = "report"
  /\ UNCHANGED <<cfg, row, setVars, stepVars, shared, tee, exc, collected, first>>

\* finish_suite(), the CI summary, the drift log.
Report ==
  /\ pc = "report"
  /\ pc' = "save"
  /\ UNCHANGED <<cfg, row, setVars, stepVars, shared, tee, exc, collected, first>>

\* Files that cannot be written, in build_pipeline or after the run.
FilesFail ==
  /\ pc \in {"bind", "report"}
  /\ Leave(<<pc>>)
  /\ UNCHANGED <<cfg, row, stepVars, wants, opened, owed, left, shared, collected>>

\* Pipeline.context: build_pipeline was handed a SessionSet, so there is no
\* `primary' adapter to take a context from.
HasContext == FALSE

\* _save_session_if_logged_in() has something to do.
SavesSession == cfg.persists /\ loggedIn

\* execute_pipeline() returns the row's results.
Save ==
  /\ pc = "save"
  /\ SavesSession => HasContext
  /\ saved' = SavesSession
  /\ collected' = collected \cup {row}
  /\ Leave(NoExc)
  /\ UNCHANGED <<cfg, row, step, tries, loggedIn, wants, opened, owed, left, shared>>

\* None.storage_state() is an AttributeError.
SaveFails ==
  /\ pc = "save"
  /\ SavesSession /\ ~HasContext
  /\ Leave(<<"save">>)
  /\ UNCHANGED <<cfg, row, stepVars, wants, opened, owed, left, shared, collected>>

-----------------------------------------------------------------------------
(* close_all() and the end *)

\* One handle is released, or its release raised: the nested finallys go on to
\* the next handle either way, and a later failure replaces an earlier one.
CloseLayer ==
  /\ pc = "close" /\ got > 0
  /\ LET d == Head(pending)
         x == HandlesOf(d)[got]
     IN /\ IF x \in Range(LayersOf(d))
             THEN owed' = [owed EXCEPT ![d][x] = @ - 1] /\ UNCHANGED shared
             ELSE shared' = "closed" /\ UNCHANGED owed
        /\ \/ UNCHANGED <<exc, first>>
           \/ /\ exc' = <<d, x>>
              /\ first' = IF first = NoExc THEN <<d, x>> ELSE first
  /\ got' = got - 1
  /\ UNCHANGED <<cfg, pc, row, stepVars, wants, opened, pending, tee, collected, left>>

\* Mutant: no finally around the recursion, the rest is skipped on a failure.
CloseNextIfClosed ==
  /\ pc = "close" /\ got = 0 /\ pending # <<>>
  /\ opened' = RemoveFirst(opened, Head(pending))
  /\ pending' = IF first = NoExc THEN Tail(pending) ELSE <<>>
  /\ got' = HeadHandles(pending')
  /\ UNCHANGED <<cfg, pc, row, stepVars, wants, owed, shared, tee, exc, collected,
                 left, first>>

\* self._opened.pop(head); await self._close_chain(rest).
CloseNext ==
  /\ pc = "close" /\ got = 0 /\ pending # <<>>
  /\ opened' = RemoveFirst(opened, Head(pending))
  /\ pending' = Tail(pending)
  /\ got' = HeadHandles(pending')
  /\ UNCHANGED <<cfg, pc, row, stepVars, wants, owed, shared, tee, exc, collected,
                 left, first>>

\* Mutant: a row that raised does not stop the rows after it.
AfterAnyRow ==
  IF cfg.data /\ row < cfg.rows THEN <<"prepare", row + 1>> ELSE <<Outside, row>>

\* Mutant: a row whose files could not be read is run again, and again.
RetryRow ==
  CASE cfg.data /\ exc = <<"bind">> -> <<"prepare", row>>
    [] Ran /\ row < cfg.rows -> <<"prepare", row + 1>>
    [] OTHER -> <<Outside, row>>

\* Where close_all() leads: the next row, unless this one raised.
AfterRow ==
  IF Ran /\ row < cfg.rows THEN <<"prepare", row + 1>> ELSE <<Outside, row>>

EndRow ==
  /\ pc = "close" /\ pending = <<>>
  /\ pc' = AfterRow[1] /\ row' = AfterRow[2]
  /\ exc' = IF pc' = "prepare" THEN NoExc ELSE exc
  /\ tee' = IF cfg.data THEN 0 ELSE tee
  /\ UNCHANGED <<cfg, setVars, stepVars, shared, collected, first>>

\* The shared browser is closed after the last row, or the one that raised.
Unshare ==
  /\ pc = "unshare"
  /\ shared' = "closed"
  /\ pc' = "ended"
  /\ exc' \in {exc, <<"unshare">>}
  /\ UNCHANGED <<cfg, row, setVars, stepVars, tee, collected, first>>

Nothing == [d \in Domains |-> [x \in Resources |-> 0]]

Init ==
  /\ cfg \in Configs
  /\ pc = IF cfg.data THEN "share" ELSE "prepare"
  /\ row = 1 /\ step = 1 /\ tries = 0
  /\ wants = cfg.primary /\ got = 0
  /\ opened = <<>> /\ pending = <<>>
  /\ owed = Nothing /\ left = Nothing
  /\ shared = "none" /\ tee = 0
  /\ exc = NoExc /\ first = NoExc
  /\ loggedIn = FALSE /\ saved = FALSE
  /\ collected = {}

Next ==
  \/ Share \/ Prepare \/ Tee \/ TeeFails
  \/ OpenLayer \/ OpenReturns \/ PrimaryFails \/ Bind
  \/ Demand \/ Attempt \/ DemandFails \/ Cancelled \/ StepsDone
  \/ Report \/ FilesFail \/ Save \/ SaveFails
  \/ CloseLayer \/ CloseNext \/ EndRow \/ Unshare

Spec == Init /\ [][Next]_vars

\* Every await returns or raises: the event loop of one asyncio.run().
FairSpec == Spec /\ WF_vars(Next)

-----------------------------------------------------------------------------
(* Properties *)

\* Every variable has its type; in particular a step is attempted MaxTries
\* times at most, and no resource is released more often than it was acquired
\* (StepRunner._run_retry_loop, WebSession.close).
Counts == [Domains -> [Resources -> Nat]]
Failures == {<<p>> : p \in Place \cup {"runner"}}
              \cup {<<d, x>> : d \in Domains, x \in Resources}
TypeOK ==
  /\ cfg \in Configs /\ pc \in Place
  /\ row \in Nat \ {0} /\ row - 1 \in 0..cfg.rows
  /\ step \in 1..Len(cfg.plan) + 1 /\ tries \in 0..MaxTries - 1
  /\ wants \in Domains /\ got \in Nat
  /\ opened \in Seq(Domains) /\ pending \in Seq(Domains)
  /\ owed \in Counts /\ left \in Counts
  /\ shared \in {"none", "open", "closed"} /\ tee \in 0..cfg.rows
  /\ exc \in Failures \cup {NoExc} /\ first \in Failures \cup {NoExc}
  /\ loggedIn \in BOOLEAN /\ saved \in BOOLEAN
  /\ collected \subseteq 1..cfg.rows

\* No session is ever open twice at once, whatever opens failed and were
\* retried before: "Called once per run" (SessionAdapter.open), for the opens
\* that returned.
OpenOnce == \A d \in Domains, x \in Resources : owed[d][x] <= left[d][x] + 1

\* The place between two rows, and the end: nobody holds a session of a row.
BetweenRows == pc \in {"prepare", "unshare", "ended"}

\* Whatever raised, and whichever of the closes raised too, a session that was
\* opened is closed before the next row starts and before the run ends; what
\* is still owed then is what an open() that raised left behind
\* (close_all and _close_chain, the finally of run and of run_data_rows).
OpenedIsClosed == BetweenRows => opened = <<>> /\ owed = left

\* What a run opened, it opened once and closed: the two halves of the sessions'
\* accounting, which a retried open and a raising close can each throw out.
OpenedOnceAndClosed == OpenOnce /\ OpenedIsClosed

\* The rows' contexts live and die inside the shared browser: no row's close
\* takes it down, a row that failed included ("the shared browser outlives it",
\* run_data_rows; WebSession._owns_browser).
SharedOutlivesRows ==
  cfg.data /\ pc \notin {"share", "ended"} => shared = "open"

\* run.log of a row gets this row's lines only: the handler of an earlier row
\* is gone whenever the next begins, and none is left at the end
\* (_tee_logs_to_run_file and its finally).
LogsStayApart == tee \in {0, row} /\ (BetweenRows => tee = 0)

\* A row neither takes the shared browser from the next one nor writes into its log.
RowsStayApart == SharedOutlivesRows /\ LogsStayApart

\* A run that ends without an exception has the results of every row: none was
\* lost to an exception that a teardown swallowed (run_data_rows).
NoRowIsLost == pc = "ended" /\ Ran => collected = 1..cfg.rows

\* A session is closed only when every session opened after it has been closed:
\* "a session opened later may depend on an earlier one"
\* (SessionSet.close_all, tests/unit/test_session_set.py).
NewestFirst ==
  [][\A d \in Domains, x \in Resources :
       owed'[d][x] < owed[d][x] => d = Last(opened)]_vars

\* Whatever is asked and whatever fails, the invocation ends.
RunEnds == <>(pc = "ended")

-----------------------------------------------------------------------------
(* What the documentation says and the code does not do *)

\* SessionAdapter.close: "Release it. Called once per run, including when the
\* run raised."  An open() that raised is not in _order, so nothing closes what
\* it had acquired.
NothingLeftOpen == pc = "ended" => owed = Nothing

\* SessionSet.close_all: "the first failure still propagates".
FirstFailurePropagates ==
  pc = "close" /\ pending = <<>> /\ first # NoExc => exc = first

\* main.py: a site in _SITES_WITH_PERSISTENCE "persist[s] a logged-in session
\* across runs": a row that got through its steps, a login action among them,
\* and its reports has saved it when its sessions close.
LoginPersists ==
  pc = "close" /\ exc \in {NoExc, <<"save">>} /\ SavesSession => saved

=============================================================================
