---------------------------- MODULE OpenLibrary ----------------------------
(***************************************************************************)
(* The OpenLibrary site module: the actions stepper/sites/openlibrary      *)
(* registers and the page objects of poms/openLibrary they drive, against  *)
(* one reader's two shelves.  A workflow is a sequence of those actions    *)
(* with their guards; the site's session may expire between any two        *)
(* requests, a page of a shelf may come late or be read twice, the page of *)
(* a book may come late, and a click may act and still raise.  Nobody else *)
(* edits the shelves during the run.                                       *)
(***************************************************************************)
EXTENDS Naturals, Sequences, FiniteSets, SequencesExt

CONSTANTS
  Books,         \* what the site can list
  Old,           \* those published by the year asked for
  Unlinked,      \* those a shelf lists without a link
  Workflows,     \* the steps of each workflow, by its name
  Continues,     \* names of those that go on after a failed step
  TopUp,         \* name of the workflow that tops the list up
  Target,        \* how many books it wants on the list
  PageLen,       \* bound: results on one page of the search
  MaxPages,      \* delays.max_search_pages
  ShelfPage,     \* books on one page of a shelf
  MaxTurns,      \* bound: clicks on Next while one shelf is counted
  MaxLinks       \* bound: links one listing of a shelf gives

ASSUME BooksAssumption == IsFiniteSet(Books) /\ Old \subseteq Books /\ Unlinked \subseteq Books

ASSUME BoundsAssumption ==
  /\ Target \in Nat /\ PageLen \in Nat /\ MaxPages \in Nat
  /\ ShelfPage \in Nat \ {0} /\ MaxTurns \in Nat /\ MaxLinks \in Nat

\* A step: the action, its guard, and the number it is about, which it names
\* itself, takes from the gap, or adds to the count stored before.
WorkflowStep == [does : {"login", "store", "ensure", "assert", "collect", "add", "clear"},
                 when : {"always", "gap", "collected"}, of : {"number", "gap", "delta"}, n : Nat]

ASSUME WorkflowsAssumption == \A w \in DOMAIN Workflows : Workflows[w] \in Seq(WorkflowStep)

\* ol_ensure_count.json: log in, count, collect the gap, add, count again.
ASSUME TopUpAssumption ==
  /\ TopUp \in DOMAIN Workflows
  /\ Workflows[TopUp] =
       << [does |-> "login",   when |-> "always",    of |-> "number", n |-> 0],
          [does |-> "ensure",  when |-> "always",    of |-> "number", n |-> Target],
          [does |-> "collect", when |-> "gap",       of |-> "gap",    n |-> 0],
          [does |-> "add",     when |-> "collected", of |-> "number", n |-> 0],
          [does |-> "assert",  when |-> "gap",       of |-> "number", n |-> Target] >>

VARIABLES
  shelf, live,                       \* the site: where a book is shelved, whether the session is
  flow, results, ctx, listed,        \* the run: workflow, statuses, context, books listed at its start
  at,                                \* where in the current action the run is
  counted, side,                     \* books counted so far, and the shelf being counted
  ahead, pending, turns,             \* books on the page shown and behind it, a Next that has not landed
  due, misread,                      \* history: rows still to be read, counts that went wrong and how
  acc, pageNo,                       \* collected so far, and from how many pages
  room, examined,                    \* books the page may still give, entries of it looked at
  todo, label, pass, rendered        \* books still to open, and the one that is open

siteVars  == <<shelf, live>>
runVars   == <<flow, results, ctx, listed>>
countVars == <<counted, side, ahead, pending, turns, due, misread>>
bookVars  == <<todo, label, pass, rendered>>
pageVars  == <<acc, pageNo, room, examined>>
vars      == <<siteVars, runVars, at, countVars, pageVars, bookVars>>

Labels == {"want", "already"}
None == "none"

---------------------------------------------------------------------------
(* The site, as the page objects meet it. *)

OnList == {b \in Books : shelf[b] # None}

\* A reader whose session is gone is sent to the login form, which lists nothing.
Shown(s) == IF live THEN {b \in Books : shelf[b] = s} ELSE {}

\* The progress button shelves a book as wanted; on a book that is shelved it
\* opens a menu or takes the book off (remove_from_shelf knows both).
ButtonPressed(b) == IF ~live THEN {shelf[b]}
                    ELSE IF shelf[b] = None THEN {"want"} ELSE {shelf[b], None}

\* An entry of the menu moves the book there, or takes it off the shelf it is on.
EntryPressed(b, l) == IF ~live THEN {shelf[b]}
                      ELSE IF shelf[b] = l THEN {l, None} ELSE {l}

SessionExpires ==
  /\ live /\ live' = FALSE
  /\ UNCHANGED <<shelf, runVars, at, countVars, pageVars, bookVars>>

---------------------------------------------------------------------------
(* The run: one step after the other, each guarded. *)

Steps == Workflows[flow]
Ended == \/ Len(results) = Len(Steps)
         \/ flow \notin Continues /\ "failed" \in ToSet(results)
Now == Steps[Len(results) + 1]
Going == at = "next" /\ ~Ended

\* The guards the shipped workflows use; an empty collection counts as absent.
Holds(when) == CASE when = "always"    -> TRUE
                 [] when = "gap"       -> ctx.gap > 0
                 [] when = "collected" -> ctx.collected # << >>

Begins(does) == Going /\ Now.does \in does /\ Holds(Now.when)

\* A step ends with a status and the context it leaves.
Ends(status, c) == results' = Append(results, status) /\ ctx' = c /\ at' = "next"

SkipStep ==
  /\ Going /\ ~Holds(Now.when)
  /\ Ends("skipped", ctx)
  /\ UNCHANGED <<siteVars, flow, listed, countVars, pageVars, bookVars>>

\* ol_ensure_login: a protected page that is reached passes the step.  Otherwise
\* the form is filled and sent (no credentials, a field or a button that is not
\* found fail); leaving the login address is taken for being logged in.
EnsureLogin ==
  /\ Begins({"login"})
  /\ \/ live /\ Ends("passed", ctx) /\ UNCHANGED live
     \/ \E sent, left, signed \in BOOLEAN :
          /\ Ends(IF sent /\ (left \/ signed) THEN "passed" ELSE "failed", ctx)
          /\ live' = (live \/ (sent /\ signed))
  /\ UNCHANGED <<shelf, flow, listed, countVars, pageVars, bookVars>>

---------------------------------------------------------------------------
(* Counting: every page of the one shelf, then of the other.  The total    *)
(* may be wrong with the session there: a page is read whose rows may not  *)
(* all have come, and after a click on Next whichever page is shown.       *)

Reading == at \in {"counting", "paging"}

\* The rows of the page that is shown; the login form has none.
Rows == IF ahead < ShelfPage THEN ahead ELSE ShelfPage

\* What a count of the first shelf alone, twice, would go to.
GoesToWanted(s) ==
  /\ side' = s /\ ahead' = Cardinality(Shown("want")) /\ due' = ahead'
  /\ pending' = FALSE /\ turns' = 0

\* The first page of a shelf is there as soon as its document is.
GoesTo(s) ==
  /\ side' = s /\ ahead' = Cardinality(Shown(s)) /\ due' = ahead'
  /\ pending' = FALSE /\ turns' = 0

CountBegins ==
  /\ Begins({"store", "ensure", "assert"})
  /\ \/ at' = "counting" /\ counted' = 0 /\ GoesTo("want") /\ UNCHANGED <<runVars, misread>>
     \/ Ends("failed", ctx) /\ UNCHANGED <<flow, listed, countVars>>
  /\ UNCHANGED <<siteVars, pageVars, bookVars>>

\* The page that Next asked for replaces the old one, whatever the count is at.
PageLands ==
  /\ Reading /\ pending /\ pending' = FALSE
  /\ IF live THEN ahead' = ahead - ShelfPage /\ UNCHANGED due
             ELSE ahead' = 0 /\ due' = 0
  /\ UNCHANGED <<siteVars, runVars, at, counted, side, turns, misread, pageVars, bookVars>>

\* A count is short when rows have not come or a page was passed over, and it
\* reads again what it has read when the old page is still there.  Kept of the
\* counts a step is decided by.
Misreads(short, again) ==
  misread' = misread \cup {m \in ({"ensure", "assert"} \cap {Now.does}) \X {"short", "again"} :
                             \/ m[2] = "short" /\ short
                             \/ m[2] = "again" /\ again}

\* The rows that are there are added up.
CountRows ==
  /\ at = "counting" /\ at' = "paging"
  /\ \E read \in 0..Rows :
       /\ counted' = counted + read
       /\ Misreads(read < Rows \/ ahead < due, ahead > due)
  /\ due' = IF ahead <= due THEN due - Rows ELSE due
  /\ UNCHANGED <<siteVars, runVars, side, ahead, pending, turns, pageVars, bookVars>>

\* Next is clicked; the load state waited for may still be the old page's.
NextPage ==
  /\ at = "paging" /\ ahead > ShelfPage /\ turns < MaxTurns
  /\ at' = "counting" /\ pending' = TRUE /\ turns' = turns + 1
  /\ UNCHANGED <<siteVars, runVars, counted, side, ahead, due, misread, pageVars, bookVars>>

\* No Next on the page, or none yet: the shelf is done.
LastPage ==
  /\ at = "paging"
  /\ Misreads(due > 0, FALSE)
  /\ \/ side = "want" /\ at' = "counting" /\ GoesTo("already")
     \/ side = "already" /\ at' = "counted" /\ due' = 0 /\ UNCHANGED <<side, ahead, pending, turns>>
  /\ UNCHANGED <<siteVars, runVars, counted, pageVars, bookVars>>

\* With the action its total is gone.
CountLeft ==
  /\ counted' = 0 /\ side' = "want" /\ ahead' = 0 /\ pending' = FALSE /\ turns' = 0 /\ due' = 0
  /\ UNCHANGED <<siteVars, flow, listed, misread, pageVars, bookVars>>

\* A page that cannot be reached, a row or a Next that is gone when it is used.
CountFails == Reading /\ Ends("failed", ctx) /\ CountLeft

CountEnds(does, status, c) ==
  /\ at = "counted" /\ Now.does = does
  /\ Ends(status, c) /\ CountLeft

StoreCount == CountEnds("store", "passed", [ctx EXCEPT !.before = counted])

\* What would be missing if nothing were on the shelves.
WholeTarget == Now.n

Missing == Now.n - counted

\* At or above the target nothing is stored: a gap stored earlier stays.
EnsureCount ==
  CountEnds("ensure", "passed", IF counted >= Now.n THEN ctx ELSE [ctx EXCEPT !.gap = Missing])

Expected == IF Now.of = "delta" THEN ctx.before + Now.n ELSE Now.n
AssertCount == CountEnds("assert", IF counted = Expected THEN "passed" ELSE "failed", ctx)

---------------------------------------------------------------------------
(* ol_collect_books: page after page of the search, until enough are found. *)

Limit == IF Now.of = "gap" THEN ctx.gap ELSE Now.n

CollectBegins ==
  /\ Begins({"collect"})
  /\ at' = "collecting" /\ acc' = << >> /\ pageNo' = 1 /\ room' = Limit /\ examined' = 0
  /\ UNCHANGED <<siteVars, runVars, countVars, bookVars>>

Wanting == Len(acc) < Limit /\ pageNo <= MaxPages

\* A book met on an earlier page, or twice on one, is taken once.
Taken(b) == IF b \in ToSet(acc) THEN acc ELSE Append(acc, b)

\* The entries of a page are looked at one by one until it gave what is missing,
\* the same book twice counting twice.  The search may show anything on any page.
ExamineEntry ==
  /\ at = "collecting" /\ Wanting /\ room > 0 /\ examined < PageLen
  /\ examined' = examined + 1
  /\ \/ \E b \in Old : acc' = Taken(b) /\ room' = room - 1
     \/ UNCHANGED <<acc, room>>
  /\ UNCHANGED <<siteVars, runVars, at, countVars, pageNo, bookVars>>

\* The page is done; the next may give what is missing still.  One that cannot be
\* reached in two tries, or that is empty, ends the collecting.
TurnPage ==
  /\ at = "collecting" /\ Wanting
  /\ pageNo' \in {pageNo + 1, MaxPages + 1}
  /\ room' = Limit - Len(acc) /\ examined' = 0
  /\ UNCHANGED <<siteVars, runVars, at, countVars, acc, bookVars>>

\* A search that raises fails the step and leaves what was collected before.
CollectEnds ==
  /\ at = "collecting"
  /\ \/ ~Wanting /\ Ends("passed", [ctx EXCEPT !.collected = acc])
     \/ Wanting /\ Ends("failed", ctx)
  /\ UNCHANGED <<siteVars, flow, listed, countVars, pageVars, bookVars>>

---------------------------------------------------------------------------
(* ol_add_to_shelf: every collected book, on a shelf drawn by lot. *)

Book == Head(todo)

AddBegins ==
  /\ Begins({"add"})
  /\ \/ /\ ctx.collected = << >> /\ Ends("skipped", ctx)
        /\ UNCHANGED <<flow, listed, todo, pass>>
     \/ /\ ctx.collected # << >> /\ at' = "opening" /\ todo' = ctx.collected /\ pass' = 1
        /\ UNCHANGED runVars
  /\ UNCHANGED <<siteVars, countVars, pageVars, label, rendered>>

\* The page is opened; its button may not have come when the wait is over.
OpenBook ==
  /\ at = "opening"
  /\ \/ /\ at' = "shelved" /\ rendered' \in BOOLEAN
        /\ label' \in IF pass = 1 THEN Labels ELSE {label}
        /\ UNCHANGED runVars
     \/ Ends("failed", ctx) /\ UNCHANGED <<flow, listed, label, rendered>>
  /\ UNCHANGED <<siteVars, countVars, pageVars, todo, pass>>

\* Done with the book, whether it was shelved or not: the next one is opened.  A
\* screenshot that raises fails the step.
BookDone ==
  /\ todo' = Tail(todo) /\ pass' = 1
  /\ \/ Len(todo) > 1 /\ at' = "opening" /\ UNCHANGED runVars
     \/ Len(todo) = 1 /\ Ends("passed", ctx) /\ UNCHANGED <<flow, listed>>
     \/ Ends("failed", ctx) /\ UNCHANGED <<flow, listed>>

TurnsTo(rung) == at' = rung /\ UNCHANGED <<runVars, todo, pass>>

AlreadyShelved ==
  /\ at = "shelved"
  /\ IF rendered /\ live /\ shelf[Book] # None THEN BookDone ELSE TurnsTo("role")
  /\ UNCHANGED <<siteVars, countVars, pageVars, label, rendered>>

\* A rung's click: it acts and says so, or it says it did not, having acted or not.
Clicks(effects, Otherwise) ==
  /\ \/ shelf' \in {[shelf EXCEPT ![Book] = v] : v \in effects} /\ BookDone
     \/ shelf' \in {[shelf EXCEPT ![Book] = v] : v \in effects \cup {shelf[Book]}} /\ Otherwise
  /\ UNCHANGED <<live, countVars, pageVars, label, rendered>>

ResolverRole ==
  /\ at = "role"
  /\ IF label = "want"
     THEN Clicks(ButtonPressed(Book), TurnsTo("dropdown"))
     ELSE TurnsTo("dropdown") /\ UNCHANGED <<siteVars, countVars, pageVars, label, rendered>>

DropdownShelf == at = "dropdown" /\ Clicks(EntryPressed(Book, label), TurnsTo("css"))

ResolverCss == at = "css" /\ Clicks(ButtonPressed(Book), TurnsTo("driver"))

\* After the last rung of the first pass the page is opened again; after the last
\* of the second the book is given up, with a warning only.
LastRung == IF pass = 1 THEN at' = "opening" /\ pass' = 2 /\ UNCHANGED <<runVars, todo>> ELSE BookDone

DriverFallback == at = "driver" /\ Clicks(ButtonPressed(Book), LastRung)

---------------------------------------------------------------------------
(* ol_clear_reading_list: every book linked from either shelf is opened and *)
(* taken off; what removing one came to is logged, not reported.            *)

\* In whatever order the shelf lists them; its pages are turned as in a count,
\* so a link may be missing and another be there twice.
Links(s) == SeqOf(Shown(s) \ Unlinked, MaxLinks)

ClearBegins ==
  /\ Begins({"clear"})
  /\ \/ at' = "listing" /\ todo' \in Links("want") /\ UNCHANGED runVars
     \/ Ends("failed", ctx) /\ UNCHANGED <<flow, listed, todo>>
  /\ UNCHANGED <<siteVars, countVars, pageVars, label, pass, rendered>>

ClearGoesOn(left) ==
  /\ todo' = left
  /\ IF left = << >> THEN Ends("passed", ctx) /\ UNCHANGED <<flow, listed>>
                     ELSE at' = "removing" /\ UNCHANGED runVars

ClearLists ==
  /\ at = "listing"
  /\ \/ \E more \in Links("already") : ClearGoesOn(todo \o more)
     \/ Ends("failed", ctx) /\ UNCHANGED <<flow, listed, todo>>
  /\ UNCHANGED <<siteVars, countVars, pageVars, label, pass, rendered>>

\* A book whose activated button is not there yet is passed over.
RemoveLooks ==
  /\ at = "removing"
  /\ rendered' \in BOOLEAN
  /\ \/ /\ rendered' /\ live /\ shelf[Book] # None
        /\ at' = "taking off" /\ UNCHANGED <<runVars, todo>>
     \/ ~(rendered' /\ live /\ shelf[Book] # None) /\ ClearGoesOn(Tail(todo))
     \/ Ends("failed", ctx) /\ UNCHANGED <<flow, listed, todo>>
  /\ UNCHANGED <<siteVars, countVars, pageVars, label, pass>>

\* The button, and the menu's remove entry when the button opened one.
RemoveClicks ==
  /\ at = "taking off"
  /\ \E v \in IF live THEN {None, shelf[Book]} ELSE {shelf[Book]} : shelf' = [shelf EXCEPT ![Book] = v]
  /\ ClearGoesOn(Tail(todo))
  /\ UNCHANGED <<live, countVars, pageVars, label, pass, rendered>>

---------------------------------------------------------------------------

Init ==
  /\ shelf \in [Books -> Labels \cup {None}] /\ live \in BOOLEAN
  /\ flow \in DOMAIN Workflows /\ results = << >>
  /\ ctx = [collected |-> << >>, gap |-> 0, before |-> 0]
  /\ listed = Cardinality(OnList)
  /\ at = "next" /\ acc = << >> /\ pageNo = 1 /\ room = 0 /\ examined = 0
  /\ counted = 0 /\ side = "want" /\ ahead = 0 /\ pending = FALSE /\ turns = 0
  /\ due = 0 /\ misread = {}
  /\ todo = << >> /\ label = "want" /\ pass = 1 /\ rendered = FALSE

Next ==
  \/ SessionExpires \/ SkipStep \/ EnsureLogin
  \/ CountBegins \/ PageLands \/ CountRows \/ NextPage \/ LastPage \/ CountFails
  \/ StoreCount \/ EnsureCount \/ AssertCount
  \/ CollectBegins \/ ExamineEntry \/ TurnPage \/ CollectEnds
  \/ AddBegins \/ OpenBook \/ AlreadyShelved \/ ResolverRole \/ DropdownShelf \/ ResolverCss
  \/ DriverFallback
  \/ ClearBegins \/ ClearLists \/ RemoveLooks \/ RemoveClicks

Spec == Init /\ [][Next]_vars

---------------------------------------------------------------------------

\* The values of the variables; what a search or a shelf gives are books.
TypeOK ==
  /\ shelf \in [Books -> Labels \cup {None}] /\ live \in BOOLEAN /\ flow \in DOMAIN Workflows
  /\ results \in Seq({"passed", "failed", "skipped"}) /\ Len(results) <= Len(Steps)
  /\ ctx \in [collected : Seq(Books), gap : Nat, before : Nat]
  /\ at \in {"next", "counting", "paging", "counted", "collecting", "opening", "shelved", "role",
             "dropdown", "css", "driver", "listing", "removing", "taking off"}
  /\ counted \in Nat /\ side \in Labels /\ ahead \in Nat /\ pending \in BOOLEAN /\ turns \in 0..MaxTurns
  /\ due \in Nat /\ misread \in SUBSET ({"ensure", "assert"} \X {"short", "again"})
  /\ pending => ahead > ShelfPage
  /\ listed \in Nat /\ acc \in Seq(Books) /\ pageNo \in 1..(MaxPages + 1)
  /\ room \in Nat /\ examined \in 0..PageLen
  /\ todo \in Seq(Books) /\ label \in Labels /\ pass \in 1..2 /\ rendered \in BOOLEAN
  /\ at \notin {"next", "counting", "paging", "counted", "collecting", "listing"} => todo # << >>

\* Whatever the pages of a search repeat, what is collected names no book twice,
\* only books old enough, and no more of them than were asked for.
CollectionIsSound ==
  at = "collecting" =>
    /\ Cardinality(ToSet(acc)) = Len(acc) /\ Len(acc) <= Limit
    /\ ToSet(acc) \subseteq Old

\* However a step of a top-up goes wrong (a session that expires between two
\* counts, a shelf read short or twice, a click that acts and raises, a book's page
\* that comes late), the list grows by no more than the gap that was stored, and a
\* gap is never more than the target.  Unless the count that decided what to add
\* read the list short, the list is then never longer than the target, or than it
\* was when it was above it already.  And no collecting, in a top-up or not, takes
\* more than it was asked for.
TopUpNeverOvershoots ==
  /\ CollectionIsSound
  /\ flow = TopUp =>
       /\ Cardinality(OnList) <= listed + ctx.gap /\ ctx.gap <= Target
       /\ <<"ensure", "short">> \notin misread =>
            Cardinality(OnList) <= IF listed > Target THEN listed ELSE Target

ToppedUp == flow = TopUp /\ Ended /\ "failed" \notin ToSet(results)

\* A top-up all of whose steps passed or were skipped tells the truth, sessions
\* that expire, clicks that fail and books not shelved notwithstanding: a list that
\* was short has the target's number of books, and one that was long enough is as
\* it was.  A count read wrong may break that in three ways only: the deciding count
\* short or with rows read again, or the check with rows read again; a check that
\* reads short can fail a good top-up but passes none that fell short.  Where books
\* were to be added, a check that read the shelves as they are, still logged in,
\* vouches for the target whatever the deciding count had read.
PassedTopUpIsExact ==
  ToppedUp =>
    /\ misread \cap {<<"ensure", "short">>, <<"ensure", "again">>, <<"assert", "again">>} = {} =>
         Cardinality(OnList) = IF listed >= Target THEN listed ELSE Target
    /\ (ctx.gap > 0 /\ live /\ misread \cap ({"assert"} \X {"short", "again"}) = {}) =>
         Cardinality(OnList) = Target

\* "top-up: add only the books needed to reach a target count", of any count
\* (reading_list_action.py:9).
AddsOnlyTheNeeded ==
  flow = TopUp => Cardinality(OnList) <= IF listed > Target THEN listed ELSE Target
=============================================================================
